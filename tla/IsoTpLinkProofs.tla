-------------------------- MODULE IsoTpLinkProofs --------------------------
(***************************************************************************)
(* Theorems about IsoTpLink, for every number of messages, every message   *)
(* length, frame size, block size and separation time.                     *)
(***************************************************************************)
EXTENDS IsoTpLink, IsoTpRecvProofs, WellFoundedInduction

-----------------------------------------------------------------------------
(* Where the sender can be *)

Snd  == sctx["b"]    \* the send context of node a,
Ctl  == mbox["b"]    \* the frames in its controller,
Win  == window["b"]  \* and the frames node b still accepts
Snr  == peer["a"]    \* what has been on the bus
Size == len[calls]   \* the length of the message under way

CanFrame == [type : {"FF", "CF"}, sn : Int, msg : Int, off : Int, n : Int, len : Int]
Num    == Int
SndRec == [alloc : BOOLEAN, state : Sender!TxState, error : Sender!Errors, msg : Num, off : Num,
           rem : Num, sn : Num, bs : Num, stmin : Num, backlog : Num, wft : Num, sem : Num,
           timer : BOOLEAN]

SendType ==
    /\ sctx \in [{"b"} -> SndRec] /\ swq \in {<<>>, <<"b">>}
    /\ mbox \in [{"b"} -> Seq(CanFrame)] /\ window \in [{"b"} -> Int]
    /\ calls \in 0 .. MaxMsgs /\ len \in [1 .. MaxMsgs -> Nat]
    /\ out \in [0 .. MaxMsgs -> Seq(CanFrame)]
    /\ report \in [0 .. MaxMsgs -> Seq(Sender!Errors)]

\* What is left of a message of length l when its first i - 1 frames are sent.
Left(l, i) == IF i <= NumSegs(l) THEN l - SegOff(i) ELSE 0

\* The sender's next frame is the i-th of its message.
Placed(i) == Snd.rem = Left(Size, i) /\ Snd.off = Size - Left(Size, i)
NextSn(i) == Snd.sn = (i - 1) % SN_MOD

\* k frames are in the controller, and the sender's next frame is the one after.
Pos(k) == \/ k = 0 /\ Ctl = <<>> /\ Placed(Snr.i) /\ NextSn(Snr.i)
          \/ /\ k = 1 /\ Ctl = <<Segment(calls, Size, Snr.i)>> /\ Snr.i <= NumSegs(Size)
             /\ Placed(Snr.i + 1) /\ NextSn(Snr.i + 1)

\* The frames that may still be on the bus before the next CTS.
Granted(k) == IF OPTS_BS = 0 THEN Snr.open + Snr.i = NumSegs(Size) + 2
                             ELSE Win >= 0 /\ Snr.open = Win + k

\* A message is under way; its first frame has been on the bus; frames of a block
\* are being sent.
Busy == /\ Snd.alloc /\ Snd.msg = calls /\ calls \in 1 .. MaxMsgs
        /\ Size \in Lengths /\ SfMax < Size
Sent == /\ Busy /\ Snr.msg = calls /\ Snr.len = Size /\ out[calls] # <<>>
        /\ Snr.i \in 2 .. NumSegs(Size) + 1
InBlock(k) == /\ Sent /\ Snd.state \in {"SEND_CF", "WAIT_ST"} /\ Snd.rem > 0 /\ Pos(k)
              /\ Snd.backlog = k /\ Granted(k) /\ Snd.stmin = OPTS_STMIN
              /\ OPTS_BS # 0 => Snd.bs = Win /\ Win >= 1

\* Not in use; queued; first frame sent or in the controller; waiting for a
\* flow-control frame.
InRest  == /\ ~Snd.alloc /\ Snd.state = "RESET" /\ ~Snd.timer /\ Ctl = <<>>
           /\ scur = Sender!Idle /\ Snr.msg = calls
InNew   == /\ Busy /\ Snd.state = "SEND_FF" /\ scur = Sender!Idle /\ swq = <<"b">> /\ Ctl = <<>>
           /\ Win = 0 /\ Snd.off = 0 /\ Snd.rem = Size /\ Snr.msg = calls - 1
InFf    == /\ Busy /\ Snr.msg = calls - 1 /\ out[calls] # <<>> /\ Win = 0
           /\ Ctl = <<Segment(calls, Size, 1)>> /\ Placed(2) /\ NextSn(2)
           /\ \/ Snd.state = "SEND_FF" /\ scur = [pc |-> "ff", t |-> "b"]
              \/ Snd.state = "WAIT_FC" /\ scur = Sender!Idle
InWait(k) == /\ Sent /\ Snd.state = "WAIT_FC" /\ scur = Sender!Idle /\ Win = 0 /\ Snd.rem > 0
             /\ Pos(k) /\ Snr.open = k /\ (OPTS_BS = 0 => k = 0 /\ Snr.i = 2)

\* A consecutive frame handed over but not counted; waiting for its transmission;
\* about to send the next one; waiting to do so; the last frame in the
\* controller; the message over.
InCf    == /\ Sent /\ Snd.state = "SEND_CF" /\ scur = [pc |-> "cf", t |-> "b"]
           /\ Ctl = <<Segment(calls, Size, Snr.i)>> /\ Snr.i <= NumSegs(Size)
           /\ Placed(Snr.i + 1) /\ NextSn(Snr.i) /\ Snd.backlog = 0 /\ Granted(1)
           /\ Snd.stmin = OPTS_STMIN /\ (OPTS_BS # 0 => Snd.bs = Win + 1)
           /\ IF OPTS_STMIN = 0 THEN Snd.sem = 0 ELSE ~Snd.timer /\ swq = <<>>
InSem(k) == /\ InBlock(k) /\ Snd.state = "SEND_CF" /\ scur = [pc |-> "sem", t |-> "b"]
            /\ OPTS_STMIN = 0 /\ Snd.sem = 1 - k
InGo    == /\ InBlock(0) /\ Snd.state = "SEND_CF" /\ scur = Sender!Idle
           /\ IF OPTS_STMIN = 0 THEN Snd.sem = 0 ELSE Snd.timer => swq = <<>>
InSt(k) == /\ InBlock(k) /\ Snd.state = "WAIT_ST" /\ scur = Sender!Idle /\ OPTS_STMIN # 0
           /\ ~Snd.timer /\ swq = IF k = 1 THEN <<>> ELSE <<"b">>
InLast  == /\ Sent /\ Snd.state = "WAIT_BACKLOG" /\ scur = Sender!Idle /\ Snd.rem = 0 /\ Pos(1)
           /\ Snd.backlog = 1 /\ Granted(1)
InEnd   == /\ Sent /\ scur = Sender!Idle /\ swq = <<"b">> /\ Ctl = <<>>
           /\ \/ Snd.state = "ERR" /\ Snd.error # "OK"
              \/ Snd.state = "WAIT_FIN" /\ Snr.i = NumSegs(Size) + 1

InCfs     == InWait(1) \/ InCf \/ InSem(0) \/ InSem(1) \/ InGo \/ InSt(0) \/ InSt(1) \/ InLast
SenderInv == InRest \/ InNew \/ InFf \/ InWait(0) \/ InCfs \/ InEnd

-----------------------------------------------------------------------------
(* Where the receiver can be *)

Queued(b) == \E k \in DOMAIN wq : wq[k] = b

\* The consecutive frames node b may still get before it owes the sender another
\* flow-control frame, and the bytes that are not on the bus yet.
InCtl       == IF Ctl = <<>> \/ Ctl[1].type = "FF" THEN 0 ELSE 1
Coming      == Win + InCtl
Outstanding == Snd.rem + (IF InCtl = 1 THEN Ctl[1].n ELSE 0)

\* Node b is about to send a flow-control frame, or it is in its controller.
OwesFc(b) == rx.ctx[b].state \in {"PROCESS_FF", "TRY_ALLOC"}
FcDue     == rx.fc # <<>> \/ \E b \in Blocks : OwesFc(b)

\* The context b, listed or not.
CtxInv(b) ==
    LET c == rx.ctx[b] IN
    /\ b \notin rx.list => ~c.timer /\ c.bufs = 0 /\ ~OwesFc(b)
    /\ c.state # "SEND_WAIT"
    /\ c.state = "SEND_FC" => cur = [pc |-> "fc", b |-> b, to |-> "WAIT_CF"]
    /\ c.state = "ERR" => c.error # "BUFFER_OVERFLW"
    /\ OwesFc(b) => Queued(b) /\ rx.fc = <<>> /\ cur = Idle
    /\ c.state = "TRY_ALLOC" => OPTS_BS # 0
    /\ c.state \in {"TRY_ALLOC", "SEND_FC"} /\ OPTS_BS # 0 => c.bs = OPTS_BS
    /\ c.state \in {"PROCESS_FF", "TRY_ALLOC", "SEND_FC"} => c.rem = Snd.rem
    /\ c.state = "WAIT_CF" /\ b \in rx.list /\ rx.fc # <<>>
          => c.rem = Snd.rem /\ (OPTS_BS # 0 => c.bs = OPTS_BS)
    /\ c.state = "WAIT_CF" /\ b \in rx.list /\ rx.fc = <<>> /\ OPTS_BS # 0
          => c.bs >= 1 /\ c.bs >= Coming /\ (c.bs = Coming => c.rem = Outstanding)

FcShape == rx.fc = <<>> \/ \E b \in Blocks, fs \in {"CTS", "OVFLW"} :
                              rx.fc = <<[ctx |-> b, to |-> "a", fs |-> fs]>>
CurInv ==
    \/ cur = Idle
    \/ \E b \in Blocks : /\ cur = [pc |-> "fc", b |-> b, to |-> "WAIT_CF"]
                         /\ b \in rx.list /\ rx.ctx[b].state = "SEND_FC" /\ rx.fc # <<>>

ReceiverInv ==
    /\ env \in Links /\ ~rx.aliased
    /\ \A b, d \in rx.list : b = d
    /\ rx.list = {} => rx.head # Nil
    /\ \A b \in Blocks : CtxInv(b)
    /\ FcShape /\ CurInv
    /\ FcDue => InWait(0)

LinkInv == SendType /\ TypeInv /\ SenderInv /\ ReceiverInv

-----------------------------------------------------------------------------
(* What the proofs use of the constants, and the sender's frames *)

\* The constants of the link.
LEMMA LinkTypes ==
    /\ MaxMsgs \in Nat /\ MAX_LEN \in Nat /\ OPTS_BS \in Nat /\ OPTS_STMIN \in Nat
    /\ Peers = {"a"} /\ Envs = Links /\ Lengths \subseteq Nat \ {0}
    /\ CfLen \in Nat /\ CfLen > 0 /\ FfLen \in Nat /\ FfLen > 0 /\ SfMax \in Nat /\ FfLen < SfMax
    /\ SN_MOD \in Nat /\ SN_MOD > 1 /\ BYTE \in Nat /\ BYTE > 1
  BY LinkAssumptions, RecvAssumptions, SegTypes DEF LinkAssumptions, RecvAssumptions, Bytes

\* The sender's data are those of the receiver, and so is its arithmetic.
LEMMA SenderData ==
    /\ Sender!SfMax = SfMax /\ Sender!FfLen = FfLen /\ Sender!CfLen = CfLen
    /\ \A x \in Int, y \in Int : Sender!Min2(x, y) = Min2(x, y)
    /\ \A x \in Int : /\ Sender!IncSn(x) = IncSn(x) /\ Sender!Inc8(x) = Inc8(x)
                       /\ Sender!Dec8(x) = Dec8(x)
  BY DEF Sender!SfMax, Sender!FfLen, Sender!CfLen, SfMax, FfLen, CfLen, Sender!Min2, Min2,
         Sender!IncSn, IncSn, Sender!Inc8, Inc8, Sender!Dec8, Dec8

\* Numbers, and the states and errors of a context.
LEMMA SndTypes ==
    /\ \A x \in Int : x \in Num
    /\ {"RESET", "SEND_FF", "SEND_CF", "WAIT_FC", "WAIT_ST", "WAIT_BACKLOG", "WAIT_FIN", "ERR"}
         \subseteq Sender!TxState
    /\ {"OK", "TIMEOUT_BS", "BUFFER_OVERFLW"} \subseteq Sender!Errors
  BY DEF Num, Sender!TxState, Sender!Errors

\* The fields of a context.
LEMMA SndFields ==
    ASSUME NEW c \in SndRec
    PROVE  /\ c.msg \in Int /\ c.off \in Int /\ c.rem \in Int /\ c.sn \in Int /\ c.bs \in Int
           /\ c.stmin \in Int /\ c.backlog \in Int /\ c.wft \in Int /\ c.sem \in Int
  BY DEF SndRec, Num

\* The work queue of node a holds one item at most.
LEMMA SubmitOne == ASSUME swq \in {<<>>, <<"b">>} PROVE Sender!Submit(swq, "b") = <<"b">>
<1>1. CASE swq = <<>>
  BY <1>1 DEF Sender!Submit
<1>2. CASE swq = <<"b">>
  <2>1. 1 \in DOMAIN swq /\ swq[1] = "b"
    BY <1>2
  <2> QED
    BY <1>2, <2>1 DEF Sender!Submit
<1> QED
  BY <1>1, <1>2

\* What is left after the first frame, and after each consecutive one.
LEMMA LeftFirst ==
    ASSUME NEW l \in Nat, l > SfMax
    PROVE  /\ Left(l, 2) = l - FfLen /\ Left(l, 2) > 0 /\ NumSegs(l) \in Nat /\ NumSegs(l) >= 2
           /\ SegOff(2) = FfLen
<1>1. NumSegs(l) \in Nat /\ NumSegs(l) >= 2
  BY SegCount
<1>2. SegOff(2) = FfLen
  BY LinkTypes DEF SegOff
<1> QED
  BY <1>1, <1>2, LinkTypes DEF Left

\* What is left before and after the i-th frame.
LEMMA LeftNext ==
    ASSUME NEW l \in Nat, l > SfMax, NEW i \in Nat, i >= 2
    PROVE  /\ NumSegs(l) \in Nat /\ Left(l, i) \in Nat /\ Left(l, i + 1) \in Nat
           /\ Left(l, i) = 0 <=> i > NumSegs(l)
           /\ i <= NumSegs(l) =>
                /\ SegLen(l, i) = Min2(Left(l, i), CfLen) /\ SegLen(l, i) \in Nat
                /\ SegLen(l, i) > 0 /\ Left(l, i + 1) = Left(l, i) - SegLen(l, i)
                /\ SegOff(i) = l - Left(l, i) /\ SegOff(i) \in Nat
<1>1. NumSegs(l) \in Nat /\ (i <= NumSegs(l) <=> SegOff(i) < l)
  BY SegCount
<1>2. i + 1 <= NumSegs(l) <=> SegOff(i + 1) < l
  BY SegCount
<1>3. SegOff(i) \in Nat /\ SegOff(i + 1) = SegOff(i) + CfLen
  BY SegNext
<1>4. SegLen(l, i) = Min2(l - SegOff(i), CfLen)
  BY DEF SegLen
<1> DEFINE s == SegOff(i)
           n == NumSegs(l)
           z == SegOff(i + 1)
<1>5. s = SegOff(i) /\ n = NumSegs(l) /\ z = SegOff(i + 1)
  OBVIOUS
<1> HIDE DEF s, n, z
<1>6. CASE i <= n
  <2>1. Left(l, i) = l - s /\ Left(l, i) > 0 /\ Left(l, i) \in Nat
    BY <1>1, <1>3, <1>5, <1>6 DEF Left
  <2>2. SegLen(l, i) = Min2(Left(l, i), CfLen) /\ SegLen(l, i) \in Nat /\ SegLen(l, i) > 0
    BY <1>4, <1>5, <2>1, LinkTypes DEF Min2
  <2>3. Left(l, i + 1) \in Nat /\ Left(l, i + 1) = Left(l, i) - SegLen(l, i)
    <3>1. CASE i + 1 <= n
      <4>1. Left(l, i + 1) = l - z /\ z < l
        BY <1>2, <1>5, <3>1 DEF Left
      <4> QED
        BY <1>3, <1>4, <1>5, <2>1, <4>1, LinkTypes DEF Min2
    <3>2. CASE ~(i + 1 <= n)
      <4>1. Left(l, i + 1) = 0 /\ z >= l
        BY <1>2, <1>3, <1>5, <3>2, LinkTypes DEF Left
      <4> QED
        BY <1>3, <1>4, <1>5, <2>1, <4>1, LinkTypes DEF Min2
    <3> QED
      BY <3>1, <3>2
  <2> QED
    BY <1>1, <1>3, <1>5, <1>6, <2>1, <2>2, <2>3
<1>7. CASE ~(i <= n)
  <2>1. Left(l, i) = 0 /\ Left(l, i + 1) = 0
    BY <1>1, <1>5, <1>7 DEF Left
  <2> QED
    BY <1>1, <1>5, <1>7, <2>1
<1> QED
  BY <1>6, <1>7

\* The frames of a message, as the sender builds them.
LEMMA SegmentIs ==
    ASSUME NEW m \in Nat, NEW l \in Nat, l > SfMax
    PROVE  /\ Segment(m, l, 1) = [type |-> "FF", sn |-> 0, msg |-> m, off |-> 0, n |-> FfLen, len |-> l]
           /\ Segment(m, l, 1) \in CanFrame
           /\ \A i \in Nat : i >= 2 /\ i <= NumSegs(l) =>
                 /\ Segment(m, l, i) = [type |-> "CF", sn |-> (i - 1) % SN_MOD, msg |-> m,
                                        off |-> SegOff(i), n |-> SegLen(l, i), len |-> 0]
                 /\ Segment(m, l, i) \in CanFrame
<1>1. Segment(m, l, 1) = [type |-> "FF", sn |-> 0, msg |-> m, off |-> 0, n |-> FfLen, len |-> l]
  <2>1. SegLen(l, 1) = FfLen /\ SegOff(1) = 0
    BY LinkTypes DEF SegLen, SegOff, Min2
  <2> QED
    BY <2>1 DEF Segment
<1>2. ASSUME NEW i \in Nat, i >= 2, i <= NumSegs(l)
      PROVE  /\ Segment(m, l, i) = [type |-> "CF", sn |-> (i - 1) % SN_MOD, msg |-> m,
                                    off |-> SegOff(i), n |-> SegLen(l, i), len |-> 0]
             /\ Segment(m, l, i) \in CanFrame
  <2>1. Segment(m, l, i) = [type |-> "CF", sn |-> (i - 1) % SN_MOD, msg |-> m,
                            off |-> SegOff(i), n |-> SegLen(l, i), len |-> 0]
    BY <1>2 DEF Segment
  <2>2. SegOff(i) \in Int /\ SegLen(l, i) \in Int /\ (i - 1) % SN_MOD \in Int
    BY <1>2, LeftNext, LinkTypes
  <2> QED
    BY <2>1, <2>2 DEF CanFrame
<1> QED
  BY <1>1, <1>2, LinkTypes DEF CanFrame

-----------------------------------------------------------------------------
(* The sender's steps *)

\* A step that leaves the message and the bus as they are.
SameMessage == calls' = calls /\ len' = len /\ report' = report
SameBus     == peer' = peer

\* What a running work item finds.
LEMMA RunsB ==
    ASSUME SendType, NEW t \in {"b"}, NEW st, Sender!Running(t, st)
    PROVE  t = "b" /\ swq = <<"b">> /\ swq' = <<>> /\ scur = Sender!Idle /\ Snd.state \in st
<1>1. swq = <<"b">>
  BY DEF SendType, Sender!Running
<1> QED
  BY <1>1 DEF Sender!Running, Snd

\* The context is replaced.
LEMMA NewSnd ==
    ASSUME SendType, NEW d \in SndRec, sctx' = [sctx EXCEPT !["b"] = d]
    PROVE  Snd' = d /\ sctx' \in [{"b"} -> SndRec]
  BY DEF SendType, Snd

\* Nothing is handed to the controller or taken from it.
LEMMA SameCtl ==
    ASSUME SendType, mbox' = mbox, window' = window, out' = out
    PROVE  /\ Ctl' = Ctl /\ Win' = Win /\ mbox' \in [{"b"} -> Seq(CanFrame)]
           /\ window' \in [{"b"} -> Int] /\ out' \in [0 .. MaxMsgs -> Seq(CanFrame)]
  BY DEF SendType, Ctl, Win

\* A frame is handed to the controller.
LEMMA OneMoreFrame ==
    ASSUME SendType, Busy, NEW f \in CanFrame, f.msg = calls, Sender!HandToController("b", f), Ctl = <<>>
    PROVE  /\ Ctl' = <<f>> /\ mbox' \in [{"b"} -> Seq(CanFrame)] /\ out'[calls] # <<>>
           /\ out' \in [0 .. MaxMsgs -> Seq(CanFrame)]
<1>1. calls \in 0 .. MaxMsgs /\ out[calls] \in Seq(CanFrame) /\ Ctl \in Seq(CanFrame)
  BY DEF SendType, Ctl
<1>2. Append(out[calls], f) # <<>> /\ Append(out[calls], f) \in Seq(CanFrame)
  BY <1>1
<1>3. mbox' = [mbox EXCEPT !["b"] = <<f>>] /\ out' = [out EXCEPT ![calls] = Append(out[calls], f)]
  BY DEF Sender!HandToController, Ctl
<1>4. <<f>> \in Seq(CanFrame)
  OBVIOUS
<1> QED
  BY <1>1, <1>2, <1>3, <1>4 DEF SendType, Ctl

\* can_send() does not fail.
LEMMA SendsOk == Sender!CanSendResults = {"ok"}
  BY DEF Sender!CanSendResults

\* The application gives isotp_fast_send a message of several frames.
LEMMA SendLongStep ==
    ASSUME SendType, InRest, NEW l \in Lengths, Sender!SendMulti("b", l), SameBus
    PROVE  SendType' /\ InNew'
<1> DEFINE c == Sender!NewSendCtx(Snd)
           d == [c EXCEPT !.msg = calls + 1, !.off = 0, !.rem = l]
<1>1. Snd \in SndRec /\ ~Snd.alloc /\ calls \in 0 .. MaxMsgs /\ calls + 1 \in 1 .. MaxMsgs
  BY LinkTypes DEF SendType, Snd, InRest, Sender!SendMulti, Sender!MayCall
<1>2. /\ l \in Nat /\ OPTS_BS \in Num /\ OPTS_STMIN \in Num /\ 0 \in Num /\ l \in Num
      /\ calls + 1 \in Num /\ "SEND_FF" \in Sender!TxState /\ "OK" \in Sender!Errors
  BY <1>1, LinkTypes, SndTypes
<1>3. c \in SndRec /\ c.alloc /\ c.state = "SEND_FF"
  BY <1>1, <1>2 DEF Sender!NewSendCtx, SndRec
<1> HIDE DEF c
<1>4. d \in SndRec /\ d.alloc /\ d.state = "SEND_FF" /\ d.msg = calls + 1 /\ d.off = 0 /\ d.rem = l
  BY <1>2, <1>3 DEF SndRec
<1>5. sctx' = [sctx EXCEPT !["b"] = d]
  BY <1>1 DEF Sender!SendMulti, Sender!get_send_ctx, Snd, c
<1> HIDE DEF d
<1>6. Snd' = d /\ sctx' \in [{"b"} -> SndRec]
  BY <1>4, <1>5, NewSnd
<1>7. /\ calls' = calls + 1 /\ len' = [len EXCEPT ![calls + 1] = l] /\ scur' = scur /\ mbox' = mbox
      /\ out' = out /\ report' = report /\ window' = [window EXCEPT !["b"] = 0] /\ l > SfMax
      /\ swq' = Sender!Submit(swq, "b")
  BY <1>1, SenderData DEF Sender!SendMulti, Snd
<1>8. swq' = <<"b">>
  BY <1>7, SubmitOne DEF SendType
<1>9. Win' = 0 /\ window' \in [{"b"} -> Int] /\ Size' = l /\ len' \in [1 .. MaxMsgs -> Nat]
  BY <1>1, <1>2, <1>7 DEF SendType, Win, Size
<1>10. calls' \in 1 .. MaxMsgs /\ calls' \in 0 .. MaxMsgs
  BY <1>1, <1>7
<1>11. SendType'
  BY <1>6, <1>7, <1>8, <1>9, <1>10 DEF SendType
<1>12. Busy'
  BY <1>2, <1>4, <1>6, <1>7, <1>9, <1>10, LinkTypes DEF Busy
<1> QED
  BY <1>1, <1>4, <1>6, <1>7, <1>8, <1>9, <1>11, <1>12 DEF InNew, InRest, SameBus, Snr, Ctl

\* ISOTP_TX_SEND_FF: the first frame is handed to the controller ...
LEMMA SendFfStep ==
    ASSUME SendType, InNew, Sender!WorkSendFf("b"), SameBus
    PROVE  SendType' /\ InFf' /\ SameMessage
<1> DEFINE n == Sender!Min2(Sender!FfLen, Snd.rem)
           d == [Snd EXCEPT !.sn = 1, !.rem = @ - n, !.off = @ + n]
           f == [type |-> "FF", sn |-> 0, msg |-> Snd.msg, off |-> Snd.off, n |-> n, len |-> Snd.rem]
<1>1. /\ Snd \in SndRec /\ calls \in 1 .. MaxMsgs /\ calls \in Nat /\ Size \in Nat /\ Size > SfMax
      /\ Snd.rem = Size /\ Snd.off = 0 /\ Snd.msg = calls /\ Ctl = <<>> /\ Busy
  BY LinkTypes DEF SendType, Snd, InNew, Busy
<1>2. n = FfLen
  BY <1>1, LinkTypes, SenderData DEF Min2
<1>3. f = Segment(calls, Size, 1) /\ f \in CanFrame
  <2> HIDE DEF n
  <2>1. f = [type |-> "FF", sn |-> 0, msg |-> calls, off |-> 0, n |-> FfLen, len |-> Size]
    BY <1>1, <1>2
  <2> HIDE DEF f
  <2> QED
    BY <1>1, <2>1, SegmentIs
<1>4. /\ d \in SndRec /\ d.sn = 1 /\ d.rem = Size - FfLen /\ d.off = FfLen
      /\ d.alloc = Snd.alloc /\ d.state = Snd.state /\ d.msg = calls
  <2>1. 1 \in Num /\ Snd.rem - n \in Num /\ Snd.off + n \in Num
    BY <1>1, <1>2, LinkTypes, SndTypes
  <2>2. Snd.rem - n = Size - FfLen /\ Snd.off + n = FfLen
    BY <1>1, <1>2, LinkTypes
  <2> HIDE DEF n
  <2> QED
    BY <1>1, <2>1, <2>2 DEF SndRec
<1>5. sctx' = [sctx EXCEPT !["b"] = d] /\ Sender!HandToController("b", f)
  <2>1. PICK r \in Sender!CanSendResults :
           IF r = "ok" THEN Sender!HandToController("b", f) ELSE UNCHANGED <<mbox, out>>
    BY DEF Sender!WorkSendFf, Snd
  <2>2. Sender!HandToController("b", f)
    BY <2>1, SendsOk
  <2> QED
    BY <2>2 DEF Sender!WorkSendFf, Snd
<1>6. f.msg = calls
  BY <1>1
<1> HIDE DEF d, f, n
<1>7. Snd' = d /\ sctx' \in [{"b"} -> SndRec]
  BY <1>4, <1>5, NewSnd
<1>8. /\ Ctl' = <<f>> /\ mbox' \in [{"b"} -> Seq(CanFrame)] /\ out'[calls] # <<>>
      /\ out' \in [0 .. MaxMsgs -> Seq(CanFrame)]
  BY <1>1, <1>3, <1>5, <1>6, OneMoreFrame
<1>9. /\ scur' = [pc |-> "ff", t |-> "b"] /\ window' = window
      /\ calls' = calls /\ len' = len /\ report' = report
  BY DEF Sender!WorkSendFf, Sender!appVars
<1>10. swq' = <<>>
  BY RunsB DEF Sender!WorkSendFf
<1>11. SendType'
  BY <1>7, <1>8, <1>9, <1>10 DEF SendType
<1>12. Size' = Size /\ Win' = 0 /\ Snr' = Snr
  BY <1>9 DEF Size, Win, InNew, SameBus, Snr
<1>13. Busy'
  BY <1>4, <1>7, <1>9, <1>12 DEF InNew, Busy
<1>14. Placed(2)' /\ NextSn(2)'
  <2>1. Left(Size, 2) = Size - FfLen
    BY <1>1, LeftFirst
  <2>2. 1 % SN_MOD = 1
    BY LinkTypes
  <2>3. d.off = Size - (Size - FfLen)
    BY <1>1, <1>4, LinkTypes
  <2>4. Placed(2)'
    BY <1>4, <1>7, <1>12, <2>1, <2>3 DEF Placed, Left
  <2> QED
    BY <1>4, <1>7, <2>2, <2>4 DEF NextSn
<1>15. d.state = "SEND_FF" /\ Snr'.msg = calls' - 1
  BY <1>4, <1>9, <1>12 DEF InNew
<1> QED
  BY <1>3, <1>7, <1>8, <1>9, <1>11, <1>12, <1>13, <1>14, <1>15 DEF InFf, SameMessage

\* ... and the sender waits for a flow-control frame.
LEMMA FinishFfStep ==
    ASSUME SendType, InFf, Sender!FinishFf, SameBus
    PROVE  SendType' /\ InFf' /\ SameMessage
<1> DEFINE d == [Snd EXCEPT !.timer = TRUE, !.state = "WAIT_FC"]
<1>1. Snd \in SndRec /\ scur = [pc |-> "ff", t |-> "b"]
  BY DEF SendType, Snd, InFf, Sender!FinishFf, Sender!Idle
<1>2. /\ d \in SndRec /\ d.state = "WAIT_FC" /\ d.alloc = Snd.alloc /\ d.msg = Snd.msg
      /\ d.rem = Snd.rem /\ d.off = Snd.off /\ d.sn = Snd.sn
  BY <1>1 DEF SndRec, Sender!TxState
<1>3. sctx' = [sctx EXCEPT !["b"] = d]
  BY <1>1 DEF Sender!FinishFf, Snd, SendType, SndRec
<1> HIDE DEF d
<1>4. Snd' = d /\ sctx' \in [{"b"} -> SndRec]
  BY <1>2, <1>3, NewSnd
<1>5. /\ scur' = Sender!Idle /\ swq' = swq /\ mbox' = mbox /\ window' = window /\ out' = out
      /\ calls' = calls /\ len' = len /\ report' = report
  BY DEF Sender!FinishFf, Sender!appVars, Sender!hist
<1>6. SendType'
  BY <1>4, <1>5, SameCtl DEF SendType
<1>7. Size' = Size /\ Win' = Win /\ Snr' = Snr /\ Ctl' = Ctl
  BY <1>5 DEF Size, Win, SameBus, Snr, Ctl
<1>8. Busy' /\ Placed(2)' /\ NextSn(2)'
  BY <1>2, <1>4, <1>5, <1>7 DEF InFf, Busy, Placed, NextSn
<1> QED
  BY <1>2, <1>4, <1>5, <1>6, <1>7, <1>8 DEF InFf, SameMessage

\* Sent, with the numbers that follow from it.
LEMMA SentTypes ==
    ASSUME SendType, Sent
    PROVE  /\ Busy /\ calls \in Nat /\ calls \in 0 .. MaxMsgs /\ Size \in Nat /\ Size > SfMax
           /\ NumSegs(Size) \in Nat /\ Snr.i \in Nat /\ Snr.i >= 2 /\ Snr.i <= NumSegs(Size) + 1
           /\ Snd \in SndRec
<1>1. /\ Busy /\ calls \in Nat /\ calls \in 0 .. MaxMsgs /\ Size \in Nat /\ Size > SfMax
      /\ Snr.i \in 2 .. NumSegs(Size) + 1 /\ Snd \in SndRec
  BY LinkTypes DEF Sent, Busy, SendType, Snd
<1>2. NumSegs(Size) \in Nat
  BY <1>1, LeftFirst
<1> QED
  BY <1>1, <1>2

\* A message stays under way, its first frame on the bus.
LEMMA SentKept ==
    ASSUME Sent, SameMessage, SameBus, Snd'.alloc = Snd.alloc, Snd'.msg = Snd.msg, out'[calls] # <<>>
    PROVE  Sent' /\ Size' = Size /\ Snr' = Snr
<1>1. Size' = Size /\ Snr' = Snr /\ calls' = calls
  BY DEF SameMessage, SameBus, Size, Snr
<1> QED
  BY <1>1 DEF Sent, Busy

\* What send_cf() does to a context that may send its next frame.
LEMMA SendCfStep ==
    ASSUME SendType, InBlock(0), NEW c \in SndRec, c.alloc = Snd.alloc, c.msg = Snd.msg,
           c.state = "SEND_CF", c.rem = Snd.rem, c.off = Snd.off, c.sn = Snd.sn, c.bs = Snd.bs,
           c.stmin = Snd.stmin, c.backlog = Snd.backlog,
           IF OPTS_STMIN = 0 THEN c.sem = 0 ELSE ~c.timer /\ swq' = <<>>,
           Sender!SendCf("b", c), swq' \in {<<>>, <<"b">>}, SameMessage, SameBus
    PROVE  SendType' /\ InCf' /\ Win' = Win - 1 /\ Ctl'[1] = Segment(calls, Size, Snr.i)
           /\ Snd'.rem = Snd.rem - SegLen(Size, Snr.i) /\ Snr' = Snr
<1> DEFINE i == Snr.i
           n == Sender!Min2(c.rem, Sender!CfLen)
           d == [c EXCEPT !.rem = @ - n, !.off = @ + n]
           f == [type |-> "CF", sn |-> c.sn, msg |-> c.msg, off |-> c.off, n |-> n, len |-> 0]
<1>1. /\ Sent /\ Ctl = <<>> /\ Snd.rem = Left(Size, i) /\ Snd.off = Size - Left(Size, i)
      /\ Snd.sn = (i - 1) % SN_MOD /\ Snd.rem > 0
  BY DEF InBlock, Pos, Placed, NextSn
<1>2. /\ Busy /\ calls \in Nat /\ calls \in 0 .. MaxMsgs /\ Size \in Nat /\ Size > SfMax
      /\ NumSegs(Size) \in Nat /\ i \in Nat /\ i >= 2 /\ i <= NumSegs(Size) + 1 /\ Snd \in SndRec
  BY <1>1, SentTypes
<1>3. i <= NumSegs(Size)
  <2>1. Left(Size, i) = 0 <=> i > NumSegs(Size)
    BY <1>2, LeftNext
  <2> HIDE DEF i
  <2> QED
    BY <1>1, <1>2, <2>1
<1>4. /\ SegLen(Size, i) = Min2(Left(Size, i), CfLen) /\ SegLen(Size, i) \in Nat
      /\ Left(Size, i + 1) = Left(Size, i) - SegLen(Size, i) /\ SegOff(i) = Size - Left(Size, i)
      /\ Left(Size, i) \in Nat
  BY <1>2, <1>3, LeftNext
<1>5. n = SegLen(Size, i)
  BY <1>1, <1>4, LinkTypes, SenderData
<1>6. f = Segment(calls, Size, i) /\ f \in CanFrame /\ f.msg = calls
  <2> HIDE DEF n
  <2>1. c.msg = calls /\ c.off = SegOff(i) /\ c.sn = (i - 1) % SN_MOD
    BY <1>1, <1>2, <1>4 DEF Busy
  <2>2. f = [type |-> "CF", sn |-> (i - 1) % SN_MOD, msg |-> calls, off |-> SegOff(i),
             n |-> SegLen(Size, i), len |-> 0]
    BY <1>5, <2>1
  <2>3. f.msg = calls
    BY <2>1
  <2>4. /\ Segment(calls, Size, i) = [type |-> "CF", sn |-> (i - 1) % SN_MOD, msg |-> calls,
                                      off |-> SegOff(i), n |-> SegLen(Size, i), len |-> 0]
        /\ Segment(calls, Size, i) \in CanFrame
    <3> HIDE DEF i
    <3> QED
      BY <1>2, <1>3, SegmentIs
  <2> HIDE DEF f, i
  <2> QED
    BY <2>2, <2>3, <2>4
<1>7. /\ d \in SndRec /\ d.alloc = c.alloc /\ d.msg = c.msg /\ d.state = c.state /\ d.sn = c.sn
      /\ d.bs = c.bs /\ d.stmin = c.stmin /\ d.backlog = c.backlog /\ d.sem = c.sem
      /\ d.timer = c.timer /\ d.rem = Left(Size, i + 1) /\ d.off = Size - Left(Size, i + 1)
  <2>1. c.rem - n = Left(Size, i + 1) /\ c.off + n = Size - Left(Size, i + 1)
    BY <1>1, <1>2, <1>4, <1>5
  <2>2. c.rem - n \in Num /\ c.off + n \in Num
    BY <1>2, <1>4, <2>1, SndTypes
  <2> HIDE DEF n
  <2>3. /\ d \in SndRec /\ d.alloc = c.alloc /\ d.msg = c.msg /\ d.state = c.state /\ d.sn = c.sn
        /\ d.bs = c.bs /\ d.stmin = c.stmin /\ d.backlog = c.backlog /\ d.sem = c.sem
        /\ d.timer = c.timer
    BY <2>2 DEF SndRec
  <2>4. d.rem = c.rem - n /\ d.off = c.off + n
    BY DEF SndRec
  <2> QED
    BY <2>1, <2>3, <2>4
<1>8. /\ Sender!HandToController("b", f) /\ window' = [window EXCEPT !["b"] = @ - 1]
      /\ sctx' = [sctx EXCEPT !["b"] = d] /\ scur' = [pc |-> "cf", t |-> "b"]
  <2>1. PICK r \in Sender!CanSendResults :
          r = "ok" => /\ Sender!HandToController("b", f) /\ window' = [window EXCEPT !["b"] = @ - 1]
                      /\ sctx' = [sctx EXCEPT !["b"] = d] /\ scur' = [pc |-> "cf", t |-> "b"]
    BY DEF Sender!SendCf
  <2> QED
    BY <2>1, SendsOk
<1> HIDE DEF n, d, f
<1>9. Snd' = d /\ sctx' \in [{"b"} -> SndRec]
  BY <1>7, <1>8, NewSnd
<1>10. /\ Ctl' = <<f>> /\ mbox' \in [{"b"} -> Seq(CanFrame)] /\ out'[calls] # <<>>
       /\ out' \in [0 .. MaxMsgs -> Seq(CanFrame)]
  BY <1>1, <1>2, <1>6, <1>8, OneMoreFrame
<1>11. Win' = Win - 1 /\ window' \in [{"b"} -> Int] /\ Win \in Int
  BY <1>8 DEF SendType, Win
<1>12. SendType'
  BY <1>9, <1>10, <1>11 DEF SendType, SameMessage
<1>13. Sent' /\ Size' = Size /\ Snr' = Snr
  <2>1. Snd'.alloc = Snd.alloc /\ Snd'.msg = Snd.msg
    BY <1>7, <1>9
  <2> QED
    BY <1>1, <1>10, <2>1, SentKept
<1>14. Placed(i + 1)' /\ NextSn(i)'
  <2>1. Snd'.rem = Left(Size', i + 1) /\ Snd'.off = Size' - Left(Size', i + 1)
    BY <1>7, <1>9, <1>13
  <2>2. Snd'.sn = (i - 1) % SN_MOD
    BY <1>1, <1>7, <1>9
  <2> QED
    BY <1>13, <2>1, <2>2 DEF Placed, NextSn, Left
<1>15. Granted(1)' /\ (OPTS_BS # 0 => Snd'.bs = Win' + 1)
  BY <1>7, <1>9, <1>11, <1>13 DEF InBlock, Granted
<1>16. /\ Snd'.state = "SEND_CF" /\ Snd'.backlog = 0 /\ Snd'.stmin = OPTS_STMIN
       /\ IF OPTS_STMIN = 0 THEN Snd'.sem = 0 ELSE ~Snd'.timer /\ swq' = <<>>
  BY <1>7, <1>9 DEF InBlock
<1>17. Ctl' = <<Segment(calls', Size', Snr'.i)>> /\ Snr'.i <= NumSegs(Size')
  BY <1>3, <1>6, <1>10, <1>13 DEF SameMessage
<1>18. InCf'
  BY <1>8, <1>13, <1>14, <1>15, <1>16, <1>17 DEF InCf
<1> QED
  BY <1>1, <1>4, <1>6, <1>7, <1>9, <1>10, <1>11, <1>12, <1>13, <1>18

\* ISOTP_TX_SEND_CF: the loop is entered ...
LEMMA WorkCfStep ==
    ASSUME SendType, InGo, Sender!WorkSendCf("b"), SameBus
    PROVE  SendType' /\ InCf' /\ SameMessage /\ Win' = Win - 1 /\ Ctl'[1] = Segment(calls, Size, Snr.i)
           /\ Snd'.rem = Snd.rem - SegLen(Size, Snr.i) /\ Snr' = Snr
<1> DEFINE c == [Snd EXCEPT !.timer = FALSE]
<1>1. Snd \in SndRec /\ InBlock(0) /\ Snd.state = "SEND_CF" /\ (OPTS_STMIN = 0 => Snd.sem = 0)
  BY DEF SendType, Snd, InGo
<1>2. /\ c \in SndRec /\ c.alloc = Snd.alloc /\ c.msg = Snd.msg /\ c.state = "SEND_CF"
      /\ c.rem = Snd.rem /\ c.off = Snd.off /\ c.sn = Snd.sn /\ c.bs = Snd.bs
      /\ c.stmin = Snd.stmin /\ c.backlog = Snd.backlog /\ c.sem = Snd.sem /\ ~c.timer
  BY <1>1 DEF SndRec
<1>3. swq' = <<>>
  BY RunsB DEF Sender!WorkSendCf
<1>4. Sender!SendCf("b", c) /\ SameMessage
  BY DEF Sender!WorkSendCf, Sender!appVars, Snd, SameMessage
<1>5. IF OPTS_STMIN = 0 THEN c.sem = 0 ELSE ~c.timer /\ swq' = <<>>
  BY <1>1, <1>2, <1>3
<1> HIDE DEF c
<1> QED
  BY <1>1, <1>2, <1>3, <1>4, <1>5, SendCfStep

\* ... or goes round.
LEMMA TakeSemStep ==
    ASSUME SendType, InSem(0), Sender!TakeSem, SameBus
    PROVE  SendType' /\ InCf' /\ SameMessage /\ Win' = Win - 1 /\ Ctl'[1] = Segment(calls, Size, Snr.i)
           /\ Snd'.rem = Snd.rem - SegLen(Size, Snr.i) /\ Snr' = Snr
<1> DEFINE c == [Snd EXCEPT !.sem = 0]
<1>1. Snd \in SndRec /\ InBlock(0) /\ Snd.state = "SEND_CF" /\ OPTS_STMIN = 0 /\ scur.t = "b"
  BY DEF SendType, Snd, InSem
<1>2. /\ c \in SndRec /\ c.alloc = Snd.alloc /\ c.msg = Snd.msg /\ c.state = "SEND_CF"
      /\ c.rem = Snd.rem /\ c.off = Snd.off /\ c.sn = Snd.sn /\ c.bs = Snd.bs
      /\ c.stmin = Snd.stmin /\ c.backlog = Snd.backlog /\ c.sem = 0
  BY <1>1, SndTypes DEF SndRec
<1>3. Sender!SendCf("b", c) /\ SameMessage /\ swq' = swq
  BY <1>1 DEF Sender!TakeSem, Sender!appVars, Snd, SameMessage
<1>4. IF OPTS_STMIN = 0 THEN c.sem = 0 ELSE ~c.timer /\ swq' = <<>>
  BY <1>1, <1>2
<1>5. swq' \in {<<>>, <<"b">>}
  BY <1>3 DEF SendType
<1> HIDE DEF c
<1> QED
  BY <1>1, <1>2, <1>3, <1>4, <1>5, SendCfStep

\* The context and the bus stay in the block; k frames are in the controller.
LEMMA BlockKept ==
    ASSUME InBlock(0) \/ InBlock(1), NEW k, InBlock(k), SameMessage, SameBus, mbox' = mbox,
           window' = window, out' = out, Snd'.alloc = Snd.alloc, Snd'.msg = Snd.msg,
           Snd'.rem = Snd.rem, Snd'.off = Snd.off, Snd'.sn = Snd.sn, Snd'.bs = Snd.bs,
           Snd'.stmin = Snd.stmin, Snd'.backlog = Snd.backlog, Snd'.state \in {"SEND_CF", "WAIT_ST"}
    PROVE  InBlock(k)'
<1>1. Sent' /\ Size' = Size /\ Snr' = Snr /\ Ctl' = Ctl /\ Win' = Win /\ calls' = calls
  <2>1. Sent /\ out'[calls] # <<>>
    BY DEF InBlock, Sent
  <2> QED
    BY <2>1, SentKept DEF Ctl, Win, SameMessage
<1>2. Pos(k)'
  BY <1>1 DEF InBlock, Pos, Placed, NextSn, Left
<1> QED
  BY <1>1, <1>2 DEF InBlock, Granted

\* After can_send() the counters are updated, and the sender is where the loop
\* leaves it: at the end of the message, of the block, or waiting for the frame.
LEMMA FinishCfStep ==
    ASSUME SendType, InCf, Sender!FinishCf, SameBus
    PROVE  /\ SendType' /\ (InLast' \/ InWait(1)' \/ InSt(1)' \/ InSem(1)') /\ SameMessage
           /\ Snd'.rem = Snd.rem /\ mbox' = mbox /\ window' = window
<1> DEFINE i == Snr.i
           c == Sender!CountCf(Snd)
           d == Sender!AfterCf(c)
<1>1. /\ Sent /\ Snd.state = "SEND_CF" /\ scur = [pc |-> "cf", t |-> "b"] /\ i <= NumSegs(Size)
      /\ Ctl = <<Segment(calls, Size, i)>> /\ Snd.rem = Left(Size, i + 1)
      /\ Snd.off = Size - Left(Size, i + 1) /\ Snd.sn = (i - 1) % SN_MOD /\ Snd.backlog = 0
      /\ Snd.stmin = OPTS_STMIN /\ (OPTS_BS # 0 => Snd.bs = Win + 1) /\ Granted(1)
      /\ IF OPTS_STMIN = 0 THEN Snd.sem = 0 ELSE ~Snd.timer /\ swq = <<>>
  BY DEF InCf, Placed, NextSn
<1>2. /\ Busy /\ calls \in Nat /\ Size \in Nat /\ Size > SfMax /\ NumSegs(Size) \in Nat
      /\ i \in Nat /\ i >= 2 /\ Snd \in SndRec /\ Win \in Int
  BY <1>1, SentTypes DEF SendType, Win
<1>3. Sender!IncSn(Snd.sn) = i % SN_MOD /\ i % SN_MOD \in Int
  <2>1. IncSn((i - 1) % SN_MOD) = ((i - 1) + 1) % SN_MOD
    BY <1>2, SnNext
  <2>2. (i - 1) + 1 = i /\ (i - 1) % SN_MOD \in Int /\ i % SN_MOD \in Int
    BY <1>2, LinkTypes
  <2> QED
    BY <1>1, <2>1, <2>2, SenderData
<1>4. Sender!Inc8(Snd.backlog) = 1
  BY <1>1, LinkTypes DEF Sender!Inc8
<1>5. Snd.bs \in Int /\ Sender!Dec8(Snd.bs) \in Int /\ (OPTS_BS # 0 => Sender!Dec8(Snd.bs) = Win)
  <2>1. Snd.bs \in Int /\ Sender!Dec8(Snd.bs) \in Int
    BY <1>2, SndFields, LinkTypes DEF Sender!Dec8
  <2>2. OPTS_BS # 0 => Win >= 0
    BY <1>1 DEF Granted
  <2> QED
    BY <1>1, <1>2, <2>1, <2>2 DEF Sender!Dec8
<1>6. /\ c \in SndRec /\ c.sn = i % SN_MOD /\ c.backlog = 1 /\ (OPTS_BS # 0 => c.bs = Win)
      /\ c.alloc = Snd.alloc /\ c.msg = Snd.msg /\ c.state = "SEND_CF" /\ c.rem = Snd.rem
      /\ c.off = Snd.off /\ c.stmin = Snd.stmin /\ c.sem = Snd.sem /\ c.timer = Snd.timer
  <2>1. /\ Sender!IncSn(Snd.sn) \in Num /\ Sender!Inc8(Snd.backlog) \in Num
        /\ Sender!Dec8(Snd.bs) \in Num
    BY <1>3, <1>4, <1>5, SndTypes
  <2> QED
    BY <1>1, <1>2, <1>3, <1>4, <1>5, <2>1 DEF Sender!CountCf, SndRec
<1> HIDE DEF c
<1>7. /\ d \in SndRec /\ d.sn = c.sn /\ d.backlog = c.backlog /\ d.bs = c.bs /\ d.alloc = c.alloc
      /\ d.msg = c.msg /\ d.rem = c.rem /\ d.off = c.off /\ d.stmin = c.stmin /\ d.sem = c.sem
      /\ \/ c.rem = 0 /\ d.state = "WAIT_BACKLOG"
         \/ c.rem # 0 /\ OPTS_BS # 0 /\ c.bs = 0 /\ d.state = "WAIT_FC"
         \/ /\ c.rem # 0 /\ ~(OPTS_BS # 0 /\ c.bs = 0) /\ d.timer = c.timer
            /\ d.state = IF c.stmin # 0 THEN "WAIT_ST" ELSE "SEND_CF"
  BY <1>6, SndTypes DEF Sender!AfterCf, SndRec
<1>8. sctx' = [sctx EXCEPT !["b"] = d]
  BY <1>1 DEF Sender!FinishCf, Snd, c
<1>9. /\ scur' = IF c.rem # 0 /\ ~(OPTS_BS # 0 /\ c.bs = 0) /\ c.stmin = 0
                 THEN [pc |-> "sem", t |-> "b"] ELSE Sender!Idle
      /\ swq' = swq /\ mbox' = mbox /\ window' = window /\ out' = out /\ SameMessage
  BY <1>1 DEF Sender!FinishCf, Sender!appVars, Sender!hist, SameMessage, Snd, c
<1> HIDE DEF d
<1>10. Snd' = d /\ sctx' \in [{"b"} -> SndRec]
  BY <1>7, <1>8, NewSnd
<1>11. SendType'
  BY <1>9, <1>10, SameCtl DEF SendType, SameMessage
<1>12. Sent' /\ Size' = Size /\ Snr' = Snr
  <2>1. Snd'.alloc = Snd.alloc /\ Snd'.msg = Snd.msg /\ out'[calls] # <<>>
    BY <1>1, <1>6, <1>7, <1>9, <1>10 DEF Sent
  <2> QED
    BY <1>1, <1>9, <2>1, SentKept
<1>13. Ctl' = Ctl /\ Win' = Win /\ calls' = calls
  BY <1>9 DEF Ctl, Win, SameMessage
<1>14. Pos(1)'
  <2>1. Ctl' = <<Segment(calls', Size', Snr'.i)>> /\ Snr'.i <= NumSegs(Size')
    BY <1>1, <1>12, <1>13
  <2>2. Snd'.rem = Left(Size', i + 1) /\ Snd'.off = Size' - Left(Size', i + 1)
    BY <1>1, <1>6, <1>7, <1>10, <1>12
  <2>3. Placed(Snr.i + 1)'
    BY <1>12, <2>2 DEF Placed, Left
  <2>4. NextSn(Snr.i + 1)'
    <3>1. Snr'.i = i /\ ((Snr'.i + 1) - 1) = i
      BY <1>2, <1>12
    <3>2. Snd'.sn = ((Snr'.i + 1) - 1) % SN_MOD
      BY <1>6, <1>7, <1>10, <3>1
    <3> QED
      BY <3>2 DEF NextSn
  <2> QED
    BY <2>1, <2>3, <2>4 DEF Pos
<1>15. Granted(1)' /\ Snd'.backlog = 1 /\ Snd'.stmin = OPTS_STMIN /\ Snd'.rem = Snd.rem
  BY <1>1, <1>6, <1>7, <1>10, <1>12, <1>13 DEF Granted
<1>16. CASE c.rem = 0
  <2>1. InLast'
    BY <1>6, <1>7, <1>9, <1>10, <1>12, <1>14, <1>15, <1>16 DEF InLast
  <2> QED
    BY <1>9, <1>11, <1>15, <2>1
<1>17. Snd.rem >= 0
  BY <1>1, <1>2, LeftNext
<1>18. CASE c.rem # 0 /\ OPTS_BS # 0 /\ c.bs = 0
  <2>1. Win = 0 /\ d.state = "WAIT_FC" /\ scur' = Sender!Idle /\ Snr.open = 1
    BY <1>1, <1>6, <1>7, <1>9, <1>18 DEF Granted
  <2>2. Snd'.rem > 0
    BY <1>2, <1>6, <1>15, <1>17, <1>18, SndFields
  <2>3. InWait(1)'
    BY <1>10, <1>12, <1>13, <1>14, <1>18, <2>1, <2>2 DEF InWait
  <2> QED
    BY <1>9, <1>11, <1>15, <2>3
<1>19. CASE c.rem # 0 /\ ~(OPTS_BS # 0 /\ c.bs = 0)
  <2>1. Snd'.rem > 0
    BY <1>2, <1>6, <1>15, <1>17, <1>19, SndFields
  <2>2. OPTS_BS # 0 => Snd'.bs = Win' /\ Win' >= 1
    <3>1. OPTS_BS # 0 => Win >= 0 /\ Win # 0
      BY <1>1, <1>6, <1>19 DEF Granted
    <3> QED
      BY <1>2, <1>6, <1>7, <1>10, <1>13, <3>1
  <2>3. Snd'.state = IF OPTS_STMIN # 0 THEN "WAIT_ST" ELSE "SEND_CF"
    BY <1>1, <1>6, <1>7, <1>10, <1>19
  <2>4. InBlock(1)'
    BY <1>12, <1>14, <1>15, <2>1, <2>2, <2>3 DEF InBlock
  <2>5. CASE OPTS_STMIN # 0
    <3>1. scur' = Sender!Idle /\ ~Snd'.timer /\ swq' = <<>> /\ Snd'.state = "WAIT_ST"
      BY <1>1, <1>6, <1>7, <1>9, <1>10, <1>19, <2>3, <2>5
    <3>2. InSt(1)'
      BY <2>4, <2>5, <3>1 DEF InSt
    <3> QED
      BY <1>9, <1>11, <1>15, <3>2
  <2>6. CASE OPTS_STMIN = 0
    <3>1. scur' = [pc |-> "sem", t |-> "b"] /\ Snd'.sem = 0 /\ Snd'.state = "SEND_CF"
      BY <1>1, <1>6, <1>7, <1>9, <1>10, <1>19, <2>3, <2>6
    <3>2. InSem(1)'
      BY <2>4, <2>6, <3>1 DEF InSem
    <3> QED
      BY <1>9, <1>11, <1>15, <3>2
  <2> QED
    BY <2>5, <2>6
<1> QED
  BY <1>16, <1>18, <1>19

\* ISOTP_TX_WAIT_ST: the separation time begins.
LEMMA WaitStStep ==
    ASSUME SendType, InSt(0), Sender!WorkWaitSt("b"), SameBus
    PROVE  SendType' /\ InGo' /\ SameMessage /\ Snd'.rem = Snd.rem /\ mbox' = mbox /\ window' = window
<1> DEFINE d == [Snd EXCEPT !.timer = TRUE, !.state = "SEND_CF"]
<1>1. Snd \in SndRec /\ InBlock(0) /\ OPTS_STMIN # 0
  BY DEF SendType, Snd, InSt
<1>2. /\ d \in SndRec /\ d.alloc = Snd.alloc /\ d.msg = Snd.msg /\ d.state = "SEND_CF"
      /\ d.rem = Snd.rem /\ d.off = Snd.off /\ d.sn = Snd.sn /\ d.bs = Snd.bs
      /\ d.stmin = Snd.stmin /\ d.backlog = Snd.backlog
  BY <1>1, SndTypes DEF SndRec
<1>3. sctx' = [sctx EXCEPT !["b"] = d]
  BY <1>1 DEF Sender!WorkWaitSt, Snd, SendType, SndRec
<1>4. /\ scur' = scur /\ mbox' = mbox /\ window' = window /\ out' = out /\ SameMessage
      /\ scur = Sender!Idle /\ swq' = <<>>
  BY RunsB DEF Sender!WorkWaitSt, Sender!appVars, Sender!hist, SameMessage
<1> HIDE DEF d
<1>5. Snd' = d /\ sctx' \in [{"b"} -> SndRec]
  BY <1>2, <1>3, NewSnd
<1>6. SendType'
  BY <1>4, <1>5, SameCtl DEF SendType, SameMessage
<1>7. InBlock(0)'
  BY <1>1, <1>2, <1>4, <1>5, BlockKept
<1>8. InGo'
  BY <1>1, <1>2, <1>4, <1>5, <1>7 DEF InGo
<1> QED
  BY <1>2, <1>4, <1>5, <1>6, <1>8

\* ISOTP_TX_ERR and ISOTP_TX_WAIT_FIN.
LEMMA WorkFinishStep ==
    ASSUME SendType, InEnd, Sender!WorkFinish("b"), SameBus
    PROVE  /\ SendType' /\ InRest' /\ Snd'.rem = Snd.rem /\ mbox' = mbox /\ window' = window
           /\ calls' = calls /\ len' = len
           /\ report' = [report EXCEPT ![calls] =
                            Append(@, IF Snd.state = "ERR" THEN Snd.error ELSE "OK")]
<1> DEFINE d == Sender!Retire(Snd)
           e == IF Snd.state = "ERR" THEN Snd.error ELSE "OK"
<1>1. Snd \in SndRec /\ Sent /\ calls \in 0 .. MaxMsgs /\ Snd.msg = calls
  BY SentTypes DEF SendType, Snd, InEnd, Sent, Busy
<1>2. d \in SndRec /\ ~d.alloc /\ d.state = "RESET" /\ ~d.timer /\ d.rem = Snd.rem
  BY <1>1, SndTypes DEF SndRec, Sender!Retire, Sender!free_send_ctx
<1>3. sctx' = [sctx EXCEPT !["b"] = d] /\ report' = [report EXCEPT ![calls] = Append(@, e)]
  BY <1>1 DEF Sender!WorkFinish, Snd
<1>4. /\ scur' = scur /\ mbox' = mbox /\ window' = window /\ out' = out /\ calls' = calls
      /\ len' = len /\ scur = Sender!Idle /\ swq' = <<>>
  BY RunsB DEF Sender!WorkFinish, Sender!appVars, Sender!hist
<1> HIDE DEF d
<1>5. Snd' = d /\ sctx' \in [{"b"} -> SndRec]
  BY <1>2, <1>3, NewSnd
<1>6. report' \in [0 .. MaxMsgs -> Seq(Sender!Errors)]
  <2>1. e \in Sender!Errors /\ report[calls] \in Seq(Sender!Errors)
    BY <1>1, SndTypes DEF SndRec, SendType
  <2>2. Append(report[calls], e) \in Seq(Sender!Errors)
    BY <2>1
  <2> HIDE DEF e
  <2> QED
    BY <1>1, <1>3, <2>2 DEF SendType
<1>7. SendType'
  BY <1>4, <1>5, <1>6, SameCtl DEF SendType
<1>8. InRest'
  BY <1>2, <1>4, <1>5 DEF InRest, InEnd, Sent, SameBus, Snr, Ctl
<1> QED
  BY <1>2, <1>3, <1>4, <1>5, <1>7, <1>8

-----------------------------------------------------------------------------
(* The sender's interrupts *)

\* The last frame handed to the controller has been transmitted.
TxEffect ==
    /\ SendType' /\ Ctl' = <<>> /\ window' = window /\ out' = out /\ SameMessage /\ scur' = scur
    /\ Snd' \in SndRec /\ Snd'.alloc = Snd.alloc /\ Snd'.msg = Snd.msg /\ Snd'.rem = Snd.rem
    /\ Snd'.off = Snd.off /\ Snd'.sn = Snd.sn /\ Snd'.bs = Snd.bs /\ Snd'.stmin = Snd.stmin
    /\ Snd'.timer = Snd.timer /\ Snd'.sem = 1 /\ (Snd.backlog = 1 => Snd'.backlog = 0)
    /\ IF Snd.state = "WAIT_BACKLOG" THEN Snd.backlog = 1 => Snd'.state = "WAIT_FIN" /\ swq' = <<"b">>
                                     ELSE Snd'.state = Snd.state /\ swq' = <<"b">>

\* The controller reports the transmission of the frame it holds.
LEMMA TxStep ==
    ASSUME SendType, NEW f \in CanFrame, Ctl = <<f>>, Sender!TxDone("b", TRUE)
    PROVE  TxEffect
<1> DEFINE d == Sender!TxCallback(Snd)
           e == [Snd EXCEPT !.backlog = Sender!Dec8(@), !.sem = 1]
<1>1. Snd \in SndRec /\ Snd.backlog \in Int
  <2>1. Snd \in SndRec
    BY DEF SendType, Snd
  <2> QED
    BY <2>1, SndFields
<1>2. Sender!Dec8(Snd.backlog) \in Num /\ 1 \in Num
  BY <1>1, LinkTypes, SndTypes DEF Sender!Dec8
<1>3. Snd.backlog = 1 => Sender!Dec8(Snd.backlog) = 0
  BY DEF Sender!Dec8
<1>4. /\ e \in SndRec /\ e.alloc = Snd.alloc /\ e.msg = Snd.msg /\ e.rem = Snd.rem
      /\ e.off = Snd.off /\ e.sn = Snd.sn /\ e.bs = Snd.bs /\ e.stmin = Snd.stmin
      /\ e.timer = Snd.timer /\ e.sem = 1 /\ e.backlog = Sender!Dec8(Snd.backlog)
      /\ e.state = Snd.state
  BY <1>1, <1>2 DEF SndRec
<1>5. d = IF e.state = "WAIT_BACKLOG" /\ e.backlog = 0 THEN [e EXCEPT !.state = "WAIT_FIN"] ELSE e
  BY DEF Sender!TxCallback
<1>6. /\ sctx' = [sctx EXCEPT !["b"] = d] /\ mbox' = [mbox EXCEPT !["b"] = Tail(Ctl)]
      /\ window' = window /\ out' = out /\ SameMessage /\ scur' = scur
      /\ swq' = IF Sender!TxSubmits(Snd) THEN Sender!Submit(swq, "b") ELSE swq
  BY DEF Sender!TxDone, Sender!appVars, SameMessage, Snd, Ctl
<1> HIDE DEF d, e
<1>7. /\ d \in SndRec /\ d.alloc = e.alloc /\ d.msg = e.msg /\ d.rem = e.rem /\ d.off = e.off
      /\ d.sn = e.sn /\ d.bs = e.bs /\ d.stmin = e.stmin /\ d.timer = e.timer /\ d.sem = e.sem
      /\ d.backlog = e.backlog
      /\ d.state = IF e.state = "WAIT_BACKLOG" /\ e.backlog = 0 THEN "WAIT_FIN" ELSE e.state
  <2>1. "WAIT_FIN" \in Sender!TxState
    BY SndTypes
  <2> QED
    BY <1>4, <1>5, <2>1 DEF SndRec
<1>8. Snd' = d /\ sctx' \in [{"b"} -> SndRec]
  BY <1>6, <1>7, NewSnd
<1>9. swq' = IF Sender!TxSubmits(Snd) THEN <<"b">> ELSE swq
  BY <1>6, SubmitOne DEF SendType
<1>10. Sender!TxSubmits(Snd) <=> ~(Snd.state = "WAIT_BACKLOG" /\ Sender!Dec8(Snd.backlog) > 0)
  BY DEF Sender!TxSubmits
<1>11. Ctl' = <<>> /\ mbox' \in [{"b"} -> Seq(CanFrame)]
  BY <1>6 DEF SendType, Ctl
<1>12. SendType'
  BY <1>6, <1>8, <1>9, <1>11 DEF SendType, SameMessage
<1> QED
  BY <1>3, <1>4, <1>6, <1>7, <1>8, <1>9, <1>10, <1>11, <1>12 DEF TxEffect

\* The peer's history, when the frame f has been on the bus.
OnBus(f) == peer' = IF f.type = "CF" THEN [peer EXCEPT !["a"].i = @ + 1, !["a"].open = @ - 1]
            ELSE [peer EXCEPT !["a"] = [msg |-> f.msg, len |-> f.len, i |-> 2, open |-> 0]]

\* The fields of the history.
LEMMA BusStep ==
    ASSUME TypeInv, NEW f, OnBus(f)
    PROVE  /\ Snr \in PeerRec /\ Snr.i \in Nat /\ Snr.open \in Nat
           /\ f.type = "CF" => /\ Snr'.msg = Snr.msg /\ Snr'.len = Snr.len /\ Snr'.i = Snr.i + 1
                               /\ Snr'.open = Snr.open - 1
           /\ f.type # "CF" => Snr' = [msg |-> f.msg, len |-> f.len, i |-> 2, open |-> 0]
<1>1. peer \in [{"a"} -> PeerRec] /\ Snr \in PeerRec
  BY LinkTypes DEF TypeInv, Snr
<1>2. Snr.i \in Nat /\ Snr.open \in Nat
  BY <1>1 DEF PeerRec
<1>3. ASSUME f.type = "CF"
      PROVE  /\ Snr'.msg = Snr.msg /\ Snr'.len = Snr.len /\ Snr'.i = Snr.i + 1
             /\ Snr'.open = Snr.open - 1
  <2>1. peer' = [peer EXCEPT !["a"].i = @ + 1, !["a"].open = @ - 1]
    BY <1>3 DEF OnBus
  <2> QED
    BY <1>1, <2>1 DEF PeerRec, Snr
<1>4. f.type # "CF" => Snr' = [msg |-> f.msg, len |-> f.len, i |-> 2, open |-> 0]
  BY <1>1 DEF OnBus, Snr
<1> QED
  BY <1>1, <1>2, <1>3, <1>4

\* The first frame: the sender waits for a flow-control frame.
LEMMA TxFf ==
    ASSUME SendType, TypeInv, InFf, Sender!TxDone("b", TRUE), OnBus(Head(Ctl))
    PROVE  TxEffect /\ InWait(0)' /\ Snd.state = "WAIT_FC" /\ scur = Sender!Idle
<1> DEFINE f == Segment(calls, Size, 1)
<1>1. /\ Busy /\ calls \in Nat /\ Size \in Nat /\ Size > SfMax /\ Ctl = <<f>>
      /\ out[calls] # <<>> /\ Placed(2) /\ NextSn(2) /\ Win = 0
  BY LinkTypes DEF InFf, Busy
<1>2. f \in CanFrame /\ f.type = "FF" /\ f.msg = calls /\ f.len = Size
  <2>1. f \in CanFrame /\ f = [type |-> "FF", sn |-> 0, msg |-> calls, off |-> 0, n |-> FfLen, len |-> Size]
    BY <1>1, SegmentIs
  <2> HIDE DEF f
  <2> QED
    BY <2>1
<1> HIDE DEF f
<1>3. TxEffect
  BY <1>1, <1>2, TxStep
<1>4. Snd.state = "WAIT_FC" /\ scur = Sender!Idle
  BY DEF InFf, Sender!TxDone, Sender!IsrAllowed, Sender!Idle
<1>5. Head(Ctl) = f
  BY <1>1
<1>6. Snr' = [msg |-> calls, len |-> Size, i |-> 2, open |-> 0]
  BY <1>2, <1>5, BusStep
<1>7. Snr'.msg = calls /\ Snr'.len = Size /\ Snr'.i = 2 /\ Snr'.open = 0
  BY <1>6
<1>8. calls' = calls /\ Size' = Size /\ Win' = 0 /\ Ctl' = <<>>
  BY <1>1, <1>3 DEF TxEffect, SameMessage, Size, Win
<1>9. NumSegs(Size) >= 2 /\ NumSegs(Size) \in Nat /\ Left(Size, 2) > 0
  BY <1>1, LeftFirst
<1>10. Sent'
  <2>1. Busy'
    BY <1>1, <1>3, <1>8 DEF TxEffect, Busy
  <2>2. 2 \in 2 .. NumSegs(Size) + 1
    BY <1>9
  <2> QED
    BY <1>1, <1>3, <1>7, <1>8, <2>1, <2>2 DEF TxEffect, Sent
<1>11. Pos(0)' /\ Snd'.rem > 0
  BY <1>1, <1>3, <1>7, <1>8, <1>9 DEF TxEffect, Pos, Placed, NextSn, Left
<1>12. Snd'.state = "WAIT_FC" /\ scur' = Sender!Idle
  BY <1>3, <1>4 DEF TxEffect
<1> QED
  BY <1>3, <1>4, <1>7, <1>8, <1>10, <1>11, <1>12 DEF InWait

\* A consecutive frame, wherever it was in the controller.
LEMMA TxCf ==
    ASSUME SendType, TypeInv, Sent, Pos(1), Sender!TxDone("b", TRUE), OnBus(Head(Ctl))
    PROVE  /\ TxEffect /\ Sent' /\ Pos(0)' /\ Size' = Size /\ Snr'.open = Snr.open - 1
           /\ Snr'.i = Snr.i + 1 /\ Snr.open \in Nat /\ Win' = Win
           /\ Head(Ctl) = Segment(calls, Size, Snr.i) /\ Snr'.msg = Snr.msg /\ Snr'.len = Snr.len
<1> DEFINE f == Segment(calls, Size, Snr.i)
<1>1. /\ calls \in Nat /\ Size \in Nat /\ Size > SfMax /\ Ctl = <<f>> /\ Snr.i \in Nat /\ Snr.i >= 2
      /\ Snr.i <= NumSegs(Size) /\ NumSegs(Size) \in Nat
      /\ Placed(Snr.i + 1) /\ NextSn(Snr.i + 1)
  BY SentTypes DEF Pos
<1>2. f \in CanFrame /\ f.type = "CF"
  <2>1. f \in CanFrame /\ f = [type |-> "CF", sn |-> (Snr.i - 1) % SN_MOD, msg |-> calls,
                               off |-> SegOff(Snr.i), n |-> SegLen(Size, Snr.i), len |-> 0]
    BY <1>1, SegmentIs
  <2> HIDE DEF f
  <2> QED
    BY <2>1
<1>3. Head(Ctl) = f
  <2> HIDE DEF f
  <2> QED
    BY <1>1
<1>4. TxEffect
  <2> HIDE DEF f
  <2> QED
    BY <1>1, <1>2, TxStep
<1>5. /\ Snr'.msg = Snr.msg /\ Snr'.len = Snr.len /\ Snr'.i = Snr.i + 1 /\ Snr'.open = Snr.open - 1
      /\ Snr.open \in Nat
  <2> HIDE DEF f
  <2> QED
    BY <1>2, <1>3, BusStep
<1>6. calls' = calls /\ Size' = Size /\ Win' = Win /\ Ctl' = <<>>
  BY <1>4 DEF TxEffect, SameMessage, Size, Win
<1>7. Sent'
  <2>1. Busy' /\ out'[calls'] # <<>>
    BY <1>4, <1>6 DEF TxEffect, Sent, Busy
  <2>2. Snr'.i \in 2 .. NumSegs(Size') + 1
    BY <1>1, <1>5, <1>6
  <2> QED
    BY <1>5, <1>6, <2>1, <2>2 DEF Sent
<1>8. Pos(0)'
  <2>1. Placed(Snr.i)' /\ NextSn(Snr.i)'
    BY <1>1, <1>4, <1>5, <1>6 DEF TxEffect, Placed, NextSn, Left
  <2> QED
    BY <1>6, <2>1 DEF Pos
<1> QED
  BY <1>3, <1>4, <1>5, <1>6, <1>7, <1>8


\* A consecutive frame of a block has been on the bus.
CfOnBus ==
    /\ Sent /\ Sent' /\ Pos(1) /\ Pos(0)' /\ Size' = Size /\ Win' = Win
    /\ Snr'.msg = Snr.msg /\ Snr'.len = Snr.len /\ Snr'.i = Snr.i + 1 /\ Snr'.open = Snr.open - 1
    /\ Snr.open \in Nat /\ Snr.open > 0 /\ Head(Ctl) = Segment(calls, Size, Snr.i)

\* In the middle of a block, the next frame may be sent when this one has gone.
LEMMA BlockSent ==
    ASSUME SendType, TypeInv, InBlock(1), Sender!TxDone("b", TRUE), OnBus(Head(Ctl))
    PROVE  TxEffect /\ CfOnBus /\ InBlock(0)'
<1>1. Sent /\ Pos(1)
  BY DEF InBlock
<1>2. /\ TxEffect /\ Sent' /\ Pos(0)' /\ Size' = Size /\ Snr'.open = Snr.open - 1
      /\ Snr'.i = Snr.i + 1 /\ Snr.open \in Nat /\ Win' = Win
      /\ Head(Ctl) = Segment(calls, Size, Snr.i) /\ Snr'.msg = Snr.msg /\ Snr'.len = Snr.len
  BY <1>1, TxCf
<1>3. NumSegs(Size) \in Nat /\ Snr.i \in Nat /\ Snr.i <= NumSegs(Size) /\ Win \in Int
  BY <1>1, SentTypes DEF Pos, SendType, Win
<1>4. Granted(1) /\ Snd.backlog = 1 /\ Snd.rem > 0 /\ Snd.stmin = OPTS_STMIN
      /\ (OPTS_BS # 0 => Snd.bs = Win /\ Win >= 1) /\ Snd.state \in {"SEND_CF", "WAIT_ST"}
  BY DEF InBlock
<1>5. Snr.open > 0
  BY <1>2, <1>3, <1>4 DEF Granted
<1>6. Granted(0)'
  <2>1. CASE OPTS_BS = 0
    <3>1. (Snr.open - 1) + (Snr.i + 1) = Snr.open + Snr.i
      BY <1>2, <1>3
    <3> QED
      BY <1>2, <1>4, <2>1, <3>1 DEF Granted
  <2>2. CASE OPTS_BS # 0
    BY <1>2, <1>3, <1>4, <2>2 DEF Granted
  <2> QED
    BY <2>1, <2>2
<1>7. /\ Snd'.state \in {"SEND_CF", "WAIT_ST"} /\ Snd'.rem > 0 /\ Snd'.backlog = 0
      /\ Snd'.stmin = OPTS_STMIN /\ (OPTS_BS # 0 => Snd'.bs = Win' /\ Win' >= 1)
  BY <1>2, <1>4 DEF TxEffect
<1>8. InBlock(0)'
  BY <1>2, <1>6, <1>7 DEF InBlock
<1> QED
  BY <1>1, <1>2, <1>5, <1>8 DEF CfOnBus

\* The last frame of a block.
LEMMA TxWait ==
    ASSUME SendType, TypeInv, InWait(1), Sender!TxDone("b", TRUE), OnBus(Head(Ctl))
    PROVE  TxEffect /\ CfOnBus /\ InWait(0)'
<1>1. Sent /\ Pos(1)
  BY DEF InWait
<1>2. /\ TxEffect /\ Sent' /\ Pos(0)' /\ Size' = Size /\ Snr'.open = Snr.open - 1
      /\ Snr'.i = Snr.i + 1 /\ Snr.open \in Nat /\ Win' = Win
      /\ Head(Ctl) = Segment(calls, Size, Snr.i) /\ Snr'.msg = Snr.msg /\ Snr'.len = Snr.len
  BY <1>1, TxCf
<1>3. Snr.open = 1 /\ Snr'.open = 0 /\ OPTS_BS # 0
  BY <1>2 DEF InWait
<1>4. Snd'.state = "WAIT_FC" /\ scur' = Sender!Idle /\ Win' = 0 /\ Snd'.rem > 0
  BY <1>2 DEF TxEffect, InWait
<1>5. InWait(0)'
  BY <1>2, <1>3, <1>4 DEF InWait
<1> QED
  BY <1>1, <1>2, <1>3, <1>5 DEF CfOnBus

\* The last frame of the message.
LEMMA TxLast ==
    ASSUME SendType, TypeInv, InLast, Sender!TxDone("b", TRUE), OnBus(Head(Ctl))
    PROVE  TxEffect /\ CfOnBus /\ InEnd' /\ Snd.rem = 0
<1>1. Sent /\ Pos(1) /\ Granted(1) /\ Snd.rem = 0
  BY DEF InLast
<1>2. /\ TxEffect /\ Sent' /\ Pos(0)' /\ Size' = Size /\ Snr'.open = Snr.open - 1
      /\ Snr'.i = Snr.i + 1 /\ Snr.open \in Nat /\ Win' = Win
      /\ Head(Ctl) = Segment(calls, Size, Snr.i) /\ Snr'.msg = Snr.msg /\ Snr'.len = Snr.len
  BY <1>1, TxCf
<1> DEFINE i == Snr.i
<1>3. /\ NumSegs(Size) \in Nat /\ i \in Nat /\ i >= 2 /\ i <= NumSegs(Size) /\ Win \in Int
      /\ Size \in Nat /\ Size > SfMax /\ Snd.rem = Left(Size, i + 1)
  BY <1>1, SentTypes DEF Pos, SendType, Win, Placed
<1>4. Snr.open > 0
  BY <1>1, <1>2, <1>3 DEF Granted
<1>5. i + 1 > NumSegs(Size)
  <2>1. i + 1 \in Nat /\ i + 1 >= 2
    BY <1>3
  <2>2. Left(Size, i + 1) = 0 <=> i + 1 > NumSegs(Size)
    <3> HIDE DEF i
    <3> QED
      BY <1>3, <2>1, LeftNext
  <2> QED
    BY <1>1, <1>3, <2>2
<1>6. Snr'.i = NumSegs(Size') + 1
  BY <1>2, <1>3, <1>5
<1>7. Snd'.state = "WAIT_FIN" /\ swq' = <<"b">> /\ scur' = Sender!Idle
  BY <1>2 DEF TxEffect, InLast
<1>8. InEnd'
  BY <1>2, <1>6, <1>7 DEF InEnd, TxEffect
<1> QED
  BY <1>1, <1>2, <1>4, <1>8 DEF CfOnBus

\* What the receiver may rely on: it was the first frame of a message, or a
\* consecutive one.
FfSent == InFf /\ InWait(0)' /\ Snd.state = "WAIT_FC" /\ scur = Sender!Idle
CfSent == /\ CfOnBus /\ (InWait(0)' \/ InSem(0)' \/ InSt(0)' \/ InEnd')
          /\ InWait(1) \/ InSem(1) \/ InSt(1) \/ InLast
          /\ OPTS_BS # 0 /\ Win = 0 /\ Snd.rem # 0 => InWait(0)'

\* A frame leaves the controller.
LEMMA TxCases ==
    ASSUME SendType, TypeInv, SenderInv, Sender!TxDone("b", TRUE), OnBus(Head(Ctl))
    PROVE  TxEffect /\ (FfSent \/ CfSent) /\ SenderInv'
<1>1. Ctl # <<>> /\ ~InCf
  BY DEF Sender!TxDone, Ctl, InCf, Sender!IsrAllowed
<1>2. InFf \/ InWait(1) \/ InSem(1) \/ InSt(1) \/ InLast
  BY <1>1 DEF SenderInv, InCfs, InRest, InNew, InWait, InSem, InGo, InSt, InBlock, Pos, InEnd
<1>3. CASE InFf
  BY <1>3, TxFf DEF FfSent, SenderInv, InCfs
<1>4. CASE InWait(1)
  <2>1. TxEffect /\ CfOnBus /\ InWait(0)'
    BY <1>4, TxWait
  <2> QED
    BY <1>4, <2>1 DEF CfSent, SenderInv, InCfs
<1>5. CASE InSem(1)
  <2>1. TxEffect /\ CfOnBus /\ InBlock(0)'
    BY <1>5, BlockSent DEF InSem
  <2>2. InSem(0)'
    BY <1>5, <2>1 DEF InSem, TxEffect
  <2>3. OPTS_BS # 0 => Win # 0
    BY <1>5 DEF InSem, InBlock, SendType, Win
  <2> QED
    BY <1>5, <2>1, <2>2, <2>3 DEF CfSent, SenderInv, InCfs
<1>6. CASE InSt(1)
  <2>1. TxEffect /\ CfOnBus /\ InBlock(0)'
    BY <1>6, BlockSent DEF InSt
  <2>2. InSt(0)'
    BY <1>6, <2>1 DEF InSt, TxEffect
  <2>3. OPTS_BS # 0 => Win # 0
    BY <1>6 DEF InSt, InBlock, SendType, Win
  <2> QED
    BY <1>6, <2>1, <2>2, <2>3 DEF CfSent, SenderInv, InCfs
<1>7. CASE InLast
  <2>1. TxEffect /\ CfOnBus /\ InEnd' /\ Snd.rem = 0
    BY <1>7, TxLast
  <2> QED
    BY <1>7, <2>1 DEF CfSent, SenderInv, InCfs
<1> QED
  BY <1>2, <1>3, <1>4, <1>5, <1>6, <1>7

\* The flow-control frame the sender waits for: it goes on, ...
LEMMA FcCts ==
    ASSUME SendType, TypeInv, InWait(0), RxBs = OPTS_BS, Sender!HandleFc("b", FcFrame("CTS")),
           peer' = [peer EXCEPT !["a"] = OnFc(@, "CTS")]
    PROVE  /\ SendType' /\ InGo' /\ SameMessage /\ Snd'.rem = Snd.rem /\ Ctl' = <<>>
           /\ (OPTS_BS # 0 => Win' = OPTS_BS)
           /\ Snr'.msg = Snr.msg /\ Snr'.len = Snr.len /\ Snr'.i = Snr.i
<1> DEFINE i == Snr.i
           d == [Snd EXCEPT !.timer = FALSE, !.state = "SEND_CF", !.wft = 0, !.backlog = 0,
                            !.sem = 0, !.bs = OPTS_BS, !.stmin = OPTS_STMIN]
           w == IF OPTS_BS = 0 THEN Sender!Unlimited ELSE OPTS_BS
<1>1. /\ Sent /\ Snd.state = "WAIT_FC" /\ scur = Sender!Idle /\ Snd.rem > 0 /\ Ctl = <<>>
      /\ Placed(i) /\ NextSn(i) /\ Snr.open = 0 /\ (OPTS_BS = 0 => i = 2)
  BY DEF InWait, Pos
<1>2. /\ Busy /\ Size \in Nat /\ Size > SfMax /\ NumSegs(Size) \in Nat /\ i \in Nat /\ i >= 2
      /\ Snd \in SndRec /\ Snd.alloc
  BY <1>1, SentTypes DEF Busy
<1>3. i <= NumSegs(Size)
  <2>1. Left(Size, i) = 0 <=> i > NumSegs(Size)
    BY <1>2, LeftNext
  <2>2. Left(Size, i) > 0
    BY <1>1 DEF Placed
  <2> HIDE DEF i
  <2> QED
    BY <1>2, <2>1, <2>2
<1>4. /\ d \in SndRec /\ d.alloc = Snd.alloc /\ d.msg = Snd.msg /\ d.state = "SEND_CF"
      /\ d.rem = Snd.rem /\ d.off = Snd.off /\ d.sn = Snd.sn /\ d.bs = OPTS_BS
      /\ d.stmin = OPTS_STMIN /\ d.backlog = 0 /\ d.sem = 0 /\ ~d.timer
  <2>1. OPTS_BS \in Num /\ OPTS_STMIN \in Num /\ 0 \in Num /\ "SEND_CF" \in Sender!TxState
    BY LinkTypes, SndTypes
  <2> QED
    BY <1>2, <2>1 DEF SndRec
<1>5. sctx' = [sctx EXCEPT !["b"] = d]
  <2>1. Sender!get_send_ctx("b") = Snd
    BY <1>2 DEF Sender!get_send_ctx, Snd
  <2>2. FcFrame("CTS").fs = "CTS" /\ FcFrame("CTS").bs = OPTS_BS /\ FcFrame("CTS").stmin = OPTS_STMIN
    BY DEF FcFrame
  <2>3. Sender!send_can_rx(Snd, FcFrame("CTS")) = d
    <3>1. [Snd EXCEPT !.timer = FALSE] \in SndRec
      BY <1>2 DEF SndRec
    <3>2. Sender!send_can_rx(Snd, FcFrame("CTS"))
             = Sender!send_process_fc([Snd EXCEPT !.timer = FALSE], FcFrame("CTS"))
      BY <1>1 DEF Sender!send_can_rx
    <3>3. Sender!send_process_fc([Snd EXCEPT !.timer = FALSE], FcFrame("CTS")) = d
      BY <1>2, <2>2 DEF Sender!send_process_fc, SndRec
    <3> QED
      BY <3>2, <3>3
  <2> HIDE DEF d
  <2> QED
    BY <2>1, <2>3 DEF Sender!HandleFc
<1>6. window' = [window EXCEPT !["b"] = w] /\ w \in Int
  <2>1. Sender!get_send_ctx("b") = Snd
    BY <1>2 DEF Sender!get_send_ctx, Snd
  <2>2. w \in Int
    BY LinkTypes DEF Sender!Unlimited
  <2>3. FcFrame("CTS").fs = "CTS" /\ FcFrame("CTS").bs = OPTS_BS
    BY DEF FcFrame
  <2> QED
    BY <1>1, <2>1, <2>2, <2>3 DEF Sender!HandleFc
<1>7. /\ swq' = <<"b">> /\ scur' = scur /\ mbox' = mbox /\ out' = out /\ SameMessage
  BY SubmitOne DEF Sender!HandleFc, Sender!appVars, SameMessage, SendType
<1>8. /\ Snr'.msg = Snr.msg /\ Snr'.len = Snr.len /\ Snr'.i = i
      /\ Snr'.open = IF OPTS_BS = 0 THEN NumSegs(Size) ELSE OPTS_BS
  <2>1. peer \in [{"a"} -> PeerRec] /\ Snr \in PeerRec /\ Snr.len = Size
    BY <1>1, LinkTypes DEF TypeInv, Snr, Sent
  <2>2. NumFrames(Snr.len) = NumSegs(Size)
    BY <1>2, <2>1, LinkTypes DEF NumFrames
  <2>3. OnFc(Snr, "CTS") = [Snr EXCEPT !.open = IF OPTS_BS = 0 THEN NumSegs(Size) ELSE OPTS_BS]
    BY <1>1, <1>3, <2>2 DEF OnFc
  <2>4. Snr' = OnFc(Snr, "CTS")
    BY <2>1 DEF Snr
  <2> QED
    BY <2>1, <2>3, <2>4 DEF PeerRec
<1> HIDE DEF d, w
<1>9. Snd' = d /\ sctx' \in [{"b"} -> SndRec]
  BY <1>4, <1>5, NewSnd
<1>10. SendType' /\ Win' = w
  BY <1>6, <1>7, <1>9 DEF SendType, SameMessage, Win
<1>11. Ctl' = <<>> /\ Size' = Size /\ calls' = calls
  BY <1>1, <1>7 DEF Ctl, Size, SameMessage
<1>12. Sent'
  BY <1>1, <1>4, <1>7, <1>8, <1>9, <1>11 DEF Sent, Busy
<1>13. Pos(0)'
  BY <1>1, <1>4, <1>8, <1>9, <1>11 DEF Pos, Placed, NextSn, Left
<1>14. Granted(0)'
  <2>1. CASE OPTS_BS = 0
    BY <1>1, <1>2, <1>8, <1>11, <2>1 DEF Granted
  <2>2. CASE OPTS_BS # 0
    BY <1>8, <1>10, <2>2, LinkTypes DEF Granted, w
  <2> QED
    BY <2>1, <2>2
<1>15. OPTS_BS # 0 => Win' = OPTS_BS
  BY <1>10 DEF w
<1>16. InBlock(0)'
  BY <1>1, <1>4, <1>9, <1>12, <1>13, <1>14, <1>15, LinkTypes DEF InBlock
<1>17. InGo'
  BY <1>1, <1>4, <1>7, <1>9, <1>16 DEF InGo
<1> QED
  BY <1>4, <1>7, <1>8, <1>9, <1>10, <1>11, <1>15, <1>17

\* ... or gives up.
LEMMA FcOvflw ==
    ASSUME SendType, TypeInv, InWait(0), Sender!HandleFc("b", FcFrame("OVFLW")),
           peer' = [peer EXCEPT !["a"] = OnFc(@, "OVFLW")]
    PROVE  /\ SendType' /\ InEnd' /\ SameMessage /\ Ctl' = <<>> /\ Win' = 0 /\ Snd'.state = "ERR"
           /\ Snr'.msg = Snr.msg /\ Snr'.len = Snr.len /\ Snr'.i = NumSegs(Size) + 1
<1> DEFINE d == [Snd EXCEPT !.timer = FALSE, !.state = "ERR", !.error = "BUFFER_OVERFLW"]
<1>1. Sent /\ Snd.state = "WAIT_FC" /\ scur = Sender!Idle /\ Ctl = <<>> /\ Win = 0
  BY DEF InWait, Pos
<1>2. /\ Busy /\ Size \in Nat /\ Size > SfMax /\ NumSegs(Size) \in Nat /\ Snd \in SndRec /\ Snd.alloc
      /\ NumSegs(Size) >= 2
  BY <1>1, SentTypes, LeftFirst DEF Busy
<1>3. /\ d \in SndRec /\ d.alloc = Snd.alloc /\ d.msg = Snd.msg /\ d.state = "ERR"
      /\ d.error = "BUFFER_OVERFLW"
  BY <1>2, SndTypes DEF SndRec
<1>4. sctx' = [sctx EXCEPT !["b"] = d] /\ window' = window
  <2>1. Sender!get_send_ctx("b") = Snd
    BY <1>2 DEF Sender!get_send_ctx, Snd
  <2>2. FcFrame("OVFLW").fs = "OVFLW"
    BY DEF FcFrame
  <2>3. Sender!send_can_rx(Snd, FcFrame("OVFLW")) = d
    BY <1>1, <1>2, <2>2 DEF Sender!send_can_rx, Sender!send_process_fc, Sender!send_report_error, SndRec
  <2> HIDE DEF d
  <2> QED
    BY <2>1, <2>2, <2>3 DEF Sender!HandleFc
<1>5. swq' = <<"b">> /\ scur' = scur /\ mbox' = mbox /\ out' = out /\ SameMessage
  BY SubmitOne DEF Sender!HandleFc, Sender!appVars, SameMessage, SendType
<1>6. Snr'.msg = Snr.msg /\ Snr'.len = Snr.len /\ Snr'.i = NumSegs(Size) + 1
  <2>1. peer \in [{"a"} -> PeerRec] /\ Snr \in PeerRec /\ Snr.len = Size
    BY <1>1, LinkTypes DEF TypeInv, Snr, Sent
  <2>2. NumFrames(Snr.len) = NumSegs(Size)
    BY <1>2, <2>1, LinkTypes DEF NumFrames
  <2>3. Snr' = [Snr EXCEPT !.i = NumFrames(Snr.len) + 1, !.open = 0]
    BY <2>1 DEF Snr, OnFc
  <2> QED
    BY <2>1, <2>2, <2>3 DEF PeerRec
<1> HIDE DEF d
<1>7. Snd' = d /\ sctx' \in [{"b"} -> SndRec]
  BY <1>3, <1>4, NewSnd
<1>8. SendType' /\ Win' = 0 /\ Ctl' = <<>> /\ Size' = Size /\ calls' = calls
  BY <1>1, <1>4, <1>5, <1>7 DEF SendType, SameMessage, Win, Ctl, Size
<1>9. NumSegs(Size) + 1 \in 2 .. NumSegs(Size) + 1
  BY <1>2
<1>10. Sent'
  BY <1>1, <1>3, <1>5, <1>6, <1>7, <1>8, <1>9 DEF Sent, Busy
<1>11. InEnd'
  BY <1>1, <1>3, <1>5, <1>7, <1>8, <1>10 DEF InEnd
<1> QED
  BY <1>3, <1>5, <1>6, <1>7, <1>8, <1>11

-----------------------------------------------------------------------------
(* The sender's steps together *)

\* Nothing changes but the work queue.
LEMMA NothingStep ==
    ASSUME SendType, SenderInv, Sender!WorkNothing("b"), SameBus
    PROVE  /\ SendType' /\ SameMessage /\ Snd' = Snd /\ mbox' = mbox /\ window' = window
           /\ \/ InRest /\ InRest'
              \/ InFf /\ InFf'
              \/ InWait(0) /\ InWait(0)'
              \/ InCfs /\ InCfs'
<1>1. /\ sctx' = sctx /\ scur' = scur /\ mbox' = mbox /\ window' = window /\ out' = out
      /\ calls' = calls /\ len' = len /\ report' = report
  BY DEF Sender!WorkNothing, Sender!appVars, Sender!hist
<1>2. Snd.state \in {"RESET", "WAIT_FC", "WAIT_BACKLOG"} /\ swq' = <<>>
  BY RunsB DEF Sender!WorkNothing
<1>3. SendType' /\ Snd' = Snd /\ Ctl' = Ctl /\ Win' = Win /\ Size' = Size /\ Snr' = Snr
  BY <1>1, <1>2 DEF SendType, Snd, Ctl, Win, Size, Snr, SameBus
<1>4. InRest \/ InFf \/ InWait(0) \/ InWait(1) \/ InLast
  BY <1>2 DEF SenderInv, InCfs, InNew, InCf, InSem, InGo, InSt, InEnd
<1>5. Busy => Busy'
  BY <1>1, <1>3 DEF Busy
<1>6. Sent => Sent'
  BY <1>1, <1>3, <1>5 DEF Sent
<1>7. CASE InRest
  <2>1. InRest'
    BY <1>1, <1>3, <1>7 DEF InRest
  <2> QED
    BY <1>1, <1>3, <1>7, <2>1 DEF SameMessage
<1>8. CASE InFf
  <2>1. InFf'
    BY <1>1, <1>3, <1>5, <1>8 DEF InFf, Placed, NextSn, Left
  <2> QED
    BY <1>1, <1>3, <1>8, <2>1 DEF SameMessage
<1>9. ASSUME NEW k \in {0, 1}, InWait(k) PROVE InWait(k)'
  BY <1>1, <1>3, <1>6, <1>9 DEF InWait, Pos, Placed, NextSn, Left
<1>10. CASE InLast
  <2>1. InLast'
    BY <1>1, <1>3, <1>6, <1>10 DEF InLast, Pos, Placed, NextSn, Left, Granted
  <2> QED
    BY <1>1, <1>3, <1>10, <2>1 DEF SameMessage, InCfs
<1> QED
  BY <1>1, <1>3, <1>4, <1>7, <1>8, <1>9, <1>10 DEF SameMessage, InCfs

\* The separation time is over: the work item is queued ...
LEMMA TimerGo ==
    ASSUME SendType, InGo \/ InSem(0) \/ InSem(1), Sender!Timeout("b"), SameBus
    PROVE  SendType' /\ InCfs' /\ SameMessage /\ Snd'.rem = Snd.rem /\ mbox' = mbox /\ window' = window
<1> DEFINE d == [Snd EXCEPT !.timer = FALSE]
<1>1. Snd \in SndRec /\ Snd.state = "SEND_CF"
  BY DEF SendType, Snd, InGo, InSem
<1>2. /\ d \in SndRec /\ d.alloc = Snd.alloc /\ d.msg = Snd.msg /\ d.state = "SEND_CF"
      /\ d.rem = Snd.rem /\ d.off = Snd.off /\ d.sn = Snd.sn /\ d.bs = Snd.bs
      /\ d.stmin = Snd.stmin /\ d.backlog = Snd.backlog /\ d.sem = Snd.sem /\ ~d.timer
  BY <1>1 DEF SndRec
<1>3. sctx' = [sctx EXCEPT !["b"] = d]
  BY <1>1, <1>2 DEF Sender!Timeout, Snd
<1>4. /\ scur' = scur /\ mbox' = mbox /\ window' = window /\ out' = out /\ SameMessage
      /\ swq' = <<"b">>
  BY SubmitOne DEF Sender!Timeout, Sender!appVars, Sender!hist, SameMessage, SendType
<1> HIDE DEF d
<1>5. Snd' = d /\ sctx' \in [{"b"} -> SndRec]
  BY <1>2, <1>3, NewSnd
<1>6. SendType'
  BY <1>4, <1>5, SameCtl DEF SendType, SameMessage
<1>7. ASSUME NEW k \in {0, 1}, InBlock(k) PROVE InBlock(k)'
  <2>1. InBlock(0) \/ InBlock(1)
    BY <1>7
  <2> QED
    BY <1>2, <1>4, <1>5, <1>7, <2>1, BlockKept
<1>8. CASE InGo
  <2>1. InBlock(0)'
    BY <1>7, <1>8 DEF InGo
  <2>2. InGo'
    BY <1>2, <1>4, <1>5, <1>8, <2>1 DEF InGo
  <2> QED
    BY <1>2, <1>4, <1>5, <1>6, <2>2 DEF InCfs
<1>9. ASSUME NEW k \in {0, 1}, InSem(k) PROVE InSem(k)'
  <2>1. InBlock(k)'
    BY <1>7, <1>9 DEF InSem
  <2> QED
    BY <1>2, <1>4, <1>5, <1>9, <2>1 DEF InSem
<1> QED
  BY <1>2, <1>4, <1>5, <1>6, <1>8, <1>9 DEF InCfs

\* ... or no flow-control frame has come.
LEMMA TimerBs ==
    ASSUME SendType, InWait(0), Sender!Timeout("b"), SameBus
    PROVE  SendType' /\ InEnd' /\ SameMessage /\ Snd'.rem = Snd.rem /\ mbox' = mbox /\ window' = window
<1> DEFINE d == [Snd EXCEPT !.timer = FALSE, !.state = "ERR", !.error = "TIMEOUT_BS"]
<1>1. /\ Snd \in SndRec /\ Snd.state = "WAIT_FC" /\ Sent /\ Ctl = <<>> /\ scur = Sender!Idle
      /\ Snd.alloc
  BY DEF SendType, Snd, InWait, Pos, Sent, Busy
<1>2. /\ d \in SndRec /\ d.alloc = Snd.alloc /\ d.msg = Snd.msg /\ d.state = "ERR"
      /\ d.error = "TIMEOUT_BS" /\ d.rem = Snd.rem
  BY <1>1, SndTypes DEF SndRec
<1>3. sctx' = [sctx EXCEPT !["b"] = d]
  <2>1. Sender!send_report_error([Snd EXCEPT !.timer = FALSE], "TIMEOUT_BS") = d
    BY <1>1 DEF Sender!send_report_error, SndRec
  <2>2. [Snd EXCEPT !.timer = FALSE].state = "WAIT_FC"
    BY <1>1 DEF SndRec
  <2> QED
    BY <2>1, <2>2 DEF Sender!Timeout, Snd
<1>4. /\ scur' = scur /\ mbox' = mbox /\ window' = window /\ out' = out /\ SameMessage
      /\ swq' = <<"b">>
  BY SubmitOne DEF Sender!Timeout, Sender!appVars, Sender!hist, SameMessage, SendType
<1> HIDE DEF d
<1>5. Snd' = d /\ sctx' \in [{"b"} -> SndRec]
  BY <1>2, <1>3, NewSnd
<1>6. SendType' /\ Ctl' = <<>>
  BY <1>1, <1>4, <1>5, SameCtl DEF SendType, SameMessage, Ctl
<1>7. Sent'
  <2>1. out'[calls] # <<>>
    BY <1>1, <1>4 DEF Sent
  <2> QED
    BY <1>1, <1>2, <1>4, <1>5, <2>1, SentKept
<1>8. InEnd'
  BY <1>1, <1>2, <1>4, <1>5, <1>6, <1>7 DEF InEnd
<1> QED
  BY <1>2, <1>4, <1>5, <1>6, <1>8

\* A timer of the sender fires.
LEMMA TimerCases ==
    ASSUME SendType, SenderInv, Sender!Timeout("b"), SameBus, Snd.state = "SEND_CF" \/ Quiet
    PROVE  /\ SendType' /\ SameMessage /\ Snd'.rem = Snd.rem /\ mbox' = mbox /\ window' = window
           /\ \/ InCfs /\ InCfs'
              \/ InWait(0) /\ InEnd' /\ Quiet
<1>1. Snd.timer /\ ~InCf
  BY DEF Sender!Timeout, Snd, Sender!IsrAllowed, InCf
<1>2. CASE Snd.state = "SEND_CF"
  <2>1. InSem(0) \/ InSem(1) \/ InGo
    BY <1>1, <1>2 DEF SenderInv, InCfs, InRest, InNew, InFf, InWait, InSt, InLast, InEnd
  <2> QED
    BY <2>1, TimerGo DEF InCfs
<1>3. CASE Quiet /\ Snd.state # "SEND_CF"
  <2>1. Ctl = <<>> /\ swq = <<>>
    BY <1>3 DEF Quiet, Ctl
  <2>2. InWait(0)
    BY <1>1, <1>3, <2>1 DEF SenderInv, InCfs, InRest, InNew, InFf, InWait, InSem, InGo, InSt, InLast,
                            InEnd, Pos
  <2> QED
    BY <1>3, <2>2, TimerBs
<1> QED
  BY <1>2, <1>3

\* A message of one frame: it is on the bus at once.
SfFrame(l) == [type |-> "SF", sn |-> 0, msg |-> calls + 1, off |-> 0, n |-> l, len |-> l]

\* Its step.
LEMMA ShortStep ==
    ASSUME SendType, TypeInv, InRest, NEW l \in Lengths, Sender!SendSf("b", l), OnBus(SfFrame(l))
    PROVE  /\ SendType' /\ InRest' /\ Snd' = Snd /\ mbox' = mbox /\ window' = window /\ l <= SfMax
           /\ calls < MaxMsgs /\ calls' = calls + 1 /\ len' = len /\ calls = Snr.msg /\ calls \in Nat
           /\ report' = [report EXCEPT ![calls + 1] = Append(@, "OK")]
           /\ Snr' = [msg |-> calls + 1, len |-> l, i |-> 2, open |-> 0]
<1>1. calls \in 0 .. MaxMsgs /\ calls < MaxMsgs /\ l <= SfMax /\ calls' = calls + 1 /\ calls = Snr.msg
  BY SenderData DEF SendType, Sender!SendSf, Sender!MayCall, InRest
<1>2. /\ sctx' = sctx /\ swq' = swq /\ scur' = scur /\ mbox' = mbox /\ window' = window /\ out' = out
      /\ len' = len
  BY DEF Sender!SendSf, Sender!hist
<1>3. report' = [report EXCEPT ![calls + 1] = Append(@, "OK")]
  <2>1. PICK r \in Sender!CanSendResults :
           report' = [report EXCEPT ![calls + 1] = Append(@, IF r = "ok" THEN "OK" ELSE "ERROR")]
    BY DEF Sender!SendSf
  <2> QED
    BY <2>1, SendsOk
<1>4. report' \in [0 .. MaxMsgs -> Seq(Sender!Errors)]
  <2>1. calls + 1 \in 0 .. MaxMsgs
    BY <1>1, LinkTypes
  <2>2. report[calls + 1] \in Seq(Sender!Errors) /\ "OK" \in Sender!Errors
    BY <2>1, SndTypes DEF SendType
  <2>3. Append(report[calls + 1], "OK") \in Seq(Sender!Errors)
    BY <2>2
  <2> QED
    BY <1>3, <2>1, <2>3 DEF SendType
<1>5. SendType' /\ Snd' = Snd
  <2>1. calls' \in 0 .. MaxMsgs
    BY <1>1, LinkTypes
  <2> QED
    BY <1>2, <1>4, <2>1 DEF SendType, Snd
<1> DEFINE f == SfFrame(l)
<1>6. f.type = "SF" /\ f.msg = calls + 1 /\ f.len = l
  BY DEF SfFrame
<1>7. Snr' = [msg |-> calls + 1, len |-> l, i |-> 2, open |-> 0]
  <2> HIDE DEF f
  <2> QED
    BY <1>6, BusStep DEF f
<1>8. InRest'
  BY <1>1, <1>2, <1>5, <1>7 DEF InRest, Ctl
<1> QED
  BY <1>1, <1>2, <1>3, <1>5, <1>7, <1>8

\* The work queue of node a: what it has under way goes from one part to the next.
KeepsComing ==
    /\ InCtl \in {0, 1} /\ InCtl' \in {0, 1}
    /\ (Win' = 0 /\ InCtl' = 0) \/ (Coming' = Coming /\ Outstanding' = Outstanding)

\* A consecutive frame goes from the context into the controller.
LEMMA CfHanded ==
    ASSUME SendType, Sent, Ctl = <<>>, SameMessage, Snr.i <= NumSegs(Size),
           Ctl' = <<Segment(calls, Size, Snr.i)>>, Win' = Win - 1, Snd'.rem = Snd.rem - SegLen(Size, Snr.i)
    PROVE  KeepsComing
<1> DEFINE f == Segment(calls, Size, Snr.i)
<1>1. /\ calls \in Nat /\ Size \in Nat /\ Size > SfMax /\ Snr.i \in Nat /\ Snr.i >= 2 /\ Snd \in SndRec
  BY SentTypes
<1>2. f.type = "CF" /\ f.n = SegLen(Size, Snr.i)
  <2>1. f = [type |-> "CF", sn |-> (Snr.i - 1) % SN_MOD, msg |-> calls,
             off |-> SegOff(Snr.i), n |-> SegLen(Size, Snr.i), len |-> 0]
    BY <1>1, SegmentIs
  <2> HIDE DEF f
  <2> QED
    BY <2>1
<1>3. SegLen(Size, Snr.i) \in Int
  BY <1>1, LeftNext
<1>4. Snd.rem \in Int /\ Win \in Int
  BY <1>1, SndFields DEF SendType, Win
<1> HIDE DEF f
<1>5. InCtl = 0 /\ InCtl' = 1 /\ Ctl'[1] = f
  BY <1>2 DEF InCtl, f
<1> QED
  BY <1>2, <1>3, <1>4, <1>5 DEF KeepsComing, Coming, Outstanding

\* Neither has changed.
LEMMA SameComing ==
    ASSUME SendType, mbox' = mbox, window' = window, Snd'.rem = Snd.rem
    PROVE  KeepsComing
<1>1. Ctl' = Ctl /\ Win' = Win
  BY DEF Ctl, Win
<1> QED
  BY <1>1 DEF KeepsComing, Coming, Outstanding, InCtl

\* How the work queue takes a message from one part of its way to the next.
OnItsWay ==
    \/ InRest /\ InRest' /\ SameMessage
    \/ (InNew \/ InFf) /\ InFf' /\ SameMessage
    \/ InWait(0) /\ InWait(0)' /\ SameMessage /\ Snd' = Snd
    \/ InCfs /\ InCfs' /\ SameMessage
    \/ /\ InEnd /\ InRest' /\ calls' = calls /\ len' = len
       /\ report' = [report EXCEPT ![calls] = Append(@, IF Snd.state = "ERR" THEN Snd.error ELSE "OK")]

\* Before its next consecutive frame the controller is empty and the frame exists.
LEMMA NextCf ==
    ASSUME SendType, InBlock(0)
    PROVE  Sent /\ Ctl = <<>> /\ Snr.i <= NumSegs(Size)
<1>1. Sent /\ Ctl = <<>> /\ Snd.rem = Left(Size, Snr.i) /\ Snd.rem > 0
  BY DEF InBlock, Pos, Placed
<1>2. Size \in Nat /\ Size > SfMax /\ Snr.i \in Nat /\ Snr.i >= 2 /\ NumSegs(Size) \in Nat
  BY <1>1, SentTypes
<1>3. Left(Size, Snr.i) = 0 <=> Snr.i > NumSegs(Size)
  BY <1>2, LeftNext
<1> QED
  BY <1>1, <1>2, <1>3

\* One step of the work queue of node a.
LEMMA WorkerCases ==
    ASSUME SendType, SenderInv, Sender!Worker, SameBus
    PROVE  SendType' /\ KeepsComing /\ OnItsWay
<1>1. CASE Sender!FinishFf
  <2>1. InFf
    BY <1>1 DEF Sender!FinishFf, SenderInv, InCfs, InRest, InNew, InWait, InCf, InSem, InGo, InSt,
                InLast, InEnd, Sender!Idle
  <2>2. SendType' /\ InFf' /\ SameMessage
    BY <1>1, <2>1, FinishFfStep
  <2>3. InCtl = 0 /\ InCtl' = 0 /\ Win' = 0
    <3>1. Segment(calls, Size, 1).type = "FF"
      BY DEF Segment
    <3>2. mbox' = mbox
      BY <1>1 DEF Sender!FinishFf
    <3> QED
      BY <2>1, <2>2, <3>1, <3>2 DEF InFf, InCtl, Ctl
  <2> QED
    BY <2>1, <2>2, <2>3 DEF KeepsComing, OnItsWay
<1>2. CASE Sender!FinishCf
  <2>1. InCf
    BY <1>2 DEF Sender!FinishCf, SenderInv, InCfs, InRest, InNew, InFf, InWait, InSem, InGo, InSt,
                InLast, InEnd, Sender!Idle
  <2>2. /\ SendType' /\ (InLast' \/ InWait(1)' \/ InSt(1)' \/ InSem(1)') /\ SameMessage
        /\ Snd'.rem = Snd.rem /\ mbox' = mbox /\ window' = window
    BY <1>2, <2>1, FinishCfStep
  <2>3. KeepsComing
    BY <2>2, SameComing
  <2> QED
    BY <2>1, <2>2, <2>3 DEF OnItsWay, InCfs
<1>3. CASE Sender!TakeSem
  <2>1. InSem(0)
    BY <1>3 DEF Sender!TakeSem, SenderInv, InCfs, InRest, InNew, InFf, InWait, InCf, InSem, InGo, InSt,
                InLast, InEnd, Sender!Idle, Snd
  <2>2. /\ SendType' /\ InCf' /\ SameMessage /\ Win' = Win - 1 /\ Snr' = Snr
        /\ Snd'.rem = Snd.rem - SegLen(Size, Snr.i)
    BY <1>3, <2>1, TakeSemStep
  <2>3. KeepsComing
    <3>1. Sent /\ Ctl = <<>> /\ Snr.i <= NumSegs(Size)
      BY <2>1, NextCf DEF InSem
    <3>2. Ctl' = <<Segment(calls, Size, Snr.i)>>
      BY <2>2 DEF InCf, SameMessage, Size
    <3> QED
      BY <2>2, <3>1, <3>2, CfHanded
  <2> QED
    BY <2>1, <2>2, <2>3 DEF OnItsWay, InCfs
<1>4. CASE Sender!WorkSendFf("b")
  <2>1. InNew
    <3>1. Snd.state = "SEND_FF" /\ scur = Sender!Idle
      BY <1>4, RunsB DEF Sender!WorkSendFf
    <3> QED
      BY <3>1 DEF SenderInv, InCfs, InRest, InFf, InWait, InCf, InSem, InGo, InSt, InLast, InEnd,
                  InBlock, Sender!Idle
  <2>2. SendType' /\ InFf' /\ SameMessage
    BY <1>4, <2>1, SendFfStep
  <2>3. InCtl = 0 /\ InCtl' = 0 /\ Win' = 0
    <3>1. Segment(calls', Size', 1).type = "FF"
      BY DEF Segment
    <3> QED
      BY <2>1, <2>2, <3>1 DEF InNew, InFf, InCtl
  <2> QED
    BY <2>1, <2>2, <2>3 DEF KeepsComing, OnItsWay
<1>5. CASE Sender!WorkSendCf("b")
  <2>1. InGo
    <3>1. Snd.state = "SEND_CF" /\ scur = Sender!Idle
      BY <1>5, RunsB DEF Sender!WorkSendCf
    <3> QED
      BY <3>1 DEF SenderInv, InCfs, InRest, InNew, InFf, InWait, InCf, InSem, InSt, InLast, InEnd,
                  Sender!Idle
  <2>2. /\ SendType' /\ InCf' /\ SameMessage /\ Win' = Win - 1 /\ Snr' = Snr
        /\ Snd'.rem = Snd.rem - SegLen(Size, Snr.i)
    BY <1>5, <2>1, WorkCfStep
  <2>3. KeepsComing
    <3>1. Sent /\ Ctl = <<>> /\ Snr.i <= NumSegs(Size)
      BY <2>1, NextCf DEF InGo
    <3>2. Ctl' = <<Segment(calls, Size, Snr.i)>>
      BY <2>2 DEF InCf, SameMessage, Size
    <3> QED
      BY <2>2, <3>1, <3>2, CfHanded
  <2> QED
    BY <2>1, <2>2, <2>3 DEF OnItsWay, InCfs
<1>6. CASE Sender!WorkWaitSt("b")
  <2>1. InSt(0)
    <3>1. Snd.state = "WAIT_ST" /\ swq # <<>>
      BY <1>6, RunsB DEF Sender!WorkWaitSt
    <3> QED
      BY <3>1 DEF SenderInv, InCfs, InRest, InNew, InFf, InWait, InCf, InSem, InGo, InSt, InLast, InEnd
  <2>2. /\ SendType' /\ InGo' /\ SameMessage /\ Snd'.rem = Snd.rem /\ mbox' = mbox
        /\ window' = window
    BY <1>6, <2>1, WaitStStep
  <2>3. KeepsComing
    BY <2>2, SameComing
  <2> QED
    BY <2>1, <2>2, <2>3 DEF OnItsWay, InCfs
<1>7. CASE Sender!WorkFinish("b")
  <2>1. InEnd
    <3>1. Snd.state \in {"ERR", "WAIT_FIN"} /\ scur = Sender!Idle
      BY <1>7, RunsB DEF Sender!WorkFinish
    <3> QED
      BY <3>1 DEF SenderInv, InCfs, InRest, InNew, InFf, InWait, InCf, InSem, InGo, InSt, InLast,
                  InBlock, Sender!Idle
  <2>2. /\ SendType' /\ InRest' /\ Snd'.rem = Snd.rem /\ mbox' = mbox /\ window' = window
        /\ calls' = calls /\ len' = len
        /\ report' = [report EXCEPT ![calls] =
                         Append(@, IF Snd.state = "ERR" THEN Snd.error ELSE "OK")]
    BY <1>7, <2>1, WorkFinishStep
  <2>3. KeepsComing
    BY <2>2, SameComing
  <2> QED
    BY <2>1, <2>2, <2>3 DEF OnItsWay
<1>8. CASE Sender!WorkNothing("b")
  <2>1. /\ SendType' /\ SameMessage /\ Snd' = Snd /\ mbox' = mbox /\ window' = window
        /\ \/ InRest /\ InRest'
           \/ InFf /\ InFf'
           \/ InWait(0) /\ InWait(0)'
           \/ InCfs /\ InCfs'
    BY <1>8, NothingStep
  <2>2. KeepsComing
    BY <2>1, SameComing
  <2> QED
    BY <2>1, <2>2 DEF OnItsWay
<1> QED
  BY <1>1, <1>2, <1>3, <1>4, <1>5, <1>6, <1>7, <1>8 DEF Sender!Worker, Sender!Work

-----------------------------------------------------------------------------
(* The receiver's invariant: what a step leaves alone *)

\* The parts of the sender's way are apart.
LEMMA WaitOnly ==
    InWait(0) => ~InRest /\ ~InNew /\ ~InFf /\ ~InCfs /\ ~InEnd
<1> SUFFICES ASSUME InWait(0) PROVE ~InRest /\ ~InNew /\ ~InFf /\ ~InCfs /\ ~InEnd
  OBVIOUS
<1>1. Snd.state = "WAIT_FC" /\ Snd.alloc /\ Ctl = <<>>
  BY DEF InWait, Pos, Sent, Busy
<1>2. ~InWait(1) /\ ~InFf
  BY <1>1 DEF InWait, InFf, Pos
<1> QED
  BY <1>1, <1>2 DEF InRest, InNew, InCfs, InCf, InSem, InGo, InSt, InLast, InEnd

\* While no flow-control frame is due, the work queue of node b is not sending one.
LEMMA NoneDue ==
    ASSUME ReceiverInv, ~FcDue
    PROVE  /\ rx.fc = <<>> /\ cur = Idle
           /\ \A b \in Blocks : rx.ctx[b].state \notin {"PROCESS_FF", "TRY_ALLOC", "SEND_FC"}
<1>1. rx.fc = <<>> /\ \A b \in Blocks : ~OwesFc(b)
  BY DEF FcDue
<1>2. cur = Idle
  BY <1>1 DEF ReceiverInv, CurInv
<1>3. \A b \in Blocks : rx.ctx[b].state # "SEND_FC"
  <2>1. ASSUME NEW b \in Blocks, rx.ctx[b].state = "SEND_FC" PROVE FALSE
    <3>1. cur = [pc |-> "fc", b |-> b, to |-> "WAIT_CF"]
      BY <2>1 DEF ReceiverInv, CtxInv
    <3> QED
      BY <1>2, <3>1 DEF Idle
  <2> QED
    BY <2>1
<1> QED
  BY <1>1, <1>2, <1>3 DEF OwesFc

\* A context that is not listed and stays as it is.
LEMMA UnlistedKept ==
    ASSUME NEW c \in Blocks, CtxInv(c), CurInv, c \notin rx.list, c \notin rx'.list,
           rx'.ctx[c] = rx.ctx[c]
    PROVE  CtxInv(c)'
<1>1. rx.ctx[c].state # "SEND_FC"
  <2>1. SUFFICES ASSUME rx.ctx[c].state = "SEND_FC" PROVE FALSE
    OBVIOUS
  <2>2. cur = [pc |-> "fc", b |-> c, to |-> "WAIT_CF"]
    BY <2>1 DEF CtxInv
  <2>3. cur # Idle /\ cur.b = c
    BY <2>2 DEF Idle
  <2>4. PICK b \in Blocks : cur = [pc |-> "fc", b |-> b, to |-> "WAIT_CF"] /\ b \in rx.list
    BY <2>3 DEF CurInv
  <2>5. cur.b = b
    BY <2>4
  <2> QED
    BY <2>3, <2>4, <2>5
<1> QED
  BY <1>1 DEF CtxInv, OwesFc

\* A listed context that stays as it is, while the sender does too.
LEMMA ListedKept ==
    ASSUME NEW c \in Blocks, CtxInv(c), c \in rx'.list <=> c \in rx.list,
           rx'.ctx[c] = rx.ctx[c], rx'.fc = rx.fc, cur' = cur, Queued(c) => Queued(c)',
           Snd'.rem = Snd.rem, Coming' = Coming, Outstanding' = Outstanding
    PROVE  CtxInv(c)'
  BY DEF CtxInv, OwesFc

\* All but the context a step is about, when that is the one that is listed.
LEMMA OthersKept ==
    ASSUME ReceiverInv, rx.list \subseteq Blocks, NEW b \in Blocks, b \in rx.list \/ rx.list = {},
           Apart(rx, rx', b), rx'.list \ {b} = rx.list \ {b}, CtxInv(b)'
    PROVE  /\ \A c \in Blocks : CtxInv(c)'
           /\ \A c, d \in rx'.list : c = d
<1>1. ASSUME NEW c \in Blocks, c # b PROVE c \notin rx.list /\ c \notin rx'.list /\ CtxInv(c)'
  <2>1. c \notin rx.list /\ c \notin rx'.list
    BY <1>1 DEF ReceiverInv
  <2>2. rx'.ctx[c] = rx.ctx[c]
    BY <1>1 DEF Apart
  <2> QED
    BY <2>1, <2>2, UnlistedKept DEF ReceiverInv
<1>2. rx'.list \subseteq {b}
  <2>1. ASSUME NEW c \in rx'.list, c # b PROVE FALSE
    <3>1. c \in rx.list
      BY <2>1
    <3> QED
      BY <1>1, <2>1, <3>1
  <2> QED
    BY <2>1
<1> QED
  BY <1>1, <1>2

\* A step of node a alone.
LEMMA SenderOnly ==
    ASSUME TypeInv, ReceiverInv, UNCHANGED recvVars, KeepsComing,
           FcDue => InWait(0)' /\ Snd'.rem = Snd.rem
    PROVE  ReceiverInv'
<1>1. env' = env /\ rx' = rx /\ wq' = wq /\ cur' = cur
  BY DEF recvVars
<1>2. FcDue' <=> FcDue
  BY <1>1 DEF FcDue, OwesFc
<1>3. ASSUME NEW b \in Blocks PROVE CtxInv(b)'
  <2>1. CtxInv(b) /\ (Queued(b) <=> Queued(b)') /\ (OwesFc(b) <=> OwesFc(b)')
    BY <1>1 DEF ReceiverInv, Queued, OwesFc
  <2>2. rx.ctx[b].bs \in Int
    BY DEF TypeInv, Good, RxRec, Ctx, Bytes
  <2>3. CASE FcDue /\ rx.fc # <<>>
    BY <1>1, <2>1, <2>3 DEF CtxInv
  <2>4. CASE FcDue /\ rx.fc = <<>>
    <3>1. Snd'.rem = Snd.rem
      BY <2>4
    <3>2. (Win' = 0 /\ InCtl' = 0) \/ (Coming' = Coming /\ Outstanding' = Outstanding)
      BY DEF KeepsComing
    <3>3. Win' = 0 /\ InCtl' = 0 => Coming' = 0
      BY DEF Coming
    <3> QED
      BY <1>1, <2>2, <2>1, <2>4, <3>1, <3>2, <3>3 DEF CtxInv
  <2>5. CASE ~FcDue
    <3>1. rx.fc = <<>> /\ rx.ctx[b].state \notin {"PROCESS_FF", "TRY_ALLOC", "SEND_FC"}
      BY <2>5, NoneDue
    <3>2. (Win' = 0 /\ InCtl' = 0) \/ (Coming' = Coming /\ Outstanding' = Outstanding)
      BY DEF KeepsComing
    <3>3. Win' = 0 /\ InCtl' = 0 => Coming' = 0
      BY DEF Coming
    <3> QED
      BY <1>1, <2>2, <2>1, <3>1, <3>2, <3>3 DEF CtxInv, OwesFc
  <2> QED
    BY <2>3, <2>4, <2>5
<1> QED
  BY <1>1, <1>2, <1>3 DEF ReceiverInv, FcShape, CurInv

-----------------------------------------------------------------------------
(* The receiver's own steps *)

\* The reception in b is over.
Ended(S, T, b) ==
    /\ Good(T) /\ Apart(S, T, b) /\ T.list = S.list \ {b} /\ T.head = b /\ T.aliased = S.aliased
    /\ T.ctx[b].state = "UNBOUND" /\ T.ctx[b].timer = FALSE /\ T.ctx[b].bufs = 0

\* ISOTP_RX_STATE_RECYCLE.
LEMMA RecycleEnds ==
    ASSUME NEW S, Good(S), NEW b \in Blocks, Named(S, b)
    PROVE  /\ Ended(S, Recycle(S, b), b) /\ Recycle(S, b).fc = S.fc /\ Recycle(S, b).errs = S.errs
           /\ Recycle(S, b).got = [S.got EXCEPT ![S.ctx[b].addr] = Append(@, Given(S, b))]
<1> DEFINE T == Recycle(S, b)
<1>1. Good(T) /\ Recycled(S, T, b)
  BY RecycleGood
<1> HIDE DEF T
<1>2. Ended(S, T, b) /\ T.fc = S.fc /\ T.errs = S.errs
  BY <1>1 DEF Recycled, Returned, Ended
<1>3. T.got = [S.got EXCEPT ![S.ctx[b].addr] = Append(@, Given(S, b))]
  BY <1>1 DEF Recycled
<1> QED
  BY <1>2, <1>3 DEF T

\* The error path.
LEMMA ErrorEnds ==
    ASSUME NEW S, Good(S), NEW b \in Blocks, Named(S, b)
    PROVE  LET T == ErrorPath(S, b, TRUE) IN
           /\ Ended(S, T, b)
           /\ T.fc = IF S.ctx[b].error = "BUFFER_OVERFLW"
                     THEN Append(S.fc, [ctx |-> b, to |-> S.ctx[b].addr, fs |-> "OVFLW"]) ELSE S.fc
<1> DEFINE U == [S EXCEPT !.errs[S.ctx[b].addr] = Append(@, S.ctx[b].error), !.ctx[b].timer = FALSE]
           V == IF S.ctx[b].error = "BUFFER_OVERFLW" THEN receive_send_fc(U, b, "OVFLW", TRUE) ELSE U
           W == free_recv_ctx(V, b)
           T == Recycle(W, b)
           g == [ctx |-> b, to |-> S.ctx[b].addr, fs |-> "OVFLW"]
<1>1. ErrorPath(S, b, TRUE) = T
  BY DEF ErrorPath
<1>2. /\ Good(U) /\ SameAddr(S, U) /\ Only(S, U, b) /\ U.fc = S.fc /\ SameSlab(S, U)
  BY ErrsGood
<1> HIDE DEF U
<1>3. Named(U, b) /\ U.ctx[b].addr = S.ctx[b].addr
  BY <1>2 DEF Named, SameAddr
<1>4. /\ Good(V) /\ SameAddr(U, V) /\ V.ctx = U.ctx /\ SameSlab(U, V)
      /\ V.fc = IF S.ctx[b].error = "BUFFER_OVERFLW" THEN Append(S.fc, g) ELSE S.fc
  <2>1. CASE S.ctx[b].error = "BUFFER_OVERFLW"
    <3>1. V = receive_send_fc(U, b, "OVFLW", TRUE)
      BY <2>1
    <3> HIDE DEF V
    <3>2. Good(V) /\ FcEffect(U, V, b, "OVFLW", TRUE)
      BY <1>2, <1>3, <3>1, FcGood
    <3> QED
      BY <1>2, <1>3, <2>1, <3>2 DEF FcEffect
  <2>2. CASE S.ctx[b].error # "BUFFER_OVERFLW"
    <3>1. V = U
      BY <2>2
    <3> HIDE DEF V
    <3> QED
      BY <1>2, <2>2, <3>1 DEF SameAddr, SameSlab
  <2> QED
    BY <2>1, <2>2
<1> HIDE DEF V, g
<1>5. /\ Good(W) /\ SameAddr(V, W) /\ Apart(V, W, b) /\ Returned(V, W, b) /\ W.fc = V.fc
  BY <1>4, FreeGood
<1> HIDE DEF W
<1>6. Named(W, b)
  BY <1>3, <1>4, <1>5 DEF Named, SameAddr
<1>7. Ended(W, T, b) /\ T.fc = W.fc
  BY <1>5, <1>6, RecycleEnds
<1> HIDE DEF T
<1>8. Ended(S, T, b)
  BY <1>2, <1>4, <1>5, <1>7 DEF Ended, Only, Apart, SameSlab, Returned
<1> QED
  BY <1>1, <1>4, <1>5, <1>7, <1>8 DEF g

\* A node that does nothing.
LEMMA SenderStill ==
    ASSUME UNCHANGED sendVars
    PROVE  /\ Snd' = Snd /\ Ctl' = Ctl /\ Win' = Win /\ Coming' = Coming /\ Outstanding' = Outstanding
           /\ SendType => SendType'
           /\ peer' = peer => /\ InWait(0)' <=> InWait(0)
                              /\ SenderInv => SenderInv'
<1>1. /\ sctx' = sctx /\ swq' = swq /\ scur' = scur /\ mbox' = mbox /\ calls' = calls /\ len' = len
      /\ report' = report /\ out' = out /\ window' = window
  BY DEF sendVars
<1>2. Snd' = Snd /\ Ctl' = Ctl /\ Win' = Win /\ Size' = Size
  BY <1>1 DEF Snd, Ctl, Win, Size
<1>3. Coming' = Coming /\ Outstanding' = Outstanding
  BY <1>2 DEF Coming, Outstanding, InCtl
<1>4. SendType => SendType'
  BY <1>1 DEF SendType
<1>5. ASSUME peer' = peer
      PROVE  (InWait(0)' <=> InWait(0)) /\ (SenderInv => SenderInv')
  <2>1. Snr' = Snr
    BY <1>5 DEF Snr
  <2>2. /\ InRest' <=> InRest
        /\ InNew' <=> InNew
        /\ InFf' <=> InFf
        /\ InEnd' <=> InEnd
    BY <1>1, <1>2, <2>1 DEF InRest, InNew, InFf, InEnd, Busy, Sent, Placed, NextSn, Left
  <2>3. \A k \in {0, 1} : /\ InWait(k)' <=> InWait(k)
                          /\ InSem(k)' <=> InSem(k)
                          /\ InSt(k)' <=> InSt(k)
    BY <1>1, <1>2, <2>1 DEF InWait, InSem, InSt, InBlock, Busy, Sent, Pos, Placed, NextSn, Left, Granted
  <2>4. /\ InCf' <=> InCf
        /\ InGo' <=> InGo
        /\ InLast' <=> InLast
    BY <1>1, <1>2, <2>1 DEF InCf, InGo, InLast, InBlock, Busy, Sent, Pos, Placed, NextSn, Left, Granted
  <2> QED
    BY <2>2, <2>3, <2>4 DEF SenderInv, InCfs
<1> QED
  BY <1>2, <1>3, <1>4, <1>5

\* What the link fixes for node b.
LEMMA LinkFacts ==
    ASSUME TypeInv, ReceiverInv
    PROVE  /\ RxBs = OPTS_BS /\ CanSendResults = {TRUE} /\ (IsrAllowed => cur = Idle)
           /\ "slow" \notin Faults /\ "fctxerr" \notin Faults /\ "preempt" \notin Faults
           /\ rx.list \subseteq Blocks /\ wq \in Seq(Blocks) /\ Good(rx)
           /\ \A b \in Blocks : rx.ctx[b] \in Ctx /\ rx.ctx[b].bs \in Nat /\ rx.ctx[b].rem \in Nat
           /\ \A b \in Blocks : Named(rx, b) => rx.ctx[b].addr = "a"
           /\ \A b \in rx.list : Named(rx, b) /\ CtxOf("a") = {b}
           /\ OPTS_BS \in Nat
<1>1. env.bs = OPTS_BS /\ env.faults \in {{}, {"loss", "abort", "b2b"}}
  BY DEF ReceiverInv, Links, RxEnv
<1>2. \A b \in Blocks : rx.ctx[b] \in Ctx /\ rx.ctx[b].bs \in Nat /\ rx.ctx[b].rem \in Nat
  BY LinkTypes DEF TypeInv, Good, RxRec, Ctx, Bytes
<1>3. Good(rx) /\ rx.list \subseteq Blocks /\ \A b \in rx.list : Named(rx, b)
  BY DEF TypeInv, Good, RxRec
<1>4. \A b \in Blocks : Named(rx, b) => rx.ctx[b].addr = "a"
  BY LinkTypes DEF Named
<1>5. \A b \in rx.list : CtxOf("a") = {b}
  BY <1>3, <1>4 DEF CtxOf, ReceiverInv
<1> QED
  BY <1>1, <1>2, <1>3, <1>4, <1>5, LinkTypes DEF TypeInv, RxBs, Faults, CanSendResults, IsrAllowed

\* The work queue without its head.
LEMMA TailQueued ==
    ASSUME wq \in Seq(Blocks), wq # <<>>, wq' = Tail(wq), NEW c \in Blocks, c # Head(wq), Queued(c)
    PROVE  Queued(c)'
<1>1. PICK k \in DOMAIN wq : wq[k] = c
  BY DEF Queued
<1>2. k \in 2 .. Len(wq) /\ k - 1 \in DOMAIN Tail(wq) /\ Tail(wq)[k - 1] = wq[k]
  BY <1>1
<1> QED
  BY <1>1, <1>2 DEF Queued

\* One run of the work queue's thread.
Ran(b) == /\ cur = Idle /\ wq \in Seq(Blocks) /\ wq # <<>> /\ b = Head(wq) /\ wq' = Tail(wq)
          /\ UNCHANGED <<env, peer>> /\ UNCHANGED sendVars

\* A reception ends.
LEMMA EndKeeps ==
    ASSUME TypeInv, ReceiverInv, NEW b \in Blocks, Ran(b), cur' = cur, Ended(rx, rx', b),
           rx'.fc = rx.fc \/ (OwesFc(b) /\ rx'.fc = <<[ctx |-> b, to |-> "a", fs |-> "OVFLW"]>>)
    PROVE  ReceiverInv'
<1>1. /\ Snd' = Snd /\ Coming' = Coming /\ Outstanding' = Outstanding /\ (InWait(0)' <=> InWait(0))
  BY SenderStill DEF Ran
<1>2. CtxInv(b)'
  BY DEF Ended, CtxInv, OwesFc
<1>3. ASSUME NEW c \in Blocks, c # b PROVE CtxInv(c)'
  <2>1. CtxInv(c) /\ rx'.ctx[c] = rx.ctx[c] /\ (c \in rx'.list <=> c \in rx.list) /\ CurInv
    BY <1>3 DEF ReceiverInv, Ended, Apart
  <2>2. CASE rx'.fc = rx.fc
    <3>1. Queued(c) => Queued(c)'
      BY <1>3, TailQueued DEF Ran
    <3> QED
      BY <1>1, <2>1, <2>2, <3>1, ListedKept
  <2>3. CASE OwesFc(b)
    <3>1. c \notin rx.list
      BY <1>3, <2>3 DEF ReceiverInv, CtxInv
    <3> QED
      BY <2>1, <3>1, UnlistedKept
  <2> QED
    BY <2>2, <2>3
<1>4. \A c \in Blocks : CtxInv(c)'
  BY <1>2, <1>3
<1>5. FcDue' => FcDue
  <2>1. ASSUME NEW c \in Blocks, OwesFc(c)' PROVE FcDue
    <3>1. c # b
      BY <2>1 DEF OwesFc, Ended
    <3>2. OwesFc(c)
      BY <2>1, <3>1 DEF OwesFc, Ended, Apart
    <3> QED
      BY <3>2 DEF FcDue
  <2>2. rx'.fc # <<>> => FcDue
    BY DEF FcDue
  <2> QED
    BY <2>1, <2>2 DEF FcDue
<1>6. FcShape'
  BY DEF FcShape, ReceiverInv
<1>7. CurInv' /\ env' = env
  BY DEF CurInv, Ran
<1>8. /\ ~rx'.aliased /\ (\A c, d \in rx'.list : c = d) /\ rx'.head # Nil
  BY DEF ReceiverInv, Ended, Nil, Blocks
<1> QED
  BY <1>1, <1>4, <1>5, <1>6, <1>7, <1>8 DEF ReceiverInv

\* A flow-control frame is handed to the controller.
LEMMA CtsKeeps ==
    ASSUME TypeInv, ReceiverInv, NEW b \in Blocks, Ran(b), OwesFc(b), NEW d \in Ctx,
           Kept(rx.ctx[b], d), d.state = "SEND_FC", OPTS_BS # 0 => d.bs = OPTS_BS,
           Good(rx'), SameSlab(rx, rx'), Apart(rx, rx', b), rx'.ctx[b] = d,
           rx'.fc = Append(rx.fc, [ctx |-> b, to |-> "a", fs |-> "CTS"]),
           cur' = [pc |-> "fc", b |-> b, to |-> "WAIT_CF"]
    PROVE  ReceiverInv'
<1>1. /\ Snd' = Snd /\ Coming' = Coming /\ Outstanding' = Outstanding /\ (InWait(0)' <=> InWait(0))
  BY SenderStill DEF Ran
<1>2. /\ b \in rx.list /\ rx.fc = <<>> /\ d.rem = Snd.rem /\ InWait(0)
  BY DEF ReceiverInv, CtxInv, OwesFc, Kept, FcDue
<1>3. rx'.fc = <<[ctx |-> b, to |-> "a", fs |-> "CTS"]>>
  BY <1>2
<1>4. rx'.list = rx.list /\ rx'.aliased = rx.aliased
  BY DEF SameSlab
<1>5. CtxInv(b)'
  BY <1>1, <1>2, <1>3, <1>4 DEF CtxInv, OwesFc
<1>6. rx.list \subseteq Blocks
  BY LinkFacts
<1>7. (\A c \in Blocks : CtxInv(c)') /\ \A c, e \in rx'.list : c = e
  BY <1>2, <1>4, <1>5, <1>6, OthersKept
<1>8. FcShape' /\ CurInv'
  BY <1>2, <1>3, <1>4 DEF FcShape, CurInv
<1> QED
  BY <1>1, <1>2, <1>4, <1>7, <1>8 DEF ReceiverInv, Ran

\* The thread has sent it.
LEMMA FinishKeeps ==
    ASSUME TypeInv, ReceiverInv, FinishFc, UNCHANGED sendVars
    PROVE  ReceiverInv'
<1>1. /\ Snd' = Snd /\ Coming' = Coming /\ Outstanding' = Outstanding /\ (InWait(0)' <=> InWait(0))
  BY SenderStill DEF FinishFc
<1>2. PICK b \in Blocks : /\ cur = [pc |-> "fc", b |-> b, to |-> "WAIT_CF"]
                          /\ b \in rx.list /\ rx.ctx[b].state = "SEND_FC" /\ rx.fc # <<>>
  BY DEF ReceiverInv, CurInv, FinishFc, Idle
<1> DEFINE d == [rx.ctx[b] EXCEPT !.timer = TRUE, !.state = "WAIT_CF"]
<1>3. cur.b = b /\ cur.to = "WAIT_CF" /\ rx.ctx[b] \in Ctx /\ Good(rx)
  BY <1>2 DEF TypeInv, Good, RxRec
<1>4. rx' = [rx EXCEPT !.ctx[b] = d] /\ d \in Ctx /\ d.addr = rx.ctx[b].addr /\ d.addr \in Peers
      /\ d.state = "WAIT_CF" /\ d.bs = rx.ctx[b].bs /\ d.rem = rx.ctx[b].rem
  BY <1>2, <1>3 DEF FinishFc, RxRec, Ctx, Good, Named, RxState
<1> HIDE DEF d
<1>5. Changed(rx, rx', b, d)
  BY <1>3, <1>4, CtxGood
<1>6. /\ rx'.ctx[b] = d /\ rx'.list = rx.list /\ rx'.head = rx.head /\ rx'.aliased = rx.aliased
      /\ rx'.fc = rx.fc /\ Apart(rx, rx', b) /\ cur' = Idle /\ env' = env
  BY <1>5 DEF Changed, SameSlab, FinishFc
<1>7. CtxInv(b)'
  BY <1>1, <1>2, <1>4, <1>6 DEF ReceiverInv, CtxInv, OwesFc
<1>8. (\A c \in Blocks : CtxInv(c)') /\ \A c, e \in rx'.list : c = e
  <2>1. rx.list \subseteq Blocks
    BY LinkFacts
  <2> QED
    BY <1>2, <1>6, <1>7, <2>1, OthersKept
<1>9. FcDue /\ FcShape' /\ CurInv'
  BY <1>2, <1>6 DEF ReceiverInv, FcDue, FcShape, CurInv
<1> QED
  BY <1>1, <1>6, <1>8, <1>9 DEF ReceiverInv

\* A receive timeout.
LEMMA TimeoutKeeps ==
    ASSUME TypeInv, ReceiverInv, Quiet, NEW b \in Blocks, Timeout(b), UNCHANGED sendVars
    PROVE  ReceiverInv'
<1>1. /\ Snd' = Snd /\ Coming' = Coming /\ Outstanding' = Outstanding /\ (InWait(0)' <=> InWait(0))
  BY SenderStill DEF Timeout
<1>2. rx.fc = <<>> /\ cur = Idle /\ b \in rx.list /\ \A c \in Blocks : ~OwesFc(c)
  BY DEF Quiet, Timeout, ReceiverInv, CtxInv, Queued
<1>3. rx.ctx[b].state \notin {"PROCESS_FF", "TRY_ALLOC", "SEND_FC", "SEND_WAIT"}
  BY <1>2 DEF OwesFc, ReceiverInv, CtxInv, Idle
<1> DEFINE c == [rx.ctx[b] EXCEPT !.timer = FALSE]
           d == CASE c.state = "WAIT_CF"   -> Report(c, "TIMEOUT_CR")
                  [] c.state = "TRY_ALLOC" -> [c EXCEPT !.state = "SEND_WAIT"]
                  [] OTHER                 -> c
<1>4. rx.ctx[b] \in Ctx /\ Good(rx) /\ rx.ctx[b].addr \in Peers
  BY <1>2 DEF TypeInv, Good, RxRec, Named
<1>5. c \in Ctx /\ c.addr = rx.ctx[b].addr /\ c.state = rx.ctx[b].state
      /\ c.error = rx.ctx[b].error /\ c.bs = rx.ctx[b].bs /\ c.rem = rx.ctx[b].rem
  BY <1>4 DEF Ctx
<1>6. rx' = [rx EXCEPT !.ctx[b] = d]
  BY DEF Timeout
<1> HIDE DEF c
<1>7. /\ d \in Ctx /\ d.addr = rx.ctx[b].addr
      /\ \/ d.state = "ERR" /\ d.error = "TIMEOUT_CR"
         \/ d.state = rx.ctx[b].state /\ d.state # "WAIT_CF" /\ d.error = rx.ctx[b].error
  <2>1. CASE c.state = "WAIT_CF"
    <3>1. d = Report(c, "TIMEOUT_CR")
      BY <2>1
    <3>2. Report(c, "TIMEOUT_CR") \in Ctx
      BY <1>5, ReportType DEF RxError
    <3> HIDE DEF d
    <3> QED
      BY <1>5, <3>1, <3>2 DEF Report, Ctx
  <2>2. CASE c.state # "WAIT_CF"
    <3>1. d = c
      BY <1>3, <1>5, <2>2
    <3> HIDE DEF d
    <3> QED
      BY <1>5, <2>2, <3>1
  <2> QED
    BY <2>1, <2>2
<1> HIDE DEF d
<1>8. Changed(rx, rx', b, d)
  BY <1>4, <1>6, <1>7, CtxGood
<1>9. /\ rx'.ctx[b] = d /\ rx'.list = rx.list /\ rx'.head = rx.head /\ rx'.aliased = rx.aliased
      /\ rx'.fc = rx.fc /\ Apart(rx, rx', b) /\ cur' = cur /\ env' = env
  BY <1>8 DEF Changed, SameSlab, Timeout
<1>10. CtxInv(b)'
  BY <1>2, <1>3, <1>7, <1>9 DEF ReceiverInv, CtxInv, OwesFc
<1>11. (\A e \in Blocks : CtxInv(e)') /\ \A e, g \in rx'.list : e = g
  <2>1. rx.list \subseteq Blocks
    BY LinkFacts
  <2> QED
    BY <1>2, <1>9, <1>10, <2>1, OthersKept
<1>12. ~FcDue'
  <2>1. ASSUME NEW e \in Blocks PROVE ~OwesFc(e)'
    <3>1. CASE e = b
      BY <1>3, <1>7, <1>9, <3>1 DEF OwesFc
    <3>2. CASE e # b
      BY <1>2, <1>9, <3>2 DEF OwesFc, Apart
    <3> QED
      BY <3>1, <3>2
  <2> QED
    BY <1>2, <1>9, <2>1 DEF FcDue
<1> QED
  BY <1>2, <1>9, <1>11, <1>12 DEF ReceiverInv, FcShape, CurInv

\* The context b changes, and then its reception ends.
LEMMA EndedLater ==
    ASSUME Good(rx), NEW b \in Blocks, NEW d \in Ctx, d.addr = rx.ctx[b].addr,
           d.timer => rx.ctx[b].timer, NEW S, S = [rx EXCEPT !.ctx[b] = d]
    PROVE  /\ Good(S) /\ S.ctx[b] = d /\ S.fc = rx.fc /\ (Named(rx, b) => Named(S, b))
           /\ S.got = rx.got
           /\ Ended(S, rx', b) => Ended(rx, rx', b)
<1>1. d.timer => d.addr \in Peers
  BY DEF Good, Named
<1>2. Good(S) /\ Changed(rx, S, b, d)
  BY <1>1, CtxGood
<1> QED
  BY <1>2 DEF Changed, SameAddr, SameSlab, Named, Ended, Apart

\* The work queue of node b runs.
LEMMA WorkKeeps ==
    ASSUME TypeInv, ReceiverInv, NEW b \in Blocks, Work(b), UNCHANGED sendVars
    PROVE  ReceiverInv'
<1> DEFINE c == rx.ctx[b]
<1>1. Named(rx, b)
  BY HeadNamed
<1>2. /\ RxBs = OPTS_BS /\ CanSendResults = {TRUE} /\ Good(rx) /\ c \in Ctx /\ c.addr = "a"
      /\ CtxInv(b) /\ wq \in Seq(Blocks) /\ rx.list \subseteq Blocks
  BY <1>1, LinkFacts DEF ReceiverInv
<1>3. Ran(b)
  BY <1>2, WorkSteps, <1>1 DEF TypeInv, Ran
<1>4. CASE WorkSf(b)
  <2> DEFINE d == [c EXCEPT !.rem = 0]
             S == [rx EXCEPT !.ctx[b] = d]
  <2>1. d \in Ctx /\ d.addr = c.addr /\ d.timer = c.timer
    BY <1>2 DEF Ctx
  <2>2. rx' = Recycle(S, b) /\ cur' = cur
    BY <1>4 DEF WorkSf
  <2> HIDE DEF d
  <2>3. Good(S) /\ Named(S, b) /\ S.fc = rx.fc /\ (Ended(S, rx', b) => Ended(rx, rx', b))
    BY <1>1, <1>2, <2>1, EndedLater
  <2> HIDE DEF S
  <2>4. Ended(S, rx', b) /\ rx'.fc = S.fc
    BY <2>2, <2>3, RecycleEnds
  <2> QED
    BY <1>3, <2>2, <2>3, <2>4, EndKeeps
<1>5. CASE WorkRecycle(b)
  <2>1. rx' = Recycle(rx, b) /\ cur' = cur
    BY <1>5 DEF WorkRecycle
  <2>2. Ended(rx, rx', b) /\ rx'.fc = rx.fc
    BY <1>1, <1>2, <2>1, RecycleEnds
  <2> QED
    BY <1>3, <2>1, <2>2, EndKeeps
<1>6. CASE WorkErr(b)
  <2>1. rx' = ErrorPath(rx, b, TRUE) /\ cur' = cur /\ c.state = "ERR"
    BY <1>2, <1>6 DEF WorkErr, Running
  <2>2. c.error # "BUFFER_OVERFLW"
    BY <1>2, <2>1 DEF CtxInv
  <2>3. Ended(rx, rx', b) /\ rx'.fc = rx.fc
    BY <1>1, <1>2, <2>1, <2>2, ErrorEnds
  <2> QED
    BY <1>3, <2>1, <2>3, EndKeeps
<1>7. CASE WorkFfTooLong(b)
  <2> DEFINE d == Report(c, "BUFFER_OVERFLW")
             S == [rx EXCEPT !.ctx[b] = d]
  <2>1. d \in Ctx /\ d.addr = c.addr /\ d.timer = c.timer /\ d.error = "BUFFER_OVERFLW"
    <3>1. d \in Ctx /\ d.addr = c.addr /\ d.timer = c.timer
      BY <1>2, ReportType DEF Report, RxError, Ctx
    <3>2. d.error = "BUFFER_OVERFLW"
      BY <1>2 DEF Report, Ctx
    <3> QED
      BY <3>1, <3>2
  <2>2. rx' = ErrorPath(S, b, TRUE) /\ cur' = cur /\ c.state = "PROCESS_FF"
    BY <1>2, <1>7 DEF WorkFfTooLong, Running
  <2> HIDE DEF d
  <2>3. Good(S) /\ Named(S, b) /\ S.fc = rx.fc /\ S.ctx[b] = d /\ (Ended(S, rx', b) => Ended(rx, rx', b))
    BY <1>1, <1>2, <2>1, EndedLater
  <2> HIDE DEF S
  <2>4. Ended(S, rx', b) /\ rx'.fc = Append(S.fc, [ctx |-> b, to |-> "a", fs |-> "OVFLW"])
    BY <1>2, <2>1, <2>2, <2>3, ErrorEnds
  <2>5. OwesFc(b)
    BY <2>2 DEF OwesFc
  <2>6. rx.fc = <<>>
    BY <1>2, <2>5 DEF CtxInv
  <2>7. rx'.fc = <<[ctx |-> b, to |-> "a", fs |-> "OVFLW"]>>
    BY <2>3, <2>4, <2>6
  <2> QED
    BY <1>3, <2>2, <2>3, <2>4, <2>5, <2>7, EndKeeps
<1>8. ASSUME OwesFc(b), NEW d \in Ctx, Kept(c, d), d.timer = FALSE, d.state = "SEND_FC",
             OPTS_BS # 0 => d.bs = OPTS_BS, NEW S, S = [rx EXCEPT !.ctx[b] = d],
             rx' = receive_send_fc(S, b, "CTS", TRUE), cur' = [pc |-> "fc", b |-> b, to |-> "WAIT_CF"]
      PROVE  ReceiverInv'
  <2>1. d.addr = c.addr
    BY <1>8 DEF Kept
  <2>2. Good(S) /\ Changed(rx, S, b, d)
    BY <1>2, <1>8, <2>1, CtxGood
  <2>3. Named(S, b) /\ S.ctx[b] = d
    BY <1>1, <2>2 DEF Changed, SameAddr, Named
  <2>4. Good(rx') /\ FcEffect(S, rx', b, "CTS", TRUE)
    BY <1>8, <2>2, <2>3, FcGood
  <2>5. /\ SameSlab(rx, rx') /\ Apart(rx, rx', b) /\ rx'.ctx[b] = d
        /\ rx'.fc = Append(rx.fc, [ctx |-> b, to |-> "a", fs |-> "CTS"])
    BY <1>2, <2>1, <2>2, <2>3, <2>4 DEF FcEffect, Changed, SameSlab, Apart
  <2> QED
    BY <1>3, <1>8, <2>4, <2>5, CtsKeeps
<1>9. CASE WorkFf(b)
  <2> DEFINE e == [c EXCEPT !.bs = IF RxBs # 0 THEN RxBs ELSE @, !.wft = WFT_FIRST]
             d == [e EXCEPT !.timer = FALSE, !.state = "SEND_FC"]
             S == [rx EXCEPT !.ctx[b].bs = IF RxBs # 0 THEN RxBs ELSE @, !.ctx[b].wft = WFT_FIRST]
             T == [rx EXCEPT !.ctx[b] = d]
  <2>1. e \in Ctx /\ Kept(c, e) /\ (OPTS_BS # 0 => e.bs = OPTS_BS)
    BY <1>2, WrapTypes DEF Ctx, Kept, Env, RxBs, TypeInv
  <2>2. d \in Ctx /\ Kept(c, d) /\ d.timer = FALSE /\ d.state = "SEND_FC" /\ d.bs = e.bs
    BY <2>1 DEF Ctx, Kept, RxState
  <2>3. c.state = "PROCESS_FF" /\ SendCts(S, b)
    BY <1>9 DEF WorkFf, Running
  <2>4. [S EXCEPT !.ctx[b].timer = FALSE, !.ctx[b].state = "SEND_FC"] = T
    <3>1. S = [rx EXCEPT !.ctx[b] = e]
      BY <1>2 DEF Good, RxRec, Ctx
    <3> HIDE DEF S, e
    <3> QED
      BY <1>2, <2>1, <3>1 DEF Good, RxRec, Ctx
  <2> HIDE DEF d, e
  <2>5. rx' = receive_send_fc(T, b, "CTS", TRUE) /\ cur' = [pc |-> "fc", b |-> b, to |-> "WAIT_CF"]
    BY <1>2, <2>3, <2>4 DEF SendCts
  <2>6. OwesFc(b)
    BY <2>3 DEF OwesFc
  <2> QED
    BY <1>8, <2>1, <2>2, <2>5, <2>6
<1>10. CASE WorkTryAlloc(b)
  <2> DEFINE d == [c EXCEPT !.timer = FALSE, !.state = "SEND_FC"]
             T == [rx EXCEPT !.ctx[b] = d]
  <2>1. d \in Ctx /\ Kept(c, d) /\ d.timer = FALSE /\ d.state = "SEND_FC" /\ d.bs = c.bs
    BY <1>2 DEF Ctx, Kept, RxState
  <2>2. c.state \in {"TRY_ALLOC", "SEND_FC"} /\ SendCts(rx, b) /\ cur = Idle
    BY <1>10 DEF WorkTryAlloc, Running
  <2>3. c.state = "TRY_ALLOC" /\ OwesFc(b) /\ (OPTS_BS # 0 => c.bs = OPTS_BS)
    BY <1>2, <2>2 DEF CtxInv, Idle, OwesFc
  <2>4. [rx EXCEPT !.ctx[b].timer = FALSE, !.ctx[b].state = "SEND_FC"] = T
    BY <1>2 DEF Good, RxRec, Ctx
  <2> HIDE DEF d
  <2>5. rx' = receive_send_fc(T, b, "CTS", TRUE) /\ cur' = [pc |-> "fc", b |-> b, to |-> "WAIT_CF"]
    BY <1>2, <2>2, <2>4 DEF SendCts
  <2> QED
    BY <1>8, <2>1, <2>3, <2>5
<1>11. ~WorkSendWait(b)
  BY <1>2 DEF WorkSendWait, Running, CtxInv
<1>12. CASE WorkNothing(b)
  <2>1. rx' = rx /\ cur' = cur /\ c.state \in {"WAIT_FF_SF", "WAIT_CF", "UNBOUND"} /\ peer' = peer /\ env' = env
    BY <1>12 DEF WorkNothing, Running
  <2>2. /\ Snd' = Snd /\ Coming' = Coming /\ Outstanding' = Outstanding /\ (InWait(0)' <=> InWait(0))
    BY <2>1, SenderStill
  <2>3. ASSUME NEW e \in Blocks PROVE CtxInv(e)'
    <3>1. CASE e = b
      BY <1>2, <2>1, <2>2, <3>1 DEF CtxInv, OwesFc
    <3>2. CASE e # b
      <4>1. Queued(e) => Queued(e)'
        BY <1>3, <3>2, TailQueued DEF Ran
      <4> QED
        BY <2>1, <2>2, <4>1, ListedKept DEF ReceiverInv
    <3> QED
      BY <3>1, <3>2
  <2> QED
    BY <2>1, <2>2, <2>3 DEF ReceiverInv, FcShape, CurInv, FcDue, OwesFc
<1> QED
  BY <1>4, <1>5, <1>6, <1>7, <1>9, <1>10, <1>11, <1>12 DEF Work

\* Any step of the work queue of node b.
LEMMA ReceiverWorksKeeps ==
    ASSUME TypeInv, ReceiverInv, ReceiverWorks PROVE ReceiverInv'
  BY WorkKeeps, FinishKeeps DEF ReceiverWorks, Worker

-----------------------------------------------------------------------------
(* A flow-control frame reaches node a *)

\* Where it leads the sender.
FcMoves ==
    /\ SendType' /\ SameMessage /\ Ctl' = <<>> /\ Snr'.msg = Snr.msg /\ Snr'.len = Snr.len
    /\ \/ InGo' /\ Snd'.rem = Snd.rem /\ (OPTS_BS # 0 => Win' = OPTS_BS) /\ Snr'.i = Snr.i
       \/ InEnd' /\ Win' = 0 /\ Snd'.state = "ERR" /\ Snr'.i = NumSegs(Size) + 1
       \/ InWait(0)' /\ Win' = 0 /\ Lossy /\ Snr'.i = Snr.i /\ UNCHANGED sendVars /\ peer' = peer

\* It is for the sender, which waits for it.
LEMMA FcReaches ==
    ASSUME TypeInv, SendType, ReceiverInv, FcOnBus
    PROVE  FcMoves /\ FcTx /\ InWait(0) /\ cur = Idle /\ rx'.fc = <<>> /\ UNCHANGED <<env, cur, wq>>
           /\ rx'.list = rx.list /\ rx'.head = rx.head /\ rx'.ctx = rx.ctx /\ rx'.aliased = rx.aliased
           /\ rx'.got = rx.got
<1>1. /\ InWait(0) /\ cur = Idle /\ RxBs = OPTS_BS
  BY LinkFacts DEF FcOnBus, ReceiverInv, FcDue
<1>2. PICK b \in Blocks, fs \in {"CTS", "OVFLW"} : rx.fc = <<[ctx |-> b, to |-> "a", fs |-> fs]>>
  BY DEF FcOnBus, ReceiverInv, FcShape
<1>3. Head(rx.fc) = [ctx |-> b, to |-> "a", fs |-> fs] /\ Tail(rx.fc) = <<>>
  BY <1>2
<1>4. Head(rx.fc).fs = fs /\ Head(rx.fc).to = "a"
  BY <1>3
<1>5. /\ rx' = [rx EXCEPT !.fc = Tail(@)] /\ rx \in RxRec
  BY DEF FcOnBus, TypeInv, Good
<1>6. /\ rx'.fc = <<>> /\ rx'.list = rx.list /\ rx'.head = rx.head /\ rx'.ctx = rx.ctx
      /\ rx'.aliased = rx.aliased /\ rx'.got = rx.got
  BY <1>3, <1>5 DEF RxRec
<1>7. \/ /\ Sender!HandleFc("b", FcFrame(fs)) /\ peer' = [peer EXCEPT !["a"] = OnFc(@, fs)]
      \/ Lossy /\ UNCHANGED <<sendVars, peer>>
  BY <1>4 DEF FcOnBus
<1>8. FcMoves
  <2>1. CASE Sender!HandleFc("b", FcFrame(fs)) /\ peer' = [peer EXCEPT !["a"] = OnFc(@, fs)]
    <3>1. CASE fs = "CTS"
      BY <1>1, <2>1, <3>1, FcCts DEF FcMoves
    <3>2. CASE fs = "OVFLW"
      BY <1>1, <2>1, <3>2, FcOvflw DEF FcMoves
    <3> QED
      BY <3>1, <3>2
  <2>2. CASE Lossy /\ UNCHANGED <<sendVars, peer>>
    <3>1. SendType' /\ InWait(0)' /\ Ctl' = Ctl /\ Win' = Win
      BY <1>1, <2>2, SenderStill
    <3>2. SameMessage /\ Snr' = Snr
      BY <2>2 DEF SameMessage, sendVars, Snr
    <3>3. Ctl = <<>> /\ Win = 0
      BY <1>1 DEF InWait, Pos
    <3> QED
      BY <2>2, <3>1, <3>2, <3>3 DEF FcMoves
  <2> QED
    BY <1>7, <2>1, <2>2
<1>9. FcTx
  <2>1. \/ peer' = [peer EXCEPT ![Head(rx.fc).to] = OnFc(@, Head(rx.fc).fs)]
        \/ "loss" \in Faults /\ peer' = peer
    BY <1>4, <1>7 DEF Lossy, Faults, ReceiverInv, Links, RxEnv
  <2> QED
    BY <2>1 DEF FcTx, FcOnBus
<1> QED
  BY <1>1, <1>6, <1>8, <1>9 DEF FcTx

\* The invariants are kept.
LEMMA FcOnBusKeeps ==
    ASSUME TypeInv, SendType, ReceiverInv, FcOnBus
    PROVE  SenderInv' /\ ReceiverInv'
<1>1. /\ FcMoves /\ InWait(0) /\ cur = Idle /\ rx'.fc = <<>> /\ UNCHANGED <<env, cur, wq>>
      /\ rx'.list = rx.list /\ rx'.head = rx.head /\ rx'.ctx = rx.ctx /\ rx'.aliased = rx.aliased
  BY FcReaches
<1>2. SenderInv'
  BY <1>1 DEF FcMoves, SenderInv, InCfs
<1>3. rx.fc # <<>>
  BY DEF FcOnBus
<1>4. Coming' = Win'
  BY <1>1 DEF FcMoves, Coming, InCtl, SendType, Win
<1>5. Outstanding' = Snd'.rem
  <2>1. Snd' \in SndRec
    BY <1>1 DEF FcMoves, SendType, Snd
  <2>2. Snd'.rem \in Int
    BY <2>1, SndFields
  <2> QED
    BY <1>1, <2>2 DEF FcMoves, Outstanding, InCtl
<1>6. ASSUME NEW c \in Blocks PROVE CtxInv(c)' /\ ~OwesFc(c)'
  <2>1. CtxInv(c) /\ rx.ctx[c].state # "SEND_FC" /\ ~OwesFc(c)
    BY <1>1, <1>3 DEF ReceiverInv, CtxInv, Idle
  <2>2. CASE OPTS_BS = 0
    BY <1>1, <2>1, <2>2 DEF CtxInv, OwesFc
  <2>3. CASE OPTS_BS # 0
    <3>1. Win' = 0 \/ (Win' = OPTS_BS /\ Snd'.rem = Snd.rem)
      BY <1>1, <2>3 DEF FcMoves
    <3>2. OPTS_BS >= 1
      BY <2>3, LinkTypes
    <3> QED
      BY <1>1, <1>3, <1>4, <1>5, <2>1, <3>1, <3>2, LinkTypes DEF CtxInv, OwesFc
  <2> QED
    BY <2>2, <2>3
<1>7. ~FcDue' /\ FcShape' /\ CurInv'
  BY <1>1, <1>6 DEF FcDue, FcShape, CurInv
<1> QED
  BY <1>1, <1>2, <1>6, <1>7 DEF ReceiverInv

-----------------------------------------------------------------------------
(* A frame of the sender reaches node b *)

\* What the context of a listed block is like while no flow-control frame is due ...
Expects(c) ==
    /\ c.state \notin {"PROCESS_FF", "TRY_ALLOC", "SEND_FC", "SEND_WAIT"}
    /\ c.state = "ERR" => c.error # "BUFFER_OVERFLW"
    /\ c.state = "WAIT_CF" /\ OPTS_BS # 0
          => c.bs >= 1 /\ c.bs >= Coming /\ (c.bs = Coming => c.rem = Outstanding)

\* ... and after a frame.
Handled(c) ==
    /\ c.state \notin {"SEND_FC", "SEND_WAIT"}
    /\ c.state = "ERR" => c.error # "BUFFER_OVERFLW"
    /\ c.state = "TRY_ALLOC" => OPTS_BS # 0 /\ c.bs = OPTS_BS
    /\ c.state \in {"PROCESS_FF", "TRY_ALLOC"} => c.rem = Snd.rem /\ InWait(0)
    /\ c.state = "WAIT_CF" /\ OPTS_BS # 0
          => c.bs >= 1 /\ c.bs >= Coming /\ (c.bs = Coming => c.rem = Outstanding)

\* It is handled as expected, and nothing goes wrong without it.
HandlesWell(f) ==
    /\ \A c \in Ctx, d \in Ctx : Expects(c) /\ d = receive_can_rx(c, f) => Handled(d)'
    /\ Coming' \in Int /\ Coming \in Int
    /\ Coming' < Coming \/ (Coming' = Coming /\ Outstanding' = Outstanding)

\* The work item is queued.
LEMMA SubmitQueued ==
    ASSUME wq \in Seq(Blocks), NEW b \in Blocks, wq' = Submit(wq, b) PROVE Queued(b)'
<1>1. CASE \E i \in DOMAIN wq : wq[i] = b
  BY <1>1 DEF Submit, Queued
<1>2. CASE ~\E i \in DOMAIN wq : wq[i] = b
  <2>1. wq' = Append(wq, b) /\ Len(wq) \in Nat
    BY <1>2 DEF Submit
  <2>2. Len(wq) + 1 \in DOMAIN wq' /\ wq'[Len(wq) + 1] = b
    BY <2>1
  <2> QED
    BY <2>2 DEF Queued
<1> QED
  BY <1>1, <1>2

\* Without flow-control frames due, every listed context expects the next frame.
LEMMA ListedExpects ==
    ASSUME ReceiverInv, ~FcDue, NEW b \in Blocks
    PROVE  /\ rx.ctx[b].state \notin {"PROCESS_FF", "TRY_ALLOC", "SEND_FC", "SEND_WAIT"}
           /\ b \in rx.list => Expects(rx.ctx[b])
<1>1. CtxInv(b) /\ rx.fc = <<>>
  BY NoneDue DEF ReceiverInv
<1>2. rx.ctx[b].state \notin {"PROCESS_FF", "TRY_ALLOC", "SEND_FC", "SEND_WAIT"}
  BY <1>1, NoneDue DEF CtxInv
<1> QED
  BY <1>1, <1>2 DEF CtxInv, Expects

\* The frame is lost.
LEMMA FrameLost ==
    ASSUME TypeInv, ReceiverInv, ~FcDue, NEW f, HandlesWell(f), UNCHANGED <<env, rx, wq, cur>>
    PROVE  ReceiverInv'
<1>1. rx.fc = <<>> /\ cur = Idle
  BY NoneDue
<1>2. ASSUME NEW b \in Blocks PROVE CtxInv(b)' /\ ~OwesFc(b)'
  <2>1. CtxInv(b) /\ rx.ctx[b].state \notin {"PROCESS_FF", "TRY_ALLOC", "SEND_FC", "SEND_WAIT"}
        /\ rx.ctx[b].bs \in Int /\ (b \in rx.list => Expects(rx.ctx[b]))
    <3>1. rx.ctx[b].bs \in Nat
      BY LinkFacts
    <3>2. CtxInv(b) /\ rx.ctx[b].bs \in Int
      BY <3>1 DEF ReceiverInv
    <3> QED
      BY <3>2, ListedExpects
  <2>2. b \in rx.list /\ rx.ctx[b].state = "WAIT_CF" /\ OPTS_BS # 0
        => LET c == rx.ctx[b] IN c.bs >= 1 /\ c.bs >= Coming' /\ (c.bs = Coming' => c.rem = Outstanding')
    BY <2>1 DEF Expects, HandlesWell
  <2> QED
    BY <1>1, <2>1, <2>2 DEF CtxInv, OwesFc
<1> QED
  BY <1>1, <1>2 DEF ReceiverInv, FcShape, CurInv, FcDue

\* There is no buffer for the frame: the context dies.
LEMMA FrameDropped ==
    ASSUME TypeInv, ReceiverInv, ~FcDue, NEW b \in rx.list, rx' = free_recv_ctx(rx, b),
           UNCHANGED <<env, wq, cur>>
    PROVE  ReceiverInv'
<1>1. rx.fc = <<>> /\ cur = Idle /\ b \in Blocks /\ rx.list \subseteq Blocks /\ Good(rx)
  BY NoneDue, LinkFacts
<1>2. /\ Apart(rx, rx', b) /\ rx'.list = rx.list \ {b} /\ rx'.head = b /\ rx'.aliased = rx.aliased
      /\ rx'.ctx[b].bufs = 0 /\ rx'.ctx[b].state = rx.ctx[b].state
      /\ rx'.ctx[b].error = rx.ctx[b].error /\ rx'.ctx[b].timer = FALSE /\ rx'.fc = rx.fc
  <2> DEFINE T == free_recv_ctx(rx, b)
  <2>1. /\ Apart(rx, T, b) /\ Returned(rx, T, b) /\ T.ctx[b].state = rx.ctx[b].state
        /\ T.ctx[b].error = rx.ctx[b].error /\ T.ctx[b].timer = FALSE /\ T.fc = rx.fc
    BY <1>1, FreeGood
  <2> HIDE DEF T
  <2>2. rx' = T
    BY DEF T
  <2> QED
    BY <2>1, <2>2 DEF Returned
<1>3. rx.ctx[b].state \notin {"PROCESS_FF", "TRY_ALLOC", "SEND_FC", "SEND_WAIT"} /\ CtxInv(b)
  BY <1>1, ListedExpects DEF ReceiverInv
<1>4. CtxInv(b)'
  BY <1>1, <1>2, <1>3 DEF CtxInv, OwesFc
<1>5. (\A c \in Blocks : CtxInv(c)') /\ \A c, d \in rx'.list : c = d
  <2>1. rx'.list \ {b} = rx.list \ {b}
    BY <1>2
  <2> QED
    BY <1>1, <1>2, <1>4, <2>1, OthersKept
<1>6. ASSUME NEW c \in Blocks PROVE ~OwesFc(c)'
  <2>1. rx.ctx[c].state \notin {"PROCESS_FF", "TRY_ALLOC"} /\ rx'.ctx[c].state = rx.ctx[c].state
    BY <1>2, ListedExpects DEF Apart
  <2> QED
    BY <2>1 DEF OwesFc
<1> QED
  BY <1>1, <1>2, <1>5, <1>6 DEF ReceiverInv, FcShape, CurInv, FcDue, Nil, Blocks

\* It is handled, in the context of node a or in a new one.
LEMMA FrameHandled ==
    ASSUME TypeInv, ReceiverInv, ~FcDue, NEW f, HandlesWell(f), NEW b \in Blocks,
           FrameTaken("a", f, b), UNCHANGED <<env, cur>>
    PROVE  ReceiverInv'
<1>1. rx.fc = <<>> /\ cur = Idle /\ rx.list \subseteq Blocks /\ Good(rx)
  BY NoneDue, LinkFacts
<1>2. PICK c \in Ctx : Expects(c) /\ rx'.ctx[b] = receive_can_rx(c, f)
  <2>1. CASE TakenByOld("a", f, b)
    <3>1. b \in rx.list /\ Expects(rx.ctx[b])
      BY <2>1, ListedExpects DEF TakenByOld, CtxOf
    <3> QED
      BY <2>1, <3>1 DEF TakenByOld, OneMoreBuf, Expects
  <2>2. CASE TakenByNew("a", f, b)
    BY <2>2 DEF TakenByNew, Fresh, Expects
  <2> QED
    BY <2>1, <2>2 DEF FrameTaken
<1>3. PICK d \in Ctx : rx'.ctx[b] = d /\ Handled(d)'
  <2>1. rx'.ctx[b] \in Ctx
    BY DEF FrameTaken, Good, RxRec
  <2> QED
    BY <1>2, <2>1 DEF HandlesWell
<1>4. /\ b \in rx'.list /\ ~rx'.aliased /\ rx'.list \ {b} = rx.list \ {b}
      /\ b \in rx.list \/ rx.list = {}
  <2>1. CASE TakenByOld("a", f, b)
    BY <2>1 DEF TakenByOld, CtxOf, SameSlab, ReceiverInv
  <2>2. CASE TakenByNew("a", f, b)
    <3>1. rx.list = {}
      <4>1. \A e \in rx.list : CtxOf("a") = {e}
        BY LinkFacts
      <4> QED
        BY <2>2, <4>1 DEF TakenByNew
    <3> QED
      BY <2>2, <3>1 DEF TakenByNew
  <2> QED
    BY <2>1, <2>2 DEF FrameTaken
<1>5. Apart(rx, rx', b) /\ rx'.fc = <<>> /\ cur' = Idle
  BY <1>1 DEF FrameTaken
<1>6. OwesFc(b)' => Queued(b)'
  <2>1. OwesFc(b)' => wq' = Submit(wq, b)
    BY DEF OwesFc, FrameTaken
  <2> QED
    BY <2>1, SubmitQueued DEF TypeInv
<1>7. CtxInv(b)'
  BY <1>3, <1>4, <1>5, <1>6 DEF Handled, CtxInv, OwesFc
<1>8. (\A e \in Blocks : CtxInv(e)') /\ \A g, e \in rx'.list : g = e
  BY <1>1, <1>4, <1>5, <1>7, OthersKept
<1>9. FcDue' => InWait(0)'
  <2>1. ASSUME NEW e \in Blocks, OwesFc(e)' PROVE e = b
    <3>1. CASE e # b
      <4>1. rx'.ctx[e] = rx.ctx[e] /\ rx.ctx[e].state \notin {"PROCESS_FF", "TRY_ALLOC"}
        BY <1>5, <3>1, ListedExpects DEF Apart
      <4> QED
        BY <2>1, <4>1 DEF OwesFc
    <3> QED
      BY <3>1
  <2>2. OwesFc(b)' => InWait(0)'
    BY <1>3 DEF OwesFc, Handled
  <2> QED
    BY <1>5, <2>1, <2>2 DEF FcDue
<1> QED
  BY <1>4, <1>5, <1>8, <1>9 DEF ReceiverInv, FcShape, CurInv

\* Whatever happens to it.
LEMMA FrameKeeps ==
    ASSUME TypeInv, ReceiverInv, ~FcDue, NEW f, IsFrame(f), HandlesWell(f), Arrives("a", f),
           UNCHANGED <<env, cur>>
    PROVE  ReceiverInv' /\ Good(rx') /\ NamedKept /\ wq' \in Seq(Blocks)
           /\ \A i \in DOMAIN wq' : Named(rx', wq'[i])
<1>1. "a" \in Peers
  BY LinkTypes
<1>2. FrameRx("a", f) \/ (rx' = rx /\ wq' = wq)
  BY DEF Arrives
<1>3. Good(rx') /\ NamedKept /\ wq' \in Seq(Blocks) /\ \A i \in DOMAIN wq' : Named(rx', wq'[i])
  BY <1>1, <1>2, FrameType
<1>4. CASE rx' = rx /\ wq' = wq
  BY <1>3, <1>4, FrameLost
<1>5. CASE FrameRx("a", f)
  <2>1. \/ rx' = rx /\ wq' = wq
        \/ \E b \in CtxOf("a") : rx' = free_recv_ctx(rx, b) /\ wq' = wq
        \/ \E b \in Blocks : FrameTaken("a", f, b)
    BY <1>1, <1>5, FrameEffect DEF TypeInv
  <2>2. ASSUME NEW b \in CtxOf("a"), rx' = free_recv_ctx(rx, b) /\ wq' = wq PROVE ReceiverInv'
    <3>1. b \in rx.list
      BY DEF CtxOf
    <3> QED
      BY <2>2, <3>1, FrameDropped
  <2> QED
    BY <1>3, <1>4, <2>1, <2>2, FrameHandled
<1> QED
  BY <1>2, <1>3, <1>4, <1>5

\* Single and first frames.
LEMMA FirstHandled ==
    ASSUME TypeInv, ReceiverInv, SendType, NEW f, IsFrame(f), f.type \in {"SF", "FF"},
           Coming' = Coming, Outstanding' = Outstanding,
           f.type = "FF" => InWait(0)' /\ f.len - FfLen = Snd'.rem
    PROVE  HandlesWell(f)
<1>1. Coming \in Int
  BY DEF Coming, InCtl, SendType, Win
<1>2. ASSUME NEW c \in Ctx, NEW d \in Ctx, Expects(c), d = receive_can_rx(c, f)
      PROVE  Handled(d)'
  <2>1. CASE c.state = "WAIT_FF_SF"
    <3>1. d = process_ff_sf(c, f)
      BY <1>2, <2>1 DEF receive_can_rx
    <3>2. /\ f.type = "SF" => d.state = "PROCESS_SF"
          /\ f.type = "FF" => d.state = "PROCESS_FF" /\ d.rem = f.len - FfLen
      BY <3>1, FfSfType
    <3> QED
      BY <3>2 DEF Handled
  <2>2. CASE c.state = "WAIT_CF"
    <3>1. d = Report(c, "UNEXP_PDU")
      BY <1>2, <2>2 DEF receive_can_rx, process_cf
    <3>2. d.state = "ERR" /\ d.error = "UNEXP_PDU"
      BY <3>1 DEF Report, Ctx
    <3> QED
      BY <3>2 DEF Handled
  <2>3. CASE c.state \notin {"WAIT_FF_SF", "WAIT_CF"}
    <3>1. d = c
      BY <1>2, <2>3 DEF receive_can_rx
    <3> QED
      BY <1>2, <2>3, <3>1 DEF Expects, Handled
  <2> QED
    BY <2>1, <2>2, <2>3
<1> QED
  BY <1>1, <1>2 DEF HandlesWell

\* Consecutive frames.
LEMMA CfHandled ==
    ASSUME TypeInv, ReceiverInv, SendType, SendType', NEW f, IsFrame(f), f.type = "CF",
           Coming' = Coming - 1, Outstanding = Snd'.rem + f.n, Outstanding' = Snd'.rem,
           Snd'.rem \in Nat, OPTS_BS # 0 => Coming' >= 0,
           OPTS_BS # 0 /\ Coming' = 0 /\ Snd'.rem # 0 => InWait(0)'
    PROVE  HandlesWell(f)
<1>1. Coming \in Int /\ Coming' \in Int /\ Coming' < Coming
  <2>1. Coming \in Int
    BY DEF Coming, InCtl, SendType, Win
  <2>2. Coming' \in Int
    BY DEF Coming, InCtl, SendType, Win
  <2> QED
    BY <2>1, <2>2
<1>2. f.n \in Nat /\ RxBs = OPTS_BS /\ OPTS_BS \in Nat
  BY LinkFacts DEF IsFrame
<1>3. ASSUME NEW c \in Ctx, NEW d \in Ctx, Expects(c), d = receive_can_rx(c, f)
      PROVE  Handled(d)'
  <2>1. CASE c.state = "WAIT_FF_SF"
    <3>1. d = c
      BY <1>3, <2>1 DEF receive_can_rx, process_ff_sf
    <3> QED
      BY <2>1, <3>1 DEF Handled
  <2>2. CASE c.state = "WAIT_CF"
    <3> DEFINE e == CfTimer([c EXCEPT !.sn = IncSn(@)])
               a == Add(e, f, Min2(e.rem, f.n))
    <3>1. e \in Ctx /\ e.rem = c.rem /\ e.bs = c.bs /\ e.state = "WAIT_CF"
      BY <2>2, WrapTypes DEF CfTimer, Ctx
    <3>2. a \in Ctx /\ a.rem = c.rem - Min2(c.rem, f.n) /\ a.bs = c.bs /\ a.state = "WAIT_CF"
      <4>1. Min2(e.rem, f.n) \in Nat /\ Min2(e.rem, f.n) <= e.rem
        BY <1>2, <3>1 DEF Min2, Ctx
      <4> HIDE DEF e
      <4>2. Added(e, f, Min2(e.rem, f.n), a)
        BY <3>1, <4>1, AddType
      <4>3. a.bs = e.bs /\ a.state = e.state
        BY <3>1 DEF Add, Ctx
      <4> HIDE DEF a
      <4> QED
        BY <3>1, <4>2, <4>3 DEF Added
    <3>3. d = Report(e, "WRONG_SN") \/ d = CfAdded(a)
      BY <1>3, <2>2 DEF receive_can_rx, process_cf
    <3> HIDE DEF e, a
    <3>4. CASE d = Report(e, "WRONG_SN")
      <4>1. d.state = "ERR" /\ d.error = "WRONG_SN"
        BY <3>1, <3>4 DEF Report, Ctx
      <4> QED
        BY <4>1 DEF Handled
    <3>5. CASE d = CfAdded(a)
      <4>1. c.rem \in Nat /\ c.bs \in Nat /\ a.rem \in Nat
        BY <3>2, LinkTypes DEF Ctx, Bytes
      <4>2. CASE a.rem = 0
        <5>1. d.state = "RECYCLE"
          BY <3>2, <3>5, <4>2 DEF CfAdded, Ctx
        <5> QED
          BY <5>1 DEF Handled
      <4>3. CASE a.rem # 0 /\ OPTS_BS = 0
        <5>1. d = a
          BY <1>2, <3>5, <4>3 DEF CfAdded
        <5> QED
          BY <3>2, <4>3, <5>1 DEF Handled
      <4>4. CASE a.rem # 0 /\ OPTS_BS # 0 /\ c.bs = 1
        <5>1. d.state = "TRY_ALLOC" /\ d.bs = OPTS_BS /\ d.rem = a.rem
          BY <1>2, <3>2, <3>5, <4>4 DEF CfAdded, Ctx
        <5>2. c.bs >= Coming /\ (c.bs = Coming => c.rem = Outstanding)
          BY <1>3, <2>2, <4>4 DEF Expects
        <5>3. Coming' = 0 /\ c.rem = Outstanding
          <6>1. Coming >= 1 /\ Coming <= 1
            BY <1>1, <4>1, <4>4, <5>2
          <6> QED
            BY <1>1, <4>4, <5>2, <6>1
        <5>4. a.rem = Snd'.rem
          BY <1>2, <3>2, <4>1, <5>3 DEF Min2
        <5> QED
          BY <4>4, <5>1, <5>3, <5>4 DEF Handled
      <4>5. CASE a.rem # 0 /\ OPTS_BS # 0 /\ c.bs # 1
        <5>1. d.state = "WAIT_CF" /\ d.bs = Dec8(c.bs) /\ d.rem = a.rem
          BY <1>2, <3>2, <3>5, <4>5 DEF CfAdded, Ctx
        <5>2. c.bs >= 1 /\ c.bs >= Coming /\ (c.bs = Coming => c.rem = Outstanding)
          BY <1>3, <2>2, <4>5 DEF Expects
        <5>3. d.bs = c.bs - 1
          BY <4>1, <5>1, <5>2 DEF Dec8
        <5>4. d.bs >= 1 /\ d.bs >= Coming'
          BY <1>1, <4>1, <4>5, <5>2, <5>3
        <5>5. d.bs = Coming' => d.rem = Outstanding'
          <6>1. SUFFICES ASSUME d.bs = Coming' PROVE a.rem = Outstanding'
            BY <5>1
          <6>2. c.rem = Outstanding
            BY <1>1, <4>1, <5>2, <5>3, <6>1
          <6> QED
            BY <1>2, <3>2, <4>1, <6>2 DEF Min2
        <5> QED
          BY <5>1, <5>4, <5>5 DEF Handled
      <4> QED
        BY <4>2, <4>3, <4>4, <4>5
    <3> QED
      BY <3>3, <3>4, <3>5
  <2>3. CASE c.state \notin {"WAIT_FF_SF", "WAIT_CF"}
    <3>1. d = c
      BY <1>3, <2>3 DEF receive_can_rx
    <3> QED
      BY <1>3, <2>3, <3>1 DEF Expects, Handled
  <2> QED
    BY <2>1, <2>2, <2>3
<1> QED
  BY <1>1, <1>3 DEF HandlesWell

\* What has been on the bus stays well-typed.
LEMMA PeerTyped ==
    ASSUME TypeInv, NEW f, OnBus(f), Snr' \in PeerRec, Snr'.i >= 2
    PROVE  peer' \in [Peers -> PeerRec] /\ \A p \in Peers : peer'[p].i >= 2
<1>1. Peers = {"a"}
  BY LinkTypes
<1>2. peer \in [{"a"} -> PeerRec]
  BY <1>1 DEF TypeInv
<1>3. DOMAIN peer' = {"a"} /\ peer' = [p \in {"a"} |-> peer'["a"]]
  <2>1. CASE f.type = "CF"
    BY <1>2, <2>1 DEF OnBus
  <2>2. CASE f.type # "CF"
    BY <1>2, <2>2 DEF OnBus
  <2> QED
    BY <2>1, <2>2
<1>4. peer' \in [{"a"} -> PeerRec]
  BY <1>3 DEF Snr
<1> QED
  BY <1>1, <1>4 DEF Snr

\* The message that fits into one frame.
LEMMA SendShortKeeps ==
    ASSUME TypeInv, SendType, SenderInv, ReceiverInv, NEW l \in Lengths, SendShort(l)
    PROVE  SendType' /\ SenderInv' /\ ReceiverInv' /\ TypeInv' /\ InRest /\ ~FcDue /\ cur = Idle
<1> DEFINE f == SfFrame(l)
<1>1. InRest
  BY DEF SendShort, MaySend, SenderInv, InCfs, InNew, InFf, InWait, InCf, InSem, InGo, InSt, InLast,
         InEnd, InBlock, Sent, Busy, Snd
<1>2. OnBus(f) /\ Arrives("a", f) /\ Sender!SendSf("b", l) /\ UNCHANGED <<env, cur>>
  BY DEF SendShort, OnTheBus, OnBus, SfFrame
<1>3. /\ SendType' /\ InRest' /\ Snd' = Snd /\ mbox' = mbox /\ window' = window
      /\ calls < MaxMsgs /\ calls \in Nat /\ Snr' = [msg |-> calls + 1, len |-> l, i |-> 2, open |-> 0]
  BY <1>1, <1>2, ShortStep
<1>4. l \in Nat /\ l \in Lengths /\ MaxMsgs \in Nat
  BY LinkTypes
<1>5. IsFrame(f) /\ f.type = "SF"
  BY <1>3, <1>4 DEF IsFrame, SfFrame
<1>6. ~FcDue
  BY <1>1, WaitOnly DEF ReceiverInv
<1>7. Coming' = Coming /\ Outstanding' = Outstanding
  BY <1>3 DEF Coming, Outstanding, InCtl, Ctl, Win
<1> HIDE DEF f
<1>8. HandlesWell(f)
  BY <1>5, <1>7, FirstHandled
<1>9. /\ ReceiverInv' /\ Good(rx') /\ NamedKept /\ wq' \in Seq(Blocks)
      /\ \A i \in DOMAIN wq' : Named(rx', wq'[i])
  BY <1>2, <1>5, <1>6, <1>8, FrameKeeps
<1>10. Snr' \in PeerRec /\ Snr'.i >= 2
  BY <1>3, <1>4 DEF PeerRec
<1>11. peer' \in [Peers -> PeerRec] /\ \A p \in Peers : peer'[p].i >= 2
  BY <1>2, <1>10, PeerTyped
<1>12. cur = Idle
  BY <1>6, NoneDue
<1>13. TypeInv'
  BY <1>2, <1>9, <1>11, <1>12 DEF TypeInv, Idle
<1> QED
  BY <1>1, <1>3, <1>6, <1>9, <1>12, <1>13 DEF SenderInv

\* What FrameOnBus is.
LEMMA BusFacts ==
    ASSUME TypeInv, SendType, SenderInv, FrameOnBus
    PROVE  /\ Sender!TxDone("b", TRUE) /\ OnBus(Head(Ctl)) /\ Arrives("a", Head(Ctl))
           /\ UNCHANGED <<env, cur>> /\ TxEffect /\ (FfSent \/ CfSent) /\ SenderInv'
<1>1. /\ Sender!TxDone("b", TRUE) /\ OnBus(Head(Ctl)) /\ Arrives("a", Head(Ctl))
      /\ UNCHANGED <<env, cur>>
  BY DEF FrameOnBus, OnTheBus, OnBus, Ctl
<1> QED
  BY <1>1, TxCases

\* The first frame.
LEMMA FfKeeps ==
    ASSUME TypeInv, SendType, ReceiverInv, OnBus(Head(Ctl)), Arrives("a", Head(Ctl)),
           UNCHANGED <<env, cur>>, TxEffect, FfSent
    PROVE  /\ ReceiverInv' /\ TypeInv' /\ ~FcDue /\ cur = Idle /\ Head(Ctl) = FrameOf(calls, Size, 1)
           /\ Snr' = [msg |-> calls, len |-> Size, i |-> 2, open |-> 0]
<1> DEFINE f == Head(Ctl)
<1>1. /\ Busy /\ calls \in 1 .. MaxMsgs /\ calls \in Nat /\ Size \in Nat /\ Size \in Lengths
      /\ Size > SfMax /\ Ctl = <<Segment(calls, Size, 1)>> /\ Placed(2) /\ Win = 0
  BY LinkTypes DEF FfSent, InFf, Busy
<1>2. f = [type |-> "FF", sn |-> 0, msg |-> calls, off |-> 0, n |-> FfLen, len |-> Size]
      /\ f = Segment(calls, Size, 1)
  BY <1>1, SegmentIs
<1>3. f.type = "FF" /\ f.len = Size /\ f.msg = calls
  BY <1>2
<1>4. IsFrame(f)
  BY <1>1, <1>2, LinkTypes DEF IsFrame
<1>5. f = FrameOf(calls, Size, 1)
  BY <1>1, <1>2, LinkTypes DEF FrameOf
<1>6. Ctl[1] = f
  BY <1>1
<1> HIDE DEF f
<1>7. InCtl = 0
  BY <1>3, <1>6 DEF InCtl
<1>8. Ctl' = <<>> /\ Win' = Win /\ Snd'.rem = Snd.rem
  BY DEF TxEffect, Win
<1>9. InCtl' = 0
  BY <1>8 DEF InCtl
<1>10. Coming' = Coming /\ Outstanding' = Outstanding
  BY <1>7, <1>8, <1>9 DEF Coming, Outstanding
<1>11. Size - FfLen = Snd'.rem
  BY <1>1, <1>8, LeftFirst DEF Placed
<1>12. HandlesWell(f)
  BY <1>3, <1>4, <1>10, <1>11, FirstHandled DEF FfSent
<1>13. ~FcDue
  BY WaitOnly DEF ReceiverInv, FfSent
<1>14. /\ ReceiverInv' /\ Good(rx') /\ NamedKept /\ wq' \in Seq(Blocks)
       /\ \A i \in DOMAIN wq' : Named(rx', wq'[i])
  BY <1>4, <1>12, <1>13, FrameKeeps DEF f
<1>15. Snr' = [msg |-> calls, len |-> Size, i |-> 2, open |-> 0]
  BY <1>3, BusStep DEF f
<1>16. Snr' \in PeerRec /\ Snr'.i >= 2
  <2>1. calls \in 0 .. MaxMsgs
    BY <1>1
  <2> QED
    BY <1>1, <1>15, <2>1 DEF PeerRec
<1>17. peer' \in [Peers -> PeerRec] /\ \A p \in Peers : peer'[p].i >= 2
  BY <1>16, PeerTyped
<1>18. cur = Idle
  BY <1>13, NoneDue
<1>19. TypeInv'
  BY <1>14, <1>17, <1>18 DEF TypeInv, Idle
<1> QED
  BY <1>5, <1>13, <1>14, <1>15, <1>18, <1>19 DEF f

\* A consecutive frame.
LEMMA CfKeeps ==
    ASSUME TypeInv, SendType, ReceiverInv, OnBus(Head(Ctl)), Arrives("a", Head(Ctl)),
           UNCHANGED <<env, cur>>, TxEffect, CfSent
    PROVE  /\ ReceiverInv' /\ TypeInv' /\ ~FcDue /\ cur = Idle
           /\ Head(Ctl) = FrameOf(Snr.msg, Snr.len, Snr.i) /\ Snr.i <= NumFrames(Snr.len)
<1> DEFINE f == Head(Ctl)
           i == Snr.i
<1>1. /\ CfOnBus /\ Sent /\ Pos(1) /\ Size' = Size /\ Win' = Win
  BY DEF CfSent, CfOnBus
<1>2. /\ calls \in Nat /\ Size \in Nat /\ Size > SfMax /\ i \in Nat /\ i >= 2 /\ NumSegs(Size) \in Nat
      /\ i <= NumSegs(Size) /\ Ctl = <<Segment(calls, Size, i)>> /\ Snr.msg = calls /\ Snr.len = Size
      /\ Snd.rem = Left(Size, i + 1)
  BY <1>1, SentTypes DEF Pos, Sent, Placed
<1>3. f = Segment(calls, Size, i)
      /\ f = [type |-> "CF", sn |-> (i - 1) % SN_MOD, msg |-> calls, off |-> SegOff(i),
              n |-> SegLen(Size, i), len |-> 0]
  <2>1. f = Segment(calls, Size, i)
    BY <1>2
  <2>2. calls \in Nat /\ Size \in Nat /\ Size > SfMax /\ i \in Nat /\ i >= 2 /\ i <= NumSegs(Size)
    BY <1>2
  <2> HIDE DEF f, i
  <2>3. Segment(calls, Size, i)
          = [type |-> "CF", sn |-> (i - 1) % SN_MOD, msg |-> calls, off |-> SegOff(i),
             n |-> SegLen(Size, i), len |-> 0]
    BY <2>2, SegmentIs
  <2> QED
    BY <2>1, <2>3
<1>4. SegLen(Size, i) \in Nat /\ SegOff(i) \in Nat /\ Left(Size, i + 1) \in Nat
  <2> HIDE DEF i
  <2> QED
    BY <1>2, LeftNext
<1>5. f.type = "CF" /\ IsFrame(f)
  BY <1>2, <1>3, <1>4 DEF IsFrame
<1>6. f = FrameOf(Snr.msg, Snr.len, i) /\ i <= NumFrames(Snr.len)
  BY <1>2, <1>3, LinkTypes DEF FrameOf, NumFrames
<1>7. Ctl[1] = f /\ Ctl # <<>>
  BY <1>2
<1> HIDE DEF f
<1>8. InCtl = 1
  BY <1>5, <1>7 DEF InCtl
<1>9. Ctl' = <<>> /\ Win' = Win /\ Snd'.rem = Snd.rem /\ SendType'
  BY DEF TxEffect, Win
<1>10. InCtl' = 0
  BY <1>9 DEF InCtl
<1>11. Win \in Int /\ Snd.rem \in Nat
  BY <1>2, <1>4 DEF SendType, Win
<1>12. Coming' = Win /\ Coming = Win + 1 /\ Outstanding' = Snd'.rem /\ Outstanding = Snd.rem + f.n
  BY <1>7, <1>8, <1>9, <1>10, <1>11 DEF Coming, Outstanding
<1>13. Coming' = Coming - 1 /\ Outstanding = Snd'.rem + f.n /\ Snd'.rem \in Nat
  BY <1>9, <1>11, <1>12
<1>14. OPTS_BS # 0 => Win >= 0
  BY <1>11 DEF CfSent, InWait, InSem, InSt, InBlock, InLast, Granted
<1>15. OPTS_BS # 0 /\ Coming' = 0 /\ Snd'.rem # 0 => InWait(0)'
  BY <1>9, <1>12 DEF CfSent
<1>16. HandlesWell(f)
  BY <1>5, <1>9, <1>12, <1>13, <1>14, <1>15, CfHandled
<1>17. ~FcDue
  <2>1. InCfs
    BY DEF CfSent, InCfs
  <2> QED
    BY <2>1, WaitOnly DEF ReceiverInv
<1>18. /\ ReceiverInv' /\ Good(rx') /\ NamedKept /\ wq' \in Seq(Blocks)
       /\ \A j \in DOMAIN wq' : Named(rx', wq'[j])
  BY <1>5, <1>16, <1>17, FrameKeeps DEF f
<1>19. Snr' \in PeerRec /\ Snr'.i >= 2
  <2>1. Snr \in PeerRec /\ DOMAIN Snr' = {"msg", "len", "i", "open"}
        /\ Snr' = [Snr EXCEPT !.i = Snr.i + 1, !.open = Snr.open - 1]
    <3>1. peer' = [peer EXCEPT !["a"].i = @ + 1, !["a"].open = @ - 1]
      BY <1>5 DEF OnBus, f
    <3>2. peer \in [{"a"} -> PeerRec]
      BY LinkTypes DEF TypeInv
    <3> QED
      BY <3>1, <3>2 DEF PeerRec, Snr
  <2>2. Snr.i + 1 \in Nat /\ Snr.open - 1 \in Nat /\ Snr.i + 1 >= 2
    BY <1>1, <1>2 DEF CfOnBus
  <2> QED
    BY <2>1, <2>2 DEF PeerRec
<1>20. peer' \in [Peers -> PeerRec] /\ \A p \in Peers : peer'[p].i >= 2
  BY <1>19, PeerTyped
<1>21. cur = Idle
  BY <1>17, NoneDue
<1>22. TypeInv'
  BY <1>18, <1>20, <1>21 DEF TypeInv, Idle
<1> QED
  BY <1>6, <1>17, <1>18, <1>21, <1>22 DEF f

-----------------------------------------------------------------------------
(* The invariant of the link *)

\* It holds at first.
LEMMA LinkStarts == LinkInit => LinkInv
<1> SUFFICES ASSUME LinkInit PROVE LinkInv
  OBVIOUS
<1>1. Init /\ Sender!Init
  BY DEF LinkInit
<1> DEFINE c == [alloc |-> FALSE, state |-> "RESET", error |-> "OK", msg |-> 0,
                 off |-> 0, rem |-> 0, sn |-> 0, bs |-> 0, stmin |-> 0,
                 backlog |-> 0, wft |-> 0, sem |-> 0, timer |-> FALSE]
<1>2. /\ sctx = [t \in {"b"} |-> c] /\ swq = <<>> /\ scur = Sender!Idle
      /\ mbox = [t \in {"b"} |-> <<>>] /\ calls = 0 /\ len = [m \in 1 .. MaxMsgs |-> 0]
      /\ report = [m \in 0 .. MaxMsgs |-> <<>>] /\ out = [m \in 0 .. MaxMsgs |-> <<>>]
      /\ window = [t \in {"b"} |-> 0]
  <2>1. (1 .. MaxMsgs) \cup {0} = 0 .. MaxMsgs
    BY LinkTypes
  <2> HIDE DEF c
  <2>2. Sender!Msgs \cup {Sender!NoMsg} = 0 .. MaxMsgs
    BY <2>1 DEF Sender!Msgs, Sender!NoMsg
  <2>3. sctx = [t \in {"b"} |-> c]
    BY <1>1 DEF Sender!Init, Sender!NoMsg, c
  <2> QED
    BY <1>1, <2>2, <2>3 DEF Sender!Init, Sender!Msgs
<1>3. c \in SndRec /\ c.alloc = FALSE /\ c.state = "RESET" /\ c.timer = FALSE
  <2>1. 0 \in Num /\ "RESET" \in Sender!TxState /\ "OK" \in Sender!Errors
    BY SndTypes
  <2> QED
    BY <2>1 DEF SndRec
<1> HIDE DEF c
<1>4. SendType
  <2>1. 0 \in 0 .. MaxMsgs /\ <<>> \in Seq(CanFrame) /\ <<>> \in Seq(Sender!Errors)
    BY LinkTypes
  <2> QED
    BY <1>2, <1>3, <2>1 DEF SendType
<1>5. TypeInv
  BY <1>1, TypeInit
<1>6. peer = [p \in {"a"} |-> [msg |-> 0, len |-> 0, i |-> 2, open |-> 0]]
  BY <1>1, LinkTypes DEF Init
<1>7. InRest
  BY <1>2, <1>3, <1>6 DEF InRest, Snd, Ctl, Snr
<1>8. ReceiverInv
  <2>1. /\ env \in Links /\ wq = <<>> /\ cur = Idle /\ rx.list = {} /\ rx.head = 1 /\ rx.fc = <<>>
        /\ rx.aliased = FALSE
        /\ \A b \in Blocks : rx.ctx[b] = [addr |-> Nil, state |-> "UNBOUND", error |-> "OK", rem |-> 0,
                                          sn |-> 0, bs |-> 0, wft |-> 0, timer |-> FALSE, bufs |-> 0,
                                          data |-> <<>>]
    BY <1>1, LinkTypes DEF Init
  <2>2. \A b \in Blocks : /\ rx.ctx[b].state = "UNBOUND" /\ rx.ctx[b].timer = FALSE
                          /\ rx.ctx[b].bufs = 0
    BY <2>1
  <2>3. \A b \in Blocks : CtxInv(b) /\ ~OwesFc(b)
    BY <2>1, <2>2 DEF CtxInv, OwesFc
  <2> QED
    BY <2>1, <2>3 DEF ReceiverInv, FcShape, CurInv, FcDue, Nil
<1> QED
  BY <1>4, <1>5, <1>7, <1>8 DEF LinkInv, SenderInv

\* Node a alone takes a step, and its message goes on.
LEMMA TypeSame == TypeInv /\ UNCHANGED recvVars /\ peer' = peer => TypeInv'
  BY DEF recvVars, TypeInv, Good, Named

\* The message of several frames.
LEMMA SendLongKeeps ==
    ASSUME LinkInv, NEW l \in Lengths, SendLong(l) PROVE LinkInv' /\ InRest /\ InNew'
<1>1. InRest
  BY DEF LinkInv, SendLong, MaySend, SenderInv, InCfs, InNew, InFf, InWait, InCf, InSem, InGo, InSt,
         InLast, InEnd, InBlock, Sent, Busy, Snd
<1>2. UNCHANGED recvVars /\ peer' = peer /\ Sender!SendMulti("b", l)
  BY DEF SendLong
<1>3. SendType' /\ InNew'
  BY <1>1, <1>2, SendLongStep DEF LinkInv, SameBus
<1>4. Win' = 0 /\ InCtl' = 0 /\ KeepsComing
  BY <1>3 DEF InNew, InCtl, KeepsComing
<1>5. ~FcDue
  BY <1>1, WaitOnly DEF LinkInv, ReceiverInv
<1>6. ReceiverInv'
  BY <1>2, <1>4, <1>5, SenderOnly DEF LinkInv
<1> QED
  BY <1>1, <1>2, <1>3, <1>6, TypeSame DEF LinkInv, SenderInv

\* The work queue of node a.
LEMMA SenderWorksKeeps ==
    ASSUME LinkInv, SenderWorks PROVE LinkInv' /\ KeepsComing /\ OnItsWay
<1>1. Sender!Worker /\ UNCHANGED recvVars /\ peer' = peer
  BY DEF SenderWorks
<1>2. SendType' /\ KeepsComing /\ OnItsWay
  BY <1>1, WorkerCases DEF LinkInv, SameBus
<1>3. SenderInv'
  BY <1>2 DEF OnItsWay, SenderInv
<1>4. FcDue => InWait(0)' /\ Snd'.rem = Snd.rem
  BY <1>2, WaitOnly DEF LinkInv, ReceiverInv, OnItsWay
<1>5. ReceiverInv'
  BY <1>1, <1>2, <1>4, SenderOnly DEF LinkInv
<1> QED
  BY <1>1, <1>2, <1>3, <1>5, TypeSame DEF LinkInv

\* A timer of node a.
LEMMA SenderTimerKeeps ==
    ASSUME LinkInv, SenderTimer
    PROVE  /\ LinkInv' /\ SameMessage
           /\ \/ InCfs /\ InCfs'
              \/ InWait(0) /\ InEnd' /\ Quiet
<1>1. Sender!Timeout("b") /\ UNCHANGED recvVars /\ peer' = peer /\ (Snd.state = "SEND_CF" \/ Quiet)
  BY DEF SenderTimer, Snd
<1>2. /\ SendType' /\ SameMessage /\ Snd'.rem = Snd.rem /\ mbox' = mbox /\ window' = window
      /\ \/ InCfs /\ InCfs'
         \/ InWait(0) /\ InEnd' /\ Quiet
  BY <1>1, TimerCases DEF LinkInv, SameBus
<1>3. KeepsComing /\ SenderInv'
  BY <1>2, SameComing DEF LinkInv, SenderInv
<1>4. ~FcDue
  <2>1. CASE InCfs
    BY <2>1, WaitOnly DEF LinkInv, ReceiverInv
  <2>2. CASE Quiet
    BY <2>2 DEF LinkInv, ReceiverInv, CtxInv, Quiet, Queued, FcDue
  <2> QED
    BY <1>2, <2>1, <2>2
<1>5. ReceiverInv'
  BY <1>1, <1>3, <1>4, SenderOnly DEF LinkInv
<1> QED
  BY <1>1, <1>2, <1>3, <1>5, TypeSame DEF LinkInv

\* A frame leaves node a.
LEMMA FrameOnBusKeeps == ASSUME LinkInv, FrameOnBus PROVE LinkInv'
<1>1. /\ Sender!TxDone("b", TRUE) /\ OnBus(Head(Ctl)) /\ Arrives("a", Head(Ctl))
      /\ UNCHANGED <<env, cur>> /\ TxEffect /\ (FfSent \/ CfSent) /\ SenderInv'
  BY BusFacts DEF LinkInv
<1>2. SendType'
  BY <1>1 DEF TxEffect
<1>3. ReceiverInv' /\ TypeInv'
  BY <1>1, FfKeeps, CfKeeps DEF LinkInv
<1> QED
  BY <1>1, <1>2, <1>3 DEF LinkInv

\* Steps of node b alone.
LEMMA ReceiverStep ==
    ASSUME LinkInv, ReceiverWorks \/ ReceiverTimer
    PROVE  LinkInv' /\ Next /\ peer' = peer /\ UNCHANGED sendVars
<1>1. Next /\ UNCHANGED sendVars
  BY DEF ReceiverWorks, ReceiverTimer, Next
<1>2. ReceiverInv'
  <2>1. ASSUME ReceiverTimer PROVE ReceiverInv'
    BY <2>1, TimeoutKeeps DEF LinkInv, ReceiverTimer
  <2> QED
    BY <2>1, ReceiverWorksKeeps DEF LinkInv
<1>3. TypeInv'
  BY <1>1, TypeNext DEF LinkInv
<1>4. peer' = peer
  BY DEF ReceiverWorks, ReceiverTimer, Worker, FinishFc, Work, WorkSf, WorkFfTooLong, WorkFf,
         WorkTryAlloc, WorkSendWait, WorkErr, WorkRecycle, WorkNothing, Timeout
<1> QED
  BY <1>1, <1>2, <1>3, <1>4, SenderStill DEF LinkInv

\* It is an invariant.
LEMMA LinkNextKeeps == LinkInv /\ [LinkNext]_linkVars => LinkInv'
<1> SUFFICES ASSUME LinkInv, [LinkNext]_linkVars PROVE LinkInv'
  OBVIOUS
<1>1. ASSUME NEW l \in Lengths, SendShort(l) PROVE LinkInv'
  BY <1>1, SendShortKeeps DEF LinkInv
<1>2. CASE FcOnBus
  <2>1. /\ FcMoves /\ FcTx
    BY <1>2, FcReaches DEF LinkInv
  <2>2. TypeInv'
    BY <2>1, TypeNext DEF LinkInv, Next
  <2> QED
    BY <1>2, <2>1, <2>2, FcOnBusKeeps DEF LinkInv, FcMoves
<1>3. CASE UNCHANGED linkVars
  <2>1. UNCHANGED sendVars /\ UNCHANGED recvVars /\ peer' = peer
    BY <1>3 DEF linkVars
  <2>2. mbox' = mbox /\ window' = window /\ Snd' = Snd /\ (InWait(0)' <=> InWait(0))
        /\ SendType' /\ SenderInv'
    BY <2>1, SenderStill DEF sendVars, LinkInv
  <2>3. KeepsComing
    BY <2>2, SameComing DEF LinkInv
  <2>4. ReceiverInv'
    BY <2>1, <2>2, <2>3, SenderOnly DEF LinkInv, ReceiverInv
  <2> QED
    BY <2>1, <2>2, <2>4, TypeSame DEF LinkInv
<1> QED
  BY <1>1, <1>2, <1>3, SendLongKeeps, SenderWorksKeeps, SenderTimerKeeps, FrameOnBusKeeps, ReceiverStep
     DEF LinkNext

\* Whatever is lost: node b owes node a a flow-control frame only when node a waits
\* for one, and expects the frames that node a may still send.
THEOREM LinkInvariant == LinkSpec => []LinkInv
<1>1. LinkInv /\ [LinkNext]_linkVars => LinkInv'
  BY LinkNextKeeps
<1> QED
  BY <1>1, LinkStarts, PTL DEF LinkSpec

\* The environment stays what it was.
LEMMA EnvSame == LinkInv /\ [LinkNext]_linkVars => env' = env
<1> SUFFICES ASSUME LinkInv, [LinkNext]_linkVars PROVE env' = env
  OBVIOUS
<1>1. FcOnBus \/ ReceiverTimer => env' = env
  BY DEF FcOnBus, ReceiverTimer, Timeout
<1>2. ReceiverWorks => env' = env
  BY DEF ReceiverWorks, Worker, FinishFc, Work, WorkSf, WorkFfTooLong, WorkFf, WorkTryAlloc,
         WorkSendWait, WorkErr, WorkRecycle, WorkNothing
<1>3. SenderWorks \/ SenderTimer \/ FrameOnBus \/ UNCHANGED linkVars => env' = env
  BY DEF SenderWorks, SenderTimer, FrameOnBus, linkVars, recvVars
<1>4. ASSUME NEW l \in Lengths, SendShort(l) \/ SendLong(l) PROVE env' = env
  BY <1>4 DEF SendShort, SendLong, recvVars
<1> QED
  BY <1>1, <1>2, <1>3, <1>4 DEF LinkNext

-----------------------------------------------------------------------------
(* A bus that loses nothing: where both nodes are *)

\* A message needs no more buffers than one reception is meant to have.
MessagesFit == \A l \in Lengths : NumFrames(l) <= MAX_PACKET_COUNT

\* The context c holds every frame of the message under way that has been on the bus,
\* and a buffer for each and no other.
AtFrame(c) == /\ Snr.msg >= 1 /\ Snr.len \in Lengths
              /\ PartOf(c, Snr.msg, Snr.len) /\ Len(c.data) = Snr.i - 1
Current(c) == AtFrame(c) /\ c.bufs = Snr.i - 1
AllSent    == Snr.i = NumFrames(Snr.len) + 1

\* No message is under way, or only to recv_callback; a new one is; node b owes a
\* flow-control frame; it expects consecutive frames.
Resting   == /\ InRest \/ (InEnd /\ Snd.state = "WAIT_FIN")
             /\ AllSent
             /\ \A b \in rx.list : Current(rx.ctx[b]) /\ rx.ctx[b].state \in Complete /\ Queued(b)
Ready     == (InNew \/ InFf) /\ AllSent /\ rx.list = {}
Waiting   == /\ InWait(0) /\ rx.list # {}
             /\ \A k \in DOMAIN rx.fc : rx.fc[k].fs = "CTS"
             /\ \A b \in rx.list :
                  /\ Current(rx.ctx[b])
                  /\ IF rx.fc = <<>> THEN OwesFc(b) ELSE rx.ctx[b].state \in {"SEND_FC", "WAIT_CF"}
Receiving == /\ InCfs /\ rx.list # {}
             /\ \A b \in rx.list : /\ Current(rx.ctx[b]) /\ rx.ctx[b].state = "WAIT_CF"
                                   /\ OPTS_BS # 0 => rx.ctx[b].bs = Coming
InStep    == /\ Resting \/ Ready \/ Waiting \/ Receiving
             /\ \A b \in Blocks : b \notin rx.list => rx.ctx[b].state = "UNBOUND"

-----------------------------------------------------------------------------
(* A frame that finds a buffer is handled *)

\* What process_cf makes of the frame that is expected.
LEMMA CfExpected ==
    ASSUME env \in Env, NEW c \in Ctx, c.state = "WAIT_CF", NEW f, IsFrame(f), f.type = "CF",
           SnMatches(c, f)
    PROVE  LET d == process_cf(c, f) IN
           /\ d.state # "ERR"
           /\ d.rem # 0 =>
                IF RxBs # 0 /\ c.bs = 1 THEN d.state = "TRY_ALLOC" /\ d.bs = RxBs
                ELSE d.state = "WAIT_CF" /\ d.bs = IF RxBs # 0 THEN Dec8(c.bs) ELSE c.bs
<1> DEFINE d == CfTimer([c EXCEPT !.sn = IncSn(@)])
           n == Min2(d.rem, f.n)
           e == Add(d, f, n)
<1>1. d \in Ctx /\ d.rem = c.rem /\ d.state = "WAIT_CF" /\ d.bs = c.bs
  <2>1. IncSn(c.sn) \in 0 .. SN_MOD - 1
    BY WrapTypes DEF Ctx
  <2> QED
    BY <2>1 DEF CfTimer, Ctx
<1>2. n \in Nat /\ n <= d.rem
  BY <1>1 DEF Min2, IsFrame, Ctx
<1>3. process_cf(c, f) = CfAdded(e)
  BY DEF process_cf
<1> HIDE DEF d, n
<1>4. e \in Ctx /\ e.state = "WAIT_CF" /\ e.bs = c.bs
  BY <1>1, <1>2, AddType DEF Added
<1> HIDE DEF e
<1>5. DOMAIN e = DOMAIN [e EXCEPT !.bs = 0, !.state = "RECYCLE"] /\ RxBs \in Nat /\ e.bs \in Nat
  BY <1>4, LinkTypes DEF Ctx, Bytes, Env, RxBs
<1>6. CASE e.rem = 0
  <2>1. CfAdded(e) = [e EXCEPT !.state = "RECYCLE"]
    BY <1>6 DEF CfAdded
  <2>2. CfAdded(e).state = "RECYCLE" /\ CfAdded(e).rem = 0
    BY <1>4, <1>6, <2>1 DEF Ctx
  <2> QED
    BY <1>3, <2>2
<1>7. CASE e.rem # 0 /\ RxBs # 0 /\ c.bs = 1
  <2>1. CfAdded(e) = [e EXCEPT !.bs = RxBs, !.state = "TRY_ALLOC"]
    BY <1>4, <1>7 DEF CfAdded
  <2>2. CfAdded(e).state = "TRY_ALLOC" /\ CfAdded(e).bs = RxBs
    BY <1>4, <2>1 DEF Ctx
  <2> QED
    BY <1>3, <1>7, <2>2
<1>8. CASE e.rem # 0 /\ RxBs # 0 /\ c.bs # 1
  <2>1. CfAdded(e) = [e EXCEPT !.bs = Dec8(@)]
    BY <1>4, <1>8 DEF CfAdded
  <2>2. CfAdded(e).state = "WAIT_CF" /\ CfAdded(e).bs = Dec8(c.bs)
    BY <1>4, <2>1 DEF Ctx
  <2> QED
    BY <1>3, <1>8, <2>2
<1>9. CASE e.rem # 0 /\ RxBs = 0
  BY <1>3, <1>4, <1>9 DEF CfAdded
<1> QED
  BY <1>6, <1>7, <1>8, <1>9

\* The next consecutive frame, in the context that holds the ones before.
LEMMA NextTaken ==
    ASSUME TypeInv, WentOn("a"), Sending("a"), RxBs = OPTS_BS, NEW c \in Ctx, NEW e \in Ctx,
           AtFrame(c), c.state = "WAIT_CF", OneMoreBuf(c, e), OPTS_BS # 0 => c.bs >= 1,
           NEW d, d = receive_can_rx(e, FrameOf(Snr.msg, Snr.len, Snr.i))
    PROVE  /\ AtFrame(d)' /\ d.bufs = c.bufs + 1
           /\ IF Snr.i = NumFrames(Snr.len) THEN d.state = "RECYCLE"
              ELSE IF OPTS_BS # 0 /\ c.bs = 1 THEN d.state = "TRY_ALLOC"
              ELSE d.state = "WAIT_CF" /\ (OPTS_BS # 0 => d.bs = c.bs - 1)
<1> DEFINE f == FrameOf(Snr.msg, Snr.len, Snr.i)
           k == Len(c.data)
<1>1. /\ Snr.len \in Nat /\ Snr.i \in Nat /\ Snr.i >= 2 /\ Snr.msg \in Nat /\ Snr.msg >= 1
      /\ Snr'.len = Snr.len /\ Snr'.i = Snr.i + 1 /\ Snr'.msg = Snr.msg
      /\ Snr.i <= NumFrames(Snr.len) /\ NumFrames(Snr.len) \in Nat /\ Snr.len \in Lengths
      /\ "a" \in Peers
  <2>1. "a" \in Peers
    BY LinkTypes
  <2>2. Snr.len \in Nat /\ Snr.i \in Nat /\ Snr.i >= 2 /\ Snr.msg \in Nat
    BY <2>1, PeerTypes DEF Snr
  <2> QED
    BY <2>1, <2>2, FrameCount DEF WentOn, Sending, Snr, AtFrame
<1>2. /\ f.type = "CF" /\ f.msg = Snr.msg /\ f.off \in Nat /\ f.n \in Nat /\ f.n > 0
      /\ f.sn = (Snr.i - 1) % SN_MOD /\ Snr.len > SfMax
  BY <1>1, NextFrame
<1>3. IsFrame(f) /\ env \in Env
  BY <1>1, <1>2 DEF IsFrame, TypeInv
<1>4. /\ e.state = "WAIT_CF" /\ e.data = c.data /\ e.rem = c.rem /\ e.sn = c.sn /\ e.bs = c.bs
      /\ e.bufs = c.bufs + 1 /\ e.bs \in Nat /\ c.data \in Seq(Piece) /\ k \in Nat
  BY LinkTypes DEF OneMoreBuf, Ctx, Bytes
<1>5. /\ k = Snr.i - 1 /\ k >= 1 /\ k < NumFrames(Snr.len) /\ c.sn = k % SN_MOD
      /\ \A j \in 1 .. k : c.data[j] = PieceOf(Snr.msg, Snr.len, j)
      /\ c.rem = Snr.len - SegOff(k + 1)
  BY DEF AtFrame, PartOf, Collecting
<1>6. PartOf(e, Snr.msg, Snr.len)
  BY <1>4 DEF AtFrame, PartOf
<1>7. c.data[1].msg = Snr.msg
  <2>1. c.data[1] = PieceOf(Snr.msg, Snr.len, 1)
    BY <1>4, <1>5
  <2>2. PieceOf(Snr.msg, Snr.len, 1).msg = FrameOf(Snr.msg, Snr.len, 1).msg
    BY DEF PieceOf
  <2>3. FrameOf(Snr.msg, Snr.len, 1).msg = Snr.msg
    <3>1. Snr.len \in Nat \ {0}
      BY <1>1, SegTypes
    <3> QED
      BY <1>1, <3>1, FirstFrame
  <2> QED
    BY <2>1, <2>2, <2>3
<1> HIDE DEF f, k
<1>8. Holds(e, <<>>, peer["a"]) /\ InTime(e, peer["a"])
  <2>1. After(<<>>, Snr.msg)
    BY DEF After
  <2>2. Len(e.data) < Snr.i /\ Snr.i - Len(e.data) = 1
    BY <1>1, <1>4, <1>5 DEF k
  <2>3. Collects(e, <<>>, Snr, Snr.msg, Snr.len)
    BY <1>6, <2>1, <2>2 DEF Collects
  <2>4. Snr.msg \in 1 .. Snr.msg
    BY <1>1
  <2>5. Holds(e, <<>>, Snr)
    BY <1>1, <1>4, <2>3, <2>4 DEF Holds
  <2>6. InTime(e, Snr)
    BY <1>4, <1>7, <2>2, SegTypes DEF InTime
  <2> QED
    BY <2>5, <2>6 DEF Snr
<1>9. Holds(d, <<>>, Snr')
  <2>1. <<>> \in Seq(Seq(Piece))
    OBVIOUS
  <2>2. Holds(receive_can_rx(e, FrameOf(peer["a"].msg, peer["a"].len, peer["a"].i)), <<>>, peer'["a"])
    BY <1>1, <1>8, <2>1, HoldsCf
  <2> QED
    BY <2>2 DEF Snr
<1>10. d = process_cf(e, f)
  BY <1>4 DEF receive_can_rx, f
<1>11. SnMatches(e, f)
  BY <1>2, <1>4, <1>5 DEF SnMatches
<1>12. /\ d.state # "ERR" /\ d \in Ctx /\ d.bufs = e.bufs
       /\ d.rem # 0 =>
                IF RxBs # 0 /\ e.bs = 1 THEN d.state = "TRY_ALLOC" /\ d.bs = RxBs
                ELSE d.state = "WAIT_CF" /\ d.bs = IF RxBs # 0 THEN Dec8(e.bs) ELSE e.bs
  <2>1. LET x == process_cf(e, f) IN
           /\ x.state # "ERR"
           /\ x.rem # 0 =>
                IF RxBs # 0 /\ e.bs = 1 THEN x.state = "TRY_ALLOC" /\ x.bs = RxBs
                ELSE x.state = "WAIT_CF" /\ x.bs = IF RxBs # 0 THEN Dec8(e.bs) ELSE e.bs
    BY <1>2, <1>3, <1>4, <1>11, CfExpected
  <2>2. process_cf(e, f) \in Ctx /\ process_cf(e, f).bufs = e.bufs
    BY <1>3, <1>4, CfType
  <2> QED
    BY <1>10, <2>1, <2>2
<1>13. /\ d.data = Append(e.data, PieceIn(f, Min2(e.rem, f.n)))
       /\ IF d.rem = 0 THEN d.state = "RECYCLE" ELSE d.state \in {"WAIT_CF", "TRY_ALLOC"}
  BY <1>3, <1>4, <1>10, <1>12, CfType
<1>14. Len(d.data) = Snr.i /\ d.data[1] = c.data[1]
  <2> DEFINE x == PieceIn(f, Min2(e.rem, f.n))
  <2>1. d.data = Append(c.data, x)
    BY <1>4, <1>13
  <2> HIDE DEF x
  <2>2. Len(d.data) = k + 1 /\ d.data[1] = c.data[1]
    BY <1>4, <1>5, <2>1 DEF k
  <2> QED
    BY <1>1, <1>4, <1>5, <2>2
<1>15. PICK m \in 1 .. Snr'.msg, l \in Lengths : Collects(d, <<>>, Snr', m, l)
  BY <1>9, <1>13 DEF Holds, Complete, Collecting
<1>16. m = Snr.msg
  <2>1. d.data[1] = PieceOf(m, l, 1)
    BY <1>1, <1>14, <1>15 DEF Collects, PartOf
  <2>2. PieceOf(m, l, 1).msg = FrameOf(m, l, 1).msg
    BY DEF PieceOf
  <2>3. FrameOf(m, l, 1).msg = m
    <3>1. l \in Nat \ {0} /\ m \in Nat
      BY <1>1, SegTypes
    <3> QED
      BY <3>1, FirstFrame
  <2> QED
    BY <1>7, <1>14, <2>1, <2>2, <2>3
<1>17. PartOf(d, Snr.msg, Snr.len)
  BY <1>1, <1>15, <1>16 DEF Collects
<1>18. AtFrame(d)' /\ d.bufs = c.bufs + 1
  <2>1. d.bufs = c.bufs + 1
    BY <1>4, <1>12
  <2>2. Len(d.data) = Snr'.i - 1
    BY <1>1, <1>14
  <2> QED
    BY <1>1, <1>17, <2>1, <2>2 DEF AtFrame
<1>19. IF Snr.i = NumFrames(Snr.len) THEN d.state = "RECYCLE" ELSE d.state \in {"WAIT_CF", "TRY_ALLOC"}
  <2>1. /\ d.state \in Complete => Snr.i = NumFrames(Snr.len)
        /\ d.state \in Collecting => Snr.i < NumFrames(Snr.len)
    BY <1>14, <1>17 DEF PartOf
  <2> QED
    BY <1>1, <1>13, <2>1 DEF Complete, Collecting
<1>20. Snr.i # NumFrames(Snr.len) => d.rem # 0
  BY <1>13, <1>19
<1>21. OPTS_BS # 0 => Dec8(e.bs) = c.bs - 1
  BY <1>4 DEF Dec8
<1> QED
  BY <1>4, <1>12, <1>18, <1>19, <1>20, <1>21

\* The first frame of a message, in a context that holds nothing.
LEMMA FirstTaken ==
    ASSUME NEW m \in Nat, m >= 1, NEW l \in Lengths, NEW c \in Ctx,
           c.state = "WAIT_FF_SF", c.data = <<>>,
           NEW d, d = receive_can_rx(c, FrameOf(m, l, 1)),
           Snr'.msg = m, Snr'.len = l, Snr'.i = 2, env \in Env
    PROVE  /\ AtFrame(d)' /\ d.bufs = c.bufs /\ d.state = IF l <= SfMax THEN "PROCESS_SF" ELSE "PROCESS_FF"
<1> DEFINE f == FrameOf(m, l, 1)
<1>1. l \in Nat /\ l \in Nat \ {0}
  BY SegTypes
<1>2. /\ f.msg = m /\ f.off = 0 /\ f.n \in Nat /\ f.len = l
      /\ \/ l <= SfMax /\ f.type = "SF" /\ f.n = l
         \/ l > SfMax /\ f.type = "FF" /\ FfLen <= l
  BY <1>1, FirstFrame
<1>3. IsFrame(f)
  BY <1>1, <1>2 DEF IsFrame
<1>4. PieceOf(m, l, 1) = PieceIn(f, f.n) /\ (l > SfMax => f.n = FfLen)
  <2>1. PieceOf(m, l, 1) = PieceIn(f, f.n)
    BY DEF PieceOf, PieceIn
  <2>2. ASSUME l > SfMax PROVE f.n = FfLen
    <3>1. ~(l <= SfMax) /\ FfLen <= l - 0
      BY <1>1, <2>2, SegTypes
    <3>2. f.n = SegLen(l, 1)
      BY <3>1 DEF FrameOf, Segment
    <3> QED
      BY <1>1, <3>1, <3>2, SegTypes DEF SegLen, SegOff, Min2
  <2> QED
    BY <2>1, <2>2
<1>5. NumFrames(l) \in Nat /\ NumFrames(l) >= 1 /\ (l > SfMax => NumFrames(l) > 1) /\ (l <= SfMax => NumFrames(l) = 1)
  <2>1. NumFrames(l) \in Nat /\ NumFrames(l) >= 1
    BY <1>1, FrameCount
  <2>2. l > SfMax => NumSegs(l) >= 2 /\ NumSegs(l) \in Nat
    <3>1. 2 \in Nat /\ 2 >= 2
      OBVIOUS
    <3> QED
      BY <1>1, <3>1, SegCount
  <2> QED
    BY <1>1, <2>1, <2>2, SegTypes DEF NumFrames
<1>6. d = process_ff_sf(c, f)
  BY DEF receive_can_rx
<1> HIDE DEF f
<1>7. /\ d.bufs = c.bufs
      /\ f.type = "SF" => d.state = "PROCESS_SF" /\ d.data = Append(c.data, PieceIn(f, f.n))
      /\ f.type = "FF" => /\ d.state = "PROCESS_FF" /\ d.rem = f.len - FfLen /\ d.sn = 1
                          /\ d.data = Append(c.data, PieceIn(f, FfLen))
  BY <1>3, <1>6, FfSfType
<1>8. d.data = <<PieceOf(m, l, 1)>>
  BY <1>2, <1>4, <1>6, <1>7
<1>9. Len(d.data) = 1 /\ d.data[1] = PieceOf(m, l, 1)
  <2> DEFINE s == d.data
             x == PieceOf(m, l, 1)
  <2>1. s = <<x>>
    BY <1>8
  <2> HIDE DEF s, x
  <2>2. Len(s) = 1 /\ s[1] = x
    BY <2>1
  <2> QED
    BY <2>2 DEF s, x
<1>10. d.state = IF l <= SfMax THEN "PROCESS_SF" ELSE "PROCESS_FF"
  BY <1>1, <1>2, <1>7, SegTypes
<1>11. d.state = "PROCESS_FF" => d.rem = l - SegOff(2) /\ d.sn = 1 % SN_MOD
  <2>1. SegOff(2) = FfLen
    BY SegTypes DEF SegOff
  <2>2. 1 % SN_MOD = 1
    BY SegTypes
  <2> QED
    BY <1>2, <1>7, <1>10, <2>1, <2>2
<1>12. PartOf(d, m, l)
  <2>1. 1 >= 1 /\ 1 <= NumFrames(l) /\ \A j \in 1 .. 1 : d.data[j] = PieceOf(m, l, j)
    BY <1>5, <1>9
  <2>2. d.state \in Complete => 1 = NumFrames(l)
    BY <1>5, <1>10 DEF Complete
  <2>3. d.state \in Collecting => 1 < NumFrames(l) /\ d.rem = l - SegOff(1 + 1) /\ d.sn = 1 % SN_MOD
    <3>1. d.state \in Collecting => l > SfMax /\ d.state = "PROCESS_FF"
      BY <1>1, <1>10, SegTypes DEF Collecting
    <3> QED
      BY <1>5, <1>11, <3>1
  <2> QED
    BY <1>9, <2>1, <2>2, <2>3 DEF PartOf
<1> QED
  BY <1>6, <1>7, <1>9, <1>10, <1>12 DEF AtFrame

-----------------------------------------------------------------------------
(* Room for the next frame *)

Below == {ss \in Nat \X Nat : ss[1] < ss[2]}

\* A set that holds 0 and with each number the next one holds them all.
LEMMA CountUp ==
    ASSUME NEW S, 0 \in S, \A n \in Nat : n \in S => n + 1 \in S PROVE \A n \in Nat : n \in S
<1> DEFINE T == Nat \ S
<1>1. SUFFICES ASSUME T # {} PROVE FALSE
  OBVIOUS
<1>2. Below = OpToRel(<, Nat)
  BY DEF Below, OpToRel
<1>3. IsWellFoundedOn(Below, Nat)
  BY <1>2, NatLessThanWellFounded
<1>4. T \subseteq Nat
  OBVIOUS
<1> HIDE DEF T
<1>5. PICK x \in T : \A y \in T : ~(<<y, x>> \in Below)
  BY <1>1, <1>3, <1>4, WFMin
<1> USE DEF T
<1>6. x \in Nat /\ x # 0 /\ x - 1 \in Nat /\ <<x - 1, x>> \in Below
  BY <1>5 DEF Below
<1>7. x - 1 \in S
  BY <1>5, <1>6
<1>8. x - 1 + 1 \in S
  BY <1>6, <1>7
<1> QED
  BY <1>5, <1>6, <1>8

\* The buffers in use when one context has them all.
LEMMA BufsOfOne ==
    ASSUME NEW S, NEW b \in Blocks, S.ctx[b].bufs \in Nat, \A c \in Blocks : c # b => S.ctx[c].bufs = 0
    PROVE  BufsOf(S, Blocks) = S.ctx[b].bufs
<1> DEFINE N == RX_BUF_COUNT
           v == S.ctx[b].bufs
           Sum(f) == f = [n \in 0 .. N |->
                          IF n = 0 THEN 0 ELSE f[n - 1] + (IF n \in Blocks THEN S.ctx[n].bufs ELSE 0)]
           g == [n \in 0 .. N |-> IF n < b THEN 0 ELSE v]
           h == CHOOSE f : Sum(f)
<1>1. N \in Nat /\ N >= 1 /\ Blocks = 1 .. N /\ b \in 1 .. N
  BY SegTypes DEF Blocks
<1>2. ASSUME NEW n \in 1 .. N PROVE S.ctx[n].bufs = IF n = b THEN v ELSE 0
  BY <1>1, <1>2
<1> HIDE DEF v
<1>3. Sum(g)
  <2>1. ASSUME NEW n \in 0 .. N
        PROVE  g[n] = IF n = 0 THEN 0 ELSE g[n - 1] + (IF n \in Blocks THEN S.ctx[n].bufs ELSE 0)
    <3>1. CASE n = 0
      BY <1>1, <3>1
    <3>2. CASE n # 0
      <4>1. n \in 1 .. N /\ n - 1 \in 0 .. N /\ n \in Blocks
        BY <1>1, <3>2
      <4>2. g[n - 1] = IF n - 1 < b THEN 0 ELSE v
        BY <4>1
      <4>3. S.ctx[n].bufs = IF n = b THEN v ELSE 0
        BY <1>2, <4>1
      <4>4. v \in Nat
        BY DEF v
      <4> QED
        BY <1>1, <3>2, <4>1, <4>2, <4>3, <4>4
    <3> QED
      BY <3>1, <3>2
  <2>2. DOMAIN g = 0 .. N /\ g = [n \in 0 .. N |-> g[n]]
    OBVIOUS
  <2> HIDE DEF g
  <2> QED
    BY <2>1, <2>2
<1>4. Sum(h)
  BY <1>3
<1>5. ASSUME NEW f, Sum(f), NEW n \in Nat, n + 1 <= N
      PROVE  f[n + 1] = f[n] + (IF n + 1 \in Blocks THEN S.ctx[n + 1].bufs ELSE 0)
  <2>1. f = [k \in 0 .. N |->
               IF k = 0 THEN 0 ELSE f[k - 1] + (IF k \in Blocks THEN S.ctx[k].bufs ELSE 0)]
    BY <1>5
  <2>2. n + 1 \in 0 .. N /\ n + 1 # 0 /\ n + 1 - 1 = n
    BY <1>1, <1>5
  <2>3. ASSUME NEW k \in 0 .. N, k # 0
        PROVE  f[k] = f[k - 1] + (IF k \in Blocks THEN S.ctx[k].bufs ELSE 0)
    <3> DEFINE w(k1) == IF k1 = 0 THEN 0 ELSE f[k1 - 1] + (IF k1 \in Blocks THEN S.ctx[k1].bufs ELSE 0)
    <3>1. f = [k1 \in 0 .. N |-> w(k1)]
      BY <2>1
    <3>2. w(k) = f[k - 1] + (IF k \in Blocks THEN S.ctx[k].bufs ELSE 0)
      BY <2>3
    <3> HIDE DEF w
    <3>3. f[k] = w(k)
      BY <3>1, <2>3, Zenon
    <3> QED
      BY <3>2, <3>3
  <2> QED
    BY <2>2, <2>3
<1>6. BufsOf(S, Blocks) = h[N]
  BY DEF BufsOf
<1> HIDE DEF h
<1>7. \A n \in Nat : n \in {k \in Nat : k <= N => h[k] = g[k]}
  <2> DEFINE T == {k \in Nat : k <= N => h[k] = g[k]}
  <2>1. h[0] = 0 /\ g[0] = 0
    BY <1>1, <1>4
  <2>2. ASSUME NEW n \in Nat, n \in T PROVE n + 1 \in T
    <3>1. SUFFICES ASSUME n + 1 <= N PROVE h[n + 1] = g[n + 1]
      OBVIOUS
    <3>2. h[n + 1] = h[n] + (IF n + 1 \in Blocks THEN S.ctx[n + 1].bufs ELSE 0)
      BY <1>4, <1>5, <3>1
    <3>3. g[n + 1] = g[n] + (IF n + 1 \in Blocks THEN S.ctx[n + 1].bufs ELSE 0)
      BY <1>3, <1>5, <3>1
    <3>4. h[n] = g[n]
      BY <1>1, <2>2, <3>1
    <3> QED
      BY <3>2, <3>3, <3>4
  <2>3. 0 \in T
    BY <2>1
  <2> HIDE DEF T
  <2>4. \A n \in Nat : n \in T
    BY <2>2, <2>3, CountUp
  <2> QED
    BY <2>4 DEF T
<1>8. h[N] = g[N]
  <2>1. N \in Nat /\ N <= N
    BY <1>1
  <2> HIDE DEF g, N
  <2>2. N \in {k \in Nat : k <= N => h[k] = g[k]}
    BY <1>7, <2>1, Zenon
  <2> QED
    BY <2>2, <2>1
<1>9. g[N] = v
  BY <1>1
<1> QED
  BY <1>6, <1>8, <1>9 DEF v

\* The pool has a buffer for the next frame of a message ...
LEMMA RoomLeft ==
    ASSUME TypeInv, ReceiverInv, MessagesFit, NEW l \in Lengths, NEW b \in Blocks,
           b \in rx.list \/ rx.list = {}, rx.ctx[b].bufs < NumFrames(l)
    PROVE  ~NoNetBufLeft
<1>1. rx.ctx[b].bufs \in Nat
  <2>1. rx.ctx[b] \in Ctx
    BY LinkFacts
  <2> QED
    BY <2>1 DEF Ctx
<1>2. ASSUME NEW c \in Blocks, c # b PROVE rx.ctx[c].bufs = 0
  <2>1. c \notin rx.list
    BY <1>2 DEF ReceiverInv
  <2> QED
    BY <2>1 DEF ReceiverInv, CtxInv
<1>3. BufsOf(rx, Blocks) = rx.ctx[b].bufs
  BY <1>1, <1>2, BufsOfOne
<1>4. NumFrames(l) \in Nat /\ NumFrames(l) <= MAX_PACKET_COUNT /\ MAX_PACKET_COUNT \in Nat
      /\ RX_BUF_COUNT \in Nat \ {0}
  BY SegTypes, FrameCount, RecvAssumptions DEF MessagesFit, RecvAssumptions
<1>5. Pool >= MAX_PACKET_COUNT
  <2>1. \A x \in Nat \ {0}, y \in Nat : x * y >= y
    <3>1. ASSUME NEW x \in Nat \ {0}, NEW y \in Nat PROVE x * y >= y
      <4>1. x * y = (x - 1) * y + y /\ (x - 1) \in Nat
        OBVIOUS
      <4>2. (x - 1) * y \in Nat
        BY <4>1
      <4> QED
        BY <4>1, <4>2
    <3> QED
      BY <3>1
  <2> QED
    BY <1>4, <2>1 DEF Pool
<1>6. Pool \in Nat
  BY <1>4 DEF Pool
<1> QED
  BY <1>1, <1>3, <1>4, <1>5, <1>6 DEF NoNetBufLeft

\* ... and a context for its first one: every frame that arrives is handled.
LEMMA FrameFinds ==
    ASSUME TypeInv, ReceiverInv, MessagesFit, ~Lossy, NEW l \in Lengths, NEW f, IsFrame(f),
           Arrives("a", f), \A b \in rx.list : rx.ctx[b].bufs < NumFrames(l)
    PROVE  \E b \in Blocks : FrameTaken("a", f, b)
<1>1. "a" \in Peers /\ 1 \in Blocks /\ RX_BUF_COUNT \in Nat \ {0}
  BY LinkTypes, SegTypes DEF Blocks
<1>2. ~NoNetBufLeft
  <2>1. CASE rx.list = {}
    <3>1. rx.ctx[1].bufs = 0
      BY <1>1, <2>1 DEF ReceiverInv, CtxInv
    <3>2. NumFrames(l) \in Nat /\ NumFrames(l) >= 1
      BY SegTypes, FrameCount
    <3>3. rx.ctx[1].bufs < NumFrames(l)
      BY <3>1, <3>2
    <3> QED
      BY <1>1, <2>1, <3>3, RoomLeft
  <2>2. CASE rx.list # {}
    <3>1. PICK b \in rx.list : TRUE
      BY <2>2
    <3>2. b \in Blocks
      BY LinkFacts
    <3> QED
      BY <3>1, <3>2, RoomLeft
  <2> QED
    BY <2>1, <2>2
<1>3. "loss" \notin Faults
  BY DEF Lossy, Faults
<1>4. FrameRx("a", f)
  BY <1>3 DEF Arrives
<1>5. \/ rx' = rx /\ wq' = wq /\ (NoNetBufLeft \/ (rx.head = Nil /\ CtxOf("a") = {}))
      \/ \E b \in CtxOf("a") : rx' = free_recv_ctx(rx, b) /\ wq' = wq /\ NoNetBufLeft
      \/ \E b \in Blocks : FrameTaken("a", f, b)
  BY <1>1, <1>4, FrameEffect DEF TypeInv
<1>6. CtxOf("a") = {} => rx.head # Nil
  <2>1. \A b \in rx.list : CtxOf("a") = {b}
    BY LinkFacts
  <2> QED
    BY <2>1 DEF ReceiverInv
<1> QED
  BY <1>2, <1>5, <1>6

\* Only one place at a time.
LEMMA PlacesApart ==
    /\ InRest => ~InNew /\ ~InFf /\ ~InWait(0) /\ ~InCfs /\ ~InEnd
    /\ InNew \/ InFf => ~InWait(0) /\ ~InCfs /\ ~InEnd
    /\ InCfs => ~InEnd
<1>1. InRest => ~InNew /\ ~InFf /\ ~InWait(0) /\ ~InCfs /\ ~InEnd
  BY DEF InRest, InNew, InFf, InWait, InCfs, InCf, InSem, InGo, InSt, InLast, InBlock, InEnd, Sent, Busy
<1>2. InNew \/ InFf => ~InWait(0) /\ ~InCfs /\ ~InEnd
  <2>1. InWait(0) \/ InCfs \/ InEnd => Sent
    BY DEF InWait, InCfs, InCf, InSem, InGo, InSt, InLast, InBlock, InEnd
  <2>2. Sent => Snr.msg = calls
    BY DEF Sent
  <2>3. InNew \/ InFf => Snr.msg = calls - 1 /\ calls \in Nat
    BY LinkTypes DEF InNew, InFf, Busy
  <2> QED
    BY <2>1, <2>2, <2>3
<1>3. InCfs => ~InEnd
  BY DEF InWait, InCfs, InCf, InSem, InGo, InSt, InLast, InBlock, InEnd
<1> QED
  BY <1>1, <1>2, <1>3

\* Where the sender is tells where node b is.
LEMMA InStepWhere ==
    ASSUME InStep
    PROVE  /\ InRest \/ InEnd => Resting
           /\ InNew \/ InFf => Ready
           /\ InWait(0) => Waiting
           /\ InCfs => Receiving
  BY PlacesApart, WaitOnly DEF InStep, Resting, Ready, Waiting, Receiving

-----------------------------------------------------------------------------
(* Where nothing is lost the two nodes stay in step *)

\* The context b is the same, and so is what has been on the bus.
LEMMA CurrentSame ==
    ASSUME NEW b, Current(rx.ctx[b]), Snr' = Snr, rx'.ctx[b] = rx.ctx[b]
    PROVE  Current(rx.ctx[b])'
  BY DEF Current, AtFrame, PartOf

\* While consecutive frames are on their way, node b waits for one of the block at
\* least; the only one that may be in the controller is a consecutive frame.
LEMMA StillComing == SendType /\ InCfs /\ OPTS_BS # 0 => Coming >= 1
<1> SUFFICES ASSUME SendType, InCfs, OPTS_BS # 0 PROVE Coming >= 1
  OBVIOUS
<1>1. Sent /\ Win \in Int
  BY DEF InCfs, InWait, InCf, InSem, InGo, InSt, InLast, InBlock, SendType, Win
<1>2. /\ calls \in Nat /\ Size \in Nat /\ Size > SfMax /\ Snr.i \in Nat /\ Snr.i >= 2
  BY <1>1, SentTypes
<1>3. CASE Ctl = <<Segment(calls, Size, Snr.i)>> /\ Snr.i <= NumSegs(Size) /\ Win >= 0
  <2>1. Segment(calls, Size, Snr.i).type = "CF"
    <3> DEFINE f == Segment(calls, Size, Snr.i)
    <3>1. f = [type |-> "CF", sn |-> (Snr.i - 1) % SN_MOD, msg |-> calls,
               off |-> SegOff(Snr.i), n |-> SegLen(Size, Snr.i), len |-> 0]
      BY <1>2, <1>3, SegmentIs
    <3> HIDE DEF f
    <3>2. f.type = "CF"
      BY <3>1
    <3> QED
      BY <3>2 DEF f
  <2>2. InCtl = 1
    BY <1>3, <2>1 DEF InCtl
  <2> QED
    BY <1>1, <1>3, <2>2 DEF Coming
<1>4. CASE Ctl = <<>> /\ Win >= 1
  BY <1>1, <1>4 DEF Coming, InCtl
<1> QED
  BY <1>1, <1>3, <1>4 DEF InCfs, InWait, InCf, InSem, InGo, InSt, InLast, InBlock, Pos, Granted

\* The same of the next state.
LEMMA StillComingNext == (SendType /\ InCfs /\ OPTS_BS # 0 => Coming >= 1)'
  BY StillComing, PTL

\* So the work queue of node a keeps their number.
LEMMA KeptComing ==
    ASSUME SendType', KeepsComing, InCfs', OPTS_BS # 0
    PROVE  Coming' = Coming
<1>1. Coming' >= 1
  BY StillComingNext
<1>2. ~(Win' = 0 /\ InCtl' = 0)
  BY <1>1 DEF Coming
<1> QED
  BY <1>2 DEF KeepsComing

\* A message of several frames is accepted.
LEMMA StepLong ==
    ASSUME LinkInv, InStep, ~Lossy, NEW l \in Lengths, SendLong(l)
    PROVE  InStep' /\ Ready'
<1>1. InRest /\ InNew'
  BY SendLongKeeps
<1>2. Resting
  BY <1>1, InStepWhere
<1>3. UNCHANGED <<env, rx, wq, cur, peer>> /\ CtxOf("a") = {}
  BY DEF SendLong, recvVars, MaySend
<1>4. rx.list = {}
  <2>1. \A b \in rx.list : CtxOf("a") = {b}
    BY LinkFacts DEF LinkInv
  <2> QED
    BY <1>3, <2>1
<1> QED
  BY <1>1, <1>2, <1>3, <1>4 DEF InStep, Resting, Ready, AllSent, Snr

\* A new context takes the first frame of a message.
LEMMA StepFirst ==
    ASSUME TypeInv, ReceiverInv, ~FcDue, MessagesFit, ~Lossy, rx.list = {},
           \A b \in Blocks : b \notin rx.list => rx.ctx[b].state = "UNBOUND",
           NEW m \in Nat, m >= 1, NEW l \in Lengths, NEW f, f = FrameOf(m, l, 1), Arrives("a", f),
           Snr'.msg = m, Snr'.len = l, Snr'.i = 2
    PROVE  \E b \in Blocks :
              /\ rx'.list = {b} /\ Current(rx.ctx[b])' /\ Queued(b)' /\ rx'.fc = <<>> /\ rx'.got = rx.got
              /\ rx'.ctx[b].state = IF l <= SfMax THEN "PROCESS_SF" ELSE "PROCESS_FF"
              /\ \A c \in Blocks : c # b => rx'.ctx[c].state = "UNBOUND"
<1>1. l \in Nat /\ l \in Nat \ {0} /\ env \in Env
  BY SegTypes DEF TypeInv
<1>2. IsFrame(f)
  BY <1>1, FirstFrame DEF IsFrame
<1>3. PICK b \in Blocks : FrameTaken("a", f, b)
  BY <1>2, FrameFinds
<1>4. CtxOf("a") = {} /\ ~TakenByOld("a", f, b)
  BY DEF CtxOf, TakenByOld
<1>5. rx'.list = {b} /\ TakenByNew("a", f, b)
  BY <1>3, <1>4 DEF FrameTaken, TakenByNew
<1>6. PICK c \in Ctx : Fresh(c, "a") /\ rx'.ctx[b] = receive_can_rx(c, f)
  BY <1>5 DEF TakenByNew
<1>7. PICK d \in Ctx : d = receive_can_rx(c, f) /\ d = rx'.ctx[b]
  <2>1. rx'.ctx[b] \in Ctx
    BY <1>3 DEF FrameTaken, Good, RxRec
  <2> QED
    BY <1>6, <2>1
<1>8. /\ Current(rx.ctx[b])' /\ rx'.ctx[b].state = IF l <= SfMax THEN "PROCESS_SF" ELSE "PROCESS_FF"
  <2>1. c.state = "WAIT_FF_SF" /\ c.data = <<>> /\ c.bufs = 1
    BY <1>6 DEF Fresh
  <2>2. AtFrame(d)' /\ d.bufs = 1 /\ d.state = (IF l <= SfMax THEN "PROCESS_SF" ELSE "PROCESS_FF")
    BY <1>1, <1>7, <2>1, FirstTaken
  <2> QED
    BY <1>7, <2>2 DEF Current, AtFrame, PartOf
<1>9. Queued(b)'
  <2>1. wq' = Submit(wq, b)
    BY <1>3, <1>8 DEF FrameTaken
  <2> QED
    BY <2>1, SubmitQueued DEF TypeInv
<1>10. rx'.fc = <<>> /\ rx'.got = rx.got
  BY <1>3, NoneDue DEF FrameTaken
<1>11. \A e \in Blocks : e # b => rx'.ctx[e].state = "UNBOUND"
  BY <1>3 DEF FrameTaken, Apart
<1> QED
  BY <1>5, <1>8, <1>9, <1>10, <1>11

\* A message of one frame is sent.
LEMMA StepShort ==
    ASSUME LinkInv, InStep, ~Lossy, MessagesFit, NEW l \in Lengths, SendShort(l)
    PROVE  /\ InStep' /\ Resting' /\ Resting /\ rx.list = {} /\ AllSent /\ InRest /\ InRest'
           /\ Snr'.msg = Snr.msg + 1 /\ calls' = calls + 1 /\ calls = Snr.msg /\ calls < MaxMsgs
           /\ rx'.got = rx.got /\ Snr'.len = l /\ rx'.list # {}
           /\ \A b \in rx'.list : rx'.ctx[b].state = "PROCESS_SF"
           /\ report' = [report EXCEPT ![calls + 1] = Append(@, "OK")]
<1> DEFINE f == SfFrame(l)
<1>1. InRest /\ ~FcDue /\ cur = Idle
  BY SendShortKeeps DEF LinkInv
<1>2. OnBus(f) /\ Arrives("a", f) /\ Sender!SendSf("b", l) /\ CtxOf("a") = {}
  BY DEF SendShort, OnTheBus, OnBus, SfFrame, MaySend
<1>3. /\ InRest' /\ l <= SfMax /\ calls < MaxMsgs /\ calls' = calls + 1 /\ calls = Snr.msg /\ calls \in Nat
      /\ Snr' = [msg |-> calls + 1, len |-> l, i |-> 2, open |-> 0]
      /\ report' = [report EXCEPT ![calls + 1] = Append(@, "OK")]
  BY <1>1, <1>2, ShortStep DEF LinkInv
<1>4. Resting
  BY <1>1, InStepWhere
<1>5. rx.list = {}
  <2>1. \A b \in rx.list : CtxOf("a") = {b}
    BY LinkFacts DEF LinkInv
  <2> QED
    BY <1>2, <2>1
<1>6. f = FrameOf(calls + 1, l, 1)
  BY <1>3 DEF SfFrame, FrameOf
<1>7. calls + 1 \in Nat /\ calls + 1 >= 1
  BY <1>3
<1>8. Snr'.msg = calls + 1 /\ Snr'.len = l /\ Snr'.i = 2
  BY <1>3
<1> HIDE DEF f
<1>9. PICK b \in Blocks :
         /\ rx'.list = {b} /\ Current(rx.ctx[b])' /\ Queued(b)' /\ rx'.fc = <<>> /\ rx'.got = rx.got
         /\ rx'.ctx[b].state = IF l <= SfMax THEN "PROCESS_SF" ELSE "PROCESS_FF"
         /\ \A c \in Blocks : c # b => rx'.ctx[c].state = "UNBOUND"
  BY <1>1, <1>2, <1>5, <1>6, <1>7, <1>8, StepFirst DEF LinkInv, InStep
<1>10. AllSent'
  <2>1. NumFrames(l) = 1
    BY <1>3 DEF NumFrames
  <2> QED
    BY <1>8, <2>1 DEF AllSent
<1>11. rx'.ctx[b].state = "PROCESS_SF"
  BY <1>3, <1>9
<1>12. Resting'
  BY <1>3, <1>9, <1>10, <1>11 DEF Resting, Complete
<1>13. InStep'
  BY <1>9, <1>12 DEF InStep
<1> QED
  BY <1>1, <1>3, <1>4, <1>5, <1>8, <1>9, <1>11, <1>12, <1>13 DEF Resting

\* A step of node a that leaves node b and the bus as they are.
LEMMA StepSame ==
    ASSUME InStep, UNCHANGED recvVars, SameBus,
           \/ Resting /\ (InRest' \/ (InEnd' /\ Snd'.state = "WAIT_FIN"))
           \/ Ready /\ (InNew' \/ InFf')
           \/ Waiting /\ InWait(0)'
           \/ Receiving /\ InCfs' /\ (OPTS_BS # 0 => Coming' = Coming)
    PROVE  InStep' /\ rx' = rx /\ Snr' = Snr
<1>1. rx' = rx /\ wq' = wq /\ Snr' = Snr
  BY DEF recvVars, SameBus, Snr
<1>2. \A b : Current(rx.ctx[b]) => Current(rx.ctx[b])'
  BY <1>1, CurrentSame
<1>3. CASE Resting /\ (InRest' \/ (InEnd' /\ Snd'.state = "WAIT_FIN"))
  BY <1>1, <1>2, <1>3 DEF InStep, Resting, AllSent, Queued
<1>4. CASE Ready /\ (InNew' \/ InFf')
  BY <1>1, <1>4 DEF InStep, Ready, AllSent
<1>5. CASE Waiting /\ InWait(0)'
  BY <1>1, <1>2, <1>5 DEF InStep, Waiting, OwesFc
<1>6. CASE Receiving /\ InCfs' /\ (OPTS_BS # 0 => Coming' = Coming)
  BY <1>1, <1>2, <1>6 DEF InStep, Receiving
<1> QED
  BY <1>1, <1>3, <1>4, <1>5, <1>6

\* The work queue of node a.
LEMMA StepSender ==
    ASSUME LinkInv, InStep, SenderWorks
    PROVE  /\ InStep' /\ rx' = rx /\ Snr' = Snr /\ calls' = calls
           /\ \/ SameMessage /\ (Resting => Snd'.alloc = Snd.alloc)
              \/ /\ Resting /\ Snd.state = "WAIT_FIN" /\ InEnd /\ InRest'
                 /\ report' = [report EXCEPT ![calls] = Append(@, "OK")]
<1>1. LinkInv' /\ KeepsComing /\ OnItsWay /\ UNCHANGED recvVars /\ SameBus
  BY SenderWorksKeeps DEF SenderWorks, SameBus
<1>2. CASE InRest /\ InRest' /\ SameMessage
  <2>1. Resting
    BY <1>2, InStepWhere
  <2>2. Snd'.alloc = Snd.alloc
    BY <1>1, <1>2 DEF InRest, LinkInv, SendType, SndRec, Snd
  <2>3. InStep' /\ rx' = rx /\ Snr' = Snr
    BY <1>1, <1>2, <2>1, StepSame
  <2> QED
    BY <1>2, <2>2, <2>3 DEF SameMessage
<1>3. CASE (InNew \/ InFf) /\ InFf' /\ SameMessage
  <2>1. Ready /\ ~Resting
    BY <1>3, InStepWhere, PlacesApart DEF Resting
  <2>2. InStep' /\ rx' = rx /\ Snr' = Snr
    BY <1>1, <1>3, <2>1, StepSame
  <2> QED
    BY <1>3, <2>1, <2>2 DEF SameMessage
<1>4. CASE InWait(0) /\ InWait(0)' /\ SameMessage
  <2>1. Waiting /\ ~Resting
    BY <1>4, InStepWhere, WaitOnly DEF Resting
  <2>2. InStep' /\ rx' = rx /\ Snr' = Snr
    BY <1>1, <1>4, <2>1, StepSame
  <2> QED
    BY <1>4, <2>1, <2>2 DEF SameMessage
<1>5. CASE InCfs /\ InCfs' /\ SameMessage
  <2>1. Receiving /\ ~Resting
    BY <1>5, InStepWhere, PlacesApart DEF Resting
  <2>2. OPTS_BS # 0 => Coming' = Coming
    BY <1>1, <1>5, KeptComing DEF LinkInv
  <2>3. InStep' /\ rx' = rx /\ Snr' = Snr
    BY <1>1, <1>5, <2>1, <2>2, StepSame
  <2> QED
    BY <1>5, <2>1, <2>3 DEF SameMessage
<1>6. CASE /\ InEnd /\ InRest' /\ calls' = calls
           /\ report' = [report EXCEPT ![calls] = Append(@, IF Snd.state = "ERR" THEN Snd.error ELSE "OK")]
  <2>1. Resting
    BY <1>6, InStepWhere
  <2>2. Snd.state = "WAIT_FIN"
    BY <1>6, <2>1, PlacesApart DEF Resting
  <2>3. InStep' /\ rx' = rx /\ Snr' = Snr
    BY <1>1, <1>6, <2>1, StepSame
  <2> QED
    BY <1>6, <2>1, <2>2, <2>3
<1> QED
  BY <1>1, <1>2, <1>3, <1>4, <1>5, <1>6 DEF OnItsWay

\* The first frame of a message of several reaches node b.
LEMMA StepFf ==
    ASSUME LinkInv, InStep, ~Lossy, MessagesFit, FrameOnBus, FfSent
    PROVE  /\ InStep' /\ Ready /\ Waiting' /\ Snr'.msg = Snr.msg + 1 /\ Snr'.msg = calls /\ SameMessage
           /\ rx.list = {} /\ rx'.got = rx.got /\ AllSent /\ Snd'.alloc = Snd.alloc
<1>1. /\ OnBus(Head(Ctl)) /\ Arrives("a", Head(Ctl)) /\ UNCHANGED <<env, cur>> /\ TxEffect
  BY BusFacts DEF LinkInv
<1>2. /\ ~FcDue /\ cur = Idle /\ Head(Ctl) = FrameOf(calls, Size, 1)
      /\ Snr' = [msg |-> calls, len |-> Size, i |-> 2, open |-> 0]
  BY <1>1, FfKeeps DEF LinkInv
<1>3. InFf /\ InWait(0)' /\ Size \in Lengths /\ calls \in Nat /\ calls >= 1 /\ Snr.msg = calls - 1
      /\ Size > SfMax
  BY LinkTypes DEF FfSent, InFf, Busy
<1>4. Ready
  BY <1>3, InStepWhere
<1>5. Snr'.msg = calls /\ Snr'.len = Size /\ Snr'.i = 2
  BY <1>2
<1> DEFINE f == Head(Ctl)
<1> HIDE DEF f
<1>6. f = FrameOf(calls, Size, 1) /\ Arrives("a", f) /\ rx.list = {}
  BY <1>1, <1>2, <1>4 DEF f, Ready
<1>7. PICK b \in Blocks :
         /\ rx'.list = {b} /\ Current(rx.ctx[b])' /\ Queued(b)' /\ rx'.fc = <<>> /\ rx'.got = rx.got
         /\ rx'.ctx[b].state = IF Size <= SfMax THEN "PROCESS_SF" ELSE "PROCESS_FF"
         /\ \A c \in Blocks : c # b => rx'.ctx[c].state = "UNBOUND"
  <2>1. PICK m \in Nat, l \in Lengths : m = calls /\ l = Size
    BY <1>3
  <2>2. /\ m >= 1 /\ f = FrameOf(m, l, 1) /\ Snr'.msg = m /\ Snr'.len = l /\ Snr'.i = 2
    BY <1>3, <1>5, <1>6, <2>1
  <2>3. PICK b \in Blocks :
         /\ rx'.list = {b} /\ Current(rx.ctx[b])' /\ Queued(b)' /\ rx'.fc = <<>> /\ rx'.got = rx.got
         /\ rx'.ctx[b].state = IF l <= SfMax THEN "PROCESS_SF" ELSE "PROCESS_FF"
         /\ \A c \in Blocks : c # b => rx'.ctx[c].state = "UNBOUND"
    BY <1>2, <1>6, <2>2, StepFirst DEF LinkInv, InStep
  <2> QED
    BY <2>1, <2>3
<1>8. rx'.ctx[b].state = "PROCESS_FF"
  <2>1. ~(Size <= SfMax)
    BY <1>3, LinkTypes
  <2> QED
    BY <1>7, <2>1
<1>9. Waiting'
  BY <1>3, <1>7, <1>8 DEF Waiting, OwesFc
<1>10. InStep'
  BY <1>7, <1>9 DEF InStep
<1> QED
  BY <1>1, <1>3, <1>4, <1>5, <1>7, <1>9, <1>10 DEF Ready, TxEffect

\* Where the sender is after a consecutive frame.
LEMMA CfLeads ==
    ASSUME LinkInv, FrameOnBus, CfSent, Receiving
    PROVE  /\ InWait(0)' \/ InSem(0)' \/ InSt(0)' \/ InEnd'
           /\ Snr.i = NumSegs(Size) => InEnd' /\ Snd'.state = "WAIT_FIN"
           /\ Snr.i # NumSegs(Size) => ~InEnd'
           /\ InCtl' = 0 /\ InCtl = 1 /\ Win' = Win /\ Win \in Int /\ SendType'
           /\ SameMessage /\ Snd'.alloc = Snd.alloc
           /\ Snr'.msg = Snr.msg /\ Snr'.len = Snr.len /\ Snr'.i = Snr.i + 1 /\ Size = Snr.len /\ Sent
<1>1. /\ TxEffect /\ CfOnBus
  BY BusFacts DEF LinkInv, CfSent
<1>2. /\ Sent /\ Pos(1) /\ Pos(0)' /\ Size' = Size /\ Win' = Win
      /\ Snr'.msg = Snr.msg /\ Snr'.len = Snr.len /\ Snr'.i = Snr.i + 1 /\ Head(Ctl) = Segment(calls, Size, Snr.i)
  BY <1>1 DEF CfOnBus
<1>3. /\ calls \in Nat /\ Size \in Nat /\ Size > SfMax /\ Snr.i \in Nat /\ Snr.i >= 2 /\ NumSegs(Size) \in Nat
      /\ Win \in Int /\ Snr.len = Size /\ Snr.i <= NumSegs(Size) /\ Ctl = <<Segment(calls, Size, Snr.i)>>
  BY <1>2, SentTypes DEF LinkInv, SendType, Win, Sent, Pos
<1>4. InCtl = 1
  <2> DEFINE f == Segment(calls, Size, Snr.i)
  <2>1. f = [type |-> "CF", sn |-> (Snr.i - 1) % SN_MOD, msg |-> calls,
             off |-> SegOff(Snr.i), n |-> SegLen(Size, Snr.i), len |-> 0]
    BY <1>3, SegmentIs
  <2> HIDE DEF f
  <2>2. f.type = "CF"
    BY <2>1
  <2> QED
    BY <1>3, <2>2 DEF InCtl, f
<1>5. InCtl' = 0 /\ SameMessage /\ Snd'.alloc = Snd.alloc /\ SendType'
  BY <1>1 DEF TxEffect, InCtl
<1>6. Snd'.rem = Left(Size, Snr.i + 1)
  BY <1>2 DEF Pos, Placed
<1>7. Left(Size, Snr.i + 1) = 0 <=> Snr.i + 1 > NumSegs(Size)
  <2>1. PICK j \in Nat : j = Snr.i + 1
    BY <1>3
  <2>2. j >= 2
    BY <1>3, <2>1
  <2>3. Left(Size, j) = 0 <=> j > NumSegs(Size)
    BY <1>3, <2>2, LeftNext
  <2> QED
    BY <2>1, <2>3
<1>8. InWait(0)' \/ InSem(0)' \/ InSt(0)' => Snd'.rem > 0
  BY DEF InWait, InSem, InSt, InBlock
<1>9. InEnd' => Snd'.state = "WAIT_FIN"
  <2>1. Snd.state \in {"WAIT_FC", "SEND_CF", "WAIT_ST", "WAIT_BACKLOG"}
    BY DEF CfSent, InWait, InSem, InSt, InLast, InBlock
  <2>2. Snd.state = "WAIT_BACKLOG" => Snd.backlog = 1
    BY DEF CfSent, InWait, InSem, InSt, InLast, InBlock
  <2>3. Snd'.state = IF Snd.state = "WAIT_BACKLOG" THEN "WAIT_FIN" ELSE Snd.state
    BY <1>1, <2>2 DEF TxEffect
  <2> QED
    BY <2>1, <2>3 DEF InEnd
<1>10. InWait(0)' \/ InSem(0)' \/ InSt(0)' \/ InEnd'
  BY DEF CfSent
<1>11. Snr.i = NumSegs(Size) => ~(InWait(0)' \/ InSem(0)' \/ InSt(0)')
  <2>1. Snr.i = NumSegs(Size) => Snr.i + 1 > NumSegs(Size)
    BY <1>3
  <2> QED
    BY <1>6, <1>7, <1>8, <2>1
<1>12. InEnd' => Snr.i = NumSegs(Size)
  <2>1. InEnd' => Snr'.i = NumSegs(Size') + 1
    BY <1>9 DEF InEnd
  <2> QED
    BY <1>2, <1>3, <2>1
<1> QED
  BY <1>2, <1>3, <1>4, <1>5, <1>9, <1>10, <1>11, <1>12

\* A consecutive frame reaches node b.
LEMMA StepCf ==
    ASSUME LinkInv, InStep, ~Lossy, MessagesFit, FrameOnBus, CfSent
    PROVE  /\ InStep' /\ Receiving /\ SameMessage /\ Snr'.msg = Snr.msg /\ Snr'.len = Snr.len
           /\ rx'.list = rx.list /\ rx'.got = rx.got /\ Snd'.alloc = Snd.alloc
           /\ Waiting' \/ Receiving' \/ (Resting' /\ Snr.i = NumFrames(Snr.len))
           /\ InEnd' <=> Snr.i = NumFrames(Snr.len)
<1>1. /\ OnBus(Head(Ctl)) /\ Arrives("a", Head(Ctl)) /\ UNCHANGED <<env, cur>> /\ TxEffect
  BY BusFacts DEF LinkInv
<1>2. /\ ReceiverInv' /\ TypeInv' /\ ~FcDue /\ cur = Idle
      /\ Head(Ctl) = FrameOf(Snr.msg, Snr.len, Snr.i) /\ Snr.i <= NumFrames(Snr.len)
  BY <1>1, CfKeeps DEF LinkInv
<1>3. InCfs /\ Receiving
  <2>1. InCfs
    BY DEF CfSent, InCfs
  <2> QED
    BY <2>1, InStepWhere
<1>4. PICK b \in rx.list : b \in Blocks /\ rx.list = {b} /\ CtxOf("a") = {b}
  <2>1. PICK b \in rx.list : TRUE
    BY <1>3 DEF Receiving
  <2>2. b \in Blocks /\ CtxOf("a") = {b}
    BY <2>1, LinkFacts DEF LinkInv
  <2>3. rx.list = {b}
    BY <2>1 DEF LinkInv, ReceiverInv
  <2> QED
    BY <2>1, <2>2, <2>3
<1>5. PICK c \in Ctx : c = rx.ctx[b]
  BY <1>4, LinkFacts DEF LinkInv
<1>6. Current(c) /\ c.state = "WAIT_CF" /\ (OPTS_BS # 0 => c.bs = Coming /\ c.bs >= 1)
  BY <1>3, <1>4, <1>5, StillComing DEF Receiving, LinkInv
<1>7. /\ Snr.len \in Lengths /\ Snr.msg \in Nat /\ Snr.len \in Nat /\ Snr.i \in Nat /\ Snr.i >= 2
      /\ c.bufs = Snr.i - 1 /\ NumFrames(Snr.len) \in Nat
  <2>1. Snr.len \in Lengths /\ Snr.msg >= 1 /\ c.bufs = Snr.i - 1
    BY <1>6 DEF Current, AtFrame
  <2>2. Snr \in PeerRec /\ Snr.i \in Nat /\ Snr.i >= 2
    BY LinkTypes DEF LinkInv, TypeInv, Snr, PeerRec
  <2>3. Snr.msg \in Nat /\ Snr.len \in Nat
    <3>1. "a" \in Peers
      BY LinkTypes
    <3> QED
      BY <2>1, <3>1, LinkTypes, PeerTypes DEF Snr, LinkInv
  <2> QED
    BY <2>1, <2>2, <2>3, FrameCount
<1> DEFINE f == Head(Ctl)
<1>8. f = FrameOf(Snr.msg, Snr.len, Snr.i) /\ Arrives("a", f)
  BY <1>1, <1>2
<1> HIDE DEF f
<1>9. IsFrame(f)
  <2> DEFINE g == FrameOf(Snr.msg, Snr.len, Snr.i)
  <2>1. g.type = "CF" /\ g.msg = Snr.msg /\ g.off \in Nat /\ g.n \in Nat
    BY <1>2, <1>7, NextFrame
  <2> HIDE DEF g
  <2>2. f = g
    BY <1>8 DEF g
  <2> QED
    BY <1>7, <2>1, <2>2 DEF IsFrame
<1>10. PICK a \in Blocks : FrameTaken("a", f, a)
  <2>1. PICK l \in Lengths : l = Snr.len
    BY <1>7
  <2>2. \A e \in rx.list : rx.ctx[e].bufs < NumFrames(l)
    BY <1>2, <1>4, <1>5, <1>7, <2>1
  <2> QED
    BY <1>8, <1>9, <2>1, <2>2, FrameFinds DEF LinkInv
<1>11. a = b /\ TakenByOld("a", f, b) /\ FrameTaken("a", f, b)
  BY <1>4, <1>10 DEF FrameTaken, TakenByOld, TakenByNew
<1>12. PICK e \in Ctx : OneMoreBuf(c, e) /\ rx'.ctx[b] = receive_can_rx(e, f)
  BY <1>5, <1>11 DEF TakenByOld
<1>13. PICK d \in Ctx : d = rx'.ctx[b]
  BY <1>11 DEF FrameTaken, Good, RxRec
<1>14. /\ InWait(0)' \/ InSem(0)' \/ InSt(0)' \/ InEnd'
       /\ Snr.i = NumSegs(Size) => InEnd' /\ Snd'.state = "WAIT_FIN"
       /\ Snr.i # NumSegs(Size) => ~InEnd'
       /\ InCtl' = 0 /\ InCtl = 1 /\ Win' = Win /\ Win \in Int /\ SendType'
       /\ SameMessage /\ Snd'.alloc = Snd.alloc
       /\ Snr'.msg = Snr.msg /\ Snr'.len = Snr.len /\ Snr'.i = Snr.i + 1 /\ Size = Snr.len /\ Sent
  BY <1>3, CfLeads
<1>15. NumFrames(Snr.len) = NumSegs(Size)
  <2>1. ~(Size <= SfMax)
    BY <1>14, SentTypes, LinkTypes DEF LinkInv
  <2> QED
    BY <1>14, <2>1 DEF NumFrames
<1>16. WentOn("a") /\ Sending("a")
  <2>1. peer' \in [Peers -> PeerRec]
    BY <1>2 DEF TypeInv
  <2>2. Peers = {"a"}
    BY LinkTypes
  <2> QED
    BY <1>2, <1>14, <2>1, <2>2 DEF WentOn, Sending, Snr
<1>17. RxBs = OPTS_BS
  BY LinkFacts DEF LinkInv
<1>18. /\ Current(d)'
       /\ IF Snr.i = NumFrames(Snr.len) THEN d.state = "RECYCLE"
          ELSE IF OPTS_BS # 0 /\ c.bs = 1 THEN d.state = "TRY_ALLOC"
          ELSE d.state = "WAIT_CF" /\ (OPTS_BS # 0 => d.bs = c.bs - 1)
  <2>1. d = receive_can_rx(e, FrameOf(Snr.msg, Snr.len, Snr.i))
    BY <1>8, <1>12, <1>13
  <2>2. TypeInv
    BY DEF LinkInv
  <2>3. OPTS_BS # 0 => c.bs >= 1
    BY <1>6
  <2>4. /\ AtFrame(d)' /\ d.bufs = c.bufs + 1
        /\ IF Snr.i = NumFrames(Snr.len) THEN d.state = "RECYCLE"
           ELSE IF OPTS_BS # 0 /\ c.bs = 1 THEN d.state = "TRY_ALLOC"
           ELSE d.state = "WAIT_CF" /\ (OPTS_BS # 0 => d.bs = c.bs - 1)
    <3>1. AtFrame(c)
      BY <1>6 DEF Current
    <3> QED
      BY <1>6, <1>12, <1>16, <1>17, <2>1, <2>2, <2>3, <3>1, NextTaken
  <2>5. d.bufs = Snr'.i - 1
    <3>1. Snr.i \in Nat /\ Snr'.i = Snr.i + 1 /\ c.bufs = Snr.i - 1
      <4>1. Snr.i \in Nat
        BY LinkTypes, PeerTypes DEF LinkInv, Snr
      <4> QED
        BY <1>6, <1>16, <4>1 DEF Current, WentOn, Snr
    <3> QED
      BY <2>4, <3>1
  <2> QED
    BY <2>4, <2>5 DEF Current
<1>19. Current(rx.ctx[b])'
  BY <1>13, <1>18 DEF Current, AtFrame, PartOf
<1>20. rx'.list = rx.list /\ rx'.fc = <<>> /\ rx'.got = rx.got
  BY <1>2, <1>11, NoneDue DEF FrameTaken, TakenByOld, SameSlab, LinkInv
<1>21. \A x \in Blocks : x \notin rx'.list => rx'.ctx[x].state = "UNBOUND"
  BY <1>4, <1>11, <1>20 DEF FrameTaken, Apart, InStep
<1>22. d.state # "WAIT_CF" => Queued(b)'
  <2>1. d.state # "WAIT_CF" => wq' = Submit(wq, b)
    BY <1>11, <1>13 DEF FrameTaken
  <2> QED
    BY <1>4, <2>1, SubmitQueued DEF LinkInv, TypeInv
<1>23. CASE Snr.i = NumFrames(Snr.len)
  <2>1. InEnd' /\ Snd'.state = "WAIT_FIN" /\ d.state = "RECYCLE"
    BY <1>14, <1>15, <1>18, <1>23
  <2>2. AllSent'
    BY <1>14, <1>23 DEF AllSent
  <2>3. Resting'
    BY <1>4, <1>13, <1>19, <1>20, <1>22, <2>1, <2>2 DEF Resting, Complete
  <2> QED
    BY <1>3, <1>14, <1>20, <1>21, <1>23, <2>1, <2>3 DEF InStep
<1>24. CASE Snr.i # NumFrames(Snr.len) /\ OPTS_BS # 0 /\ c.bs = 1
  <2>1. d.state = "TRY_ALLOC" /\ ~InEnd'
    BY <1>14, <1>15, <1>18, <1>24
  <2>2. Win' = 0
    BY <1>6, <1>14, <1>24 DEF Coming
  <2>3. InSem(0)' \/ InSt(0)' => Win' >= 1
    BY <1>24 DEF InSem, InSt, InBlock
  <2>4. InWait(0)'
    BY <1>14, <2>1, <2>2, <2>3
  <2>5. Waiting'
    BY <1>4, <1>13, <1>19, <1>20, <1>22, <2>1, <2>4 DEF Waiting, OwesFc
  <2> QED
    BY <1>3, <1>14, <1>20, <1>21, <1>24, <2>1, <2>5 DEF InStep
<1>25. CASE Snr.i # NumFrames(Snr.len) /\ ~(OPTS_BS # 0 /\ c.bs = 1)
  <2>1. d.state = "WAIT_CF" /\ ~InEnd' /\ (OPTS_BS # 0 => d.bs = c.bs - 1)
    BY <1>14, <1>15, <1>18, <1>25
  <2>2. OPTS_BS # 0 => d.bs = Coming'
    BY <1>6, <1>14, <2>1 DEF Coming
  <2>3. ~InWait(0)'
    <3>1. CASE OPTS_BS = 0
      <4>1. InWait(0)' => Snr'.i = 2
        BY <3>1 DEF InWait
      <4> QED
        BY <1>7, <1>14, <4>1
    <3>2. CASE OPTS_BS # 0
      <4>1. InWait(0)' => Win' = 0
        BY DEF InWait
      <4>2. Win = 0 => c.bs = 1
        BY <1>6, <1>14, <3>2 DEF Coming
      <4> QED
        BY <1>14, <1>25, <3>2, <4>1, <4>2
    <3> QED
      BY <3>1, <3>2
  <2>4. InCfs'
    BY <1>14, <2>1, <2>3 DEF InCfs
  <2>5. Receiving'
    BY <1>4, <1>13, <1>19, <1>20, <2>1, <2>2, <2>4 DEF Receiving
  <2> QED
    BY <1>3, <1>14, <1>20, <1>21, <1>25, <2>1, <2>5 DEF InStep
<1> QED
  BY <1>23, <1>24, <1>25

\* A context that a message fits into is not too long for process_ff.
LEMMA NeverTooLong ==
    ASSUME LinkInv, MessagesFit, NEW b \in Blocks, Current(rx.ctx[b]), rx.ctx[b].state = "PROCESS_FF"
    PROVE  ~TooLong(rx.ctx[b])
<1> DEFINE c == rx.ctx[b]
           k == Len(c.data)
           l == Snr.len
<1>1. /\ l \in Lengths /\ l \in Nat /\ PartOf(c, Snr.msg, l)
  BY LinkTypes DEF Current, AtFrame
<1>2. k >= 1 /\ k < NumFrames(l) /\ c.rem = l - SegOff(k + 1) /\ k \in Nat
  <2>1. c.data \in Seq(Piece)
    <3>1. c \in Ctx
      BY LinkFacts DEF LinkInv
    <3> QED
      BY <3>1 DEF Ctx
  <2> QED
    BY <1>1, <2>1 DEF PartOf, Collecting
<1>3. MAX_PACKET_COUNT \in Nat /\ NumFrames(l) <= MAX_PACKET_COUNT /\ NumFrames(l) \in Nat
  BY <1>1, FrameCount, RecvAssumptions DEF MessagesFit, RecvAssumptions
<1> HIDE DEF c, k, l
<1>4. l > SfMax /\ NumFrames(l) = NumSegs(l)
  <2>1. ~(l <= SfMax)
    BY <1>2, <1>3 DEF NumFrames
  <2> QED
    BY <1>1, <2>1, LinkTypes DEF NumFrames
<1>5. l <= SegOff(MAX_PACKET_COUNT + 2) /\ SegOff(MAX_PACKET_COUNT + 2) = FfLen + MAX_PACKET_COUNT * CfLen
  <2>1. PICK i \in Nat : i = MAX_PACKET_COUNT + 2
    BY <1>3
  <2>2. i >= 2 /\ i # 1 /\ i - 2 = MAX_PACKET_COUNT /\ ~(i <= NumSegs(l))
    BY <1>3, <1>4, <2>1
  <2>3. SegOff(i) \in Nat /\ ~(SegOff(i) < l)
    BY <1>1, <1>4, <2>2, SegNext, SegCount
  <2>4. SegOff(i) = FfLen + MAX_PACKET_COUNT * CfLen
    BY <2>2 DEF SegOff
  <2> QED
    BY <1>1, <2>1, <2>3, <2>4
<1>6. SegOff(k + 1) >= FfLen /\ SegOff(k + 1) \in Nat
  <2>1. PICK j \in Nat : j = k - 1
    BY <1>2
  <2>2. j * CfLen \in Nat
    BY LinkTypes
  <2>3. PICK i \in Nat : i = k + 1
    BY <1>2
  <2>4. i # 1 /\ i - 2 = j
    BY <1>2, <2>1, <2>3
  <2>5. SegOff(i) = FfLen + j * CfLen
    BY <2>4 DEF SegOff
  <2> QED
    BY <2>2, <2>3, <2>5, LinkTypes
<1>7. MAX_PACKET_COUNT * CfLen \in Nat
  BY <1>3, LinkTypes
<1>8. c.rem <= MAX_PACKET_COUNT * CfLen
  BY <1>1, <1>2, <1>5, <1>6, <1>7, LinkTypes
<1>9. c.rem \in Int
  BY <1>1, <1>2, <1>6
<1> QED
  BY <1>7, <1>8, <1>9 DEF TooLong, c

\* The blocks left in the queue when its head has run.
LEMMA StillQueued ==
    ASSUME LinkInv, NEW b \in Blocks, Ran(b), NEW e \in Blocks, e # b, Queued(e)
    PROVE  Queued(e)'
  BY TailQueued DEF Ran

\* recv_callback is given the message.
HandedUp ==
    \E b \in rx.list :
        /\ Resting /\ Current(rx.ctx[b]) /\ rx.ctx[b].state \in Complete /\ rx'.list = {}
        /\ rx'.got = [rx.got EXCEPT !["a"] = Append(@, rx.ctx[b].data)]

\* The end of a reception, when the message is complete.
LEMMA StepEnds ==
    ASSUME LinkInv, InStep, UNCHANGED sendVars, peer' = peer, NEW b \in rx.list, b \in Blocks, Ran(b),
           cur' = cur, rx.ctx[b].state \in Complete, Resting, Ended(rx, rx', b), rx'.fc = rx.fc,
           rx'.got = [rx.got EXCEPT !["a"] = Append(@, Given(rx, b))]
    PROVE  InStep' /\ HandedUp /\ Resting'
<1>1. Current(rx.ctx[b])
  BY DEF Resting
<1>2. rx.ctx[b].bufs > 0
  <2>1. Snr.i \in Nat /\ Snr.i >= 2
    BY LinkTypes DEF LinkInv, TypeInv, Snr, PeerRec
  <2> QED
    BY <1>1, <2>1 DEF Current, AtFrame
<1>3. Given(rx, b) = rx.ctx[b].data
  BY <1>2 DEF Given
<1>4. rx.list = {b}
  BY DEF LinkInv, ReceiverInv
<1>5. rx'.list = {}
  BY <1>4 DEF Ended
<1>6. HandedUp
  BY <1>1, <1>3, <1>5 DEF HandedUp
<1>7. Resting'
  BY <1>5 DEF Resting, InRest, InEnd, AllSent, Sent, Busy, Snd, Ctl, Snr, Size, sendVars
<1>8. \A c \in Blocks : rx'.ctx[c].state = "UNBOUND"
  BY <1>4 DEF InStep, Ended, Apart
<1> QED
  BY <1>6, <1>7, <1>8 DEF InStep

\* Nothing happens to a context.
LEMMA StepNothing ==
    ASSUME LinkInv, InStep, UNCHANGED sendVars, peer' = peer, NEW b \in Blocks, Ran(b),
           cur' = cur, rx' = rx, b \in rx.list => rx.ctx[b].state = "WAIT_CF"
    PROVE  InStep'
<1>1. Snr' = Snr /\ \A c : Current(rx.ctx[c]) => Current(rx.ctx[c])'
  BY CurrentSame DEF Snr
<1>2. Snd' = Snd /\ Coming' = Coming
  BY SenderStill
<1>3. rx.list \subseteq Blocks
  BY LinkFacts DEF LinkInv
<1>4. CASE Resting
  <2>1. (InRest \/ (InEnd /\ Snd.state = "WAIT_FIN"))' /\ AllSent'
    BY <1>4 DEF Resting, InRest, InEnd, AllSent, Sent, Busy, Snd, Ctl, Snr, Size, sendVars
  <2>2. \A c \in rx.list : c # b
    BY <1>4 DEF Resting, Complete
  <2>3. \A c \in rx.list : Queued(c)'
    BY <1>3, <1>4, <2>2, StillQueued DEF Resting
  <2> QED
    BY <1>1, <1>4, <2>1, <2>3 DEF InStep, Resting
<1>5. CASE Ready
  BY <1>5 DEF InStep, Ready, InNew, InFf, AllSent, Busy, Snd, Ctl, Win, Snr, Size, Placed, NextSn, sendVars
<1>6. CASE Waiting
  <2>1. InWait(0)'
    BY <1>6, SenderStill DEF Waiting
  <2> QED
    BY <1>1, <1>6, <2>1 DEF InStep, Waiting, OwesFc
<1>7. CASE Receiving
  <2>1. InCfs'
    BY <1>7 DEF Receiving, InCfs, InWait, InCf, InSem, InGo, InSt, InLast, InBlock, Sent, Busy, Pos, Granted,
                Snd, Ctl, Win, Snr, Size, Placed, NextSn, sendVars
  <2> QED
    BY <1>1, <1>2, <1>7, <2>1 DEF InStep, Receiving
<1> QED
  BY <1>4, <1>5, <1>6, <1>7 DEF InStep

\* The work queue of node b runs an item.
LEMMA StepWork ==
    ASSUME LinkInv, InStep, ~Lossy, MessagesFit, NEW b \in Blocks, Work(b), UNCHANGED sendVars
    PROVE  InStep' /\ peer' = peer /\ ((HandedUp /\ Resting') \/ (rx'.list = rx.list /\ rx'.got = rx.got))
<1> DEFINE c == rx.ctx[b]
<1>1. Named(rx, b)
  BY HeadNamed DEF LinkInv
<1>2. /\ RxBs = OPTS_BS /\ CanSendResults = {TRUE} /\ Good(rx) /\ c \in Ctx /\ c.addr = "a"
      /\ CtxInv(b) /\ wq \in Seq(Blocks) /\ rx.list \subseteq Blocks
  BY <1>1, LinkFacts DEF ReceiverInv, LinkInv
<1>3. Ran(b) /\ peer' = peer
  BY <1>2, WorkSteps, <1>1 DEF TypeInv, Ran, LinkInv
<1>4. b \notin rx.list => c.state = "UNBOUND"
  BY DEF InStep
<1>5. b \in rx.list /\ c.state \in Complete => Resting
  BY DEF InStep, Ready, Waiting, Receiving, OwesFc, Complete
<1>6. /\ b \in rx.list => c.state \in Complete \cup {"PROCESS_FF", "TRY_ALLOC", "SEND_FC", "WAIT_CF"}
      /\ b \in rx.list => Current(c)
  BY DEF InStep, Resting, Ready, Waiting, Receiving, OwesFc
<1>7. CASE WorkSf(b)
  <2> DEFINE d == [c EXCEPT !.rem = 0]
             S == [rx EXCEPT !.ctx[b] = d]
  <2>1. d \in Ctx /\ d.addr = c.addr /\ d.timer = c.timer /\ d.bufs = c.bufs /\ d.data = c.data
    BY <1>2 DEF Ctx
  <2>2. rx' = Recycle(S, b) /\ cur' = cur /\ c.state = "PROCESS_SF"
    BY <1>7 DEF WorkSf, Running
  <2> HIDE DEF d
  <2>3. /\ Good(S) /\ Named(S, b) /\ S.fc = rx.fc /\ S.got = rx.got /\ S.ctx[b] = d
        /\ Ended(S, rx', b) => Ended(rx, rx', b)
    BY <1>1, <1>2, <2>1, EndedLater
  <2> HIDE DEF S
  <2>4. /\ Ended(S, rx', b) /\ rx'.fc = S.fc
        /\ rx'.got = [S.got EXCEPT ![S.ctx[b].addr] = Append(@, Given(S, b))]
    BY <2>2, <2>3, RecycleEnds
  <2>5. b \in rx.list /\ c.state \in Complete
    BY <1>4, <2>2 DEF Complete
  <2>6. rx'.got = [rx.got EXCEPT !["a"] = Append(@, Given(rx, b))]
    BY <1>2, <2>1, <2>3, <2>4 DEF Given
  <2>7. Ended(rx, rx', b) /\ rx'.fc = rx.fc
    BY <2>3, <2>4
  <2> QED
    BY <1>3, <1>5, <2>2, <2>5, <2>6, <2>7, StepEnds
<1>8. CASE WorkRecycle(b)
  <2>1. rx' = Recycle(rx, b) /\ cur' = cur /\ c.state = "RECYCLE"
    BY <1>8 DEF WorkRecycle, Running
  <2>2. Ended(rx, rx', b) /\ rx'.fc = rx.fc /\ rx'.got = [rx.got EXCEPT !["a"] = Append(@, Given(rx, b))]
    BY <1>1, <1>2, <2>1, RecycleEnds
  <2>3. b \in rx.list /\ c.state \in Complete
    BY <1>4, <2>1 DEF Complete
  <2> QED
    BY <1>3, <1>5, <2>1, <2>2, <2>3, StepEnds
<1>9. ~WorkErr(b) /\ ~WorkSendWait(b)
  <2>1. c.state # "ERR" /\ c.state # "SEND_WAIT"
    BY <1>4, <1>6 DEF Complete
  <2> QED
    BY <2>1 DEF WorkErr, WorkSendWait, Running
<1>10. ~WorkFfTooLong(b)
  <2>1. c.state = "PROCESS_FF" => ~TooLong(c)
    BY <1>4, <1>6, NeverTooLong
  <2> QED
    BY <2>1 DEF WorkFfTooLong, Running
<1>11. ASSUME OwesFc(b), NEW d \in Ctx, Kept(c, d), d.timer = FALSE, d.state = "SEND_FC",
             NEW S, S = [rx EXCEPT !.ctx[b] = d], cur' = [pc |-> "fc", b |-> b, to |-> "WAIT_CF"],
             rx' = receive_send_fc(S, b, "CTS", TRUE)
      PROVE  InStep' /\ rx'.list = rx.list /\ rx'.got = rx.got
  <2>1. d.addr = c.addr
    BY <1>11 DEF Kept
  <2>2. Good(S) /\ Changed(rx, S, b, d)
    BY <1>2, <1>11, <2>1, CtxGood
  <2>3. Named(S, b) /\ S.ctx[b] = d
    BY <1>1, <2>2 DEF Changed, SameAddr, Named
  <2>4. Good(rx') /\ FcEffect(S, rx', b, "CTS", TRUE)
    BY <1>11, <2>2, <2>3, FcGood
  <2>5. /\ SameSlab(rx, rx') /\ Apart(rx, rx', b) /\ rx'.ctx[b] = d /\ rx'.got = rx.got
        /\ rx'.fc = Append(rx.fc, [ctx |-> b, to |-> "a", fs |-> "CTS"])
    BY <1>2, <2>1, <2>2, <2>3, <2>4 DEF FcEffect, Changed, SameSlab, Apart
  <2>6. b \in rx.list /\ rx.list = {b} /\ rx.fc = <<>> /\ Waiting
    <3>1. b \in rx.list
      BY <1>4, <1>11 DEF OwesFc
    <3>2. rx.list = {b}
      BY <3>1 DEF LinkInv, ReceiverInv
    <3>3. rx.fc = <<>>
      BY <1>2, <1>11 DEF CtxInv
    <3>4. Waiting
      BY <1>11, <3>1 DEF InStep, Resting, Ready, Receiving, OwesFc, Complete
    <3> QED
      BY <3>1, <3>2, <3>3, <3>4
  <2>7. rx'.fc = <<[ctx |-> b, to |-> "a", fs |-> "CTS"]>> /\ rx'.list = {b}
    BY <2>5, <2>6 DEF SameSlab
  <2>8. rx'.fc # <<>> /\ \A k \in DOMAIN rx'.fc : rx'.fc[k].fs = "CTS"
    <3>1. ASSUME NEW k \in DOMAIN rx'.fc PROVE rx'.fc[k].fs = "CTS"
      <4>1. k = 1
        BY <2>7, <3>1
      <4> QED
        BY <2>7, <4>1
    <3> QED
      BY <2>7, <3>1
  <2>9. InWait(0)'
    BY <1>3, <2>6, SenderStill DEF Waiting
  <2>10. Current(rx.ctx[b])'
    <3>1. /\ d.data = c.data /\ d.bufs = c.bufs /\ d.rem = c.rem /\ d.sn = c.sn /\ d.state \in Collecting
          /\ Snr' = Snr
      BY <1>3, <1>11 DEF Kept, Collecting, Snr
    <3>2. c.state \in Collecting /\ d.state \notin Complete
      BY <1>11 DEF OwesFc, Collecting, Complete
    <3>3. Current(c)
      BY <1>6, <2>6
    <3>4. PartOf(d, Snr.msg, Snr.len)
      BY <3>1, <3>2, <3>3 DEF Current, AtFrame, PartOf
    <3>5. PartOf(d, Snr'.msg, Snr'.len) /\ Len(d.data) = Snr'.i - 1 /\ d.bufs = Snr'.i - 1
          /\ Snr'.msg >= 1 /\ Snr'.len \in Lengths
      BY <3>1, <3>3, <3>4 DEF Current, AtFrame
    <3> QED
      BY <2>5, <3>5 DEF Current, AtFrame
  <2>11. Waiting'
    BY <1>11, <2>5, <2>7, <2>8, <2>9, <2>10 DEF Waiting
  <2>12. \A x \in Blocks : x \notin rx'.list => rx'.ctx[x].state = "UNBOUND"
    BY <2>5, <2>6, <2>7 DEF Apart, InStep
  <2> QED
    BY <2>5, <2>6, <2>7, <2>11, <2>12 DEF InStep
<1>12. CASE WorkFf(b)
  <2> DEFINE e == [c EXCEPT !.bs = IF RxBs # 0 THEN RxBs ELSE @, !.wft = WFT_FIRST]
             d == [e EXCEPT !.timer = FALSE, !.state = "SEND_FC"]
             S == [rx EXCEPT !.ctx[b].bs = IF RxBs # 0 THEN RxBs ELSE @, !.ctx[b].wft = WFT_FIRST]
             T == [rx EXCEPT !.ctx[b] = d]
  <2>1. env \in Env
    BY DEF LinkInv, TypeInv
  <2>2. e \in Ctx /\ Kept(c, e)
    BY <1>2, <2>1, WrapTypes DEF Ctx, Kept, Env, RxBs
  <2>3. d \in Ctx /\ Kept(c, d) /\ d.timer = FALSE /\ d.state = "SEND_FC"
    BY <2>2 DEF Ctx, Kept, RxState
  <2>4. c.state = "PROCESS_FF" /\ SendCts(S, b)
    BY <1>12 DEF WorkFf, Running
  <2>5. [S EXCEPT !.ctx[b].timer = FALSE, !.ctx[b].state = "SEND_FC"] = T
    <3>1. S = [rx EXCEPT !.ctx[b] = e]
      BY <1>2 DEF Good, RxRec, Ctx
    <3> HIDE DEF S, e
    <3> QED
      BY <1>2, <2>2, <3>1 DEF Good, RxRec, Ctx
  <2> HIDE DEF d, e
  <2>6. rx' = receive_send_fc(T, b, "CTS", TRUE) /\ cur' = [pc |-> "fc", b |-> b, to |-> "WAIT_CF"]
    BY <1>2, <2>4, <2>5 DEF SendCts
  <2>7. OwesFc(b)
    BY <2>4 DEF OwesFc
  <2> QED
    BY <1>3, <1>11, <2>3, <2>6, <2>7
<1>13. CASE WorkTryAlloc(b)
  <2> DEFINE d == [c EXCEPT !.timer = FALSE, !.state = "SEND_FC"]
             T == [rx EXCEPT !.ctx[b] = d]
  <2>1. d \in Ctx /\ Kept(c, d) /\ d.timer = FALSE /\ d.state = "SEND_FC"
    BY <1>2 DEF Ctx, Kept, RxState
  <2>2. c.state \in {"TRY_ALLOC", "SEND_FC"} /\ SendCts(rx, b) /\ cur = Idle
    BY <1>13 DEF WorkTryAlloc, Running
  <2>3. OwesFc(b)
    BY <1>2, <2>2 DEF CtxInv, Idle, OwesFc
  <2>4. [rx EXCEPT !.ctx[b].timer = FALSE, !.ctx[b].state = "SEND_FC"] = T
    BY <1>2 DEF Good, RxRec, Ctx
  <2> HIDE DEF d
  <2>5. rx' = receive_send_fc(T, b, "CTS", TRUE) /\ cur' = [pc |-> "fc", b |-> b, to |-> "WAIT_CF"]
    BY <1>2, <2>2, <2>4 DEF SendCts
  <2> QED
    BY <1>3, <1>11, <2>1, <2>3, <2>5
<1>14. CASE WorkNothing(b)
  <2>1. rx' = rx /\ cur' = cur /\ c.state \in {"WAIT_FF_SF", "WAIT_CF", "UNBOUND"}
    BY <1>14 DEF WorkNothing, Running
  <2>2. b \in rx.list => c.state = "WAIT_CF"
    BY <1>6, <2>1 DEF Complete
  <2>3. InStep'
    BY <1>3, <2>1, <2>2, StepNothing
  <2> QED
    BY <1>3, <2>1, <2>3
<1> QED
  BY <1>7, <1>8, <1>9, <1>10, <1>12, <1>13, <1>14 DEF Work

\* The statements after can_send() of a flow-control frame.
LEMMA StepFinish ==
    ASSUME LinkInv, InStep, FinishFc, UNCHANGED sendVars
    PROVE  InStep' /\ peer' = peer /\ rx'.list = rx.list /\ rx'.got = rx.got
<1>1. PICK b \in Blocks : /\ cur = [pc |-> "fc", b |-> b, to |-> "WAIT_CF"]
                          /\ b \in rx.list /\ rx.ctx[b].state = "SEND_FC" /\ rx.fc # <<>>
  BY DEF LinkInv, ReceiverInv, CurInv, FinishFc, Idle
<1>2. Waiting /\ rx.list = {b} /\ Current(rx.ctx[b])
  <2>1. Waiting
    BY <1>1 DEF InStep, Resting, Ready, Receiving, Complete
  <2> QED
    BY <1>1, <2>1 DEF Waiting, LinkInv, ReceiverInv
<1>3. PICK c \in Ctx : c = rx.ctx[b]
  BY <1>1, LinkFacts DEF LinkInv
<1> DEFINE d == [c EXCEPT !.timer = TRUE, !.state = "WAIT_CF"]
<1>4. d \in Ctx /\ Kept(c, d) /\ d.state = "WAIT_CF"
  BY <1>3 DEF Ctx, Kept, RxState
<1>5. rx' = [rx EXCEPT !.ctx[b] = d] /\ peer' = peer /\ cur.b = b /\ cur.to = "WAIT_CF"
  <2>1. rx' = [rx EXCEPT !.ctx[b].timer = TRUE, !.ctx[b].state = "WAIT_CF"] /\ peer' = peer
    BY <1>1 DEF FinishFc
  <2> QED
    BY <1>1, <1>3, <2>1 DEF LinkInv, TypeInv, Good, RxRec, Ctx
<1> HIDE DEF d
<1>6. /\ rx'.list = rx.list /\ rx'.got = rx.got /\ rx'.fc = rx.fc /\ rx'.ctx[b] = d
      /\ \A x \in Blocks : x # b => rx'.ctx[x] = rx.ctx[x]
  BY <1>5 DEF LinkInv, TypeInv, Good, RxRec
<1>7. Current(rx.ctx[b])'
  <2>1. /\ d.data = c.data /\ d.bufs = c.bufs /\ d.rem = c.rem /\ d.sn = c.sn /\ d.state \in Collecting
        /\ Snr' = Snr
    BY <1>4, <1>5 DEF Kept, Collecting, Snr
  <2>2. c.state \in Collecting /\ d.state \notin Complete
    BY <1>1, <1>3, <1>4 DEF Collecting, Complete
  <2>3. Current(c)
    BY <1>2, <1>3
  <2>4. PartOf(d, Snr.msg, Snr.len)
    BY <2>1, <2>2, <2>3 DEF Current, AtFrame, PartOf
  <2>5. PartOf(d, Snr'.msg, Snr'.len) /\ Len(d.data) = Snr'.i - 1 /\ d.bufs = Snr'.i - 1
        /\ Snr'.msg >= 1 /\ Snr'.len \in Lengths
    BY <2>1, <2>3, <2>4 DEF Current, AtFrame
  <2> QED
    BY <1>6, <2>5 DEF Current, AtFrame
<1>8. InWait(0)'
  BY <1>2, <1>5, SenderStill DEF Waiting
<1>9. Waiting'
  BY <1>1, <1>2, <1>4, <1>6, <1>7, <1>8 DEF Waiting
<1>10. \A x \in Blocks : x \notin rx'.list => rx'.ctx[x].state = "UNBOUND"
  BY <1>2, <1>6 DEF InStep
<1> QED
  BY <1>5, <1>6, <1>9, <1>10 DEF InStep

\* A flow-control frame grants the next block.
LEMMA StepFc ==
    ASSUME LinkInv, InStep, ~Lossy, FcOnBus
    PROVE  InStep' /\ SameMessage /\ Receiving' /\ rx'.list = rx.list /\ rx'.got = rx.got
           /\ Snr'.msg = Snr.msg /\ Snr'.len = Snr.len /\ rx'.ctx = rx.ctx /\ Waiting
<1>1. /\ InWait(0) /\ cur = Idle /\ rx'.fc = <<>> /\ UNCHANGED <<env, cur, wq>>
      /\ rx'.list = rx.list /\ rx'.ctx = rx.ctx /\ rx'.got = rx.got /\ RxBs = OPTS_BS
  BY FcReaches, LinkFacts DEF LinkInv
<1>2. Waiting /\ rx.fc # <<>>
  BY <1>1, InStepWhere DEF FcOnBus
<1>3. Head(rx.fc).fs = "CTS"
  <2>1. PICK b \in Blocks, fs \in {"CTS", "OVFLW"} : rx.fc = <<[ctx |-> b, to |-> "a", fs |-> fs]>>
    BY <1>2 DEF LinkInv, ReceiverInv, FcShape
  <2>2. 1 \in DOMAIN rx.fc /\ rx.fc[1] = Head(rx.fc)
    BY <2>1
  <2> QED
    BY <1>2, <2>2 DEF Waiting
<1>4. /\ SendType' /\ InGo' /\ SameMessage /\ Snd'.rem = Snd.rem /\ Ctl' = <<>>
      /\ (OPTS_BS # 0 => Win' = OPTS_BS)
      /\ Snr'.msg = Snr.msg /\ Snr'.len = Snr.len /\ Snr'.i = Snr.i
  <2>1. Sender!HandleFc("b", FcFrame("CTS")) /\ peer' = [peer EXCEPT !["a"] = OnFc(@, "CTS")]
    BY <1>3 DEF FcOnBus
  <2> QED
    BY <1>1, <2>1, FcCts DEF LinkInv
<1>5. ASSUME NEW b \in rx.list
      PROVE  Current(rx.ctx[b])' /\ rx'.ctx[b].state = "WAIT_CF" /\ (OPTS_BS # 0 => rx'.ctx[b].bs = Coming')
  <2>1. b \in Blocks /\ rx.ctx[b].state \in {"SEND_FC", "WAIT_CF"} /\ Current(rx.ctx[b]) /\ CtxInv(b)
    BY <1>2, LinkFacts DEF Waiting, LinkInv, ReceiverInv
  <2>2. rx.ctx[b].state = "WAIT_CF"
    BY <1>1, <2>1 DEF CtxInv, Idle
  <2>3. OPTS_BS # 0 => rx.ctx[b].bs = OPTS_BS /\ Coming' = OPTS_BS
    BY <1>2, <1>4, <2>1, <2>2, LinkTypes DEF CtxInv, Coming, InCtl
  <2>4. Current(rx.ctx[b])'
    BY <1>1, <1>4, <2>1 DEF Current, AtFrame, PartOf
  <2> QED
    BY <1>1, <2>2, <2>3, <2>4
<1>6. Receiving'
  BY <1>1, <1>2, <1>4, <1>5 DEF Receiving, InCfs, Waiting
<1>7. \A b \in Blocks : b \notin rx'.list => rx'.ctx[b].state = "UNBOUND"
  BY <1>1 DEF InStep
<1> QED
  BY <1>1, <1>2, <1>4, <1>6, <1>7 DEF InStep

\* Where nothing happens any more, no reception is under way.
LEMMA QuietRests ==
    ASSUME LinkInv, InStep, Quiet
    PROVE  InRest /\ rx.list = {}
<1>1. /\ swq = <<>> /\ scur = Sender!Idle /\ Ctl = <<>> /\ wq = <<>> /\ cur = Idle /\ rx.fc = <<>>
      /\ Snd.state # "SEND_CF"
  BY DEF Quiet, Ctl, Snd
<1>2. \A b \in Blocks : ~Queued(b)
  BY <1>1 DEF Queued
<1>3. rx.list \subseteq Blocks
  BY LinkFacts DEF LinkInv
<1>4. ~Ready
  BY <1>1 DEF Ready, InNew, InFf
<1>5. ~Waiting
  <2>1. SUFFICES ASSUME Waiting PROVE FALSE
    OBVIOUS
  <2>2. PICK b \in rx.list : OwesFc(b)
    BY <1>1, <2>1 DEF Waiting
  <2>3. Queued(b)
    BY <1>3, <2>2 DEF LinkInv, ReceiverInv, CtxInv
  <2> QED
    BY <1>2, <1>3, <2>3
<1>6. ~Receiving
  BY <1>1 DEF Receiving, InCfs, InWait, InCf, InSem, InGo, InSt, InLast, InBlock, Pos
<1>7. Resting
  BY <1>4, <1>5, <1>6 DEF InStep
<1>8. rx.list = {}
  <2>1. SUFFICES ASSUME NEW b \in rx.list PROVE FALSE
    OBVIOUS
  <2>2. Queued(b)
    BY <1>7 DEF Resting
  <2> QED
    BY <1>2, <1>3, <2>2
<1>9. InRest
  BY <1>1, <1>7 DEF Resting, InEnd
<1> QED
  BY <1>8, <1>9

\* A timer of the sender.
LEMMA StepSenderTimer ==
    ASSUME LinkInv, InStep, SenderTimer
    PROVE  InStep' /\ SameMessage /\ rx' = rx /\ Snr' = Snr /\ ~Resting
<1>1. /\ LinkInv' /\ SameMessage
      /\ \/ InCfs /\ InCfs'
         \/ InWait(0) /\ InEnd' /\ Quiet
  BY SenderTimerKeeps
<1>2. InCfs /\ InCfs'
  <2>1. InWait(0) /\ Quiet => FALSE
    BY QuietRests, WaitOnly
  <2> QED
    BY <1>1, <2>1
<1>3. Receiving /\ UNCHANGED recvVars /\ SameBus
  BY <1>2, InStepWhere DEF SenderTimer, SameBus
<1>4. mbox' = mbox /\ window' = window
  <2>1. Sender!Timeout("b") /\ (Snd.state = "SEND_CF" \/ Quiet)
    BY DEF SenderTimer, Snd
  <2> QED
    BY <1>3, <2>1, TimerCases DEF LinkInv
<1>5. Coming' = Coming
  BY <1>4 DEF Coming, InCtl, Win, Ctl
<1>6. InStep' /\ rx' = rx /\ Snr' = Snr
  BY <1>2, <1>3, <1>5, StepSame
<1>7. ~Resting
  BY <1>2, PlacesApart DEF Resting
<1> QED
  BY <1>1, <1>6, <1>7

\* A receive timeout never expires.
LEMMA StepReceiverTimer ==
    ASSUME LinkInv, InStep, ReceiverTimer PROVE FALSE
<1>1. rx.list = {}
  BY QuietRests DEF ReceiverTimer
<1>2. PICK b \in Blocks : Timeout(b)
  BY DEF ReceiverTimer
<1>3. rx.ctx[b].timer
  BY <1>2 DEF Timeout
<1> QED
  BY <1>1, <1>3 DEF LinkInv, ReceiverInv, CtxInv

\* At the start neither node has anything to do ...
LEMMA StepStarts ==
    ASSUME LinkInit
    PROVE  /\ InStep /\ rx.list = {} /\ Snr.msg = 0 /\ calls = 0 /\ rx.got["a"] = <<>> /\ ~Snd.alloc
           /\ \A m \in 1 .. MaxMsgs : report[m] = <<>>
<1>1. Init /\ Sender!Init /\ LinkInv /\ "a" \in Peers
  BY LinkStarts, LinkTypes DEF LinkInit
<1>2. /\ rx.list = {} /\ rx.got["a"] = <<>> /\ \A b \in Blocks : rx.ctx[b].state = "UNBOUND"
      /\ peer["a"] = [msg |-> 0, len |-> 0, i |-> 2, open |-> 0]
  BY <1>1 DEF Init
<1>3. calls = 0 /\ (\A m \in 1 .. MaxMsgs : report[m] = <<>>) /\ sctx["b"].alloc = FALSE
  BY <1>1 DEF Sender!Init, Sender!Msgs
<1>4. Snr.msg = 0 /\ Snr.len = 0 /\ Snr.i = 2 /\ ~Snd.alloc
  BY <1>2, <1>3 DEF Snr, Snd
<1>5. InRest
  BY <1>1, <1>4 DEF LinkInv, SenderInv, InNew, InFf, InCfs, InWait, InCf, InSem, InGo, InSt, InLast, InEnd,
                    InBlock, Sent, Busy
<1>6. NumFrames(0) = 1
  BY LinkTypes DEF NumFrames
<1> QED
  BY <1>2, <1>3, <1>4, <1>5, <1>6 DEF InStep, Resting, AllSent

\* ... and every step keeps them in step.
LEMMA InStepNext == LinkInv /\ InStep /\ ~Lossy /\ MessagesFit /\ [LinkNext]_linkVars => InStep'
<1> SUFFICES ASSUME LinkInv, InStep, ~Lossy, MessagesFit, [LinkNext]_linkVars PROVE InStep'
  OBVIOUS
<1>1. ASSUME NEW l \in Lengths, SendShort(l) PROVE InStep'
  BY <1>1, StepShort
<1>2. ASSUME NEW l \in Lengths, SendLong(l) PROVE InStep'
  BY <1>2, StepLong
<1>3. CASE FrameOnBus
  <2>1. FfSent \/ CfSent
    BY <1>3, BusFacts DEF LinkInv
  <2> QED
    BY <1>3, <2>1, StepFf, StepCf
<1>4. CASE ReceiverWorks
  <2>1. FinishFc \/ \E b \in Blocks : Work(b)
    BY <1>4 DEF ReceiverWorks, Worker
  <2> QED
    BY <1>4, <2>1, StepWork, StepFinish DEF ReceiverWorks
<1>5. CASE UNCHANGED linkVars
  <2>1. UNCHANGED sendVars /\ UNCHANGED recvVars /\ peer' = peer
    BY <1>5 DEF linkVars
  <2>2. rx' = rx /\ wq' = wq /\ Snr' = Snr
    BY <2>1 DEF recvVars, Snr
  <2>3. \A b : Current(rx.ctx[b]) => Current(rx.ctx[b])'
    BY <2>2, CurrentSame
  <2>4. SameBus
    BY <2>1 DEF SameBus
  <2>5. Resting => InRest' \/ (InEnd' /\ Snd'.state = "WAIT_FIN")
    BY <2>1, <2>2 DEF Resting, InRest, InEnd, Sent, Busy, Snd, Ctl, Size, sendVars
  <2>6. Ready => InNew' \/ InFf'
    BY <2>1, <2>2 DEF Ready, InNew, InFf, Busy, Snd, Ctl, Win, Size, Placed, NextSn, sendVars
  <2>7. Waiting => InWait(0)'
    BY <2>1, SenderStill DEF Waiting
  <2>8. Receiving => InCfs' /\ Coming' = Coming
    <3>1. Receiving => InCfs'
      BY <2>1, <2>2 DEF Receiving, InCfs, InWait, InCf, InSem, InGo, InSt, InLast, InBlock, Sent, Busy, Pos,
                        Granted, Snd, Ctl, Win, Size, Placed, NextSn, sendVars
    <3> QED
      BY <2>1, <3>1, SenderStill
  <2>9. Resting \/ Ready \/ Waiting \/ Receiving
    BY DEF InStep
  <2> QED
    BY <2>1, <2>4, <2>5, <2>6, <2>7, <2>8, <2>9, StepSame
<1> QED
  BY <1>1, <1>2, <1>3, <1>4, <1>5, StepSender, StepFc, StepSenderTimer, StepReceiverTimer DEF LinkNext

\* A link that loses nothing goes on losing nothing.
LEMMA StaysLossless == LinkInv /\ ~Lossy /\ [LinkNext]_linkVars => ~Lossy'
  BY EnvSame DEF Lossy

\* Where nothing is lost and the messages fit into the buffers, the two nodes stay in
\* step: node b has every frame that has been on the bus, of the message under way,
\* and expects the one that node a sends next; no timer expires.
THEOREM InStepAlways == LinkSpec /\ ~Lossy /\ MessagesFit => []InStep
<1>1. LinkInv /\ InStep /\ ~Lossy /\ MessagesFit /\ [LinkNext]_linkVars => InStep'
  BY InStepNext
<1>2. LinkInit => InStep
  BY StepStarts
<1>3. LinkInv /\ ~Lossy /\ [LinkNext]_linkVars => ~Lossy'
  BY StaysLossless
<1>4. MessagesFit => []MessagesFit
  <2>1. MessagesFit => MessagesFit'
    BY DEF MessagesFit
  <2> QED
    BY <2>1, PTL
<1> QED
  BY <1>1, <1>2, <1>3, <1>4, LinkInvariant, PTL DEF LinkSpec

-----------------------------------------------------------------------------
(* Each side is as the module of the other one assumes *)

\* What happens to the sender is what IsoTpSend describes: the flow-control frame
\* it gets is one it waits for.
LEMMA SenderNext == LinkInv /\ [LinkNext]_linkVars => [Sender!Next]_(Sender!vars)
<1> SUFFICES ASSUME LinkInv, [LinkNext]_linkVars PROVE [Sender!Next]_(Sender!vars)
  OBVIOUS
<1>1. UNCHANGED sendVars => UNCHANGED Sender!vars
  BY DEF sendVars, Sender!vars
<1>2. ASSUME NEW l \in Lengths, SendShort(l) \/ SendLong(l) PROVE Sender!Next
  <2>1. Sender!SendSf("b", l) \/ Sender!SendMulti("b", l)
    BY <1>2 DEF SendShort, SendLong
  <2>2. Sender!App("b")
    BY <2>1 DEF Sender!App
  <2> QED
    BY <2>2 DEF Sender!Next
<1>3. CASE SenderWorks
  BY <1>3 DEF SenderWorks, Sender!Next
<1>4. CASE FrameOnBus
  <2>1. Sender!Driver("b")
    BY <1>4 DEF FrameOnBus, Sender!Driver
  <2> QED
    BY <2>1 DEF Sender!Next
<1>5. CASE SenderTimer
  BY <1>5 DEF SenderTimer, Sender!Next
<1>6. CASE FcOnBus /\ Sender!HandleFc("b", FcFrame(Head(rx.fc).fs))
  <2>1. InWait(0)
    BY <1>6, FcReaches DEF LinkInv
  <2>2. Sender!PeerOwesFc("b")
    BY <2>1 DEF InWait, Pos, Sent, Busy, Snd, Ctl, Win, Sender!PeerOwesFc
  <2>3. Head(rx.fc).fs \in {"CTS", "OVFLW"}
    <3>1. PICK b \in Blocks, fs \in {"CTS", "OVFLW"} : rx.fc = <<[ctx |-> b, to |-> "a", fs |-> fs]>>
      BY <1>6 DEF FcOnBus, LinkInv, ReceiverInv, FcShape
    <3>2. Head(rx.fc) = [ctx |-> b, to |-> "a", fs |-> fs]
      BY <3>1
    <3> QED
      BY <3>2
  <2>4. FcFrame(Head(rx.fc).fs) \in Sender!FC
    BY <2>3 DEF FcFrame, Sender!FC
  <2>5. Sender!Peer("b")
    BY <1>6, <2>2, <2>4 DEF Sender!Peer, Sender!FcRx, Sender!FcMayArrive
  <2> QED
    BY <2>5 DEF Sender!Next
<1>7. CASE FcOnBus /\ UNCHANGED sendVars
  BY <1>1, <1>7
<1>8. CASE ReceiverWorks \/ ReceiverTimer
  BY <1>1, <1>8 DEF ReceiverWorks, ReceiverTimer
<1>9. CASE UNCHANGED linkVars
  BY <1>1, <1>9 DEF linkVars
<1>10. FcOnBus => Sender!HandleFc("b", FcFrame(Head(rx.fc).fs)) \/ UNCHANGED sendVars
  BY DEF FcOnBus
<1> QED
  BY <1>2, <1>3, <1>4, <1>5, <1>6, <1>7, <1>8, <1>9, <1>10 DEF LinkNext

\* In a link, whatever is lost, the receiver is the peer that IsoTpSend assumes: it
\* sends a flow-control frame only where the sender's block is complete.
THEOREM SenderAsAssumed == LinkSpec => Sender!Spec
<1>1. LinkInv /\ [LinkNext]_linkVars => [Sender!Next]_(Sender!vars)
  BY SenderNext
<1>2. LinkInit => Sender!Init
  BY DEF LinkInit
<1> QED
  BY <1>1, <1>2, LinkInvariant, PTL DEF LinkSpec, Sender!Spec

\* The first frame of a message, where the peer of IsoTpRecv may start one.
MayStart == /\ ~Sending("a") \/ ("abort" \in Faults /\ Settled("a"))
            /\ CtxOf("a") = {} \/ "b2b" \in Faults \/ "abort" \in Faults

\* Where frames are lost the peer gives up: nothing it waits for is under way.
LEMMA LossyStarts ==
    ASSUME TypeInv, ReceiverInv, Lossy, ~FcDue, cur = Idle
    PROVE  MayStart
<1>1. Faults = {"loss", "abort", "b2b"}
  BY DEF ReceiverInv, Links, RxEnv, Lossy, Faults
<1>2. ~FcPending("a")
  <2>1. rx.fc = <<>>
    BY DEF FcDue
  <2> QED
    BY <2>1 DEF FcPending
<1>3. ASSUME NEW b \in CtxOf("a")
      PROVE  rx.ctx[b].state \notin {"PROCESS_FF", "TRY_ALLOC", "SEND_FC", "SEND_WAIT"}
  <2>1. b \in Blocks
    BY <1>3 DEF CtxOf, TypeInv, Good, RxRec
  <2>2. CtxInv(b) /\ ~OwesFc(b)
    BY <2>1 DEF ReceiverInv, FcDue
  <2>3. rx.ctx[b].state # "SEND_FC"
    BY <2>2 DEF CtxInv, Idle
  <2> QED
    BY <2>2, <2>3 DEF CtxInv, OwesFc
<1> QED
  BY <1>1, <1>2, <1>3 DEF Settled, MayStart

\* Where nothing is lost every frame of the message before has been sent, and node b
\* is done with it.
LEMMA LosslessStarts ==
    ASSUME LinkInv, AllSent, rx.list = {}
    PROVE  MayStart
<1>1. Snr.len \in Nat
  BY LinkTypes, PeerTypes DEF LinkInv, Snr
<1>2. NumFrames(Snr.len) \in Nat
  BY <1>1, FrameCount
<1>3. ~Sending("a")
  BY <1>2 DEF AllSent, Sending, Snr
<1>4. CtxOf("a") = {}
  BY DEF CtxOf
<1> QED
  BY <1>3, <1>4 DEF MayStart

\* Then the peer starts one.
LEMMA FirstOnBus ==
    ASSUME TypeInv, ReceiverInv, MayStart, NEW l \in Lengths, NEW f,
           f = FrameOf(Snr.msg + 1, l, 1), Snr.msg < MaxMsgs, IsrAllowed,
           Snr' = [msg |-> Snr.msg + 1, len |-> l, i |-> 2, open |-> 0], OnBus(f), f.type # "CF",
           Arrives("a", f), UNCHANGED <<env, cur>>
    PROVE  PeerStart("a", l)
<1>1. env.peers = {"a"} /\ env.lens = Lengths /\ env.msgs = MaxMsgs
  BY DEF ReceiverInv, Links, RxEnv
<1>2. peer' = [peer EXCEPT !["a"] = [msg |-> f.msg, len |-> f.len, i |-> 2, open |-> 0]]
  BY DEF OnBus
<1>3. "a" \in DOMAIN peer
  BY LinkTypes DEF TypeInv
<1>4. peer'["a"] = [msg |-> f.msg, len |-> f.len, i |-> 2, open |-> 0]
  BY <1>2, <1>3
<1>5. peer' = [peer EXCEPT !["a"] = Snr']
  BY <1>2, <1>4 DEF Snr
<1>6. peer' = [peer EXCEPT !["a"] = [msg |-> @.msg + 1, len |-> l, i |-> 2, open |-> 0]]
  BY <1>5 DEF Snr
<1>7. Arrives("a", FrameOf(peer["a"].msg + 1, l, 1)) /\ peer["a"].msg < env.msgs
  BY <1>1 DEF Snr
<1> QED
  BY <1>1, <1>6, <1>7 DEF PeerStart, MayStart

\* What is asked of the link below.
GoesWell == Lossy \/ (InStep /\ MessagesFit)

\* A message of one frame.
LEMMA ShortIsStart ==
    ASSUME LinkInv, GoesWell, NEW l \in Lengths, SendShort(l) PROVE PeerStart("a", l)
<1>1. InRest /\ ~FcDue /\ cur = Idle
  BY SendShortKeeps DEF LinkInv
<1>2. /\ OnBus(SfFrame(l)) /\ Arrives("a", SfFrame(l)) /\ Sender!SendSf("b", l)
      /\ UNCHANGED <<env, cur>> /\ IsrAllowed
  BY DEF SendShort, OnTheBus, OnBus, SfFrame
<1>3. calls < MaxMsgs /\ Snr' = [msg |-> calls + 1, len |-> l, i |-> 2, open |-> 0]
  BY <1>1, <1>2, ShortStep DEF LinkInv
<1>4. Snr.msg = calls
  BY <1>1 DEF InRest
<1>5. l <= SfMax
  BY <1>2, SenderData DEF Sender!SendSf
<1>6. SfFrame(l) = FrameOf(Snr.msg + 1, l, 1) /\ SfFrame(l).type # "CF"
  BY <1>4, <1>5 DEF SfFrame, FrameOf
<1>7. MayStart
  <2>1. ASSUME ~Lossy PROVE rx.list = {} /\ AllSent
    BY <2>1, StepShort DEF GoesWell
  <2> QED
    BY <1>1, <2>1, LossyStarts, LosslessStarts DEF LinkInv
<1> QED
  BY <1>1, <1>2, <1>3, <1>4, <1>6, <1>7, FirstOnBus DEF LinkInv

\* A frame of a message of several.
LEMMA FrameIsSent ==
    ASSUME LinkInv, GoesWell, FrameOnBus PROVE PeerCf("a") \/ \E l \in Lengths : PeerStart("a", l)
<1>1. /\ OnBus(Head(Ctl)) /\ Arrives("a", Head(Ctl)) /\ IsrAllowed
      /\ UNCHANGED <<env, cur>> /\ TxEffect /\ (FfSent \/ CfSent)
  BY BusFacts DEF LinkInv, FrameOnBus, OnTheBus
<1>2. CASE FfSent
  <2>1. /\ ~FcDue /\ cur = Idle /\ Head(Ctl) = FrameOf(calls, Size, 1)
        /\ Snr' = [msg |-> calls, len |-> Size, i |-> 2, open |-> 0]
    BY <1>1, <1>2, FfKeeps DEF LinkInv
  <2>2. calls \in 1 .. MaxMsgs /\ calls \in Int /\ Snr.msg = calls - 1 /\ Size \in Lengths /\ Size > SfMax
    BY <1>2, LinkTypes DEF FfSent, InFf, Busy
  <2>3. calls = Snr.msg + 1 /\ Snr.msg < MaxMsgs
    BY <2>2, LinkTypes
  <2>4. Head(Ctl).type # "CF"
    <3>1. ~(Size <= SfMax)
      BY <2>2, LinkTypes
    <3> QED
      BY <2>1, <3>1 DEF FrameOf, Segment
  <2>5. Head(Ctl) = FrameOf(Snr.msg + 1, Size, 1)
        /\ Snr' = [msg |-> Snr.msg + 1, len |-> Size, i |-> 2, open |-> 0]
    BY <2>1, <2>3
  <2>6. MayStart
    <3>1. ASSUME ~Lossy PROVE rx.list = {} /\ AllSent
      BY <1>2, <3>1, StepFf DEF GoesWell
    <3> QED
      BY <2>1, <3>1, LossyStarts, LosslessStarts DEF LinkInv
  <2>7. PeerStart("a", Size)
    BY <1>1, <2>2, <2>3, <2>4, <2>5, <2>6, FirstOnBus DEF LinkInv
  <2> QED
    BY <2>2, <2>7
<1>3. CASE CfSent
  <2>1. Head(Ctl) = FrameOf(Snr.msg, Snr.len, Snr.i) /\ Snr.i <= NumFrames(Snr.len)
    BY <1>1, <1>3, CfKeeps DEF LinkInv
  <2>2. CfOnBus
    BY <1>3 DEF CfSent
  <2>3. Snr.open > 0
    BY <2>2 DEF CfOnBus
  <2>4. Head(Ctl).type = "CF"
    <3>1. Head(Ctl) = Segment(calls, Size, Snr.i) /\ Snr.i # 1
      BY <2>2 DEF CfOnBus, Sent
    <3> QED
      BY <3>1 DEF Segment
  <2>5. peer' = [peer EXCEPT !["a"].i = @ + 1, !["a"].open = @ - 1]
    BY <1>1, <2>4 DEF OnBus
  <2> QED
    BY <1>1, <2>1, <2>3, <2>5 DEF PeerCf, Sending, Snr
<1> QED
  BY <1>1, <1>2, <1>3

\* What happens to node b is what IsoTpRecv describes.
LEMMA ReceiverNext == LinkInv /\ GoesWell /\ [LinkNext]_linkVars => [Next]_vars
<1> SUFFICES ASSUME LinkInv, GoesWell, [LinkNext]_linkVars PROVE [Next]_vars
  OBVIOUS
<1>1. "a" \in Peers
  BY LinkTypes
<1>2. FcOnBus => Next
  BY FcReaches DEF LinkInv, Next
<1>3. ReceiverWorks \/ ReceiverTimer => Next
  BY ReceiverStep
<1>4. ASSUME NEW l \in Lengths, SendLong(l) PROVE UNCHANGED vars
  BY <1>4 DEF SendLong, recvVars, vars
<1>5. SenderWorks \/ SenderTimer \/ UNCHANGED linkVars => UNCHANGED vars
  BY DEF SenderWorks, SenderTimer, linkVars, recvVars, vars
<1>6. ASSUME NEW l \in Lengths, SendShort(l) PROVE Next
  BY <1>1, <1>6, ShortIsStart DEF Next, Send
<1>7. FrameOnBus => Next
  BY <1>1, FrameIsSent DEF Next, Send
<1> QED
  BY <1>2, <1>3, <1>4, <1>5, <1>6, <1>7 DEF LinkNext

\* In a link, whatever is lost, each half is the environment that the module of the
\* other one assumes: what is checked and proved of IsoTpSend and of IsoTpRecv holds
\* of the two nodes together.  Where nothing is lost the receiver must have the
\* buffers that a message needs: a message whose frame it drops for want of one is
\* given up, which the peer of IsoTpRecv does only where frames are lost.
THEOREM SidesAsAssumed == LinkSpec /\ (Lossy \/ MessagesFit) => EachSideAsAssumed
<1>1. LinkInv /\ GoesWell /\ [LinkNext]_linkVars => [Next]_vars
  BY ReceiverNext
<1>2. LinkInv /\ [LinkNext]_linkVars => (Lossy => Lossy')
  BY EnvSame DEF Lossy
<1>3. LinkInit => Init
  BY DEF LinkInit
<1>4. LinkSpec /\ Lossy => Spec
  <2>1. Lossy => GoesWell
    BY DEF GoesWell
  <2> QED
    BY <1>1, <1>2, <1>3, <2>1, LinkInvariant, PTL DEF LinkSpec, Spec
<1>5. LinkSpec /\ ~Lossy /\ MessagesFit => Spec
  <2>1. InStep /\ MessagesFit => GoesWell
    BY DEF GoesWell
  <2>2. MessagesFit => []MessagesFit
    <3>1. MessagesFit => MessagesFit'
      BY DEF MessagesFit
    <3> QED
      BY <3>1, PTL
  <2> QED
    BY <1>1, <1>3, <2>1, <2>2, LinkInvariant, InStepAlways, PTL DEF LinkSpec, Spec
<1> QED
  BY <1>4, <1>5, SenderAsAssumed DEF EachSideAsAssumed

-----------------------------------------------------------------------------
(* Where nothing is lost the link is the abstract transfer *)

\* The messages that are whole in node b.
Whole == IF InWait(0) \/ InCfs THEN Snr.msg - 1 ELSE Snr.msg

\* What recv_callback was given: every message in its turn, but one that is in a
\* context still.
Got == LET g == rx.got["a"] IN
       /\ Len(g) = IF rx.list = {} THEN Snr.msg ELSE Snr.msg - 1
       /\ \A k \in DOMAIN g : \E l \in Lengths : g[k] = PiecesOf(k, l)

\* What sent_callback was told: success, once, and not before the message is over.
Told == /\ \A m \in 1 .. MaxMsgs : report[m] \in {<<>>, <<"OK">>} /\ (m > calls => report[m] = <<>>)
        /\ Snd.alloc => report[calls] = <<>>

\* What a step may be.
Stutters     == calls' = calls /\ report' = report /\ Whole' = Whole /\ rx'.got = rx.got
Accepts      == calls < MaxMsgs /\ calls' = calls + 1 /\ report' = report /\ Whole' = Whole /\ rx'.got = rx.got
AcceptsShort == /\ calls < MaxMsgs /\ calls' = calls + 1 /\ Whole = calls /\ Whole' = calls + 1
                /\ report' = [report EXCEPT ![calls + 1] = Append(@, "OK")] /\ rx'.got = rx.got
HandsOver    == /\ Whole' = Whole + 1 /\ Whole + 1 = calls /\ report[calls] = <<>>
                /\ calls' = calls /\ report' = report /\ rx'.got = rx.got
Delivers     == LET g == rx.got["a"] IN
                /\ Whole' = Whole /\ Whole = Len(g) + 1
                /\ \E l \in Lengths : rx'.got = [rx.got EXCEPT !["a"] = Append(g, PiecesOf(Len(g) + 1, l))]
                /\ calls' = calls /\ report' = report
Reports      == /\ Whole = calls /\ calls \in 1 .. MaxMsgs /\ report[calls] = <<>>
                /\ report' = [report EXCEPT ![calls] = Append(@, "OK")]
                /\ calls' = calls /\ Whole' = Whole /\ rx'.got = rx.got
StepsWell    == Stutters \/ Accepts \/ AcceptsShort \/ HandsOver \/ Delivers \/ Reports

\* Numbers of messages.
LEMMA MsgTypes ==
    ASSUME LinkInv
    PROVE  /\ Snr.msg \in Nat /\ calls \in Nat /\ calls \in 0 .. MaxMsgs /\ MaxMsgs \in Nat
           /\ rx.got["a"] \in Seq(Seq(Piece)) /\ rx.got \in [Peers -> Seq(Seq(Piece))] /\ "a" \in Peers
           /\ report \in [0 .. MaxMsgs -> Seq(Sender!Errors)]
<1>1. "a" \in Peers
  BY LinkTypes
<1>2. Snr.msg \in Nat
  BY <1>1, PeerTypes DEF Snr, LinkInv
<1>3. rx.got \in [Peers -> Seq(Seq(Piece))]
  BY DEF LinkInv, TypeInv, Good, RxRec
<1>4. calls \in 0 .. MaxMsgs /\ report \in [0 .. MaxMsgs -> Seq(Sender!Errors)] /\ MaxMsgs \in Nat
  BY LinkTypes DEF LinkInv, SendType
<1> QED
  BY <1>1, <1>2, <1>3, <1>4

\* The reports stay as they are.
LEMMA ToldSame ==
    ASSUME LinkInv, LinkInv', Told, report' = report, calls' >= calls,
           Snd'.alloc => calls' > calls \/ (calls' = calls /\ Snd.alloc)
    PROVE  Told'
<1>1. calls \in Nat /\ calls' \in 0 .. MaxMsgs /\ MaxMsgs \in Nat
  BY MsgTypes DEF LinkInv, SendType
<1> QED
  BY <1>1 DEF Told

\* One more.
LEMMA ToldMore ==
    ASSUME LinkInv, LinkInv', Told, NEW m \in 1 .. MaxMsgs, report[m] = <<>>, m <= calls',
           report' = [report EXCEPT ![m] = Append(@, "OK")], calls' >= calls, ~Snd'.alloc
    PROVE  Told'
<1>1. calls \in Nat /\ calls' \in 0 .. MaxMsgs /\ MaxMsgs \in Nat /\ report \in [0 .. MaxMsgs -> Seq(Sender!Errors)]
  BY MsgTypes DEF LinkInv, SendType
<1>2. report'[m] = <<"OK">> /\ \A n \in 1 .. MaxMsgs : n # m => report'[n] = report[n]
  BY <1>1
<1> QED
  BY <1>1, <1>2 DEF Told

\* While a message is under way its context is in use.
LEMMA NotResting == InNew \/ InFf \/ InWait(0) \/ InCfs => Snd.alloc /\ calls \in 1 .. MaxMsgs
  BY DEF InNew, InFf, InWait, InCfs, InCf, InSem, InGo, InSt, InLast, InBlock, Sent, Busy

\* What is whole depends on nothing else.
LEMMA WholeStays ==
    ASSUME UNCHANGED sendVars, peer' = peer
    PROVE  Whole' = Whole
<1>1. /\ swq' = swq /\ scur' = scur /\ calls' = calls /\ out' = out /\ Snr' = Snr
      /\ Snd' = Snd /\ Ctl' = Ctl /\ Win' = Win /\ Size' = Size
  BY DEF sendVars, Snr, Snd, Ctl, Win, Size
<1>2. \A k \in {0, 1} : /\ InWait(k)' <=> InWait(k)
                        /\ InSem(k)' <=> InSem(k)
                        /\ InSt(k)' <=> InSt(k)
  BY <1>1 DEF InWait, InSem, InSt, InBlock, Busy, Sent, Pos, Placed, NextSn, Left, Granted
<1>3. /\ InCf' <=> InCf
      /\ InGo' <=> InGo
      /\ InLast' <=> InLast
  BY <1>1 DEF InCf, InGo, InLast, InBlock, Busy, Sent, Pos, Placed, NextSn, Left, Granted
<1>4. (InWait(0) \/ InCfs)' <=> InWait(0) \/ InCfs
  BY <1>2, <1>3 DEF InCfs
<1> QED
  BY <1>1, <1>4 DEF Whole

\* Where every frame is sent, the message is whole ...
LEMMA WholeWhen ==
    /\ Resting \/ Ready => Whole = Snr.msg
    /\ Waiting \/ Receiving => Whole = Snr.msg - 1
  BY PlacesApart, WaitOnly DEF Whole, Resting, Ready, Waiting, Receiving

\* ... and the same of the next state.
LEMMA WholeThen ==
    /\ Resting' \/ Ready' => Whole' = Snr'.msg
    /\ Waiting' \/ Receiving' => Whole' = Snr'.msg - 1
<1>1. (/\ Resting \/ Ready => Whole = Snr.msg
       /\ Waiting \/ Receiving => Whole = Snr.msg - 1)'
  BY WholeWhen, PTL
<1> QED
  BY <1>1

\* A message of one frame is sent.
LEMMA KindShort ==
    ASSUME LinkInv, LinkInv', InStep, ~Lossy, MessagesFit, Got, Told, NEW l \in Lengths, SendShort(l)
    PROVE  Got' /\ Told' /\ AcceptsShort
<1>1. /\ InStep' /\ Resting' /\ Resting /\ rx.list = {} /\ InRest /\ InRest'
      /\ Snr'.msg = Snr.msg + 1 /\ calls' = calls + 1 /\ calls = Snr.msg /\ calls < MaxMsgs
      /\ rx'.got = rx.got /\ rx'.list # {}
      /\ report' = [report EXCEPT ![calls + 1] = Append(@, "OK")]
  BY StepShort
<1>2. Snr.msg \in Nat /\ calls \in Nat /\ MaxMsgs \in Nat
  BY MsgTypes
<1>3. Got'
  BY <1>1, <1>2 DEF Got
<1>4. Told'
  <2>1. PICK m \in 1 .. MaxMsgs : m = calls + 1
    BY <1>1, <1>2
  <2>2. report[m] = <<>>
    BY <1>2, <2>1 DEF Told
  <2>3. ~Snd'.alloc
    BY <1>1 DEF InRest
  <2>4. m <= calls' /\ calls' >= calls /\ report' = [report EXCEPT ![m] = Append(@, "OK")]
    BY <1>1, <1>2, <2>1
  <2> QED
    BY <2>2, <2>3, <2>4, ToldMore
<1>5. Whole = calls /\ Whole' = calls + 1
  BY <1>1, WholeWhen, WholeThen
<1> QED
  BY <1>1, <1>3, <1>4, <1>5 DEF AcceptsShort

\* A message of several frames is accepted.
LEMMA KindLong ==
    ASSUME LinkInv, LinkInv', InStep, ~Lossy, Got, Told, NEW l \in Lengths, SendLong(l)
    PROVE  Got' /\ Told' /\ Accepts
<1>1. Ready' /\ Resting /\ rx' = rx /\ Snr' = Snr
  <2>1. InRest
    BY SendLongKeeps
  <2> QED
    BY <2>1, StepLong, InStepWhere DEF SendLong, recvVars, Snr
<1>2. calls < MaxMsgs /\ calls' = calls + 1 /\ report' = report
  BY DEF SendLong, Sender!SendMulti, Sender!MayCall
<1>3. calls \in Nat
  BY MsgTypes
<1>4. Told'
  BY <1>2, <1>3, ToldSame
<1>5. Got' /\ Whole' = Whole
  BY <1>1, WholeWhen, WholeThen DEF Got
<1> QED
  BY <1>1, <1>2, <1>4, <1>5 DEF Accepts

\* Places that are apart are so in the next state.
LEMMA ApartNow == InRest \/ InNew \/ InFf => ~(InWait(0) \/ InCfs)
  BY PlacesApart

\* The same of the next state.
LEMMA ApartNext == (InRest \/ InNew \/ InFf => ~(InWait(0) \/ InCfs))'
  BY ApartNow, PTL

\* The work queue of node a.
LEMMA KindSender ==
    ASSUME LinkInv, LinkInv', InStep, Got, Told, SenderWorks
    PROVE  Got' /\ Told' /\ (Stutters \/ Reports)
<1>1. /\ InStep' /\ rx' = rx /\ Snr' = Snr /\ calls' = calls
      /\ \/ SameMessage /\ (Resting => Snd'.alloc = Snd.alloc)
         \/ /\ Resting /\ Snd.state = "WAIT_FIN" /\ InEnd /\ InRest'
            /\ report' = [report EXCEPT ![calls] = Append(@, "OK")]
  BY StepSender
<1>2. OnItsWay
  BY SenderWorksKeeps
<1>3. Got'
  BY <1>1 DEF Got
<1>4. calls \in Nat /\ MaxMsgs \in Nat
  BY MsgTypes
<1>5. (InWait(0) \/ InCfs)' <=> InWait(0) \/ InCfs
  <2>1. InRest' \/ InFf' => ~(InWait(0) \/ InCfs)'
    BY ApartNext
  <2>2. InRest \/ InNew \/ InFf \/ InEnd => ~(InWait(0) \/ InCfs)
    BY PlacesApart, WaitOnly
  <2> QED
    BY <1>2, <2>1, <2>2 DEF OnItsWay
<1>6. Whole' = Whole
  BY <1>1, <1>5 DEF Whole
<1>7. CASE SameMessage /\ (Resting => Snd'.alloc = Snd.alloc)
  <2>1. Snd'.alloc => Snd.alloc
    BY <1>7, NotResting DEF InStep, Ready, Waiting, Receiving
  <2>2. Told'
    BY <1>4, <1>7, <2>1, ToldSame DEF SameMessage
  <2> QED
    BY <1>1, <1>3, <1>6, <1>7, <2>2 DEF Stutters, SameMessage
<1>8. CASE /\ Resting /\ Snd.state = "WAIT_FIN" /\ InEnd /\ InRest'
           /\ report' = [report EXCEPT ![calls] = Append(@, "OK")]
  <2>1. Snd.alloc /\ calls \in 1 .. MaxMsgs /\ Snr.msg = calls
    BY <1>8 DEF InEnd, Sent, Busy
  <2>2. report[calls] = <<>> /\ ~Snd'.alloc
    BY <1>8, <2>1 DEF Told, InRest
  <2>3. Told'
    <3>1. PICK m \in 1 .. MaxMsgs : m = calls
      BY <2>1
    <3>2. /\ m <= calls' /\ calls' >= calls /\ report' = [report EXCEPT ![m] = Append(@, "OK")]
          /\ report[m] = <<>>
      <4>1. calls' = calls
        BY <1>1
      <4>2. m <= calls' /\ calls' >= calls
        BY <1>4, <3>1, <4>1
      <4> QED
        BY <1>8, <2>2, <3>1, <4>2
    <3> QED
      BY <2>2, <3>2, ToldMore
  <2> QED
    BY <1>1, <1>3, <1>6, <1>8, <2>1, <2>2, <2>3, WholeWhen DEF Reports
<1> QED
  BY <1>1, <1>7, <1>8

\* A first frame.
LEMMA KindFf ==
    ASSUME LinkInv, LinkInv', InStep, ~Lossy, MessagesFit, Got, Told, FrameOnBus, FfSent
    PROVE  Got' /\ Told' /\ Stutters
<1>1. /\ Ready /\ Waiting' /\ Snr'.msg = Snr.msg + 1 /\ SameMessage
      /\ rx.list = {} /\ rx'.got = rx.got /\ Snd'.alloc = Snd.alloc
  BY StepFf
<1>2. Snr.msg \in Nat /\ calls \in Nat
  BY MsgTypes
<1>3. rx'.list # {}
  BY <1>1 DEF Waiting
<1>4. Got'
  BY <1>1, <1>2, <1>3 DEF Got
<1>5. Told'
  BY <1>1, <1>2, ToldSame DEF SameMessage
<1>6. Whole' = Whole
  BY <1>1, <1>2, WholeWhen, WholeThen
<1> QED
  BY <1>1, <1>4, <1>5, <1>6 DEF Stutters, SameMessage

\* A consecutive frame: the last one hands the message over.
LEMMA KindCf ==
    ASSUME LinkInv, LinkInv', InStep, ~Lossy, MessagesFit, Got, Told, FrameOnBus, CfSent
    PROVE  Got' /\ Told' /\ (Stutters \/ HandsOver)
<1>1. /\ Receiving /\ SameMessage /\ Snr'.msg = Snr.msg
      /\ rx'.list = rx.list /\ rx'.got = rx.got /\ Snd'.alloc = Snd.alloc
      /\ Waiting' \/ Receiving' \/ Resting'
  BY StepCf
<1>2. Snr.msg \in Nat /\ calls \in Nat
  BY MsgTypes
<1>3. Got'
  BY <1>1, <1>2 DEF Got
<1>4. Told'
  BY <1>1, <1>2, ToldSame DEF SameMessage
<1>5. Whole = Snr.msg - 1 /\ (Waiting' \/ Receiving' => Whole' = Whole)
  BY <1>1, <1>2, WholeWhen, WholeThen
<1>6. Resting' => Whole' = Whole + 1
  BY <1>1, <1>2, <1>5, WholeThen
<1>7. Snr.msg = calls /\ Snd.alloc
  BY DEF CfSent, CfOnBus, Sent, Busy
<1>8. report[calls] = <<>>
  BY <1>7 DEF Told
<1> QED
  BY <1>1, <1>2, <1>3, <1>4, <1>5, <1>6, <1>7, <1>8 DEF Stutters, HandsOver, SameMessage

\* A context that is complete holds the message.
LEMMA HoldsMessage ==
    ASSUME LinkInv, NEW b \in rx.list, Current(rx.ctx[b]), rx.ctx[b].state \in Complete
    PROVE  Snr.len \in Lengths /\ rx.ctx[b].data = PiecesOf(Snr.msg, Snr.len)
<1>1. rx.ctx[b] \in Ctx
  BY LinkFacts DEF LinkInv
<1>2. PICK d \in Seq(Piece) : d = rx.ctx[b].data
  BY <1>1 DEF Ctx
<1>3. Snr.len \in Lengths /\ Len(d) = NumFrames(Snr.len) /\ \A j \in 1 .. Len(d) : d[j] = PieceOf(Snr.msg, Snr.len, j)
  BY <1>2 DEF Current, AtFrame, PartOf
<1>4. DOMAIN d = 1 .. NumFrames(Snr.len) /\ d = [j \in 1 .. NumFrames(Snr.len) |-> d[j]]
  BY <1>3
<1>5. d = PiecesOf(Snr.msg, Snr.len)
  BY <1>3, <1>4 DEF PiecesOf, PieceOf
<1> QED
  BY <1>2, <1>3, <1>5

\* Node b alone: a message is delivered, or nothing is told to anybody.
LEMMA KindReceiver ==
    ASSUME LinkInv, LinkInv', InStep, Got, Told, UNCHANGED sendVars, peer' = peer,
           HandedUp \/ (rx'.list = rx.list /\ rx'.got = rx.got)
    PROVE  Got' /\ Told' /\ (Stutters \/ Delivers)
<1>1. Whole' = Whole /\ calls' = calls /\ report' = report /\ Snd' = Snd /\ Snr' = Snr
  BY WholeStays DEF sendVars, Snd, Snr
<1>2. Snr.msg \in Nat /\ calls \in Nat /\ rx.got["a"] \in Seq(Seq(Piece)) /\ "a" \in Peers
      /\ rx.got \in [Peers -> Seq(Seq(Piece))]
  BY MsgTypes
<1>3. Told'
  BY <1>1, <1>2, ToldSame
<1>4. CASE rx'.list = rx.list /\ rx'.got = rx.got
  <2>1. Got'
    BY <1>1, <1>4 DEF Got
  <2> QED
    BY <1>1, <1>3, <1>4, <2>1 DEF Stutters
<1>5. CASE HandedUp
  <2>1. PICK b \in rx.list :
           /\ Resting /\ Current(rx.ctx[b]) /\ rx.ctx[b].state \in Complete /\ rx'.list = {}
           /\ rx'.got = [rx.got EXCEPT !["a"] = Append(@, rx.ctx[b].data)]
    BY <1>5 DEF HandedUp
  <2>2. PICK l \in Lengths : l = Snr.len /\ rx.ctx[b].data = PiecesOf(Snr.msg, l)
    BY <2>1, HoldsMessage
  <2> DEFINE g == rx.got["a"]
  <2>3. Len(g) = Snr.msg - 1 /\ \A k \in DOMAIN g : \E x \in Lengths : g[k] = PiecesOf(k, x)
    BY <2>1 DEF Got
  <2>4. Snr.msg = Len(g) + 1 /\ Whole = Snr.msg /\ Len(g) \in Nat
    BY <1>2, <2>1, <2>3, WholeWhen
  <2>5. rx'.got = [rx.got EXCEPT !["a"] = Append(g, PiecesOf(Len(g) + 1, l))]
    BY <2>1, <2>2, <2>4
  <2>6. rx'.got["a"] = Append(g, PiecesOf(Len(g) + 1, l))
    BY <1>2, <2>5
  <2> HIDE DEF g
  <2>7. /\ Len(rx'.got["a"]) = Len(g) + 1
        /\ \A k \in DOMAIN rx'.got["a"] : \E x \in Lengths : rx'.got["a"][k] = PiecesOf(k, x)
    <3>1. g \in Seq(Seq(Piece))
      BY <1>2 DEF g
    <3> DEFINE p == PiecesOf(Len(g) + 1, l)
               h == Append(g, p)
    <3>2. Len(h) = Len(g) + 1 /\ DOMAIN h = 1 .. Len(g) + 1 /\ h[Len(g) + 1] = p
          /\ \A k \in 1 .. Len(g) : h[k] = g[k] /\ k \in DOMAIN g
      <4> HIDE DEF p
      <4> QED
        BY <3>1
    <3>3. ASSUME NEW k \in DOMAIN h PROVE \E x \in Lengths : h[k] = PiecesOf(k, x)
      <4> HIDE DEF h
      <4>1. CASE k = Len(g) + 1
        BY <3>2, <4>1
      <4>2. CASE k # Len(g) + 1
        <5>1. k \in 1 .. Len(g)
          BY <2>4, <3>2, <4>2 DEF g
        <5> QED
          BY <2>3, <3>2, <5>1 DEF g
      <4> QED
        BY <4>1, <4>2
    <3> QED
      BY <2>6, <3>2, <3>3
  <2>8. Got'
    BY <1>1, <2>1, <2>4, <2>7 DEF Got, g
  <2>9. Delivers
    BY <1>1, <2>4, <2>5 DEF Delivers, g
  <2> QED
    BY <1>3, <2>8, <2>9
<1> QED
  BY <1>4, <1>5

\* Steps that leave node b's contexts and the message alone.
LEMMA KindOther ==
    ASSUME LinkInv, LinkInv', InStep, InStep', Got, Told, SameMessage, rx'.list = rx.list, rx'.got = rx.got,
           Snr'.msg = Snr.msg, Waiting \/ Receiving, Waiting' \/ Receiving'
    PROVE  Got' /\ Told' /\ Stutters
<1>1. Whole' = Whole
  BY WholeWhen, WholeThen
<1>2. calls \in Nat /\ Snd.alloc
  BY MsgTypes, NotResting DEF Waiting, Receiving
<1>3. Got' /\ Told'
  BY <1>2, ToldSame DEF Got, SameMessage
<1> QED
  BY <1>1, <1>3 DEF Stutters, SameMessage

\* A timer of the sender: the separation time.
LEMMA KindTimer ==
    ASSUME LinkInv, LinkInv', InStep, Got, Told, SenderTimer
    PROVE  Got' /\ Told' /\ Stutters
<1>1. InStep' /\ SameMessage /\ rx' = rx /\ Snr' = Snr
  BY StepSenderTimer
<1>2. InCfs /\ InCfs'
  <2>1. InWait(0) /\ Quiet => FALSE
    BY QuietRests, WaitOnly
  <2> QED
    BY <2>1, SenderTimerKeeps
<1>3. Receiving
  BY <1>2, InStepWhere
<1>4. Whole' = Whole
  BY <1>1, <1>2 DEF Whole
<1>5. calls \in Nat /\ Snd.alloc
  BY <1>2, MsgTypes, NotResting
<1>6. Got' /\ Told'
  BY <1>1, <1>5, ToldSame DEF Got, SameMessage
<1> QED
  BY <1>1, <1>4, <1>6 DEF Stutters, SameMessage

\* Every step of the link is a step of the transfer, or none.
InTouch == InStep /\ Got /\ Told

LEMMA InTouchNext ==
    LinkInv /\ LinkInv' /\ InTouch /\ ~Lossy /\ MessagesFit /\ [LinkNext]_linkVars => InTouch' /\ StepsWell
<1> SUFFICES ASSUME LinkInv, LinkInv', InStep, Got, Told, ~Lossy, MessagesFit, [LinkNext]_linkVars
             PROVE  Got' /\ Told' /\ StepsWell
  BY InStepNext DEF InTouch
<1>1. ASSUME NEW l \in Lengths, SendShort(l) PROVE Got' /\ Told' /\ StepsWell
  BY <1>1, KindShort DEF StepsWell
<1>2. ASSUME NEW l \in Lengths, SendLong(l) PROVE Got' /\ Told' /\ StepsWell
  BY <1>2, KindLong DEF StepsWell
<1>3. CASE SenderWorks
  BY <1>3, KindSender DEF StepsWell
<1>4. CASE FrameOnBus
  <2>1. FfSent \/ CfSent
    BY <1>4, BusFacts DEF LinkInv
  <2> QED
    BY <1>4, <2>1, KindFf, KindCf DEF StepsWell
<1>5. CASE ReceiverWorks
  <2>1. FinishFc \/ \E b \in Blocks : Work(b)
    BY <1>5 DEF ReceiverWorks, Worker
  <2>2. UNCHANGED sendVars
    BY <1>5 DEF ReceiverWorks
  <2>3. peer' = peer /\ (HandedUp \/ (rx'.list = rx.list /\ rx'.got = rx.got))
    BY <2>1, <2>2, StepWork, StepFinish
  <2> QED
    BY <2>2, <2>3, KindReceiver DEF StepsWell
<1>6. CASE FcOnBus
  <2>1. InStep' /\ SameMessage /\ Receiving' /\ rx'.list = rx.list /\ rx'.got = rx.got
        /\ Snr'.msg = Snr.msg /\ Waiting
    BY <1>6, StepFc
  <2> QED
    BY <2>1, KindOther DEF StepsWell
<1>7. CASE SenderTimer
  BY <1>7, KindTimer DEF StepsWell
<1>8. CASE ReceiverTimer
  BY <1>8, StepReceiverTimer
<1>9. CASE UNCHANGED linkVars
  BY <1>9, KindReceiver DEF linkVars, recvVars, StepsWell
<1> QED
  BY <1>1, <1>2, <1>3, <1>4, <1>5, <1>6, <1>7, <1>8, <1>9 DEF LinkNext

\* Neither a message of the abstract transfer nor what sent_callback was told is new.
Over   == Arrived \cup {Delivered[k] : k \in DOMAIN Delivered}
Result == [m \in 1 .. MaxMsgs |-> ResultOf(report[m])]

\* The pieces of a message tell which one it is.
LEMMA PiecesTell ==
    ASSUME NEW m \in Nat, NEW l \in Lengths
    PROVE  WholeMsg(PiecesOf(m, l)) = m
<1>1. l \in Nat /\ l \in Nat \ {0}
  BY SegTypes
<1>2. 1 \in 1 .. NumFrames(l) /\ FrameOf(m, l, 1).msg = m
  BY <1>1, FrameCount, FirstFrame
<1>3. PiecesOf(m, l)[1].msg = m
  BY <1>2 DEF PiecesOf
<1>4. \E x \in Lengths : PiecesOf(m, l) = PiecesOf(PiecesOf(m, l)[1].msg, x)
  BY <1>3
<1> QED
  BY <1>3, <1>4 DEF WholeMsg

\* The messages in node b, as the abstract transfer has them.
LEMMA Abstracts ==
    LinkInv /\ InTouch /\ ~Lossy =>
        /\ Delivered = [k \in 1 .. Len(rx.got["a"]) |-> k] /\ Len(rx.got["a"]) \in Nat
        /\ Over = 1 .. Whole /\ Whole \in Nat
<1> SUFFICES ASSUME LinkInv, InStep, Got, ~Lossy
             PROVE  /\ Delivered = [k \in 1 .. Len(rx.got["a"]) |-> k] /\ Len(rx.got["a"]) \in Nat
                    /\ Over = 1 .. Whole /\ Whole \in Nat
  BY DEF InTouch
<1> DEFINE g == rx.got["a"]
           n == Len(g)
<1>1. /\ g \in Seq(Seq(Piece)) /\ n \in Nat /\ Snr.msg \in Nat /\ DOMAIN g = 1 .. n
      /\ n = IF rx.list = {} THEN Snr.msg ELSE Snr.msg - 1
  BY MsgTypes DEF Got
<1>2. \A k \in 1 .. n : WholeMsg(g[k]) = k
  <2>1. ASSUME NEW k \in 1 .. n PROVE WholeMsg(g[k]) = k
    <3>1. PICK l \in Lengths : g[k] = PiecesOf(k, l)
      BY <1>1 DEF Got
    <3> QED
      BY <3>1, PiecesTell
  <2> QED
    BY <2>1
<1>3. Delivered = [k \in 1 .. n |-> k]
  <2>1. Delivered = [k \in 1 .. n |-> WholeMsg(g[k])]
    BY <1>1 DEF Delivered, Received
  <2> HIDE DEF n, g
  <2> QED
    BY <1>2, <2>1
<1> HIDE DEF n, g
<1>4. {Delivered[k] : k \in DOMAIN Delivered} = 1 .. n
  BY <1>3
<1>5. CASE rx.list = {}
  <2>1. Resting \/ Ready
    BY <1>5 DEF InStep, Waiting, Receiving
  <2>2. Whole = Snr.msg /\ n = Snr.msg
    BY <1>1, <1>5, <2>1, WholeWhen
  <2>3. Arrived = {}
    BY <1>5 DEF Arrived, CtxOf
  <2> QED
    BY <1>1, <1>3, <1>4, <2>2, <2>3 DEF Over, g, n
<1>6. ASSUME NEW b \in rx.list
      PROVE  Over = 1 .. Whole /\ Whole \in Nat
  <2>1. CtxOf("a") = {b} /\ rx.list = {b} /\ n = Snr.msg - 1
    BY <1>1, <1>6, LinkFacts DEF LinkInv, ReceiverInv
  <2>2. CASE Resting
    <3>1. Current(rx.ctx[b]) /\ rx.ctx[b].state \in Complete
      BY <2>2 DEF Resting
    <3>2. PICK l \in Lengths : rx.ctx[b].data = PiecesOf(Snr.msg, l)
      BY <3>1, HoldsMessage
    <3>3. Arrived = {Snr.msg}
      <4>1. {c \in CtxOf("a") : rx.ctx[c].state \in {"PROCESS_SF", "RECYCLE"}} = {b}
        BY <2>1, <3>1 DEF Complete
      <4>2. WholeMsg(rx.ctx[b].data) = Snr.msg
        BY <1>1, <3>2, PiecesTell
      <4> QED
        BY <4>1, <4>2 DEF Arrived
    <3>4. Snr.msg >= 1 /\ Whole = Snr.msg
      BY <2>2, <3>1, WholeWhen DEF Current, AtFrame
    <3>5. {Snr.msg} \cup (1 .. n) = 1 .. Snr.msg
      BY <1>1, <2>1, <3>4
    <3> QED
      BY <1>1, <1>4, <3>3, <3>4, <3>5 DEF Over
  <2>3. CASE Waiting \/ Receiving
    <3>1. rx.ctx[b].state \notin Complete /\ Current(rx.ctx[b])
      BY <2>3 DEF Waiting, Receiving, OwesFc, Complete
    <3>2. Arrived = {}
      BY <2>1, <3>1 DEF Arrived, Complete
    <3>3. Whole = Snr.msg - 1 /\ Snr.msg >= 1
      BY <2>3, <3>1, WholeWhen DEF Current, AtFrame
    <3> QED
      BY <1>1, <1>4, <2>1, <3>2, <3>3 DEF Over
  <2>4. ~Ready
    BY <2>1 DEF Ready
  <2> QED
    BY <2>2, <2>3, <2>4 DEF InStep
<1>7. Over = 1 .. Whole /\ Whole \in Nat
  BY <1>5, <1>6
<1> QED
  BY <1>1, <1>3, <1>7 DEF n, g

\* The same of the next state.
LEMMA AbstractsNext ==
    (LinkInv /\ InTouch /\ ~Lossy =>
        /\ Delivered = [k \in 1 .. Len(rx.got["a"]) |-> k] /\ Len(rx.got["a"]) \in Nat
        /\ Over = 1 .. Whole /\ Whole \in Nat)'
  BY Abstracts, PTL

\* A step of the transfer.
LEMMA TransferStep ==
    ASSUME LinkInv, LinkInv', InTouch, InTouch', ~Lossy, ~Lossy', StepsWell
    PROVE  [Transfer!TNext]_(Transfer!tvars)
<1> DEFINE g == rx.got["a"]
           n == Len(g)
           h == rx'.got["a"]
<1>1. /\ Delivered = [k \in 1 .. n |-> k] /\ n \in Nat /\ Over = 1 .. Whole /\ Whole \in Nat
  BY Abstracts
<1>2. /\ Delivered' = [k \in 1 .. Len(h) |-> k] /\ Len(h) \in Nat /\ Over' = 1 .. Whole' /\ Whole' \in Nat
  BY AbstractsNext
<1>3. /\ calls \in 0 .. MaxMsgs /\ calls' \in 0 .. MaxMsgs /\ MaxMsgs \in Nat
      /\ report \in [0 .. MaxMsgs -> Seq(Sender!Errors)] /\ rx.got \in [Peers -> Seq(Seq(Piece))] /\ "a" \in Peers
  BY MsgTypes DEF LinkInv, SendType
<1>4. Lossy' = Lossy
  BY DEF Lossy
<1>5. rx'.got = rx.got => Delivered' = Delivered
  BY <1>1, <1>2
<1>6. Whole' = Whole => Over' = Over
  BY <1>1, <1>2
<1>7. report' = report => Result' = Result
  BY DEF Result
<1>8. ASSUME NEW m \in 1 .. MaxMsgs, report[m] = <<>>, report' = [report EXCEPT ![m] = Append(@, "OK")]
      PROVE  Result' = [Result EXCEPT ![m] = "OK"] /\ Result[m] = "none"
  <2>1. report'[m] = <<"OK">> /\ \A k \in 1 .. MaxMsgs : k # m => report'[k] = report[k]
    BY <1>3, <1>8
  <2>2. ResultOf(<<"OK">>) = "OK" /\ ResultOf(<<>>) = "none"
    BY DEF ResultOf
  <2>3. /\ Result = [k \in 1 .. MaxMsgs |-> ResultOf(report[k])]
        /\ Result' = [k \in 1 .. MaxMsgs |-> ResultOf(report'[k])]
    BY DEF Result
  <2>4. Result[m] = "none" /\ Result'[m] = "OK"
    BY <1>8, <2>1, <2>2, <2>3
  <2>5. \A k \in 1 .. MaxMsgs : k # m => Result'[k] = Result[k]
    BY <2>1, <2>3
  <2>6. DOMAIN Result = 1 .. MaxMsgs /\ DOMAIN Result' = 1 .. MaxMsgs
    BY <2>3
  <2>7. Result' = [k \in 1 .. MaxMsgs |-> Result'[k]]
    BY <2>3
  <2>8. Result' = [Result EXCEPT ![m] = "OK"]
    BY <2>3, <2>4, <2>5, <2>6, <2>7
  <2> QED
    BY <2>4, <2>8
<1>9. \A m \in 1 .. MaxMsgs : report[m] = <<>> => Result[m] = "none"
  <2>1. ResultOf(<<>>) = "none"
    BY DEF ResultOf
  <2> QED
    BY <2>1 DEF Result
<1> HIDE DEF g, n, h
<1>10. CASE Stutters
  BY <1>4, <1>5, <1>6, <1>7, <1>10 DEF Stutters, Transfer!tvars, Over, Result
<1>11. CASE Accepts
  <2>1. calls + 1 \in 1 .. MaxMsgs /\ calls + 1 \notin 1 .. calls /\ (\A k \in 1 .. calls : k < calls + 1)
        /\ 1 .. calls' = (1 .. calls) \cup {calls + 1}
    BY <1>3, <1>11 DEF Accepts
  <2>2. Transfer!Accept(calls + 1)
    BY <1>5, <1>6, <1>7, <1>11, <2>1 DEF Accepts, Transfer!Accept, Over, Result
  <2> QED
    BY <1>4, <2>1, <2>2 DEF Transfer!TNext
<1>12. CASE AcceptsShort
  <2>1. calls + 1 \in 1 .. MaxMsgs /\ calls + 1 \notin 1 .. calls /\ (\A k \in 1 .. calls : k < calls + 1)
        /\ 1 .. calls' = (1 .. calls) \cup {calls + 1}
    BY <1>3, <1>12 DEF AcceptsShort
  <2>2. Over' = Over \cup {calls + 1}
    BY <1>1, <1>2, <1>12, <2>1 DEF AcceptsShort
  <2>3. Result' = [Result EXCEPT ![calls + 1] = "OK"]
    <3>1. PICK m \in 1 .. MaxMsgs : m = calls + 1
      BY <2>1
    <3>2. report[m] = <<>>
      BY <1>3, <3>1 DEF InTouch, Told
    <3> QED
      BY <1>8, <1>12, <3>1, <3>2 DEF AcceptsShort
  <2>4. Delivered' = Delivered
    BY <1>5, <1>12 DEF AcceptsShort
  <2>5. PICK m \in 1 .. MaxMsgs : m = calls + 1
    BY <2>1
  <2>6. Transfer!AcceptShort(m)
    BY <2>1, <2>2, <2>3, <2>4, <2>5 DEF Transfer!AcceptShort, Over, Result
  <2>7. Transfer!TNext
    BY <1>4, <2>6 DEF Transfer!TNext
  <2> QED
    BY <2>7
<1>13. CASE HandsOver
  <2>1. calls \in 1 .. MaxMsgs /\ calls \in 1 .. calls /\ calls \notin Over /\ Over' = Over \cup {calls}
    BY <1>1, <1>2, <1>3, <1>13 DEF HandsOver
  <2>2. PICK m \in 1 .. MaxMsgs : m = calls
    BY <2>1
  <2>3. Result[m] = "none"
    BY <1>9, <1>13, <2>2 DEF HandsOver
  <2>4. Transfer!HandOver(m)
    BY <1>5, <1>7, <1>13, <2>1, <2>2, <2>3 DEF HandsOver, Transfer!HandOver, Over, Result
  <2>5. Transfer!TNext
    BY <1>4, <2>4 DEF Transfer!TNext
  <2> QED
    BY <2>5
<1>14. CASE Delivers
  <2>1. PICK l \in Lengths : rx'.got = [rx.got EXCEPT !["a"] = Append(g, PiecesOf(n + 1, l))]
    BY <1>14 DEF Delivers, g, n
  <2>2. Whole = n + 1 /\ Whole' = Whole /\ calls' = calls /\ report' = report
    BY <1>14 DEF Delivers, g, n
  <2>3. h = Append(g, PiecesOf(n + 1, l)) /\ g \in Seq(Seq(Piece))
    BY <1>3, <2>1 DEF g, h
  <2>4. Len(h) = n + 1
    BY <2>3 DEF n
  <2>5. Delivered' = Append(Delivered, n + 1)
    BY <1>1, <1>2, <2>4
  <2>6. n + 1 \in Over /\ \A i \in DOMAIN Delivered : Delivered[i] < n + 1
    BY <1>1, <2>2
  <2>7. n + 1 \in 1 .. MaxMsgs
    <3>1. Whole <= calls
      <4>1. Snr.msg <= calls
        BY <1>3, LinkTypes DEF LinkInv, SenderInv, InRest, InNew, InFf, InWait, InCfs, InCf, InSem, InGo, InSt,
                             InLast, InBlock, InEnd, Sent, Busy
      <4> QED
        BY <1>3, <4>1, MsgTypes DEF Whole
    <3> QED
      BY <1>1, <1>3, <2>2, <3>1
  <2>8. Transfer!Deliver(n + 1)
    BY <1>6, <1>7, <2>2, <2>5, <2>6 DEF Transfer!Deliver, Over, Result
  <2> QED
    BY <1>4, <2>7, <2>8 DEF Transfer!TNext
<1>15. CASE Reports
  <2>1. calls \in 1 .. MaxMsgs /\ calls \in Over
    BY <1>1, <1>15 DEF Reports
  <2>2. Result' = [Result EXCEPT ![calls] = "OK"] /\ Result[calls] = "none"
    <3>1. PICK m \in 1 .. MaxMsgs : m = calls
      BY <2>1
    <3> QED
      BY <1>8, <1>15, <3>1 DEF Reports
  <2>3. Transfer!ReportOk(calls)
    BY <1>5, <1>6, <1>15, <2>1, <2>2 DEF Reports, Transfer!ReportOk, Over, Result
  <2> QED
    BY <1>4, <2>1, <2>3 DEF Transfer!TNext
<1> QED
  BY <1>10, <1>11, <1>12, <1>13, <1>14, <1>15 DEF StepsWell

\* At the start nothing has been accepted.
LEMMA TransferStarts == LinkInit /\ ~Lossy => InTouch /\ Transfer!TInit
<1> SUFFICES ASSUME LinkInit, ~Lossy PROVE InTouch /\ Transfer!TInit
  OBVIOUS
<1>1. /\ InStep /\ rx.list = {} /\ Snr.msg = 0 /\ calls = 0 /\ rx.got["a"] = <<>> /\ ~Snd.alloc
      /\ \A m \in 1 .. MaxMsgs : report[m] = <<>>
  BY StepStarts
<1>2. InTouch
  BY <1>1 DEF InTouch, Got, Told
<1>3. Delivered = [k \in 1 .. 0 |-> k] /\ Over = 1 .. Whole /\ Whole \in Nat
  <2>1. LinkInv
    BY LinkStarts
  <2>2. Len(rx.got["a"]) = 0
    BY <1>1
  <2> QED
    BY <1>2, <2>1, <2>2, Abstracts
<1>4. Whole = 0
  BY <1>1, <1>3 DEF Whole
<1>5. Over = {} /\ Delivered = <<>> /\ 1 .. calls = {}
  BY <1>1, <1>3, <1>4
<1>6. Result = [m \in 1 .. MaxMsgs |-> "none"]
  <2>1. ResultOf(<<>>) = "none"
    BY DEF ResultOf
  <2> QED
    BY <1>1, <2>1 DEF Result
<1>7. Lossy \in BOOLEAN
  BY DEF Lossy
<1> QED
  BY <1>2, <1>5, <1>6, <1>7 DEF Transfer!TInit, Over, Result

\* Where nothing is lost and the messages fit into the buffers, the two nodes
\* implement the abstract transfer: a message is delivered whole, in its turn and
\* once, and sent_callback is told of success only when it is whole in node b.
THEOREM TransferLossless == LinkSpec /\ ~Lossy /\ MessagesFit => ImplementsTransfer
<1>1. /\ LinkInv /\ LinkInv' /\ InTouch /\ ~Lossy /\ MessagesFit /\ [LinkNext]_linkVars
         => InTouch' /\ StepsWell
      /\ LinkInv /\ ~Lossy /\ [LinkNext]_linkVars => ~Lossy'
  BY InTouchNext, StaysLossless
<1>2. LinkInv /\ LinkInv' /\ InTouch /\ ~Lossy /\ MessagesFit /\ [LinkNext]_linkVars
         => [Transfer!TNext]_(Transfer!tvars)
  BY <1>1, TransferStep
<1>3. LinkInit /\ ~Lossy => InTouch /\ Transfer!TInit
  BY TransferStarts
<1>4. MessagesFit => []MessagesFit
  <2>1. MessagesFit => MessagesFit'
    BY DEF MessagesFit
  <2> QED
    BY <2>1, PTL
<1> QED
  BY <1>1, <1>2, <1>3, <1>4, LinkInvariant, PTL DEF LinkSpec, ImplementsTransfer, Transfer!TSpec

-----------------------------------------------------------------------------
(* What recv_callback was given, without the released buffers *)

\* f[n] is what the first n elements of g are without the released buffers.
IsNf(f, g, N) ==
    /\ f[0] = <<>>
    /\ \A n \in 1 .. N : f[n] = IF g[n] = Freed THEN f[n - 1] ELSE Append(f[n - 1], g[n])

Alike(g, h, N) == \A n \in 1 .. N : g[n] = h[n]

\* One element.
LEMMA NfStep ==
    ASSUME NEW f, NEW g, NEW N \in Nat, IsNf(f, g, N), NEW n \in Nat, n + 1 <= N
    PROVE  f[n + 1] = IF g[n + 1] = Freed THEN f[n] ELSE Append(f[n], g[n + 1])
<1>1. PICK m \in 1 .. N : m = n + 1
  OBVIOUS
<1>2. m - 1 = n
  BY <1>1
<1>3. f[m] = IF g[m] = Freed THEN f[m - 1] ELSE Append(f[m - 1], g[m])
  BY DEF IsNf
<1> QED
  BY <1>1, <1>2, <1>3

\* Fewer elements.
LEMMA NfLess ==
    ASSUME NEW f, NEW g, NEW N \in Nat, NEW M \in Nat, N <= M, IsNf(f, g, M)
    PROVE  IsNf(f, g, N)
<1>1. \A n \in 1 .. N : n \in 1 .. M
  OBVIOUS
<1> QED
  BY <1>1 DEF IsNf

\* There is such a function.
LEMMA NfExists ==
    ASSUME NEW g \in Seq(Seq(Piece))
    PROVE  \A k \in Nat : k <= Len(g) => \E f \in [0 .. k -> Seq(Seq(Piece))] : IsNf(f, g, k)
<1> DEFINE A == Seq(Seq(Piece))
           S == {k \in Nat : k <= Len(g) => \E f \in [0 .. k -> A] : IsNf(f, g, k)}
<1>1. 0 \in S
  <2> DEFINE f == [n \in 0 .. 0 |-> <<>>]
  <2>1. f \in [0 .. 0 -> A] /\ f[0] = <<>>
    OBVIOUS
  <2>2. IsNf(f, g, 0)
    BY <2>1 DEF IsNf
  <2> HIDE DEF f
  <2>3. \E e \in [0 .. 0 -> A] : IsNf(e, g, 0)
    BY <2>1, <2>2
  <2> QED
    BY <2>3
<1>2. ASSUME NEW k \in Nat, k \in S PROVE k + 1 \in S
  <2>1. SUFFICES ASSUME k + 1 <= Len(g) PROVE \E f \in [0 .. k + 1 -> A] : IsNf(f, g, k + 1)
    OBVIOUS
  <2>2. PICK h \in [0 .. k -> A] : IsNf(h, g, k)
    BY <1>2, <2>1
  <2> DEFINE v == IF g[k + 1] = Freed THEN h[k] ELSE Append(h[k], g[k + 1])
             f == [n \in 0 .. k + 1 |-> IF n = k + 1 THEN v ELSE h[n]]
  <2>3. h[k] \in A /\ g[k + 1] \in Seq(Piece) /\ h[0] = <<>>
        /\ \A n \in 1 .. k : h[n] = IF g[n] = Freed THEN h[n - 1] ELSE Append(h[n - 1], g[n])
    BY <2>1, <2>2 DEF IsNf
  <2>4. v \in A
    BY <2>3
  <2> HIDE DEF v
  <2>5. f \in [0 .. k + 1 -> A]
    <3>1. \A n \in 0 .. k + 1 : n # k + 1 => n \in 0 .. k
      OBVIOUS
    <3> QED
      BY <2>4, <3>1
  <2>6. f[k + 1] = v /\ \A n \in 0 .. k : f[n] = h[n]
    OBVIOUS
  <2> HIDE DEF f
  <2>7. f[0] = <<>>
    BY <2>3, <2>6
  <2>8. ASSUME NEW n \in 1 .. k + 1
        PROVE  f[n] = IF g[n] = Freed THEN f[n - 1] ELSE Append(f[n - 1], g[n])
    <3>1. n - 1 \in 0 .. k /\ f[n - 1] = h[n - 1]
      BY <2>6
    <3>2. CASE n = k + 1
      BY <2>6, <3>1, <3>2 DEF v
    <3>3. CASE n # k + 1
      <4>1. n \in 1 .. k /\ f[n] = h[n]
        BY <2>6, <3>3
      <4> QED
        BY <2>3, <3>1, <4>1
    <3> QED
      BY <3>2, <3>3
  <2>9. IsNf(f, g, k + 1)
    BY <2>7, <2>8 DEF IsNf
  <2> QED
    BY <2>5, <2>9
<1> HIDE DEF S
<1>3. \A k \in Nat : k \in S
  BY <1>1, <1>2, CountUp
<1> QED
  BY <1>3 DEF S

\* Two sequences that begin alike are so without the released buffers.
LEMMA NfSame ==
    ASSUME NEW g, NEW h, NEW f, NEW e, NEW N \in Nat, IsNf(f, g, N), IsNf(e, h, N),
           Alike(g, h, N)
    PROVE  f[N] = e[N]
<1> DEFINE S == {n \in Nat : n <= N => f[n] = e[n]}
<1>1. 0 \in S
  BY DEF IsNf
<1>2. ASSUME NEW n \in Nat, n \in S PROVE n + 1 \in S
  <2>1. SUFFICES ASSUME n + 1 <= N PROVE f[n + 1] = e[n + 1]
    OBVIOUS
  <2>2. g[n + 1] = h[n + 1]
    <3>1. n + 1 \in 1 .. N
      BY <2>1
    <3> QED
      BY <3>1 DEF Alike
  <2>3. n + 1 \in 1 .. N /\ f[n] = e[n]
    BY <1>2, <2>1
  <2>4. /\ f[n + 1] = IF g[n + 1] = Freed THEN f[n] ELSE Append(f[n], g[n + 1])
        /\ e[n + 1] = IF h[n + 1] = Freed THEN e[n] ELSE Append(e[n], h[n + 1])
    BY <2>1, NfStep
  <2> QED
    BY <2>2, <2>3, <2>4
<1> HIDE DEF S
<1>3. \A n \in Nat : n \in S
  BY <1>1, <1>2, CountUp
<1> QED
  BY <1>3 DEF S

\* NotFreed is the last value of such a function.
LEMMA NfIs ==
    ASSUME NEW g \in Seq(Seq(Piece))
    PROVE  \E f \in [0 .. Len(g) -> Seq(Seq(Piece))] : IsNf(f, g, Len(g)) /\ NotFreed(g) = f[Len(g)]
<1> DEFINE N == Len(g)
           Eq(f) == f = [n \in 0 .. N |-> IF n = 0 THEN <<>>
                                          ELSE IF g[n] = Freed THEN f[n - 1]
                                          ELSE Append(f[n - 1], g[n])]
           c == CHOOSE f : Eq(f)
<1>1. N \in Nat
  OBVIOUS
<1>2. PICK f \in [0 .. N -> Seq(Seq(Piece))] : IsNf(f, g, N)
  BY <1>1, NfExists
<1>3. Eq(f)
  <2> DEFINE r == [n \in 0 .. N |-> IF n = 0 THEN <<>>
                                    ELSE IF g[n] = Freed THEN f[n - 1]
                                    ELSE Append(f[n - 1], g[n])]
  <2>1. \A n \in 0 .. N : f[n] = r[n]
    <3>1. ASSUME NEW n \in 0 .. N PROVE f[n] = r[n]
      <4>1. n = 0 \/ n \in 1 .. N
        BY <1>1
      <4> QED
        BY <1>2, <4>1 DEF IsNf
    <3> QED
      BY <3>1
  <2>2. DOMAIN r = 0 .. N /\ DOMAIN f = 0 .. N /\ f = [n \in 0 .. N |-> f[n]] /\ r = [n \in 0 .. N |-> r[n]]
    OBVIOUS
  <2> HIDE DEF r
  <2>3. f = r
    BY <2>1, <2>2
  <2> QED
    BY <2>3 DEF r
<1>4. Eq(c)
  BY <1>3
<1>5. NotFreed(g) = c[N]
  BY DEF NotFreed
<1> HIDE DEF c
<1>6. IsNf(c, g, N)
  <2>1. c[0] = <<>>
    BY <1>1, <1>4
  <2>2. ASSUME NEW n \in 1 .. N PROVE c[n] = IF g[n] = Freed THEN c[n - 1] ELSE Append(c[n - 1], g[n])
    <3>1. n \in 0 .. N /\ n # 0
      BY <1>1
    <3> QED
      BY <1>4, <3>1
  <2> QED
    BY <2>1, <2>2 DEF IsNf
<1> HIDE DEF Eq, N
<1>7. c[N] = f[N]
  <2>1. Alike(g, g, N)
    BY DEF Alike
  <2> QED
    BY <1>1, <1>2, <1>6, <2>1, NfSame
<1> QED
  BY <1>2, <1>5, <1>7 DEF N

\* What is left are the elements that were not released.
LEMMA NfElements ==
    ASSUME NEW g \in Seq(Seq(Piece))
    PROVE  /\ NotFreed(g) \in Seq(Seq(Piece))
           /\ \A i \in DOMAIN NotFreed(g) : \E k \in DOMAIN g : g[k] # Freed /\ NotFreed(g)[i] = g[k]
<1>1. PICK f \in [0 .. Len(g) -> Seq(Seq(Piece))] : IsNf(f, g, Len(g)) /\ NotFreed(g) = f[Len(g)]
  BY NfIs
<1> DEFINE N == Len(g)
           From(s) == \A i \in DOMAIN s : \E k \in 1 .. N : g[k] # Freed /\ s[i] = g[k]
           S == {n \in Nat : n <= N => From(f[n])}
<1>2. N \in Nat /\ DOMAIN g = 1 .. N
  OBVIOUS
<1>3. 0 \in S
  BY <1>1 DEF IsNf
<1>4. ASSUME NEW n \in Nat, n \in S PROVE n + 1 \in S
  <2>1. SUFFICES ASSUME n + 1 <= N PROVE From(f[n + 1])
    OBVIOUS
  <2>2. n + 1 \in 1 .. N /\ n \in 0 .. N /\ From(f[n])
    <3>1. n + 1 \in 1 .. N /\ n \in 0 .. N /\ n <= N
      BY <1>2, <2>1
    <3> QED
      BY <1>4, <3>1
  <2>3. f[n + 1] = IF g[n + 1] = Freed THEN f[n] ELSE Append(f[n], g[n + 1])
    BY <1>1, <1>2, <2>1, NfStep
  <2>4. f[n] \in Seq(Seq(Piece)) /\ g[n + 1] \in Seq(Piece)
    <3>1. g[n + 1] \in Seq(Piece)
      BY <2>2
    <3>2. f[n] \in Seq(Seq(Piece))
      BY <1>1, <2>2
    <3> QED
      BY <3>1, <3>2
  <2> DEFINE s == f[n]
             t == f[n + 1]
             x == g[n + 1]
  <2>5. CASE x = Freed
    BY <2>2, <2>3, <2>5
  <2>6. CASE x # Freed
    <3>1. t = Append(s, x) /\ s \in Seq(Seq(Piece)) /\ From(s) /\ \E k \in 1 .. N : g[k] # Freed /\ x = g[k]
      BY <2>2, <2>3, <2>4, <2>6
    <3>2. ASSUME NEW i \in DOMAIN t PROVE \E k \in 1 .. N : g[k] # Freed /\ t[i] = g[k]
      <4> HIDE DEF s, t, x
      <4>1. t[i] = x \/ (i \in DOMAIN s /\ t[i] = s[i])
        BY <3>1, <3>2
      <4> QED
        BY <3>1, <4>1
    <3> QED
      BY <3>2
  <2> QED
    BY <2>5, <2>6
<1> HIDE DEF S
<1>5. \A n \in Nat : n \in S
  BY <1>3, <1>4, CountUp
<1>6. From(f[N]) /\ f[N] \in Seq(Seq(Piece))
  BY <1>1, <1>2, <1>5 DEF S
<1> QED
  BY <1>1, <1>2, <1>6

\* One more element.
LEMMA NfAppend ==
    ASSUME NEW g \in Seq(Seq(Piece)), NEW x \in Seq(Piece)
    PROVE  NotFreed(Append(g, x)) = IF x = Freed THEN NotFreed(g) ELSE Append(NotFreed(g), x)
<1> DEFINE h == Append(g, x)
           N == Len(g)
<1>1. h \in Seq(Seq(Piece)) /\ Len(h) = N + 1 /\ N \in Nat /\ h[N + 1] = x /\ \A n \in 1 .. N : g[n] = h[n]
  OBVIOUS
<1> HIDE DEF h
<1>2. PICK f \in [0 .. N -> Seq(Seq(Piece))] : IsNf(f, g, N) /\ NotFreed(g) = f[N]
  BY NfIs
<1>3. PICK e \in [0 .. Len(h) -> Seq(Seq(Piece))] : IsNf(e, h, Len(h)) /\ NotFreed(h) = e[Len(h)]
  BY <1>1, NfIs
<1> HIDE DEF N
<1>4. IsNf(e, h, N)
  <2>1. N \in Nat /\ Len(h) \in Nat /\ N <= Len(h)
    BY <1>1
  <2> QED
    BY <1>3, <2>1, NfLess
<1>5. f[N] = e[N]
  <2>1. N \in Nat /\ Alike(g, h, N)
    BY <1>1, <1>4 DEF Alike
  <2>2. IsNf(f, g, N) /\ IsNf(e, h, N)
    BY <1>2, <1>4
  <2>3. \A n \in Nat : \A ff, ee : IsNf(ff, g, n) /\ IsNf(ee, h, n) /\ Alike(g, h, n) => ff[n] = ee[n]
    <3> TAKE n \in Nat
    <3> TAKE ff, ee
    <3> QED
      BY NfSame
  <2>4. f[N] = e[N]
    BY <2>1, <2>2, <2>3
  <2> QED
    BY <2>4
<1>6. e[N + 1] = IF h[N + 1] = Freed THEN e[N] ELSE Append(e[N], h[N + 1])
  <2>1. N \in Nat /\ Len(h) \in Nat /\ N + 1 <= Len(h)
    BY <1>1
  <2> QED
    BY <1>3, <2>1, NfStep
<1> QED
  BY <1>1, <1>2, <1>3, <1>5, <1>6 DEF h

\* Released buffers more or fewer.
LEMMA NfMore ==
    ASSUME NEW g \in Seq(Seq(Piece)), NEW h \in Seq(Seq(Piece)), GivenFreed(g, h)
    PROVE  NotFreed(h) = NotFreed(g)
<1> DEFINE N == Len(g)
           M == Len(h)
<1>1. /\ N \in Nat /\ M \in Nat /\ N <= M /\ DOMAIN h = 1 .. M
      /\ \A k \in 1 .. M : h[k] = IF k <= N THEN g[k] ELSE Freed
  BY DEF GivenFreed
<1>2. PICK f \in [0 .. N -> Seq(Seq(Piece))] : IsNf(f, g, N) /\ NotFreed(g) = f[N]
  BY NfIs
<1>3. PICK e \in [0 .. M -> Seq(Seq(Piece))] : IsNf(e, h, M) /\ NotFreed(h) = e[M]
  BY NfIs
<1> HIDE DEF N, M
<1>4. IsNf(e, h, N) /\ \A n \in 1 .. N : g[n] = h[n]
  <2>1. \A n \in 1 .. N : n \in 1 .. M /\ n <= N
    BY <1>1
  <2>2. \A n \in 1 .. N : g[n] = h[n]
    BY <1>1, <2>1
  <2>3. IsNf(e, h, N)
    BY <1>1, <1>3, NfLess
  <2> QED
    BY <2>2, <2>3
<1>5. f[N] = e[N]
  <2>1. N \in Nat /\ Alike(g, h, N)
    BY <1>1, <1>4 DEF Alike
  <2>2. IsNf(f, g, N) /\ IsNf(e, h, N)
    BY <1>2, <1>4
  <2>3. \A n \in Nat : \A ff, ee : IsNf(ff, g, n) /\ IsNf(ee, h, n) /\ Alike(g, h, n) => ff[n] = ee[n]
    <3> TAKE n \in Nat
    <3> TAKE ff, ee
    <3> QED
      BY NfSame
  <2>4. f[N] = e[N]
    BY <2>1, <2>2, <2>3
  <2> QED
    BY <2>4
<1> DEFINE S == {n \in Nat : n >= N /\ n <= M => e[n] = e[N]}
<1>6. 0 \in S
  BY <1>1
<1>7. ASSUME NEW n \in Nat, n \in S PROVE n + 1 \in S
  <2>1. SUFFICES ASSUME n + 1 >= N, n + 1 <= M PROVE e[n + 1] = e[N]
    OBVIOUS
  <2>2. CASE n + 1 = N
    BY <2>2
  <2>3. CASE n + 1 # N
    <3>1. n >= N /\ n + 1 \in 1 .. M /\ h[n + 1] = Freed
      BY <1>1, <2>1, <2>3
    <3>2. e[n + 1] = IF h[n + 1] = Freed THEN e[n] ELSE Append(e[n], h[n + 1])
      BY <1>1, <1>3, <2>1, NfStep
    <3>3. n <= M /\ e[n] = e[N]
      BY <1>1, <1>7, <2>1, <3>1
    <3> QED
      BY <3>1, <3>2, <3>3
  <2> QED
    BY <2>2, <2>3
<1> HIDE DEF S
<1>8. \A n \in Nat : n \in S
  BY <1>6, <1>7, CountUp
<1>9. e[M] = e[N]
  BY <1>1, <1>8 DEF S
<1> QED
  BY <1>2, <1>3, <1>5, <1>9

-----------------------------------------------------------------------------
(* Where frames are lost: what node b holds *)

\* A message that recv_callback was not given yet is whole in the context c.
HasWhole(c) == \E m \in 1 .. Snr.msg, l \in Lengths :
                   c.data = PiecesOf(m, l) /\ After(rx.got["a"], m)

\* The message that c collects is still under way: node b owes a flow-control frame
\* or has one in its controller, or node a sends consecutive frames.
Live(c) == c.state \in Collecting /\ (c.state = "WAIT_CF" /\ rx.fc = <<>> => InCfs)

\* c expects no less than is still to come, and more if something was lost.
Gathers(c) == /\ After(rx.got["a"], Snr.msg) /\ c.rem >= Left(Snr.len, Snr.i)
              /\ c.rem = Left(Snr.len, Snr.i) => AtFrame(c)

InHand(c) == /\ c.state = "WAIT_FF_SF" => c.data = <<>>
             /\ c.state \in Complete => HasWhole(c)
             /\ Live(c) => Gathers(c)

LossyInv == /\ DeliveredFrom(rx.got["a"], Snr)
            /\ \A b \in rx.list : InHand(rx.ctx[b])

\* The sender's message goes on, or another one begins.
SameSnr == Snr'.msg = Snr.msg /\ Snr'.len = Snr.len /\ Snr'.i = Snr.i

\* The numbers of messages in the next state.
LEMMA MsgTypesNext ==
    (LinkInv => /\ Snr.msg \in Nat /\ calls \in Nat /\ calls \in 0 .. MaxMsgs /\ MaxMsgs \in Nat
                /\ rx.got["a"] \in Seq(Seq(Piece)) /\ rx.got \in [Peers -> Seq(Seq(Piece))]
                /\ report \in [0 .. MaxMsgs -> Seq(Sender!Errors)])'
<1>1. LinkInv => /\ Snr.msg \in Nat /\ calls \in Nat /\ calls \in 0 .. MaxMsgs /\ MaxMsgs \in Nat
                 /\ rx.got["a"] \in Seq(Seq(Piece)) /\ rx.got \in [Peers -> Seq(Seq(Piece))]
                 /\ report \in [0 .. MaxMsgs -> Seq(Sender!Errors)]
  BY MsgTypes
<1> QED
  BY <1>1, PTL

\* What has been delivered stays so.
LEMMA DeliveredStays ==
    ASSUME LinkInv, LinkInv', DeliveredFrom(rx.got["a"], Snr), Snr.msg <= Snr'.msg,
           GivenFreed(rx.got["a"], rx'.got["a"])
    PROVE  DeliveredFrom(rx'.got["a"], Snr')
<1>1. Snr.msg \in Nat /\ rx.got["a"] \in Seq(Seq(Piece))
  BY MsgTypes
<1>2. Snr'.msg \in Nat /\ rx'.got["a"] \in Seq(Seq(Piece))
  BY MsgTypesNext
<1> DEFINE q == [msg |-> Snr.msg, len |-> 0, i |-> 0]
           r == [msg |-> Snr'.msg, len |-> 0, i |-> 0]
<1>3. q.msg = Snr.msg /\ r.msg = Snr'.msg /\ Later(q, r)
  BY <1>1, <1>2 DEF Later
<1> HIDE DEF q, r
<1>4. DeliveredFrom(rx.got["a"], q)
  BY <1>3 DEF DeliveredFrom
<1>5. DeliveredFrom(rx'.got["a"], r)
  BY <1>1, <1>2, <1>3, <1>4, DeliveredOn
<1> QED
  BY <1>3, <1>5 DEF DeliveredFrom

\* So do the messages it comes before ...
LEMMA AfterStays ==
    ASSUME NEW g \in Seq(Seq(Piece)), NEW h \in Seq(Seq(Piece)), GivenFreed(g, h), NEW m, After(g, m)
    PROVE  After(h, m)
<1>1. DOMAIN g = 1 .. Len(g) /\ DOMAIN h = 1 .. Len(h) /\ Len(g) \in Nat /\ Len(h) \in Nat
  OBVIOUS
<1> QED
  BY <1>1 DEF After, GivenFreed

\* ... and one that is whole in a context.
LEMMA WholeOn ==
    ASSUME LinkInv, LinkInv', NEW c, NEW d, HasWhole(c), d.data = c.data, Snr.msg <= Snr'.msg,
           GivenFreed(rx.got["a"], rx'.got["a"])
    PROVE  HasWhole(d)'
<1>1. Snr.msg \in Nat /\ rx.got["a"] \in Seq(Seq(Piece))
  BY MsgTypes
<1>2. Snr'.msg \in Nat /\ rx'.got["a"] \in Seq(Seq(Piece))
  BY MsgTypesNext
<1>3. PICK m \in 1 .. Snr.msg, l \in Lengths : c.data = PiecesOf(m, l) /\ After(rx.got["a"], m)
  BY DEF HasWhole
<1>4. m \in 1 .. Snr'.msg /\ After(rx'.got["a"], m)
  BY <1>1, <1>2, <1>3, AfterStays
<1> QED
  BY <1>3, <1>4 DEF HasWhole

\* A context that goes on with what it collects.
LEMMA GathersOn ==
    ASSUME LinkInv, LinkInv', NEW c, NEW d, Gathers(c), c.state \in Collecting, d.state \in Collecting,
           d.data = c.data, d.rem = c.rem, d.sn = c.sn, SameSnr, GivenFreed(rx.got["a"], rx'.got["a"])
    PROVE  Gathers(d)'
<1>1. rx.got["a"] \in Seq(Seq(Piece)) /\ rx'.got["a"] \in Seq(Seq(Piece))
  BY MsgTypes, MsgTypesNext
<1>2. After(rx'.got["a"], Snr'.msg)
  BY <1>1, AfterStays DEF Gathers, SameSnr
<1>3. Left(Snr'.len, Snr'.i) = Left(Snr.len, Snr.i)
  BY DEF SameSnr
<1>4. AtFrame(c) => AtFrame(d)'
  BY DEF AtFrame, PartOf, SameSnr, Complete, Collecting
<1> QED
  BY <1>2, <1>3, <1>4 DEF Gathers

\* A context that nothing happens to, while the message does not come back to life.
LEMMA InHandOn ==
    ASSUME LinkInv, LinkInv', NEW c, InHand(c), Live(c)' => Live(c) /\ SameSnr,
           Snr.msg <= Snr'.msg, GivenFreed(rx.got["a"], rx'.got["a"])
    PROVE  InHand(c)'
<1>1. c.state \in Complete => HasWhole(c)'
  BY WholeOn DEF InHand
<1>2. Live(c)' => Gathers(c)'
  <2>1. ASSUME Live(c)' PROVE Gathers(c)'
    <3>1. Gathers(c) /\ c.state \in Collecting /\ SameSnr
      BY <2>1 DEF InHand, Live
    <3> QED
      BY <3>1, GathersOn
  <2> QED
    BY <2>1
<1> QED
  BY <1>1, <1>2 DEF InHand

\* The context of the list is in hand.
LEMMA OneInHand ==
    ASSUME NEW b, NEW d, rx'.list \subseteq {b}, b \in rx'.list => rx'.ctx[b] = d /\ InHand(d)',
           DeliveredFrom(rx'.got["a"], Snr')
    PROVE  LossyInv'
<1>1. ASSUME NEW e \in rx'.list PROVE InHand(rx.ctx[e])'
  <2>1. e = b /\ rx'.ctx[e] = d /\ InHand(d)'
    BY <1>1
  <2> QED
    BY <2>1 DEF InHand, HasWhole, Live, Gathers, AtFrame, PartOf
<1> QED
  BY <1>1 DEF LossyInv

\* The messages that are whole in a context of node b, as the pieces they consist of.
Held == {rx.ctx[b].data : b \in {c \in rx.list : rx.ctx[c].state \in Complete}}

\* What a step may do with them: nothing; the message under way gets whole; one is
\* lost; one is given to recv_callback.
HeldStays == Held' = Held /\ GivenFreed(rx.got["a"], rx'.got["a"])
HeldAdds  == /\ Held = {} /\ \E l \in Lengths : Held' = {PiecesOf(Snr'.msg, l)}
             /\ After(rx'.got["a"], Snr'.msg) /\ rx'.got = rx.got
HeldLost  == /\ Held' = {} /\ \E d : Held = {d}
             /\ GivenFreed(rx.got["a"], rx'.got["a"])
HeldGiven == \E d : Held = {d} /\ Held' = {} /\ rx'.got["a"] = Append(rx.got["a"], d)

\* There is one context at most.
LEMMA HeldIs ==
    ASSUME ReceiverInv, NEW b, rx.list \subseteq {b}
    PROVE  Held = IF b \in rx.list /\ rx.ctx[b].state \in Complete THEN {rx.ctx[b].data} ELSE {}
  BY DEF Held

\* The same of the next state.
LEMMA HeldNext ==
    ASSUME NEW b, rx'.list \subseteq {b}, NEW d, b \in rx'.list => rx'.ctx[b] = d
    PROVE  Held' = IF b \in rx'.list /\ d.state \in Complete THEN {d.data} ELSE {}
  BY DEF Held

\* The context of the list, if there is one.
LEMMA ListedOne ==
    ASSUME LinkInv
    PROVE  \E b \in Blocks : rx.list \subseteq {b}
<1>1. rx.list \subseteq Blocks /\ \A b, d \in rx.list : b = d
  BY LinkFacts DEF LinkInv, ReceiverInv
<1>2. CASE rx.list = {}
  <2>1. 1 \in Blocks
    BY RecvAssumptions DEF Blocks
  <2> QED
    BY <1>2, <2>1
<1>3. ASSUME NEW b \in rx.list PROVE b \in Blocks /\ rx.list \subseteq {b}
  BY <1>1
<1> QED
  BY <1>2, <1>3

\* Nothing is given to recv_callback.
LEMMA NothingGivenFreed == ASSUME LinkInv, rx'.got = rx.got PROVE GivenFreed(rx.got["a"], rx'.got["a"])
  BY MsgTypes DEF GivenFreed

\* A step that leaves the contexts alone, and in which no message begins.
LEMMA LossyStill ==
    ASSUME LinkInv, LinkInv', LossyInv, rx'.list = rx.list, rx'.ctx = rx.ctx, rx'.got = rx.got,
           Snr.msg <= Snr'.msg, \A b \in rx.list : \A c : c = rx.ctx[b] /\ Live(c)' => Live(c) /\ SameSnr
    PROVE  LossyInv' /\ HeldStays
<1>1. GivenFreed(rx.got["a"], rx'.got["a"])
  BY NothingGivenFreed
<1>2. DeliveredFrom(rx'.got["a"], Snr')
  BY <1>1, DeliveredStays DEF LossyInv
<1>3. PICK b \in Blocks : rx.list \subseteq {b}
  BY ListedOne
<1>4. PICK c : c = rx.ctx[b]
  OBVIOUS
<1>5. b \in rx.list => InHand(c)'
  <2>1. SUFFICES ASSUME b \in rx.list PROVE InHand(c)'
    OBVIOUS
  <2>2. InHand(c)
    BY <1>4, <2>1 DEF LossyInv
  <2>3. Live(c)' => Live(c) /\ SameSnr
    BY <1>4, <2>1
  <2> QED
    BY <1>1, <2>2, <2>3, InHandOn
<1>6. LossyInv'
  BY <1>2, <1>3, <1>4, <1>5, OneInHand
<1>7. Held' = Held
  BY DEF Held
<1> QED
  BY <1>1, <1>6, <1>7 DEF HeldStays

\* Node b gives the context b up, or its reception ends without a message.
LEMMA LossyGone ==
    ASSUME LinkInv, LinkInv', LossyInv, NEW b, rx.list \subseteq {b}, rx'.list = {},
           GivenFreed(rx.got["a"], rx'.got["a"]), Snr.msg <= Snr'.msg
    PROVE  LossyInv' /\ (HeldStays \/ HeldLost)
<1>1. DeliveredFrom(rx'.got["a"], Snr')
  BY DeliveredStays DEF LossyInv
<1>2. LossyInv'
  BY <1>1 DEF LossyInv
<1>3. Held' = {}
  BY DEF Held
<1>4. Held = {} \/ Held = {rx.ctx[b].data}
  BY HeldIs DEF LinkInv
<1> QED
  BY <1>2, <1>3, <1>4 DEF HeldStays, HeldLost

\* A context goes from c to d and keeps what it collects, or fails.
LEMMA LossyKept ==
    ASSUME LinkInv, LinkInv', LossyInv, NEW b, rx.list \subseteq {b}, rx'.list = rx.list, SameSnr,
           GivenFreed(rx.got["a"], rx'.got["a"]), NEW d, rx'.ctx[b] = d, NEW c, rx.ctx[b] = c,
           \/ d.state = "ERR"
           \/ /\ c.data = d.data /\ c.rem = d.rem /\ c.sn = d.sn
              /\ d.state = c.state \/ (c.state \in Collecting /\ d.state \in Collecting)
              /\ b \in rx.list /\ Live(d)' => Live(c)
    PROVE  LossyInv' /\ (HeldStays \/ HeldLost)
<1>1. DeliveredFrom(rx'.got["a"], Snr') /\ Snr.msg <= Snr'.msg
  BY DeliveredStays, MsgTypes DEF LossyInv, SameSnr
<1>2. Held' = Held \/ (Held' = {} /\ Held = {c.data})
  BY HeldIs, HeldNext DEF LinkInv, Complete, Collecting
<1>3. b \in rx.list => InHand(d)'
  <2>1. SUFFICES ASSUME b \in rx.list PROVE InHand(d)'
    OBVIOUS
  <2>2. InHand(c)
    BY <2>1 DEF LossyInv
  <2>3. CASE d.state = "ERR"
    BY <2>3 DEF InHand, Complete, Collecting, Live
  <2>4. CASE /\ c.data = d.data /\ c.rem = d.rem /\ c.sn = d.sn
             /\ d.state = c.state \/ (c.state \in Collecting /\ d.state \in Collecting)
             /\ Live(d)' => Live(c)
    <3>1. d.state = "WAIT_FF_SF" => d.data = <<>>
      BY <2>2, <2>4 DEF InHand, Collecting
    <3>2. d.state \in Complete => HasWhole(d)'
      <4>1. SUFFICES ASSUME d.state \in Complete PROVE HasWhole(d)'
        OBVIOUS
      <4>2. HasWhole(c)
        BY <2>2, <2>4, <4>1 DEF InHand, Complete, Collecting
      <4> QED
        BY <1>1, <2>4, <4>2, WholeOn
    <3>3. Live(d)' => Gathers(d)'
      <4>1. SUFFICES ASSUME Live(d)' PROVE Gathers(d)'
        OBVIOUS
      <4>2. Gathers(c) /\ c.state \in Collecting /\ d.state \in Collecting
        BY <2>2, <2>4, <4>1 DEF InHand, Live
      <4> QED
        BY <2>4, <4>2, GathersOn
    <3> QED
      BY <3>1, <3>2, <3>3 DEF InHand
  <2> QED
    BY <2>1, <2>3, <2>4
<1>4. LossyInv'
  BY <1>1, <1>3, OneInHand
<1> QED
  BY <1>2, <1>4 DEF HeldStays, HeldLost

\* Node a or node b alone: the context is as much alive as it was.
LEMMA LiveStays ==
    ASSUME NEW c, UNCHANGED sendVars, peer' = peer, rx'.fc = rx.fc
    PROVE  Live(c)' => Live(c)
<1>1. /\ swq' = swq /\ scur' = scur /\ calls' = calls /\ out' = out /\ Snr' = Snr
      /\ Snd' = Snd /\ Ctl' = Ctl /\ Win' = Win /\ Size' = Size
  BY DEF sendVars, Snr, Snd, Ctl, Win, Size
<1>2. \A k \in {0, 1} : /\ InWait(k)' <=> InWait(k)
                        /\ InSem(k)' <=> InSem(k)
                        /\ InSt(k)' <=> InSt(k)
  BY <1>1 DEF InWait, InSem, InSt, InBlock, Busy, Sent, Pos, Placed, NextSn, Left, Granted
<1>3. /\ InCf' <=> InCf
      /\ InGo' <=> InGo
      /\ InLast' <=> InLast
  BY <1>1 DEF InCf, InGo, InLast, InBlock, Busy, Sent, Pos, Placed, NextSn, Left, Granted
<1>4. InCfs' <=> InCfs
  BY <1>2, <1>3 DEF InCfs
<1> QED
  BY <1>4 DEF Live

\* A released buffer is given to it.
LEMMA OneFreed ==
    ASSUME NEW g \in Seq(Seq(Piece)), NEW h \in Seq(Seq(Piece)), h = Append(g, Freed)
    PROVE  GivenFreed(g, h)
<1>1. Freed \in Seq(Piece)
  BY DEF Freed, Piece
<1>2. /\ Len(g) \in Nat /\ Len(h) = Len(g) + 1 /\ h[Len(g) + 1] = Freed /\ DOMAIN h = 1 .. Len(g) + 1
      /\ \A k \in 1 .. Len(g) : h[k] = g[k]
  BY <1>1
<1>3. ASSUME NEW k \in DOMAIN h PROVE h[k] = IF k <= Len(g) THEN g[k] ELSE Freed
  <2>1. k \in 1 .. Len(g) \/ (k = Len(g) + 1 /\ ~(k <= Len(g)))
    BY <1>2
  <2>2. k \in 1 .. Len(g) => k <= Len(g)
    BY <1>2
  <2> QED
    BY <1>2, <2>1, <2>2
<1> QED
  BY <1>2, <1>3 DEF GivenFreed

\* A message is given to recv_callback.
LEMMA LossyGiven ==
    ASSUME LinkInv, LinkInv', LossyInv, NEW b \in Blocks, rx.list \subseteq {b}, rx'.list = {}, peer' = peer,
           rx.ctx[b].state \in Complete,
           rx'.got["a"] = Append(rx.got["a"], Given(rx, b))
    PROVE  LossyInv' /\ (HeldStays \/ HeldGiven \/ HeldLost)
<1> DEFINE g == rx.got["a"]
           h == rx'.got["a"]
           c == rx.ctx[b]
<1>1. g \in Seq(Seq(Piece)) /\ h \in Seq(Seq(Piece)) /\ Snr.msg \in Nat /\ Snr' = Snr
  BY MsgTypes, MsgTypesNext DEF Snr
<1>2. Held' = {}
  BY DEF Held
<1>3. Snr.msg <= Snr'.msg
  BY <1>1
<1>4. h = Append(g, Given(rx, b))
  OBVIOUS
<1> HIDE DEF g, h
<1>5. CASE b \in rx.list /\ Given(rx, b) = c.data
  <2> USE DEF g, h
  <2>1. PICK m \in 1 .. Snr.msg, l \in Lengths : c.data = PiecesOf(m, l) /\ After(g, m)
    BY <1>5 DEF LossyInv, InHand, HasWhole
  <2>2. DeliveredFrom(g, Snr) /\ h = Append(g, c.data) /\ c.data \in Seq(Piece)
    <3>1. c.data \in Seq(Piece)
      BY LinkFacts DEF LinkInv, Ctx
    <3> QED
      BY <1>5, <3>1 DEF LossyInv
  <2>3. c.data[1].msg = m
    <3>1. m \in Nat /\ l \in Nat \ {0} /\ l \in Nat
      BY SegTypes
    <3>2. 1 \in 1 .. NumFrames(l)
      BY <3>1, FrameCount
    <3>3. FrameOf(m, l, 1).msg = m
      BY <3>1, FirstFrame
    <3> QED
      BY <2>1, <3>2, <3>3 DEF PiecesOf
  <2> HIDE DEF g, h, c
  <2>4. DeliveredFrom(h, Snr)
    <3> DEFINE n == Len(g)
               x == c.data
    <3>1. x \in Seq(Piece) /\ g \in Seq(Seq(Piece)) /\ h = Append(g, x) /\ n = Len(g)
      BY <1>1, <2>2
    <3> HIDE DEF n, x
    <3>2. /\ n \in Nat /\ DOMAIN g = 1 .. n /\ DOMAIN h = 1 .. n + 1 /\ h[n + 1] = x
          /\ \A j \in 1 .. n : h[j] = g[j]
      BY <3>1
    <3> SUFFICES ASSUME NEW k \in DOMAIN h, h[k] # Freed
                 PROVE  /\ \E y \in 1 .. Snr.msg, z \in Lengths : h[k] = PiecesOf(y, z)
                        /\ \A j \in 1 .. k - 1 : h[j] # Freed => h[j][1].msg < h[k][1].msg
      BY DEF DeliveredFrom
    <3>3. CASE k = n + 1
      <4>1. ASSUME NEW j \in 1 .. k - 1, h[j] # Freed PROVE h[j][1].msg < m
        <5>1. j \in DOMAIN g /\ h[j] = g[j]
          BY <3>2, <3>3
        <5> QED
          BY <2>1, <4>1, <5>1 DEF After
      <4> QED
        BY <2>1, <2>3, <3>2, <3>3, <4>1 DEF x
    <3>4. CASE k # n + 1
      <4>1. k \in 1 .. n
        BY <3>2, <3>4
      <4>2. k \in DOMAIN g /\ h[k] = g[k] /\ \A j \in 1 .. k - 1 : h[j] = g[j]
        BY <3>2, <4>1
      <4> QED
        BY <2>2, <4>2 DEF DeliveredFrom
    <3> QED
      BY <3>3, <3>4
  <2>5. LossyInv'
    BY <1>1, <2>4 DEF LossyInv, h
  <2>6. Held = {c.data}
    BY <1>5, HeldIs DEF LinkInv, c
  <2> QED
    BY <1>2, <2>2, <2>5, <2>6 DEF HeldGiven, g, h
<1>6. CASE b \notin rx.list
  <2>1. Given(rx, b) = Freed
    BY <1>6 DEF LinkInv, ReceiverInv, CtxInv, Given
  <2>2. GivenFreed(g, h)
    BY <1>1, <1>4, <2>1, OneFreed
  <2>3. LossyInv' /\ (HeldStays \/ HeldLost)
    BY <1>3, <2>2, LossyGone DEF g, h
  <2> QED
    BY <2>3
<1>7. CASE b \in rx.list /\ Given(rx, b) = Freed
  <2>1. GivenFreed(g, h)
    BY <1>1, <1>7, <1>4, OneFreed
  <2>2. LossyInv' /\ (HeldStays \/ HeldLost)
    BY <1>3, <2>1, LossyGone DEF g, h
  <2> QED
    BY <2>2
<1> QED
  BY <1>5, <1>6, <1>7 DEF Given

\* Places of the sender that are apart, in the next state.
LEMMA PlacesNext ==
    (/\ InRest => ~InNew /\ ~InFf /\ ~InWait(0) /\ ~InCfs /\ ~InEnd
     /\ InNew \/ InFf => ~InWait(0) /\ ~InCfs /\ ~InEnd
     /\ InCfs => ~InEnd
     /\ InWait(0) => ~InCfs)'
<1>1. /\ InRest => ~InNew /\ ~InFf /\ ~InWait(0) /\ ~InCfs /\ ~InEnd
      /\ InNew \/ InFf => ~InWait(0) /\ ~InCfs /\ ~InEnd
      /\ InCfs => ~InEnd
      /\ InWait(0) => ~InCfs
  BY PlacesApart, WaitOnly
<1> QED
  BY <1>1, PTL

\* Node a alone: no message comes back to life.
LEMMA LossySender ==
    ASSUME LinkInv, LinkInv', LossyInv, rx' = rx, Snr' = Snr, InCfs' => InCfs
    PROVE  LossyInv' /\ HeldStays
<1>1. Snr.msg <= Snr'.msg /\ SameSnr
  BY MsgTypes DEF SameSnr
<1>2. \A b \in rx.list : \A c : c = rx.ctx[b] /\ Live(c)' => Live(c) /\ SameSnr
  BY <1>1 DEF Live
<1> QED
  BY <1>1, <1>2, LossyStill

\* A stale work item, of a block that is not in the list, sends no flow-control frame.
LEMMA StaleFc ==
    ASSUME LinkInv, NEW b \in Blocks, Work(b), b \notin rx.list
    PROVE  rx'.fc = rx.fc
<1> DEFINE c == rx.ctx[b]
<1>1. Named(rx, b)
  BY HeadNamed DEF LinkInv
<1>2. /\ CanSendResults = {TRUE} /\ Good(rx) /\ c \in Ctx /\ CtxInv(b)
  BY <1>1, LinkFacts DEF LinkInv, ReceiverInv
<1>3. CASE WorkSf(b)
  <2> DEFINE d == [c EXCEPT !.rem = 0]
             S == [rx EXCEPT !.ctx[b] = d]
  <2>1. d \in Ctx /\ d.addr = c.addr /\ d.timer = c.timer
    BY <1>2 DEF Ctx
  <2>2. rx' = Recycle(S, b)
    BY <1>3 DEF WorkSf
  <2> HIDE DEF d
  <2>3. Good(S) /\ Named(S, b) /\ S.fc = rx.fc
    BY <1>1, <1>2, <2>1, EndedLater
  <2> HIDE DEF S
  <2> QED
    BY <2>2, <2>3, RecycleEnds
<1>4. CASE WorkRecycle(b)
  BY <1>1, <1>2, <1>4, RecycleEnds DEF WorkRecycle
<1>5. CASE WorkErr(b)
  <2>1. rx' = ErrorPath(rx, b, TRUE) /\ c.state = "ERR"
    BY <1>2, <1>5 DEF WorkErr, Running
  <2>2. c.error # "BUFFER_OVERFLW"
    BY <1>2, <2>1 DEF CtxInv
  <2> QED
    BY <1>1, <1>2, <2>1, <2>2, ErrorEnds
<1>6. ~WorkFfTooLong(b) /\ ~WorkFf(b)
  BY <1>2 DEF WorkFfTooLong, WorkFf, Running, CtxInv, OwesFc
<1>7. ~WorkSendWait(b)
  BY <1>2 DEF WorkSendWait, Running, CtxInv
<1>8. ~WorkTryAlloc(b)
  <2>1. SUFFICES ASSUME WorkTryAlloc(b) PROVE FALSE
    OBVIOUS
  <2>2. cur.pc = "idle" /\ c.state \in {"TRY_ALLOC", "SEND_FC"}
    BY <2>1 DEF WorkTryAlloc, Running, Idle
  <2>3. CASE c.state = "TRY_ALLOC"
    BY <1>2, <2>3 DEF CtxInv, OwesFc
  <2>4. CASE c.state = "SEND_FC"
    <3>1. cur.pc = "fc"
      BY <1>2, <2>4 DEF CtxInv
    <3> QED
      BY <2>2, <3>1
  <2> QED
    BY <2>2, <2>3, <2>4
<1>9. CASE WorkNothing(b)
  BY <1>9 DEF WorkNothing
<1> QED
  BY <1>3, <1>4, <1>5, <1>6, <1>7, <1>8, <1>9 DEF Work

\* A work item that sends a flow-control frame is one that owes it.
LEMMA GoesOnOwing ==
    ASSUME LinkInv, NEW b \in Blocks, Work(b), WorkGoesOn(b)
    PROVE  OwesFc(b) /\ b \in rx.list
<1>1. CtxInv(b) /\ rx.ctx[b].state \in Collecting /\ cur = Idle
  BY DEF WorkGoesOn, LinkInv, ReceiverInv, Work, WorkSf, WorkFfTooLong, WorkFf, WorkTryAlloc,
         WorkSendWait, WorkErr, WorkRecycle, WorkNothing, Running
<1>2. rx.ctx[b].state \notin {"SEND_FC", "SEND_WAIT"}
  BY <1>1 DEF CtxInv, Idle
<1>3. rx.ctx[b].state # "WAIT_CF"
  <2>1. SUFFICES ASSUME rx.ctx[b].state = "WAIT_CF" PROVE FALSE
    OBVIOUS
  <2>2. rx' = rx
    BY <2>1 DEF Work, WorkSf, WorkFfTooLong, WorkFf, WorkTryAlloc, WorkSendWait, WorkErr, WorkRecycle,
                WorkNothing, Running
  <2> QED
    BY <2>1, <2>2 DEF WorkGoesOn
<1> QED
  BY <1>1, <1>2, <1>3 DEF OwesFc, Collecting, CtxInv

\* The work queue of node b runs for a context.
LEMMA LossyWork ==
    ASSUME LinkInv, LinkInv', LossyInv, NEW b \in Blocks, Work(b), UNCHANGED sendVars
    PROVE  LossyInv' /\ (HeldStays \/ HeldGiven \/ HeldLost)
<1>1. Named(rx, b)
  BY HeadNamed DEF LinkInv
<1>2. Good(rx') /\ SameAddr(rx, rx') /\ WorkEffect(b) /\ cur = Idle /\ peer' = peer
  BY <1>1, WorkSteps DEF LinkInv, TypeInv
<1>3. rx.ctx[b].addr = "a" /\ rx.got \in [Peers -> Seq(Seq(Piece))] /\ "a" \in Peers
  BY <1>1, LinkFacts, MsgTypes DEF LinkInv
<1>4. Snr' = Snr /\ SameSnr /\ Snr.msg <= Snr'.msg
  BY <1>2, MsgTypes DEF Snr, SameSnr
<1>5. WorkEnds(b) => rx'.got["a"] = Append(rx.got["a"], Given(rx, b))
  BY <1>3 DEF WorkEnds
<1>6. WorkFails(b) => GivenFreed(rx.got["a"], rx'.got["a"])
  BY <1>3 DEF WorkFails, NothingGiven, GivenFreed
<1>7. CASE rx' = rx
  BY <1>4, <1>7, LiveStays, LossyStill, <1>2
<1>8. ASSUME rx.list \subseteq {b}, rx' # rx PROVE LossyInv' /\ (HeldStays \/ HeldGiven \/ HeldLost)
  <2>1. CASE WorkEnds(b)
    <3>1. rx'.list = {} /\ rx.ctx[b].state \in Complete
      BY <1>8, <2>1 DEF WorkEnds, Returned
    <3> QED
      BY <1>2, <1>5, <1>8, <2>1, <3>1, LossyGiven
  <2>2. CASE WorkGoesOn(b)
    <3>1. PICK c : c = rx.ctx[b]
      OBVIOUS
    <3>2. PICK d : d = rx'.ctx[b]
      OBVIOUS
    <3>3. OwesFc(b) /\ b \in rx.list
      BY <2>2, GoesOnOwing
    <3>4. /\ rx'.list = rx.list /\ rx'.got = rx.got /\ Kept(c, d)
          /\ c.state \in Collecting /\ d.state \in Collecting
      BY <2>2, <3>1, <3>2 DEF WorkGoesOn, SameSlab, Collecting
    <3>5. Live(c)
      BY <3>1, <3>3, <3>4 DEF Live, OwesFc
    <3>6. GivenFreed(rx.got["a"], rx'.got["a"])
      BY <3>4, NothingGivenFreed
    <3>7. c.data = d.data /\ c.rem = d.rem /\ c.sn = d.sn
      BY <3>4 DEF Kept
    <3> QED
      BY <1>4, <1>8, <3>1, <3>2, <3>3, <3>4, <3>5, <3>6, <3>7, LossyKept
  <2>3. CASE WorkFails(b)
    <3>1. rx'.list = {}
      BY <1>8, <2>3 DEF WorkFails, Only, Gone
    <3> QED
      BY <1>4, <1>6, <1>8, <2>3, <3>1, LossyGone
  <2> QED
    BY <1>2, <1>8, <2>1, <2>2, <2>3 DEF WorkEffect
<1>9. ASSUME NEW e \in rx.list, e # b, rx' # rx PROVE LossyInv' /\ (HeldStays \/ HeldGiven \/ HeldLost)
  <2>1. b \notin rx.list /\ rx.list \subseteq {e}
    BY <1>9 DEF LinkInv, ReceiverInv
  <2>2. rx'.fc = rx.fc /\ ~WorkGoesOn(b)
    BY <2>1, StaleFc, GoesOnOwing
  <2>3. rx'.ctx[e] = rx.ctx[e] /\ rx'.list = rx.list
    <3>1. e \in Blocks
      BY LinkFacts DEF LinkInv
    <3>2. CASE WorkEnds(b)
      BY <1>9, <2>1, <3>1, <3>2 DEF WorkEnds, Returned, Apart
    <3>3. CASE WorkFails(b)
      BY <1>9, <2>1, <3>1, <3>3 DEF WorkFails, Only, Gone, Apart
    <3> QED
      BY <1>2, <1>9, <2>2, <3>2, <3>3 DEF WorkEffect
  <2>4. GivenFreed(rx.got["a"], rx'.got["a"])
    <3>1. CASE WorkEnds(b)
      <4>1. Given(rx, b) = Freed
        BY <2>1 DEF LinkInv, ReceiverInv, CtxInv, Given
      <4> QED
        BY <1>5, <3>1, <4>1, OneFreed, MsgTypes, MsgTypesNext
    <3> QED
      BY <1>2, <1>6, <1>9, <2>2, <3>1 DEF WorkEffect
  <2>5. PICK c : c = rx.ctx[e]
    OBVIOUS
  <2>6. Live(c)' => Live(c)
    BY <1>2, <2>2, LiveStays
  <2> QED
    BY <1>4, <1>9, <2>1, <2>3, <2>4, <2>5, <2>6, LossyKept
<1>10. rx.list \subseteq {b} \/ \E e \in rx.list : e # b
  OBVIOUS
<1> QED
  BY <1>7, <1>8, <1>9, <1>10

\* The thread of node b goes on after can_send() of a flow-control frame.
LEMMA LossyFinish ==
    ASSUME LinkInv, LinkInv', LossyInv, FinishFc, UNCHANGED sendVars
    PROVE  LossyInv' /\ (HeldStays \/ HeldLost)
<1>1. PICK d \in Ctx : FinishEffect(d)
  BY FinishStep DEF LinkInv
<1>2. PICK b \in Blocks : /\ cur = [pc |-> "fc", b |-> b, to |-> "WAIT_CF"]
                          /\ b \in rx.list /\ rx.ctx[b].state = "SEND_FC"
  <2>1. CurInv /\ cur.pc = "fc"
    BY <1>1 DEF LinkInv, ReceiverInv, FinishEffect
  <2>2. cur # Idle
    BY <2>1 DEF Idle
  <2> QED
    BY <2>1, <2>2 DEF CurInv
<1>3. PICK c : c = rx.ctx[b]
  OBVIOUS
<1>4. cur.b = b
  BY <1>2
<1>5. /\ rx'.ctx[b] = d /\ rx'.list = rx.list /\ rx'.got = rx.got
      /\ Kept(c, d) /\ d.state \in {"WAIT_CF", "TRY_ALLOC"}
  BY <1>1, <1>3, <1>4 DEF FinishEffect, Changed, SameSlab
<1>6. c.state \in Collecting /\ d.state \in Collecting /\ Live(c)
  BY <1>2, <1>3, <1>5 DEF Collecting, Live
<1>7. peer' = peer /\ SameSnr
  BY DEF FinishFc, SameSnr, Snr
<1>8. rx.list \subseteq {b}
  BY <1>2 DEF LinkInv, ReceiverInv
<1>9. GivenFreed(rx.got["a"], rx'.got["a"])
  BY <1>5, NothingGivenFreed
<1>10. c.data = d.data /\ c.rem = d.rem /\ c.sn = d.sn
  BY <1>5 DEF Kept
<1> QED
  BY <1>2, <1>3, <1>5, <1>6, <1>7, <1>8, <1>9, <1>10, LossyKept

\* A reception is late.
LEMMA LossyTimeout ==
    ASSUME LinkInv, LinkInv', LossyInv, NEW b \in Blocks, Timeout(b), UNCHANGED sendVars
    PROVE  LossyInv' /\ (HeldStays \/ HeldLost)
<1>1. PICK d \in Ctx : TimeoutEffect(b, d)
  BY TimeoutStep DEF LinkInv
<1>2. PICK c : c = rx.ctx[b]
  OBVIOUS
<1>3. /\ rx'.ctx[b] = d /\ rx'.list = rx.list /\ rx'.got = rx.got /\ rx'.fc = rx.fc /\ c.timer
      /\ Kept(c, d)
      /\ \/ d.state = "ERR"
         \/ c.state = "TRY_ALLOC" /\ d.state = "SEND_WAIT"
         \/ d.state = c.state
  BY <1>1, <1>2 DEF TimeoutEffect, Changed, SameSlab
<1>4. b \in rx.list
  BY <1>2, <1>3 DEF LinkInv, ReceiverInv, CtxInv
<1>5. peer' = peer /\ SameSnr
  BY DEF Timeout, SameSnr, Snr
<1>6. rx.list \subseteq {b}
  BY <1>4 DEF LinkInv, ReceiverInv
<1>7. GivenFreed(rx.got["a"], rx'.got["a"])
  BY <1>3, NothingGivenFreed
<1>8. c.data = d.data /\ c.rem = d.rem /\ c.sn = d.sn
  BY <1>3 DEF Kept
<1>9. CASE d.state = "ERR"
  BY <1>2, <1>3, <1>5, <1>6, <1>7, <1>9, LossyKept
<1>10. CASE c.state = "TRY_ALLOC" /\ d.state = "SEND_WAIT"
  <2>1. c.state \in Collecting /\ d.state \in Collecting /\ Live(c)
    BY <1>10 DEF Collecting, Live
  <2> QED
    BY <1>2, <1>3, <1>4, <1>5, <1>6, <1>7, <1>8, <2>1, LossyKept
<1>11. CASE d.state = c.state
  <2>1. Live(c)' => Live(c)
    BY <1>3, <1>5, LiveStays
  <2>2. Live(d)' => Live(c)
    BY <1>11, <2>1 DEF Live
  <2> QED
    BY <1>2, <1>3, <1>4, <1>5, <1>6, <1>7, <1>8, <1>11, <2>2, LossyKept
<1> QED
  BY <1>3, <1>9, <1>10, <1>11

\* Node a alone.
LEMMA LossyA ==
    ASSUME LinkInv, LinkInv', LossyInv, SenderWorks \/ SenderTimer \/ (\E l \in Lengths : SendLong(l))
    PROVE  LossyInv' /\ HeldStays
<1>1. rx' = rx /\ Snr' = Snr
  BY DEF SenderWorks, SenderTimer, SendLong, recvVars, Snr
<1>2. InCfs' => InCfs
  <2>1. CASE SenderWorks
    BY <2>1, SenderWorksKeeps, PlacesNext DEF OnItsWay
  <2>2. CASE SenderTimer
    BY <2>2, SenderTimerKeeps, PlacesNext
  <2>3. CASE \E l \in Lengths : SendLong(l)
    BY <2>3, SendLongKeeps, PlacesNext
  <2> QED
    BY <2>1, <2>2, <2>3
<1> QED
  BY <1>1, <1>2, LossySender

\* A flow-control frame.
LEMMA LossyFc ==
    ASSUME LinkInv, LinkInv', LossyInv, FcOnBus
    PROVE  LossyInv' /\ HeldStays
<1>1. /\ FcMoves /\ cur = Idle /\ rx'.fc = <<>> /\ rx'.list = rx.list /\ rx'.ctx = rx.ctx
      /\ rx'.got = rx.got /\ rx.fc # <<>>
  BY FcReaches DEF LinkInv, FcOnBus
<1>2. Snr.msg <= Snr'.msg
  BY <1>1, MsgTypes DEF FcMoves
<1>3. ASSUME NEW b \in rx.list, NEW c, c = rx.ctx[b], Live(c)' PROVE Live(c) /\ SameSnr
  <2>1. Live(c)
    BY <1>1, <1>3 DEF Live
  <2>2. c.state = "WAIT_CF"
    <3>1. CtxInv(b) /\ b \in Blocks
      BY LinkFacts DEF LinkInv, ReceiverInv
    <3>2. cur.pc = "idle"
      BY <1>1 DEF Idle
    <3>3. c.state # "SEND_FC"
      <4>1. SUFFICES ASSUME c.state = "SEND_FC" PROVE FALSE
        OBVIOUS
      <4>2. cur.pc = "fc"
        BY <1>3, <3>1, <4>1 DEF CtxInv
      <4> QED
        BY <3>2, <4>2
    <3> QED
      BY <1>1, <1>3, <3>1, <3>3 DEF Live, Collecting, CtxInv, OwesFc
  <2>3. InCfs'
    BY <1>1, <1>3, <2>2 DEF Live
  <2>4. ~InEnd'
    BY <2>3, PlacesNext
  <2> QED
    BY <1>1, <2>1, <2>4 DEF FcMoves, SameSnr
<1> QED
  BY <1>1, <1>2, <1>3, LossyStill

\* Node b alone.
LEMMA LossyB ==
    ASSUME LinkInv, LinkInv', LossyInv, ReceiverWorks \/ ReceiverTimer
    PROVE  LossyInv' /\ (HeldStays \/ HeldGiven \/ HeldLost)
<1>1. CASE ReceiverWorks
  BY <1>1, LossyFinish, LossyWork DEF ReceiverWorks, Worker
<1>2. CASE ReceiverTimer
  BY <1>2, LossyTimeout DEF ReceiverTimer
<1> QED
  BY <1>1, <1>2

-----------------------------------------------------------------------------
(* Where frames are lost: a frame reaches node b *)

\* What the frame f does to a context: it stays in hand, with the frame or without
\* it, and what it holds stays as it is or is the message under way.
OnFrame(f) ==
    \A c \in Ctx : InHand(c) /\ Expects(c) =>
        /\ InHand(c)'
        /\ \A d \in Ctx : c.bufs >= 1 /\ d = receive_can_rx(c, f) =>
              /\ InHand(d)'
              /\ \/ /\ d.state \in Complete <=> c.state \in Complete
                    /\ c.state \in Complete => d.data = c.data
                 \/ /\ c.state \notin Complete /\ d.state \in Complete
                    /\ \E l \in Lengths : d.data = PiecesOf(Snr'.msg, l)
                    /\ After(rx'.got["a"], Snr'.msg)

\* The frame itself is given to nobody.
LEMMA FrameSame ==
    ASSUME LinkInv, NEW f, IsFrame(f), Arrives("a", f)
    PROVE  rx'.got = rx.got /\ rx'.fc = rx.fc
<1>1. env \in Env /\ Good(rx) /\ "a" \in Peers
  BY LinkTypes DEF LinkInv, TypeInv
<1>2. CASE rx' = rx
  BY <1>2
<1>3. CASE \E b \in CtxOf("a") : rx' = free_recv_ctx(rx, b)
  <2>1. PICK b \in CtxOf("a") : rx' = free_recv_ctx(rx, b)
    BY <1>3
  <2>2. b \in Blocks
    BY <2>1, LinkFacts DEF LinkInv, CtxOf
  <2> QED
    BY <1>1, <2>1, <2>2, FreeGood
<1>4. CASE \E b \in Blocks : FrameTaken("a", f, b)
  BY <1>4 DEF FrameTaken
<1> QED
  BY <1>1, <1>2, <1>3, <1>4, FrameEffect DEF Arrives

\* It is handled in the context that node a has: one buffer more changes nothing.
LEMMA HandBuf ==
    ASSUME NEW c \in Ctx, NEW e \in Ctx, OneMoreBuf(c, e), InHand(c), Expects(c)
    PROVE  InHand(e) /\ Expects(e) /\ e.bufs >= 1
<1>1. /\ e.state = c.state /\ e.error = c.error /\ e.rem = c.rem /\ e.sn = c.sn /\ e.bs = c.bs
      /\ e.data = c.data
  BY DEF OneMoreBuf
<1>2. e.bufs >= 1
  BY DEF OneMoreBuf, Ctx
<1>3. Expects(e)
  BY <1>1 DEF Expects
<1>4. InHand(e)
  BY <1>1 DEF InHand, HasWhole, Live, Gathers, AtFrame, PartOf
<1> QED
  BY <1>2, <1>3, <1>4

\* A frame of node a is on the bus.
LEMMA LossyFrame ==
    ASSUME LinkInv, LinkInv', LossyInv, NEW f, IsFrame(f), Arrives("a", f), ~FcDue, Snr.msg <= Snr'.msg,
           OnFrame(f)
    PROVE  LossyInv' /\ (HeldStays \/ HeldAdds \/ HeldLost)
<1>1. env \in Env /\ Good(rx) /\ "a" \in Peers /\ rx.list \subseteq Blocks
  BY LinkTypes, LinkFacts DEF LinkInv, TypeInv
<1>2. rx'.got = rx.got /\ rx'.fc = rx.fc /\ GivenFreed(rx.got["a"], rx'.got["a"])
  BY FrameSame, NothingGivenFreed
<1>3. DeliveredFrom(rx'.got["a"], Snr')
  BY <1>2, DeliveredStays DEF LossyInv
<1>4. \A b \in rx.list : rx.ctx[b] \in Ctx /\ InHand(rx.ctx[b]) /\ Expects(rx.ctx[b]) /\ rx.list \subseteq {b}
  BY <1>1, LinkFacts, ListedExpects DEF LinkInv, LossyInv, ReceiverInv
<1>5. CASE rx' = rx
  <2>1. PICK b \in Blocks : rx.list \subseteq {b}
    BY ListedOne
  <2>2. PICK c : c = rx.ctx[b]
    OBVIOUS
  <2>3. b \in rx'.list => rx'.ctx[b] = c /\ InHand(c)'
    BY <1>4, <1>5, <2>2 DEF OnFrame
  <2>4. LossyInv'
    BY <1>3, <1>5, <2>1, <2>3, OneInHand
  <2>5. Held' = Held
    BY <1>5 DEF Held
  <2> QED
    BY <1>2, <2>4, <2>5 DEF HeldStays
<1>6. CASE \E b \in CtxOf("a") : rx' = free_recv_ctx(rx, b)
  <2>1. PICK b \in CtxOf("a") : rx' = free_recv_ctx(rx, b)
    BY <1>6
  <2>2. b \in Blocks /\ b \in rx.list /\ rx.list \subseteq {b}
    BY <1>1, <1>4, <2>1 DEF CtxOf
  <2>3. rx'.list = {}
    <3>1. Returned(rx, free_recv_ctx(rx, b), b)
      BY <1>1, <2>2, FreeGood
    <3> QED
      BY <2>1, <2>2, <3>1 DEF Returned
  <2> QED
    BY <1>2, <2>2, <2>3, LossyGone
<1>7. ASSUME NEW b \in Blocks, FrameTaken("a", f, b)
      PROVE  LossyInv' /\ (HeldStays \/ HeldAdds \/ HeldLost)
  <2>1. PICK d \in Ctx : d = rx'.ctx[b]
    BY <1>7 DEF FrameTaken, Good, RxRec
  <2>2. CASE TakenByOld("a", f, b)
    <3>1. b \in rx.list /\ rx'.list = rx.list
      BY <2>2 DEF TakenByOld, SameSlab, CtxOf
    <3>2. PICK c \in Ctx : c = rx.ctx[b]
      BY <1>4, <3>1
    <3>3. PICK e \in Ctx : OneMoreBuf(c, e) /\ d = receive_can_rx(e, f)
      BY <2>1, <2>2, <3>2 DEF TakenByOld
    <3>4. InHand(e) /\ Expects(e) /\ e.bufs >= 1 /\ rx.list \subseteq {b}
      BY <1>4, <3>1, <3>2, <3>3, HandBuf
    <3>5. e.state = c.state /\ e.data = c.data
      BY <3>3 DEF OneMoreBuf
    <3>6. /\ InHand(d)'
          /\ \/ /\ d.state \in Complete <=> c.state \in Complete
                /\ c.state \in Complete => d.data = c.data
             \/ /\ c.state \notin Complete /\ d.state \in Complete
                /\ \E l \in Lengths : d.data = PiecesOf(Snr'.msg, l)
                /\ After(rx'.got["a"], Snr'.msg)
      BY <3>3, <3>4, <3>5 DEF OnFrame
    <3>7. LossyInv'
      BY <1>3, <2>1, <3>1, <3>4, <3>6, OneInHand
    <3>8. Held = (IF c.state \in Complete THEN {c.data} ELSE {})
      BY <3>1, <3>2, <3>4, HeldIs DEF LinkInv
    <3>9. Held' = (IF d.state \in Complete THEN {d.data} ELSE {})
      BY <2>1, <3>1, <3>4, HeldNext
    <3> QED
      BY <1>2, <3>6, <3>7, <3>8, <3>9 DEF HeldStays, HeldAdds
  <2>3. CASE TakenByNew("a", f, b)
    <3>1. rx.list = {}
      <4>1. \A x \in rx.list : CtxOf("a") = {x}
        BY LinkFacts DEF LinkInv
      <4> QED
        BY <2>3, <4>1 DEF TakenByNew
    <3>2. rx'.list = {b}
      BY <2>3, <3>1 DEF TakenByNew
    <3>3. PICK e \in Ctx : Fresh(e, "a") /\ d = receive_can_rx(e, f)
      BY <2>1, <2>3 DEF TakenByNew
    <3>4. e.state = "WAIT_FF_SF" /\ e.data = <<>> /\ e.bufs = 1
      BY <3>3 DEF Fresh
    <3>5. InHand(e) /\ Expects(e) /\ e.bufs >= 1 /\ e.state \notin Complete
      BY <3>4 DEF InHand, Expects, Complete, Live, Collecting
    <3>6. /\ InHand(d)'
          /\ \/ d.state \notin Complete
             \/ /\ d.state \in Complete
                /\ \E l \in Lengths : d.data = PiecesOf(Snr'.msg, l)
                /\ After(rx'.got["a"], Snr'.msg)
      BY <3>3, <3>5 DEF OnFrame
    <3>7. LossyInv'
      BY <1>3, <2>1, <3>2, <3>6, OneInHand
    <3>8. Held = {}
      BY <3>1 DEF Held
    <3>9. Held' = (IF d.state \in Complete THEN {d.data} ELSE {})
      BY <2>1, <3>2, HeldNext
    <3> QED
      BY <1>2, <3>6, <3>7, <3>8, <3>9 DEF HeldStays, HeldAdds
  <2> QED
    BY <1>7, <2>2, <2>3 DEF FrameTaken
<1> QED
  BY <1>1, <1>5, <1>6, <1>7, FrameEffect DEF Arrives

\* A context that then holds every frame of the message under way.
LEMMA HoldsAllNext ==
    ASSUME NEW c \in Ctx, AtFrame(c)', c.state \in Complete
    PROVE  Snr'.len \in Lengths /\ c.data = PiecesOf(Snr'.msg, Snr'.len)
<1>1. PICK d \in Seq(Piece) : d = c.data
  BY DEF Ctx
<1>2. /\ Snr'.len \in Lengths /\ Len(d) = NumFrames(Snr'.len)
      /\ \A j \in 1 .. Len(d) : d[j] = PieceOf(Snr'.msg, Snr'.len, j)
  BY <1>1 DEF AtFrame, PartOf
<1>3. DOMAIN d = 1 .. NumFrames(Snr'.len) /\ d = [j \in 1 .. NumFrames(Snr'.len) |-> d[j]]
  BY <1>2
<1>4. d = PiecesOf(Snr'.msg, Snr'.len)
  BY <1>2, <1>3 DEF PiecesOf, PieceOf
<1> QED
  BY <1>1, <1>2, <1>4

\* The first frame of a message.
LEMMA OnFirst ==
    ASSUME LinkInv, LinkInv', LossyInv, rx'.got = rx.got, rx'.fc = <<>>, ~InCfs, ~InCfs', rx.fc = <<>>,
           NEW m \in Nat, m = Snr.msg + 1, NEW l \in Lengths, NEW f, f = FrameOf(m, l, 1), IsFrame(f),
           Snr'.msg = m, Snr'.len = l, Snr'.i = 2
    PROVE  OnFrame(f)
<1>1. /\ env \in Env /\ l \in Nat /\ l \in Nat \ {0} /\ m >= 1 /\ Snr.msg \in Nat /\ Snr.msg < m
      /\ Snr.msg <= Snr'.msg /\ rx.got["a"] \in Seq(Seq(Piece))
  BY SegTypes, MsgTypes DEF LinkInv, TypeInv
<1>2. GivenFreed(rx.got["a"], rx'.got["a"])
  BY NothingGivenFreed
<1>3. After(rx.got["a"], m) /\ After(rx'.got["a"], Snr'.msg)
  BY <1>1, DeliveredMsg DEF LossyInv
<1>4. f.type # "CF"
  BY <1>1, FirstFrame
<1>5. ASSUME NEW c \in Ctx, InHand(c), Expects(c)
      PROVE  /\ InHand(c)'
             /\ \A d \in Ctx : c.bufs >= 1 /\ d = receive_can_rx(c, f) =>
                   /\ InHand(d)'
                   /\ \/ /\ d.state \in Complete <=> c.state \in Complete
                         /\ c.state \in Complete => d.data = c.data
                      \/ /\ c.state \notin Complete /\ d.state \in Complete
                         /\ \E z \in Lengths : d.data = PiecesOf(Snr'.msg, z)
                         /\ After(rx'.got["a"], Snr'.msg)
  <2>1. ~(Live(c)')
    BY <1>5 DEF Live, Expects, Collecting
  <2>2. InHand(c)'
    BY <1>1, <1>2, <1>5, <2>1, InHandOn
  <2>3. ASSUME NEW d \in Ctx, d = receive_can_rx(c, f)
        PROVE /\ InHand(d)'
              /\ \/ /\ d.state \in Complete <=> c.state \in Complete
                    /\ c.state \in Complete => d.data = c.data
                 \/ /\ c.state \notin Complete /\ d.state \in Complete
                    /\ \E z \in Lengths : d.data = PiecesOf(Snr'.msg, z)
                    /\ After(rx'.got["a"], Snr'.msg)
    <3>1. CASE c.state = "WAIT_FF_SF"
      <4>1. c.data = <<>>
        BY <1>5, <3>1 DEF InHand
      <4>2. AtFrame(d)' /\ d.state = IF l <= SfMax THEN "PROCESS_SF" ELSE "PROCESS_FF"
        BY <1>1, <2>3, <3>1, <4>1, FirstTaken
      <4>3. CASE l <= SfMax
        <5>1. d.state \in Complete /\ d.state \notin Collecting /\ d.state # "WAIT_FF_SF" /\ c.state \notin Complete
          BY <3>1, <4>2, <4>3 DEF Complete, Collecting
        <5>2. Snr'.len \in Lengths /\ d.data = PiecesOf(Snr'.msg, Snr'.len)
          BY <4>2, <5>1, HoldsAllNext
        <5>3. m \in 1 .. Snr'.msg
          BY <1>1
        <5>4. HasWhole(d)'
          BY <1>3, <5>2, <5>3 DEF HasWhole
        <5> QED
          BY <1>3, <5>1, <5>2, <5>4 DEF InHand, Live
      <4>4. CASE l > SfMax
        <5>1. ~(l <= SfMax)
          BY <1>1, <4>4, SegTypes
        <5>2. d.state = "PROCESS_FF" /\ d.state \notin Complete /\ c.state \notin Complete
          BY <3>1, <4>2, <5>1 DEF Complete
        <5>3. f.type = "FF" /\ f.len = l
          BY <1>1, <5>1, FirstFrame
        <5>4. d = process_ff_sf(c, f)
          BY <2>3, <3>1 DEF receive_can_rx
        <5>5. d.rem = l - FfLen
          BY <5>3, <5>4, FfSfType
        <5>6. d.rem = Left(Snr'.len, Snr'.i)
          BY <1>1, <4>4, <5>5, LeftFirst
        <5>7. d.rem \in Nat
          BY DEF Ctx
        <5>8. Gathers(d)'
          BY <1>3, <4>2, <5>6, <5>7 DEF Gathers
        <5> QED
          BY <5>2, <5>8 DEF InHand
      <4> QED
        BY <1>1, <4>3, <4>4, SegTypes
    <3>2. CASE c.state = "WAIT_CF"
      <4>1. d = process_cf(c, f)
        BY <2>3, <3>2 DEF receive_can_rx
      <4>2. d.state = "ERR"
        BY <1>1, <1>4, <3>2, <4>1, CfType
      <4> QED
        BY <3>2, <4>2 DEF InHand, Live, Complete, Collecting
    <3>3. CASE c.state # "WAIT_FF_SF" /\ c.state # "WAIT_CF"
      <4>1. d = c
        BY <2>3, <3>3 DEF receive_can_rx
      <4> QED
        BY <2>2, <4>1
    <3> QED
      BY <3>1, <3>2, <3>3
  <2> QED
    BY <2>2, <2>3
<1> QED
  BY <1>5 DEF OnFrame

\* The next consecutive frame, in the context that holds the ones before.
LEMMA CfGathered ==
    ASSUME TypeInv, WentOn("a"), Sending("a"), RxBs = OPTS_BS, NEW c \in Ctx, c.bufs >= 1,
           AtFrame(c), c.state = "WAIT_CF", OPTS_BS # 0 => c.bs >= 1,
           NEW d, d = receive_can_rx(c, FrameOf(Snr.msg, Snr.len, Snr.i))
    PROVE  /\ AtFrame(d)'
           /\ IF Snr.i = NumFrames(Snr.len) THEN d.state = "RECYCLE" ELSE d.state \in {"TRY_ALLOC", "WAIT_CF"}
<1> DEFINE b == [c EXCEPT !.bufs = @ - 1]
<1>1. c.bufs \in Nat /\ c.bufs - 1 \in Nat
  BY DEF Ctx
<1>2. b \in Ctx /\ b.bufs = c.bufs - 1 /\ OneMoreBuf(b, c)
  BY <1>1 DEF Ctx, OneMoreBuf
<1>3. b.state = c.state /\ b.data = c.data /\ b.rem = c.rem /\ b.sn = c.sn /\ b.bs = c.bs
  BY DEF Ctx
<1> HIDE DEF b
<1>4. AtFrame(b)
  BY <1>3 DEF AtFrame, PartOf
<1>5. b.state = "WAIT_CF" /\ (OPTS_BS # 0 => b.bs >= 1)
  BY <1>3
<1> QED
  BY <1>2, <1>4, <1>5, NextTaken

\* A consecutive frame.
LEMMA OnCf ==
    ASSUME LinkInv, LinkInv', LossyInv, rx'.got = rx.got, rx'.fc = <<>>, rx.fc = <<>>, InCfs,
           WentOn("a"), Sending("a"), Snr'.msg = Snr.msg, Snr'.len = Snr.len, Snr'.i = Snr.i + 1,
           Snr.len \in Nat, Snr.len > SfMax, Snr.i \in Nat, Snr.i >= 2, Snr.i <= NumFrames(Snr.len),
           NEW f, f = FrameOf(Snr.msg, Snr.len, Snr.i), IsFrame(f)
    PROVE  OnFrame(f)
<1> DEFINE i == Snr.i
           l == Snr.len
<1>1. TypeInv /\ ReceiverInv
  BY DEF LinkInv
<1>2. /\ env \in Env /\ Snr.msg \in Nat /\ Snr.msg <= Snr'.msg /\ rx.got["a"] \in Seq(Seq(Piece))
      /\ RxBs = OPTS_BS /\ TypeInv
  <2>1. env \in Env
    BY <1>1 DEF TypeInv
  <2> QED
    BY <1>1, <2>1, MsgTypes, LinkFacts
<1>3. GivenFreed(rx.got["a"], rx'.got["a"])
  BY NothingGivenFreed
<1>4. /\ f.type = "CF" /\ NumFrames(l) = NumSegs(l)
      /\ Left(l, i) \in Nat /\ Left(l, i + 1) \in Nat /\ f.n \in Nat /\ f.n > 0 /\ f.n <= Left(l, i)
      /\ Left(l, i + 1) = Left(l, i) - f.n
  <2>1. PICK m \in Nat, n \in Nat, k \in Nat : m = Snr.msg /\ n = l /\ k = i
    BY <1>2
  <2>2. NumFrames(n) = NumSegs(n)
    <3>1. ~(n <= SfMax)
      BY <2>1, SegTypes
    <3> QED
      BY <3>1 DEF NumFrames
  <2>3. k >= 2 /\ k <= NumFrames(n) /\ n > SfMax /\ f = FrameOf(m, n, k)
    BY <2>1
  <2>4. f.type = "CF" /\ f.n \in Nat /\ f.n > 0 /\ f.n = Min2(n - SegOff(k), CfLen)
    BY <2>3, NextFrame
  <2>5. /\ Left(n, k) \in Nat /\ Left(n, k + 1) \in Nat /\ SegLen(n, k) = Min2(Left(n, k), CfLen)
        /\ Left(n, k + 1) = Left(n, k) - SegLen(n, k) /\ SegOff(k) = n - Left(n, k)
    BY <2>2, <2>3, LeftNext
  <2>6. n - SegOff(k) = Left(n, k)
    BY <2>5
  <2>7. f.n = SegLen(n, k)
    BY <2>4, <2>5, <2>6
  <2>8. f.n <= Left(n, k)
    BY <2>5, <2>7, SegTypes DEF Min2
  <2> QED
    BY <2>1, <2>2, <2>4, <2>5, <2>7, <2>8
<1>5. ASSUME NEW c \in Ctx, InHand(c), Expects(c)
      PROVE  /\ InHand(c)'
             /\ \A d \in Ctx : c.bufs >= 1 /\ d = receive_can_rx(c, f) =>
                   /\ InHand(d)'
                   /\ \/ /\ d.state \in Complete <=> c.state \in Complete
                         /\ c.state \in Complete => d.data = c.data
                      \/ /\ c.state \notin Complete /\ d.state \in Complete
                         /\ \E z \in Lengths : d.data = PiecesOf(Snr'.msg, z)
                         /\ After(rx'.got["a"], Snr'.msg)
  <2>1. c.rem \in Nat
    BY DEF Ctx
  <2>2. CASE c.state = "WAIT_CF"
    <3>1. c.state \notin Complete /\ c.state \in Collecting /\ Gathers(c)
      BY <1>5, <2>2 DEF InHand, Live, Complete, Collecting
    <3>2. /\ After(rx.got["a"], Snr.msg) /\ After(rx'.got["a"], Snr'.msg)
          /\ c.rem >= Left(l, i) /\ (c.rem = Left(l, i) => AtFrame(c))
      BY <3>1 DEF Gathers
    <3>3. \A e : e.rem \in Nat /\ e.rem > Left(l, i + 1) => Gathers(e)'
      BY <1>4, <3>2 DEF Gathers
    <3>4. InHand(c)'
      <4>1. c.rem > Left(l, i + 1)
        BY <1>4, <2>1, <3>2
      <4> QED
        BY <2>1, <2>2, <3>1, <3>3, <4>1 DEF InHand
    <3>5. ASSUME NEW d \in Ctx, c.bufs >= 1, d = receive_can_rx(c, f)
          PROVE  /\ InHand(d)'
                 /\ \/ d.state \notin Complete
                    \/ d.state \in Complete /\ \E z \in Lengths : d.data = PiecesOf(Snr'.msg, z)
      <4>1. CASE c.rem = Left(l, i)
        <5>1. OPTS_BS # 0 => c.bs >= 1
          BY <1>5, <2>2 DEF Expects
        <5>2. /\ AtFrame(d)'
              /\ IF Snr.i = NumFrames(Snr.len) THEN d.state = "RECYCLE" ELSE d.state \in {"TRY_ALLOC", "WAIT_CF"}
          BY <1>2, <2>2, <3>2, <3>5, <4>1, <5>1, CfGathered
        <5>3. CASE i = NumFrames(l)
          <6>1. d.state \in Complete /\ d.state \notin Collecting /\ d.state # "WAIT_FF_SF"
            BY <5>2, <5>3 DEF Complete, Collecting
          <6>2. Snr'.len \in Lengths /\ d.data = PiecesOf(Snr'.msg, Snr'.len)
            BY <5>2, <6>1, HoldsAllNext
          <6>3. Snr'.msg \in 1 .. Snr'.msg
            BY <1>2, <5>2 DEF AtFrame
          <6>4. HasWhole(d)'
            BY <3>2, <6>2, <6>3 DEF HasWhole
          <6> QED
            BY <6>1, <6>2, <6>4 DEF InHand, Live
        <5>4. CASE i # NumFrames(l)
          <6>1. d.state \notin Complete /\ d.state \in Collecting /\ d.state # "WAIT_FF_SF"
            BY <5>2, <5>4 DEF Complete, Collecting
          <6>2. i + 1 <= NumSegs(l)
            <7>1. NumSegs(l) \in Nat
              BY <1>4, FrameCount
            <7> QED
              BY <1>4, <5>4, <7>1
          <6>3. d.rem = l - SegOff(i + 1)
            <7>1. Len(d.data) = i /\ d.rem = l - SegOff(Len(d.data) + 1)
              BY <5>2, <6>1 DEF AtFrame, PartOf
            <7> QED
              BY <7>1
          <6>4. d.rem = Left(l, i + 1)
            BY <6>2, <6>3 DEF Left
          <6>5. Gathers(d)'
            BY <1>4, <3>2, <5>2, <6>4 DEF Gathers
          <6> QED
            BY <6>1, <6>5 DEF InHand
        <5> QED
          BY <5>3, <5>4
      <4>2. CASE c.rem # Left(l, i)
        <5>1. c.rem > Left(l, i)
          BY <1>4, <2>1, <3>2, <4>2
        <5>2. d = process_cf(c, f)
          BY <2>2, <3>5 DEF receive_can_rx
        <5>3. \/ d.state = "ERR"
              \/ /\ d.rem = c.rem - Min2(c.rem, f.n)
                 /\ IF d.rem = 0 THEN d.state = "RECYCLE" ELSE d.state \in {"WAIT_CF", "TRY_ALLOC"}
          BY <1>2, <2>2, <5>2, CfType
        <5>4. CASE d.state = "ERR"
          BY <5>4 DEF InHand, Live, Complete, Collecting
        <5>5. CASE d.state # "ERR"
          <6>1. Min2(c.rem, f.n) = f.n
            BY <1>4, <2>1, <5>1 DEF Min2
          <6>2. d.rem = c.rem - f.n
            BY <5>3, <5>5, <6>1
          <6>3. d.rem > Left(l, i + 1) /\ d.rem > 0 /\ d.rem \in Nat
            BY <1>4, <2>1, <5>1, <6>2
          <6>4. d.state \in {"WAIT_CF", "TRY_ALLOC"}
            BY <5>3, <5>5, <6>3
          <6>5. Gathers(d)'
            BY <3>3, <6>3
          <6> QED
            BY <6>4, <6>5 DEF InHand, Complete
        <5> QED
          BY <5>4, <5>5
      <4> QED
        BY <4>1, <4>2
    <3> QED
      BY <3>1, <3>2, <3>4, <3>5
  <2>3. CASE c.state # "WAIT_CF"
    <3>1. ~(Live(c)')
      BY <1>5, <2>3 DEF Live, Expects, Collecting
    <3>2. InHand(c)'
      BY <1>2, <1>3, <1>5, <3>1, InHandOn
    <3>3. ASSUME NEW d \in Ctx, d = receive_can_rx(c, f) PROVE d = c
      <4>1. CASE c.state = "WAIT_FF_SF"
        <5>1. d = process_ff_sf(c, f)
          BY <3>3, <4>1 DEF receive_can_rx
        <5> QED
          BY <1>4, <5>1, FfSfType
      <4>2. CASE c.state # "WAIT_FF_SF"
        BY <2>3, <3>3, <4>2 DEF receive_can_rx
      <4> QED
        BY <4>1, <4>2
    <3> QED
      BY <3>2, <3>3
  <2> QED
    BY <2>2, <2>3
<1> QED
  BY <1>5 DEF OnFrame

\* A message of one frame is sent.
LEMMA LossyShort ==
    ASSUME LinkInv, LinkInv', LossyInv, NEW l \in Lengths, SendShort(l)
    PROVE  /\ LossyInv' /\ (HeldStays \/ HeldAdds \/ HeldLost) /\ InRest'
           /\ calls < MaxMsgs /\ calls' = calls + 1 /\ Snr'.msg = calls + 1
           /\ report' = [report EXCEPT ![calls + 1] = Append(@, "OK")]
<1> DEFINE f == SfFrame(l)
<1>1. InRest /\ ~FcDue /\ cur = Idle /\ rx.fc = <<>>
  BY SendShortKeeps, NoneDue DEF LinkInv
<1>2. OnBus(f) /\ Arrives("a", f) /\ Sender!SendSf("b", l)
  BY DEF SendShort, OnTheBus, OnBus, SfFrame
<1>3. /\ InRest' /\ l <= SfMax /\ calls < MaxMsgs /\ calls' = calls + 1 /\ calls = Snr.msg /\ calls \in Nat
      /\ Snr' = [msg |-> calls + 1, len |-> l, i |-> 2, open |-> 0]
      /\ report' = [report EXCEPT ![calls + 1] = Append(@, "OK")]
  BY <1>1, <1>2, ShortStep DEF LinkInv
<1>4. f = FrameOf(calls + 1, l, 1)
  BY <1>3 DEF SfFrame, FrameOf
<1>5. IsFrame(f)
  BY <1>3, LinkTypes DEF IsFrame, SfFrame
<1>6. Snr'.msg = calls + 1 /\ Snr'.len = l /\ Snr'.i = 2 /\ calls + 1 \in Nat /\ Snr.msg <= Snr'.msg
  BY <1>3
<1> HIDE DEF f
<1>7. rx'.got = rx.got /\ rx'.fc = <<>>
  BY <1>1, <1>2, <1>5, FrameSame
<1>8. ~InCfs /\ ~InCfs'
  BY <1>1, <1>3, PlacesApart, PlacesNext
<1>9. OnFrame(f)
  <2>1. PICK m \in Nat : m = calls + 1
    BY <1>6
  <2>2. m = Snr.msg + 1 /\ f = FrameOf(m, l, 1) /\ Snr'.msg = m
    BY <1>3, <1>4, <1>6, <2>1
  <2> QED
    BY <1>1, <1>5, <1>6, <1>7, <1>8, <2>2, OnFirst
<1>10. LossyInv' /\ (HeldStays \/ HeldAdds \/ HeldLost)
  BY <1>1, <1>2, <1>5, <1>6, <1>9, LossyFrame
<1> QED
  BY <1>3, <1>6, <1>10

\* A frame leaves the controller of node a.
LEMMA LossyBus ==
    ASSUME LinkInv, LinkInv', LossyInv, FrameOnBus
    PROVE  /\ LossyInv' /\ (HeldStays \/ HeldAdds \/ HeldLost) /\ SameMessage /\ Snd'.alloc = Snd.alloc
           /\ Snr'.msg = calls /\ calls \in 1 .. MaxMsgs
<1> DEFINE f == Head(Ctl)
<1>1. /\ OnBus(Head(Ctl)) /\ Arrives("a", f) /\ UNCHANGED <<env, cur>> /\ TxEffect /\ (FfSent \/ CfSent)
  BY BusFacts DEF LinkInv
<1>2. SameMessage /\ Snd'.alloc = Snd.alloc
  BY <1>1 DEF TxEffect
<1>3. CASE FfSent
  <2>1. /\ ~FcDue /\ cur = Idle /\ f = FrameOf(calls, Size, 1)
        /\ Snr' = [msg |-> calls, len |-> Size, i |-> 2, open |-> 0]
    BY <1>1, <1>3, FfKeeps DEF LinkInv
  <2>2. InFf /\ InWait(0)' /\ Size \in Lengths /\ calls \in 1 .. MaxMsgs /\ calls \in Nat /\ calls >= 1 /\ Snr.msg = calls - 1
    BY <1>3, LinkTypes DEF FfSent, InFf, Busy
  <2>3. ~InCfs /\ ~InCfs' /\ rx.fc = <<>>
    BY <2>1, <2>2, PlacesApart, PlacesNext, NoneDue DEF LinkInv
  <2> HIDE DEF f
  <2>4. PICK m \in Nat, l \in Lengths : m = calls /\ l = Size
    BY <2>2
  <2>5. /\ m >= 1 /\ f = FrameOf(m, l, 1) /\ Snr'.msg = m /\ Snr'.len = l /\ Snr'.i = 2 /\ m = Snr.msg + 1
        /\ Snr.msg <= Snr'.msg
    BY <2>1, <2>2, <2>4
  <2>6. IsFrame(f)
    <3>1. l \in Nat \ {0}
      BY LinkTypes
    <3> QED
      BY <2>5, <3>1, FirstFrame DEF IsFrame
  <2>7. rx'.got = rx.got /\ rx'.fc = <<>>
    BY <1>1, <2>3, <2>6, FrameSame
  <2>8. OnFrame(f)
    BY <2>3, <2>5, <2>6, <2>7, OnFirst
  <2>9. LossyInv' /\ (HeldStays \/ HeldAdds \/ HeldLost)
    BY <1>1, <2>1, <2>5, <2>6, <2>8, LossyFrame
  <2> QED
    BY <1>2, <2>2, <2>4, <2>5, <2>9
<1>4. CASE CfSent
  <2>1. /\ ~FcDue /\ cur = Idle /\ f = FrameOf(Snr.msg, Snr.len, Snr.i) /\ Snr.i <= NumFrames(Snr.len)
    BY <1>1, <1>4, CfKeeps DEF LinkInv
  <2>2. InCfs
    BY <1>4 DEF CfSent, InCfs
  <2>3. Sent /\ Snr'.msg = Snr.msg /\ Snr'.len = Snr.len /\ Snr'.i = Snr.i + 1
    BY <1>4 DEF CfSent, CfOnBus
  <2>4. /\ Snr.len \in Nat /\ Snr.len > SfMax /\ Snr.i \in Nat /\ Snr.i >= 2 /\ Snr.msg = calls
        /\ calls \in 1 .. MaxMsgs /\ calls \in Nat
    BY <2>3, SentTypes DEF Sent, Busy, LinkInv
  <2> HIDE DEF f
  <2>5. IsFrame(f)
    <3> DEFINE g == FrameOf(Snr.msg, Snr.len, Snr.i)
    <3>1. g.type = "CF" /\ g.msg = Snr.msg /\ g.off \in Nat /\ g.n \in Nat
      BY <2>1, <2>4, NextFrame
    <3> HIDE DEF g
    <3>2. f = g
      BY <2>1 DEF g
    <3> QED
      BY <2>4, <3>1, <3>2 DEF IsFrame
  <2>6. rx'.got = rx.got /\ rx'.fc = <<>> /\ rx.fc = <<>>
    BY <1>1, <2>1, <2>5, FrameSame, NoneDue DEF LinkInv
  <2>7. Sending("a") /\ WentOn("a")
    <3>1. peer' \in [Peers -> PeerRec] /\ Peers = {"a"}
      BY LinkTypes DEF LinkInv, TypeInv
    <3> QED
      BY <2>1, <2>3, <3>1 DEF Sending, WentOn, Snr
  <2>8. OnFrame(f)
    BY <2>1, <2>2, <2>3, <2>4, <2>5, <2>6, <2>7, OnCf
  <2>9. Snr.msg <= Snr'.msg
    BY <2>3, <2>4
  <2>10. LossyInv' /\ (HeldStays \/ HeldAdds \/ HeldLost)
    BY <1>1, <2>1, <2>5, <2>8, <2>9, LossyFrame
  <2> QED
    BY <1>2, <2>3, <2>4, <2>10
<1> QED
  BY <1>1, <1>3, <1>4

-----------------------------------------------------------------------------
(* Where frames are lost the link is the abstract transfer, too *)

\* sent_callback was told nothing of a message that is under way, or not accepted yet.
ToldOnce == /\ \A m \in 1 .. MaxMsgs : m > calls => report[m] = <<>>
            /\ Snd.alloc => report[calls] = <<>>

LossyTouch == LossyInv /\ ToldOnce

\* What a step may be: sent_callback is told nothing, a message of several frames is
\* accepted, one of a single frame, or a message is reported.
TellsNothing == /\ calls' = calls /\ report' = report
                /\ \/ HeldStays \/ HeldLost \/ HeldGiven
                   \/ HeldAdds /\ Snr'.msg = calls /\ calls \in 1 .. MaxMsgs
TakesLong    == calls < MaxMsgs /\ calls' = calls + 1 /\ report' = report /\ HeldStays
TakesShort   == /\ calls < MaxMsgs /\ calls' = calls + 1 /\ Snr'.msg = calls + 1
                /\ report' = [report EXCEPT ![calls + 1] = Append(@, "OK")]
                /\ HeldStays \/ HeldAdds \/ HeldLost
Tells        == /\ calls' = calls /\ calls \in 1 .. MaxMsgs /\ report[calls] = <<>> /\ HeldStays
                /\ \E e \in Sender!Errors : report' = [report EXCEPT ![calls] = Append(@, e)]
LossyStep    == TellsNothing \/ TakesLong \/ TakesShort \/ Tells

\* The reports stay as they are.
LEMMA OnceSame ==
    ASSUME ToldOnce, calls' = calls, report' = report, Snd'.alloc => Snd.alloc
    PROVE  ToldOnce'
  BY DEF ToldOnce

\* The work queue of node a.
LEMMA LossyWorks ==
    ASSUME LinkInv, LinkInv', LossyTouch, SenderWorks
    PROVE  LossyTouch' /\ LossyStep
<1>1. LossyInv' /\ HeldStays
  BY LossyA DEF LossyTouch
<1>2. OnItsWay
  BY SenderWorksKeeps
<1>3. CASE SameMessage /\ (Snd'.alloc => Snd.alloc)
  BY <1>1, <1>3, OnceSame DEF LossyTouch, SameMessage, LossyStep, TellsNothing
<1>4. CASE /\ InEnd /\ InRest' /\ calls' = calls /\ len' = len
           /\ report' = [report EXCEPT ![calls] = Append(@, IF Snd.state = "ERR" THEN Snd.error ELSE "OK")]
  <2>1. Snd.alloc /\ calls \in 1 .. MaxMsgs /\ ~Snd'.alloc
    BY <1>4 DEF InEnd, Sent, Busy, InRest
  <2>2. Snd.error \in Sender!Errors /\ "OK" \in Sender!Errors
    BY SndTypes DEF LinkInv, SendType, SndRec, Snd
  <2>3. report \in [0 .. MaxMsgs -> Seq(Sender!Errors)] /\ MaxMsgs \in Nat
    BY MsgTypes
  <2>4. \A m \in 1 .. MaxMsgs : m # calls => report'[m] = report[m]
    BY <1>4, <2>3
  <2>5. calls' = calls /\ \A m \in 1 .. MaxMsgs : m > calls => m # calls
    BY <1>4, <2>1
  <2>6. ToldOnce'
    BY <2>1, <2>4, <2>5 DEF ToldOnce, LossyTouch
  <2>7. \E e \in Sender!Errors : report' = [report EXCEPT ![calls] = Append(@, e)]
    BY <1>4, <2>2
  <2>8. report[calls] = <<>>
    BY <2>1 DEF LossyTouch, ToldOnce
  <2> QED
    BY <1>1, <1>4, <2>1, <2>6, <2>7, <2>8 DEF LossyTouch, LossyStep, Tells
<1>5. InRest' => ~Snd'.alloc
  BY DEF InRest
<1> QED
  BY <1>2, <1>3, <1>4, <1>5, NotResting DEF OnItsWay

\* A message of several frames is accepted.
LEMMA LossyLong ==
    ASSUME LinkInv, LinkInv', LossyTouch, NEW l \in Lengths, SendLong(l)
    PROVE  LossyTouch' /\ LossyStep
<1>1. LossyInv' /\ HeldStays
  BY LossyA DEF LossyTouch
<1>2. calls < MaxMsgs /\ calls' = calls + 1 /\ report' = report
  BY DEF SendLong, Sender!SendMulti, Sender!MayCall
<1>3. calls \in Nat /\ MaxMsgs \in Nat
  BY MsgTypes
<1>4. calls + 1 \in 1 .. MaxMsgs /\ \A m \in 1 .. MaxMsgs : m > calls + 1 => m > calls
  BY <1>2, <1>3
<1>5. ToldOnce'
  BY <1>2, <1>3, <1>4 DEF LossyTouch, ToldOnce
<1> QED
  BY <1>1, <1>2, <1>5 DEF LossyTouch, LossyStep, TakesLong

\* A message of one frame.
LEMMA LossyOne ==
    ASSUME LinkInv, LinkInv', LossyTouch, NEW l \in Lengths, SendShort(l)
    PROVE  LossyTouch' /\ LossyStep
<1>1. /\ LossyInv' /\ (HeldStays \/ HeldAdds \/ HeldLost) /\ InRest'
      /\ calls < MaxMsgs /\ calls' = calls + 1 /\ Snr'.msg = calls + 1
      /\ report' = [report EXCEPT ![calls + 1] = Append(@, "OK")]
  BY LossyShort DEF LossyTouch
<1>2. report \in [0 .. MaxMsgs -> Seq(Sender!Errors)] /\ MaxMsgs \in Nat /\ calls \in Nat
  BY MsgTypes
<1>3. \A m \in 1 .. MaxMsgs : m # calls + 1 => report'[m] = report[m]
  BY <1>1, <1>2
<1>4. \A m \in 1 .. MaxMsgs : m > calls + 1 => m > calls /\ m # calls + 1
  BY <1>2
<1>5. ~Snd'.alloc
  BY <1>1 DEF InRest
<1>6. ToldOnce'
  BY <1>1, <1>3, <1>4, <1>5 DEF LossyTouch, ToldOnce
<1> QED
  BY <1>1, <1>6 DEF LossyTouch, LossyStep, TakesShort

\* Every step is one of these.
LEMMA LossyNext ==
    LinkInv /\ LinkInv' /\ LossyTouch /\ [LinkNext]_linkVars => LossyTouch' /\ LossyStep
<1> SUFFICES ASSUME LinkInv, LinkInv', LossyTouch, [LinkNext]_linkVars PROVE LossyTouch' /\ LossyStep
  OBVIOUS
<1>1. ASSUME NEW l \in Lengths, SendShort(l) PROVE LossyTouch' /\ LossyStep
  BY <1>1, LossyOne
<1>2. ASSUME NEW l \in Lengths, SendLong(l) PROVE LossyTouch' /\ LossyStep
  BY <1>2, LossyLong
<1>3. CASE SenderWorks
  BY <1>3, LossyWorks
<1>4. CASE FrameOnBus
  BY <1>4, LossyBus, OnceSame DEF LossyTouch, SameMessage, LossyStep, TellsNothing
<1>5. CASE ReceiverWorks \/ ReceiverTimer
  <2>1. LossyInv' /\ (HeldStays \/ HeldGiven \/ HeldLost)
    BY <1>5, LossyB DEF LossyTouch
  <2>2. calls' = calls /\ report' = report /\ Snd' = Snd
    BY <1>5 DEF ReceiverWorks, ReceiverTimer, sendVars, Snd
  <2> QED
    BY <2>1, <2>2, OnceSame DEF LossyTouch, LossyStep, TellsNothing
<1>6. CASE FcOnBus
  <2>1. LossyInv' /\ HeldStays
    BY <1>6, LossyFc DEF LossyTouch
  <2>2. SameMessage /\ Snd.alloc
    BY <1>6, FcReaches, NotResting DEF LinkInv, FcMoves
  <2> QED
    BY <2>1, <2>2, OnceSame DEF LossyTouch, SameMessage, LossyStep, TellsNothing
<1>7. CASE SenderTimer
  <2>1. LossyInv' /\ HeldStays
    BY <1>7, LossyA DEF LossyTouch
  <2>2. SameMessage /\ Snd.alloc
    BY <1>7, SenderTimerKeeps, NotResting
  <2> QED
    BY <2>1, <2>2, OnceSame DEF LossyTouch, SameMessage, LossyStep, TellsNothing
<1>8. CASE UNCHANGED linkVars
  <2>1. UNCHANGED sendVars /\ peer' = peer /\ rx' = rx /\ Snr' = Snr
    BY <1>8 DEF linkVars, recvVars, Snr
  <2>2. calls' = calls /\ report' = report /\ Snd' = Snd
    BY <2>1 DEF sendVars, Snd
  <2>3. Snr.msg <= Snr'.msg /\ SameSnr
    BY <2>1, MsgTypes DEF SameSnr
  <2>4. \A c : Live(c)' => Live(c)
    BY <2>1, LiveStays
  <2>5. LossyInv' /\ HeldStays
    BY <2>1, <2>3, <2>4, LossyStill DEF LossyTouch
  <2> QED
    BY <2>2, <2>5, OnceSame DEF LossyTouch, LossyStep, TellsNothing
<1> QED
  BY <1>1, <1>2, <1>3, <1>4, <1>5, <1>6, <1>7, <1>8 DEF LinkNext

\* The abstract transfer's state, as the contexts and recv_callback have it.
LEMMA LossyAbstracts ==
    LinkInv /\ LossyInv /\ Lossy =>
        /\ Over = {WholeMsg(d) : d \in Held} \cup {Delivered[k] : k \in DOMAIN Delivered}
        /\ LET n == NotFreed(rx.got["a"]) IN Delivered = [k \in DOMAIN n |-> WholeMsg(n[k])]
        /\ \A d \in Held : \E m \in 1 .. MaxMsgs, l \in Lengths :
              d = PiecesOf(m, l) /\ After(rx.got["a"], m)
<1> SUFFICES ASSUME LinkInv, LossyInv, Lossy
             PROVE  /\ Over = {WholeMsg(d) : d \in Held} \cup {Delivered[k] : k \in DOMAIN Delivered}
                    /\ LET n == NotFreed(rx.got["a"]) IN Delivered = [k \in DOMAIN n |-> WholeMsg(n[k])]
                    /\ \A d \in Held : \E m \in 1 .. MaxMsgs, l \in Lengths :
                          d = PiecesOf(m, l) /\ After(rx.got["a"], m)
  OBVIOUS
<1>1. CtxOf("a") = rx.list
  <2>1. \A b \in rx.list : CtxOf("a") = {b}
    BY LinkFacts DEF LinkInv
  <2>2. CtxOf("a") \subseteq rx.list
    BY DEF CtxOf
  <2>3. rx.list \subseteq CtxOf("a")
    BY <2>1
  <2> QED
    BY <2>2, <2>3
<1>2. Arrived = {WholeMsg(d) : d \in Held}
  BY <1>1 DEF Arrived, Held, Complete
<1>3. Received = NotFreed(rx.got["a"])
  BY DEF Received
<1>4. ASSUME NEW d \in Held
      PROVE  \E m \in 1 .. MaxMsgs, l \in Lengths : d = PiecesOf(m, l) /\ After(rx.got["a"], m)
  <2>1. PICK b \in rx.list : rx.ctx[b].state \in Complete /\ d = rx.ctx[b].data
    BY DEF Held
  <2>2. PICK m \in 1 .. Snr.msg, l \in Lengths : d = PiecesOf(m, l) /\ After(rx.got["a"], m)
    BY <2>1 DEF LossyInv, InHand, HasWhole
  <2>3. Snr.msg \in Nat /\ Snr.msg <= MaxMsgs /\ MaxMsgs \in Nat
    BY LinkTypes, MsgTypes DEF LinkInv, TypeInv, PeerRec, Snr
  <2>4. m \in 1 .. MaxMsgs
    BY <2>3
  <2> QED
    BY <2>2, <2>4
<1> QED
  BY <1>2, <1>3, <1>4 DEF Over, Delivered

\* The same of the next state.
LEMMA LossyAbstractsNext ==
    (LinkInv /\ LossyInv /\ Lossy =>
        /\ Over = {WholeMsg(d) : d \in Held} \cup {Delivered[k] : k \in DOMAIN Delivered}
        /\ LET n == NotFreed(rx.got["a"]) IN Delivered = [k \in DOMAIN n |-> WholeMsg(n[k])]
        /\ \A d \in Held : \E m \in 1 .. MaxMsgs, l \in Lengths :
              d = PiecesOf(m, l) /\ After(rx.got["a"], m))'
  BY LossyAbstracts, PTL

\* Messages that come after all that has been delivered.
LEMMA AfterAll ==
    ASSUME LinkInv, LossyInv, Lossy, NEW m \in Nat, After(rx.got["a"], m)
    PROVE  \A i \in DOMAIN Delivered : Delivered[i] < m
<1> DEFINE g == rx.got["a"]
           n == NotFreed(g)
<1>1. Delivered = [k \in DOMAIN n |-> WholeMsg(n[k])]
  BY LossyAbstracts
<1>2. g \in Seq(Seq(Piece))
  BY MsgTypes
<1>3. ASSUME NEW i \in DOMAIN n PROVE WholeMsg(n[i]) < m
  <2>1. PICK k \in DOMAIN g : g[k] # Freed /\ n[i] = g[k]
    BY <1>2, NfElements
  <2>2. PICK x \in 1 .. Snr.msg, z \in Lengths : g[k] = PiecesOf(x, z)
    BY <2>1 DEF LossyInv, DeliveredFrom
  <2>3. g[k][1].msg < m
    BY <2>1 DEF After
  <2>4. x \in Nat /\ x # 0
    BY MsgTypes
  <2>5. WholeMsg(g[k]) = x
    BY <2>2, <2>4, PiecesTell
  <2>6. WholeMsg(g[k]) = g[k][1].msg
    BY <2>4, <2>5 DEF WholeMsg
  <2> QED
    BY <2>1, <2>3, <2>6
<1> QED
  BY <1>1, <1>3

\* What becomes of the messages in node b when nothing happens to them, ...
LEMMA OverStays ==
    ASSUME LinkInv, LinkInv', LossyInv, LossyInv', Lossy, Lossy', HeldStays
    PROVE  Over' = Over /\ Delivered' = Delivered
<1>1. NotFreed(rx.got["a"])' = NotFreed(rx.got["a"])
  BY MsgTypes, MsgTypesNext, NfMore DEF HeldStays
<1>2. Delivered' = Delivered
  BY <1>1, LossyAbstracts, LossyAbstractsNext
<1> QED
  BY <1>2, LossyAbstracts, LossyAbstractsNext DEF HeldStays

\* ... when the message under way gets whole, ...
LEMMA OverAdds ==
    ASSUME LinkInv, LinkInv', LossyInv, LossyInv', Lossy, Lossy', HeldAdds
    PROVE  Snr'.msg \notin Over /\ Over' = Over \cup {Snr'.msg} /\ Delivered' = Delivered
<1>1. Delivered' = Delivered
  BY LossyAbstracts, LossyAbstractsNext DEF HeldAdds
<1>2. PICK l \in Lengths : Held' = {PiecesOf(Snr'.msg, l)} /\ Held = {}
  BY DEF HeldAdds
<1>3. PICK m \in Nat : m = Snr'.msg
  BY MsgTypesNext
<1>4. WholeMsg(PiecesOf(m, l)) = m /\ Held' = {PiecesOf(m, l)}
  BY <1>2, <1>3, PiecesTell
<1>5. {WholeMsg(d) : d \in Held'} = {m}
  BY <1>4
<1>6. Over = {Delivered[k] : k \in DOMAIN Delivered}
  BY <1>2, LossyAbstracts
<1>7. Over' = {m} \cup {Delivered[k] : k \in DOMAIN Delivered}
  BY <1>1, <1>5, LossyAbstractsNext
<1>8. After(rx.got["a"], m)
  BY <1>3 DEF HeldAdds
<1>9. \A i \in DOMAIN Delivered : Delivered[i] < m
  BY <1>8, AfterAll
<1>10. m \notin Over
  <2>1. \A i \in DOMAIN Delivered : Delivered[i] # m
    <3>1. \A x : x < m => x # m
      BY <1>3
    <3> QED
      BY <1>9, <3>1
  <2> QED
    BY <1>6, <2>1
<1> QED
  BY <1>1, <1>3, <1>6, <1>7, <1>10

\* What the one message that is whole in a context is.
LEMMA HeldOne ==
    ASSUME LinkInv, LossyInv, Lossy, NEW d, Held = {d}
    PROVE  \E m \in 1 .. MaxMsgs, l \in Lengths :
              /\ d = PiecesOf(m, l) /\ WholeMsg(d) = m
              /\ \A i \in DOMAIN Delivered : Delivered[i] < m
              /\ Over = {m} \cup {Delivered[k] : k \in DOMAIN Delivered}
<1>1. PICK m \in 1 .. MaxMsgs, l \in Lengths : d = PiecesOf(m, l) /\ After(rx.got["a"], m)
  BY LossyAbstracts
<1>2. m \in Nat
  BY MsgTypes
<1>3. WholeMsg(d) = m
  BY <1>1, <1>2, PiecesTell
<1>4. \A i \in DOMAIN Delivered : Delivered[i] < m
  BY <1>1, <1>2, AfterAll
<1>5. {WholeMsg(e) : e \in Held} = {m}
  BY <1>3
<1>6. Over = {m} \cup {Delivered[k] : k \in DOMAIN Delivered}
  BY <1>5, LossyAbstracts
<1> QED
  BY <1>1, <1>3, <1>4, <1>6

\* ... when one is lost, ...
LEMMA OverLost ==
    ASSUME LinkInv, LinkInv', LossyInv, LossyInv', Lossy, Lossy', HeldLost
    PROVE  /\ Delivered' = Delivered
           /\ \E m \in 1 .. MaxMsgs : /\ m \in Over /\ Over' = Over \ {m}
                                      /\ \A i \in DOMAIN Delivered : Delivered[i] # m
<1>1. NotFreed(rx.got["a"])' = NotFreed(rx.got["a"])
  BY MsgTypes, MsgTypesNext, NfMore DEF HeldLost
<1>2. Delivered' = Delivered
  BY <1>1, LossyAbstracts, LossyAbstractsNext
<1>3. PICK d : Held = {d} /\ Held' = {}
  BY DEF HeldLost
<1>4. PICK m \in 1 .. MaxMsgs : /\ \A i \in DOMAIN Delivered : Delivered[i] < m
                                /\ Over = {m} \cup {Delivered[k] : k \in DOMAIN Delivered}
  BY <1>3, HeldOne
<1>5. \A i \in DOMAIN Delivered : Delivered[i] # m
  <2>1. m \in Nat
    BY MsgTypes
  <2>2. \A x : x < m => x # m
    BY <2>1
  <2> QED
    BY <1>4, <2>2
<1>6. Over' = {Delivered[k] : k \in DOMAIN Delivered}
  BY <1>2, <1>3, LossyAbstractsNext
<1>7. Over' = Over \ {m}
  BY <1>4, <1>5, <1>6
<1> QED
  BY <1>2, <1>4, <1>5, <1>7

\* ... and when one is given to recv_callback.
LEMMA OverGiven ==
    ASSUME LinkInv, LinkInv', LossyInv, LossyInv', Lossy, Lossy', HeldGiven
    PROVE  \E m \in 1 .. MaxMsgs : /\ m \in Over /\ Over' = Over
                                   /\ \A i \in DOMAIN Delivered : Delivered[i] < m
                                   /\ Delivered' = Append(Delivered, m)
<1> DEFINE g == rx.got["a"]
           n == NotFreed(g)
<1>1. PICK d : Held = {d} /\ Held' = {} /\ rx'.got["a"] = Append(g, d)
  BY DEF HeldGiven
<1>2. PICK m \in 1 .. MaxMsgs, l \in Lengths :
         /\ d = PiecesOf(m, l) /\ WholeMsg(d) = m
         /\ \A i \in DOMAIN Delivered : Delivered[i] < m
         /\ Over = {m} \cup {Delivered[k] : k \in DOMAIN Delivered}
  BY <1>1, HeldOne
<1>3. d \in Seq(Piece)
  <2>1. PICK b \in rx.list : d = rx.ctx[b].data
    BY <1>1 DEF Held
  <2>2. rx.ctx[b] \in Ctx
    BY LinkFacts DEF LinkInv
  <2> QED
    BY <2>1, <2>2 DEF Ctx
<1>4. d # Freed
  <2>1. WholeMsg(Freed) = 0
    BY DEF WholeMsg, Freed
  <2>2. m # 0
    BY MsgTypes
  <2> QED
    BY <1>2, <2>1, <2>2
<1>5. g \in Seq(Seq(Piece)) /\ n \in Seq(Seq(Piece))
  BY MsgTypes, NfElements
<1>6. NotFreed(rx'.got["a"]) = Append(n, d)
  BY <1>1, <1>3, <1>4, <1>5, NfAppend
<1>7. /\ Delivered = [k \in DOMAIN n |-> WholeMsg(n[k])]
      /\ Delivered' = [k \in DOMAIN Append(n, d) |-> WholeMsg(Append(n, d)[k])]
  BY <1>6, LossyAbstracts, LossyAbstractsNext
<1> HIDE DEF n
<1>8. Delivered' = Append(Delivered, m)
  <2> DEFINE N == Len(n)
             W(s) == WholeMsg(s)
  <2>1. N \in Nat /\ DOMAIN n = 1 .. N /\ DOMAIN Append(n, d) = 1 .. N + 1
        /\ Append(n, d)[N + 1] = d /\ \A k \in 1 .. N : Append(n, d)[k] = n[k]
    BY <1>3, <1>5
  <2>2. Delivered = [k \in 1 .. N |-> W(n[k])]
    BY <1>7, <2>1
  <2>3. Delivered' = [k \in 1 .. N + 1 |-> IF k = N + 1 THEN m ELSE W(n[k])]
    <3>1. \A k \in 1 .. N + 1 : W(Append(n, d)[k]) = IF k = N + 1 THEN m ELSE W(n[k])
      <4>1. ASSUME NEW k \in 1 .. N + 1 PROVE W(Append(n, d)[k]) = IF k = N + 1 THEN m ELSE W(n[k])
        <5>1. CASE k = N + 1
          BY <1>2, <2>1, <5>1
        <5>2. CASE k # N + 1
          <6>1. k \in 1 .. N
            BY <2>1, <5>2
          <6> QED
            BY <2>1, <5>2, <6>1
        <5> QED
          BY <5>1, <5>2
      <4> QED
        BY <4>1
    <3>2. Delivered' = [k \in 1 .. N + 1 |-> W(Append(n, d)[k])]
      BY <1>7, <2>1
    <3> QED
      BY <3>1, <3>2
  <2> HIDE DEF W, N
  <2>4. Append([k \in 1 .. N |-> W(n[k])], m) = [k \in 1 .. N + 1 |-> IF k = N + 1 THEN m ELSE W(n[k])]
    BY <2>1 DEF Append
  <2> QED
    BY <2>2, <2>3, <2>4
<1>9. Over' = Over
  <2>1. Over' = {Delivered'[k] : k \in DOMAIN Delivered'}
    BY <1>1, LossyAbstractsNext
  <2>2. DOMAIN n = 1 .. Len(n) /\ Len(n) \in Nat
    BY <1>5
  <2>3. DOMAIN Delivered = 1 .. Len(n)
    BY <1>7, <2>2
  <2>4. \E N \in Nat : DOMAIN Delivered = 1 .. N
    BY <2>2, <2>3
  <2>5. PICK D : D = Delivered /\ \E N \in Nat : DOMAIN D = 1 .. N
    BY <2>4
  <2>6. PICK N \in Nat : DOMAIN D = 1 .. N
    BY <2>5
  <2>7. \A E : E = Append(D, m) /\ D = [k \in 1 .. N |-> D[k]] =>
            {E[k] : k \in DOMAIN E} = {m} \cup {D[k] : k \in DOMAIN D}
    <3>1. SUFFICES ASSUME D = [k \in 1 .. N |-> D[k]]
                   PROVE {Append(D, m)[k] : k \in DOMAIN Append(D, m)} = {m} \cup {D[k] : k \in DOMAIN D}
      OBVIOUS
    <3> QED
      BY <2>6, <3>1 DEF Append
  <2> QED
    BY <1>2, <1>7, <1>8, <2>1, <2>5, <2>6, <2>7
<1> QED
  BY <1>2, <1>8, <1>9

\* A report, in the state of the abstract transfer.
LEMMA ToldIs ==
    ASSUME LinkInv, NEW m \in 1 .. MaxMsgs, NEW e \in Sender!Errors, report[m] = <<>>,
           report' = [report EXCEPT ![m] = Append(@, e)]
    PROVE  Result' = [Result EXCEPT ![m] = IF e = "OK" THEN "OK" ELSE "error"] /\ Result[m] = "none"
<1>1. report \in [0 .. MaxMsgs -> Seq(Sender!Errors)] /\ MaxMsgs \in Nat
  BY MsgTypes
<1>2. report'[m] = <<e>> /\ \A k \in 1 .. MaxMsgs : k # m => report'[k] = report[k]
  BY <1>1
<1>3. ResultOf(<<e>>) = IF e = "OK" THEN "OK" ELSE "error"
  <2>1. <<e>> # <<>> /\ (<<e>> = <<"OK">> <=> e = "OK")
    OBVIOUS
  <2> QED
    BY <2>1 DEF ResultOf
<1>4. ResultOf(<<>>) = "none"
  BY DEF ResultOf
<1>5. /\ Result = [k \in 1 .. MaxMsgs |-> ResultOf(report[k])]
      /\ Result' = [k \in 1 .. MaxMsgs |-> ResultOf(report'[k])]
  BY DEF Result
<1>6. Result[m] = "none" /\ Result'[m] = IF e = "OK" THEN "OK" ELSE "error"
  BY <1>2, <1>3, <1>4, <1>5
<1>7. \A k \in 1 .. MaxMsgs : k # m => Result'[k] = Result[k]
  BY <1>2, <1>5
<1>8. Result' = [Result EXCEPT ![m] = IF e = "OK" THEN "OK" ELSE "error"]
  BY <1>5, <1>6, <1>7
<1> QED
  BY <1>6, <1>8

\* Each of these steps is one of the abstract transfer's, or none.
LEMMA LossyTransferStep ==
    ASSUME LinkInv, LinkInv', LossyTouch, LossyTouch', Lossy, Lossy', LossyStep
    PROVE  [Transfer!TNext]_(Transfer!tvars)
<1>1. LossyInv /\ LossyInv' /\ ToldOnce
  BY DEF LossyTouch
<1>2. calls \in 0 .. MaxMsgs /\ calls \in Nat /\ MaxMsgs \in Nat
  BY MsgTypes
<1>3. Lossy' = Lossy /\ Lossy
  BY DEF Lossy
<1>4. report' = report => Result' = Result
  BY DEF Result
<1>5. HeldStays => Over' = Over /\ Delivered' = Delivered
  BY <1>1, OverStays
<1>6. HeldAdds => Snr'.msg \notin Over /\ Over' = Over \cup {Snr'.msg} /\ Delivered' = Delivered
  BY <1>1, OverAdds
<1>7. HeldLost => /\ Delivered' = Delivered
                  /\ \E m \in 1 .. MaxMsgs : /\ m \in Over /\ Over' = Over \ {m}
                                             /\ \A i \in DOMAIN Delivered : Delivered[i] # m
  BY <1>1, OverLost
<1>8. HeldGiven => \E m \in 1 .. MaxMsgs : /\ m \in Over /\ Over' = Over
                                           /\ \A i \in DOMAIN Delivered : Delivered[i] < m
                                           /\ Delivered' = Append(Delivered, m)
  BY <1>1, OverGiven
<1>9. CASE TellsNothing
  <2>1. Result' = Result /\ calls' = calls
    BY <1>4, <1>9 DEF TellsNothing
  <2>2. CASE HeldStays
    BY <1>3, <1>5, <2>1, <2>2 DEF Transfer!tvars, Over, Result
  <2>3. CASE HeldLost
    <3>1. PICK m \in 1 .. MaxMsgs : /\ m \in Over /\ Over' = Over \ {m}
                                    /\ \A i \in DOMAIN Delivered : Delivered[i] # m
      BY <1>7, <2>3
    <3>2. Transfer!Lose(m)
      BY <1>3, <1>7, <2>1, <2>3, <3>1 DEF Transfer!Lose, Transfer!Lost, Over, Result
    <3> QED
      BY <1>3, <3>2 DEF Transfer!TNext
  <2>4. CASE HeldGiven
    <3>1. PICK m \in 1 .. MaxMsgs : /\ m \in Over /\ Over' = Over
                                    /\ \A i \in DOMAIN Delivered : Delivered[i] < m
                                    /\ Delivered' = Append(Delivered, m)
      BY <1>8, <2>4
    <3>2. Transfer!Deliver(m)
      BY <2>1, <3>1 DEF Transfer!Deliver, Over, Result
    <3> QED
      BY <1>3, <3>2 DEF Transfer!TNext
  <2>5. CASE HeldAdds /\ Snr'.msg = calls /\ calls \in 1 .. MaxMsgs
    <3>1. PICK m \in 1 .. MaxMsgs : m = calls
      BY <2>5
    <3>2. m \in 1 .. calls
      BY <1>2, <3>1
    <3>3. Transfer!HandOver(m)
      BY <1>3, <1>6, <2>1, <2>5, <3>1, <3>2 DEF Transfer!HandOver, Over, Result
    <3>4. Transfer!TNext
      BY <1>3, <3>3 DEF Transfer!TNext
    <3> QED
      BY <3>4
  <2> QED
    BY <1>9, <2>2, <2>3, <2>4, <2>5 DEF TellsNothing
<1>10. ASSUME calls < MaxMsgs
       PROVE  /\ calls + 1 \in 1 .. MaxMsgs /\ calls + 1 \notin 1 .. calls /\ (\A k \in 1 .. calls : k < calls + 1)
              /\ 1 .. calls + 1 = (1 .. calls) \cup {calls + 1}
  BY <1>2, <1>10
<1>11. CASE TakesLong
  <2>1. Result' = Result /\ calls' = calls + 1 /\ calls < MaxMsgs /\ HeldStays
    BY <1>4, <1>11 DEF TakesLong
  <2>2. Transfer!Accept(calls + 1)
    BY <1>5, <1>10, <2>1 DEF Transfer!Accept, Over, Result
  <2> QED
    BY <1>3, <1>10, <2>1, <2>2 DEF Transfer!TNext
<1>12. CASE TakesShort
  <2>1. calls < MaxMsgs /\ calls' = calls + 1 /\ Snr'.msg = calls + 1 /\ (HeldStays \/ HeldAdds \/ HeldLost)
    BY <1>12 DEF TakesShort
  <2>2. PICK m \in 1 .. MaxMsgs : m = calls + 1
    BY <1>10, <2>1
  <2>3. Result' = [Result EXCEPT ![m] = "OK"]
    <3>1. report[m] = <<>>
      BY <1>1, <1>2, <2>2 DEF ToldOnce
    <3>2. report' = [report EXCEPT ![m] = Append(@, "OK")]
      BY <1>12, <2>2 DEF TakesShort
    <3>3. "OK" \in Sender!Errors
      BY DEF Sender!Errors
    <3> QED
      BY <3>1, <3>2, <3>3, ToldIs
  <2>4. Delivered' = Delivered
    BY <1>5, <1>6, <1>7, <2>1
  <2>5. \/ Over' = Over \cup {m}
        \/ Lossy /\ (Over' = Over \/ \E n \in Over : /\ \A i \in DOMAIN Delivered : Delivered[i] # n
                                                     /\ Over' = Over \ {n})
    BY <1>3, <1>5, <1>6, <1>7, <2>1, <2>2
  <2>6. Transfer!AcceptShort(m)
    BY <1>10, <2>1, <2>2, <2>3, <2>4, <2>5 DEF Transfer!AcceptShort, Transfer!Lost, Over, Result
  <2>7. Transfer!TNext
    BY <1>3, <2>6 DEF Transfer!TNext
  <2> QED
    BY <2>7
<1>13. CASE Tells
  <2>1. PICK e \in Sender!Errors : report' = [report EXCEPT ![calls] = Append(@, e)]
    BY <1>13 DEF Tells
  <2>2. calls' = calls /\ calls \in 1 .. MaxMsgs /\ report[calls] = <<>> /\ HeldStays
    BY <1>13 DEF Tells
  <2>3. calls \in 1 .. calls
    BY <1>2, <2>2
  <2>4. Result' = [Result EXCEPT ![calls] = IF e = "OK" THEN "OK" ELSE "error"] /\ Result[calls] = "none"
    <3>1. PICK m \in 1 .. MaxMsgs : m = calls
      BY <2>2
    <3> QED
      BY <2>1, <2>2, <3>1, ToldIs
  <2>5. CASE e = "OK"
    <3>1. Transfer!ReportOk(calls)
      BY <1>3, <1>5, <2>2, <2>3, <2>4, <2>5 DEF Transfer!ReportOk, Over, Result
    <3> QED
      BY <1>3, <2>2, <3>1 DEF Transfer!TNext
  <2>6. CASE e # "OK"
    <3>1. Transfer!ReportError(calls)
      BY <1>3, <1>5, <2>2, <2>3, <2>4, <2>6 DEF Transfer!ReportError, Over, Result
    <3> QED
      BY <1>3, <2>2, <3>1 DEF Transfer!TNext
  <2> QED
    BY <2>5, <2>6
<1> QED
  BY <1>9, <1>11, <1>12, <1>13 DEF LossyStep

\* At the start nothing has been accepted, and nothing is in node b.
LEMMA LossyBegins == LinkInit /\ Lossy => LossyTouch /\ Transfer!TInit
<1> SUFFICES ASSUME LinkInit, Lossy PROVE LossyTouch /\ Transfer!TInit
  OBVIOUS
<1>1. /\ rx.list = {} /\ Snr.msg = 0 /\ calls = 0 /\ rx.got["a"] = <<>> /\ ~Snd.alloc
      /\ \A m \in 1 .. MaxMsgs : report[m] = <<>>
  BY StepStarts
<1>2. LossyTouch
  BY <1>1 DEF LossyTouch, LossyInv, DeliveredFrom, ToldOnce
<1>3. LinkInv /\ LossyInv
  BY <1>2, LinkStarts DEF LossyTouch
<1>4. Held = {}
  BY <1>1 DEF Held
<1>5. DOMAIN NotFreed(rx.got["a"]) = {}
  <2>1. DOMAIN rx.got["a"] = {}
    BY <1>1
  <2>2. rx.got["a"] \in Seq(Seq(Piece))
    BY <1>3, MsgTypes
  <2> QED
    BY <2>1, <2>2, NfElements
<1>6. DOMAIN Delivered = {} /\ Delivered = [k \in {} |-> WholeMsg(NotFreed(rx.got["a"])[k])]
  BY <1>3, <1>5, LossyAbstracts
<1>7. Over = {}
  BY <1>3, <1>4, <1>6, LossyAbstracts
<1>8. Delivered = <<>>
  BY <1>6
<1>9. 1 .. calls = {}
  BY <1>1
<1>10. Result = [m \in 1 .. MaxMsgs |-> "none"]
  <2>1. ResultOf(<<>>) = "none"
    BY DEF ResultOf
  <2> QED
    BY <1>1, <2>1 DEF Result
<1>11. Lossy \in BOOLEAN
  BY DEF Lossy
<1> QED
  BY <1>2, <1>7, <1>8, <1>9, <1>10, <1>11 DEF Transfer!TInit, Over, Result

\* Where frames are lost the two nodes implement the abstract transfer as well: what
\* is delivered is whole, in its turn and delivered once.
THEOREM TransferLossy == LinkSpec /\ Lossy => ImplementsTransfer
<1>1. LinkInv /\ LinkInv' /\ LossyTouch /\ [LinkNext]_linkVars => LossyTouch' /\ LossyStep
  BY LossyNext
<1>2. LinkInv /\ Lossy /\ [LinkNext]_linkVars => Lossy'
  BY EnvSame DEF Lossy
<1>3. LinkInv /\ LinkInv' /\ LossyTouch /\ Lossy /\ [LinkNext]_linkVars => [Transfer!TNext]_(Transfer!tvars)
  BY <1>1, <1>2, LossyTransferStep
<1>4. LinkInit /\ Lossy => LossyTouch /\ Transfer!TInit
  BY LossyBegins
<1> QED
  BY <1>1, <1>2, <1>3, <1>4, LinkInvariant, PTL DEF LinkSpec, ImplementsTransfer, Transfer!TSpec

\* The two nodes implement the abstract transfer, whether the bus loses frames or not.
THEOREM LinkImplementsTransfer == LinkSpec /\ (Lossy \/ MessagesFit) => ImplementsTransfer
<1> QED
  BY TransferLossless, TransferLossy
=============================================================================
