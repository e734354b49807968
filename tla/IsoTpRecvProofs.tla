-------------------------- MODULE IsoTpRecvProofs --------------------------
(***************************************************************************)
(* Theorems about IsoTpRecv, for every number of peers and of contexts,    *)
(* every message length, frame size and block size.                        *)
(***************************************************************************)
EXTENDS IsoTpRecv, FiniteSetTheorems, TLAPS

-----------------------------------------------------------------------------
(* How messages are cut into frames *)

\* What the proofs use of the constants' assumptions.
LEMMA SegTypes ==
    /\ CfLen \in Nat /\ CfLen > 0 /\ FfLen \in Nat /\ FfLen > 0 /\ SfMax \in Nat /\ FfLen < SfMax
    /\ SN_MOD \in Nat /\ SN_MOD > 1 /\ BYTE \in Nat /\ BYTE > 1
    /\ Lengths \subseteq Nat \ {0} /\ Envs \subseteq Env /\ RX_BUF_COUNT \in Nat \ {0}
  BY RecvAssumptions, FrameAssumptions DEF RecvAssumptions, FrameAssumptions, CfLen, FfLen, SfMax

\* Wrap-around arithmetic stays in its width.
LEMMA WrapTypes ==
    /\ \A x \in Bytes : Inc8(x) \in Bytes /\ Dec8(x) \in Bytes
    /\ \A x \in 0 .. SN_MOD - 1 : IncSn(x) \in 0 .. SN_MOD - 1
    /\ WFT_FIRST \in Bytes /\ 0 \in Bytes /\ 1 \in 0 .. SN_MOD - 1 /\ 0 \in 0 .. SN_MOD - 1
  BY SegTypes DEF Bytes, Inc8, Dec8, IncSn, WFT_FIRST

\* Consecutive frames follow each other without a gap.
LEMMA SegNext ==
    ASSUME NEW i \in Nat, i >= 2
    PROVE  SegOff(i) \in Nat /\ SegOff(i + 1) = SegOff(i) + CfLen
<1>1. SegOff(i) = FfLen + (i - 2) * CfLen /\ SegOff(i + 1) = FfLen + (i - 1) * CfLen
  <2>1. i # 1 /\ i + 1 # 1 /\ (i + 1) - 2 = i - 1
    OBVIOUS
  <2> QED
    BY <2>1 DEF SegOff
<1>2. i - 2 \in Nat
  OBVIOUS
<1>3. (i - 2) * CfLen \in Nat /\ (i - 1) * CfLen = (i - 2) * CfLen + CfLen
  BY <1>2, SegTypes
<1> QED
  BY <1>1, <1>3, SegTypes

\* A message has as many frames as begin before its end.
LEMMA SegCount ==
    ASSUME NEW l \in Nat, l > SfMax, NEW i \in Nat, i >= 2
    PROVE  NumSegs(l) \in Nat /\ NumSegs(l) >= 2 /\ (i <= NumSegs(l) <=> SegOff(i) < l)
<1> DEFINE x == l - FfLen
           q == i - 2
           D == (x + CfLen - 1) \div CfLen
<1>1. SegOff(i) = FfLen + q * CfLen /\ q \in Nat /\ x \in Nat /\ x > 0
  BY SegTypes DEF SegOff
<1>2. NumSegs(l) = 1 + D
  BY DEF NumSegs
<1> HIDE DEF x, q
<1>3. x + CfLen - 1 \in Nat
  BY <1>1, SegTypes
<1>4. D \in Nat /\ CfLen * D <= x + CfLen - 1 /\ x + CfLen - 1 < CfLen * D + CfLen
  BY <1>3, SegTypes
<1> HIDE DEF D
<1>5. D >= 1
  <2>1. CASE D = 0
    <3>1. CfLen * D = 0
      BY <2>1, SegTypes
    <3> QED
      BY <1>1, <1>4, <3>1, SegTypes
  <2> QED
    BY <1>4, <2>1
<1>6. ASSUME q + 1 <= D PROVE q * CfLen < x
  <2>1. CfLen * (q + 1) <= CfLen * D
    BY <1>1, <1>4, <1>6, SegTypes
  <2>2. CfLen * (q + 1) = q * CfLen + CfLen /\ q * CfLen \in Nat /\ CfLen * D \in Nat
    BY <1>1, <1>4, SegTypes
  <2> QED
    BY <1>1, <1>4, <2>1, <2>2, SegTypes
<1>7. ASSUME ~(q + 1 <= D) PROVE ~(q * CfLen < x)
  <2>1. D <= q
    BY <1>1, <1>4, <1>7
  <2>2. CfLen * D <= q * CfLen
    BY <1>1, <1>4, <2>1, SegTypes
  <2>3. q * CfLen \in Nat /\ CfLen * D \in Nat
    BY <1>1, <1>4, SegTypes
  <2> QED
    BY <1>1, <1>4, <2>2, <2>3, SegTypes
<1>8. i <= 1 + D <=> q + 1 <= D
  BY <1>4 DEF q
<1>9. SegOff(i) < l <=> q * CfLen < x
  <2>1. q * CfLen \in Nat
    BY <1>1, SegTypes
  <2> QED
    BY <1>1, <2>1, SegTypes DEF x
<1> QED
  BY <1>2, <1>4, <1>5, <1>6, <1>7, <1>8, <1>9

\* A message that a peer still sends after its first frame is a segmented one.
LEMMA FrameCount ==
    ASSUME NEW l \in Nat
    PROVE  /\ NumFrames(l) \in Nat /\ NumFrames(l) >= 1
           /\ \A i \in Nat : i >= 2 => (i <= NumFrames(l) <=> l > SfMax /\ SegOff(i) < l)
<1>1. CASE l <= SfMax
  BY <1>1, SegTypes DEF NumFrames
<1>2. CASE ~(l <= SfMax)
  <2>1. l > SfMax /\ NumFrames(l) = NumSegs(l)
    BY <1>2, SegTypes DEF NumFrames
  <2>2. NumSegs(l) \in Nat /\ NumSegs(l) >= 2
    <3>1. 2 \in Nat /\ 2 >= 2
      OBVIOUS
    <3> QED
      BY <2>1, <3>1, SegCount
  <2>3. ASSUME NEW i \in Nat, i >= 2 PROVE i <= NumSegs(l) <=> SegOff(i) < l
    BY <2>1, <2>3, SegCount
  <2> QED
    BY <2>1, <2>2, <2>3
<1> QED
  BY <1>1, <1>2


\* The first frame of a message is a single frame with the whole message or a first frame with its beginning.
LEMMA FirstFrame ==
    ASSUME NEW m \in Nat, NEW l \in Nat \ {0}
    PROVE  LET f == FrameOf(m, l, 1) IN
           /\ f.msg = m /\ f.off = 0 /\ f.n \in Nat /\ f.len = l
           /\ \/ l <= SfMax /\ f.type = "SF" /\ f.n = l
              \/ l > SfMax /\ f.type = "FF" /\ FfLen <= l
<1>1. CASE l <= SfMax
  BY <1>1 DEF FrameOf
<1>2. CASE ~(l <= SfMax)
  <2>1. SegLen(l, 1) = Min2(l, FfLen) /\ SegOff(1) = 0
    BY DEF SegLen, SegOff
  <2>2. SegLen(l, 1) \in Nat /\ FfLen <= l /\ l > SfMax
    BY <1>2, <2>1, SegTypes DEF Min2
  <2> QED
    BY <1>2, <2>1, <2>2 DEF FrameOf, Segment
<1> QED
  BY <1>1, <1>2

\* The frames after it are consecutive frames.
LEMMA NextFrame ==
    ASSUME NEW m \in Nat, NEW l \in Nat, NEW i \in Nat, i >= 2, i <= NumFrames(l)
    PROVE  LET f == FrameOf(m, l, i) IN
           /\ l > SfMax /\ f.type = "CF" /\ f.msg = m /\ f.off = SegOff(i) /\ f.off \in Nat
           /\ f.n \in Nat /\ f.n > 0 /\ f.n = Min2(l - SegOff(i), CfLen)
           /\ f.sn = (i - 1) % SN_MOD
<1>1. l > SfMax /\ SegOff(i) < l /\ SegOff(i) \in Nat
  BY FrameCount, SegNext
<1>2. ~(l <= SfMax) /\ i # 1
  BY <1>1, SegTypes
<1>3. SegLen(l, i) = Min2(l - SegOff(i), CfLen)
  BY <1>2 DEF SegLen
<1>4. SegLen(l, i) \in Nat /\ SegLen(l, i) > 0
  BY <1>1, <1>3, SegTypes DEF Min2
<1> QED
  BY <1>1, <1>2, <1>3, <1>4 DEF FrameOf, Segment

-----------------------------------------------------------------------------
(* The helpers that compute a context from a context. *)

\* A frame as can_rx_callback gets it.
IsFrame(f) ==
    /\ f.type \in {"SF", "FF", "CF"} /\ f.msg \in Nat /\ f.off \in Nat /\ f.n \in Nat
    /\ f.type = "SF" => f.len = f.n
    /\ f.type = "FF" => f.len \in Nat /\ FfLen <= f.len

\* The data that n bytes of the frame f are.
PieceIn(f, n) == [msg |-> f.msg, off |-> f.off, n |-> n]

\* The context d is c after n bytes of the frame f were added to it.
Added(c, f, n, d) ==
    /\ d \in Ctx /\ d.rem = c.rem - n
    /\ d.data = Append(c.data, [msg |-> f.msg, off |-> f.off, n |-> n])
    /\ d.addr = c.addr /\ d.state = c.state /\ d.error = c.error /\ d.sn = c.sn
    /\ d.bs = c.bs /\ d.wft = c.wft /\ d.timer = c.timer /\ d.bufs = c.bufs

\* Adding bytes that are outstanding to a reception.
LEMMA AddType ==
    ASSUME NEW c \in Ctx, NEW f, IsFrame(f), NEW n \in Nat, n <= c.rem
    PROVE  Added(c, f, n, Add(c, f, n))
<1>1. [msg |-> f.msg, off |-> f.off, n |-> n] \in Piece
  BY DEF Piece, IsFrame
<1>2. c.rem - n \in Nat /\ c.data \in Seq(Piece)
  BY DEF Ctx
<1>3. Append(c.data, [msg |-> f.msg, off |-> f.off, n |-> n]) \in Seq(Piece)
  BY <1>1, <1>2
<1> QED
  BY <1>2, <1>3 DEF Add, Added, Ctx

\* An error keeps a context a context.
LEMMA ReportType == ASSUME NEW c \in Ctx, NEW e \in RxError PROVE Report(c, e) \in Ctx
  BY DEF Report, Ctx, RxState

\* process_ff_sf keeps the peer, the timer and the buffers; a first frame or a
\* single frame begins a reception.
LEMMA FfSfType ==
    ASSUME NEW c \in Ctx, NEW f, IsFrame(f)
    PROVE  LET d == process_ff_sf(c, f) IN
           /\ d \in Ctx /\ d.addr = c.addr /\ d.timer = c.timer /\ d.bufs = c.bufs
           /\ f.type = "CF" => d = c
           /\ f.type = "SF" => d.state = "PROCESS_SF" /\ d.data = Append(c.data, PieceIn(f, f.n))
           /\ f.type = "FF" => /\ d.state = "PROCESS_FF" /\ d.rem = f.len - FfLen /\ d.sn = 1
                               /\ d.data = Append(c.data, PieceIn(f, FfLen))
<1>1. CASE f.type = "FF"
  <2> DEFINE e == [c EXCEPT !.rem = f.len, !.state = "PROCESS_FF", !.sn = 1]
  <2>1. e \in Ctx /\ e.rem = f.len
    BY <1>1, WrapTypes DEF Ctx, RxState, IsFrame
  <2>2. /\ e.addr = c.addr /\ e.timer = c.timer /\ e.bufs = c.bufs /\ e.state = "PROCESS_FF"
        /\ e.data = c.data /\ e.sn = 1
    BY DEF Ctx
  <2>3. FfLen \in Nat /\ FfLen <= e.rem
    BY <1>1, <2>1, SegTypes DEF IsFrame
  <2>4. process_ff_sf(c, f) = Add(e, f, FfLen)
    BY <1>1 DEF process_ff_sf
  <2> HIDE DEF e
  <2> QED
    <3>1. Added(e, f, FfLen, Add(e, f, FfLen))
      BY <2>1, <2>3, AddType
    <3> QED
      BY <1>1, <2>1, <2>2, <2>4, <3>1 DEF Added, PieceIn
<1>2. CASE f.type = "SF"
  <2> DEFINE e == [c EXCEPT !.rem = f.len, !.state = "PROCESS_SF"]
  <2>1. e \in Ctx /\ e.rem = f.len
    BY <1>2 DEF Ctx, RxState, IsFrame
  <2>2. /\ e.addr = c.addr /\ e.timer = c.timer /\ e.bufs = c.bufs /\ e.state = "PROCESS_SF"
        /\ e.data = c.data
    BY DEF Ctx
  <2>3. f.n \in Nat /\ f.n <= e.rem
    BY <1>2, <2>1 DEF IsFrame
  <2>4. process_ff_sf(c, f) = Add(e, f, f.n)
    BY <1>2 DEF process_ff_sf
  <2> HIDE DEF e
  <2> QED
    <3>1. Added(e, f, f.n, Add(e, f, f.n))
      BY <2>1, <2>3, AddType
    <3> QED
      BY <1>2, <2>1, <2>2, <2>4, <3>1 DEF Added, PieceIn
<1>3. CASE f.type = "CF"
  BY <1>3 DEF process_ff_sf
<1> QED
  BY <1>1, <1>2, <1>3 DEF IsFrame

\* The end of process_cf.
LEMMA CfAddedType ==
    ASSUME env \in Env, NEW c \in Ctx, c.state = "WAIT_CF"
    PROVE  LET d == CfAdded(c) IN
           /\ d \in Ctx /\ d.addr = c.addr /\ d.timer = c.timer /\ d.bufs = c.bufs /\ d.rem = c.rem
           /\ d.data = c.data /\ d.sn = c.sn
           /\ IF c.rem = 0 THEN d.state = "RECYCLE" ELSE d.state \in {"WAIT_CF", "TRY_ALLOC"}
<1>1. RxBs \in Bytes
  BY DEF RxBs, Env
<1>2. Dec8(c.bs) \in Bytes
  BY WrapTypes DEF Ctx
<1> QED
  BY <1>1, <1>2 DEF CfAdded, Ctx, RxState

\* process_cf takes from what is outstanding at most what the frame carries, or
\* reports an error.
LEMMA CfType ==
    ASSUME env \in Env, NEW c \in Ctx, c.state = "WAIT_CF", NEW f, IsFrame(f)
    PROVE  LET d == process_cf(c, f) IN
           /\ d \in Ctx /\ d.addr = c.addr /\ d.bufs = c.bufs
           /\ \/ d.state = "ERR"
              \/ /\ f.type = "CF" /\ d.rem = c.rem - Min2(c.rem, f.n)
                 /\ SnMatches(c, f) /\ d.sn = IncSn(c.sn)
                 /\ d.data = Append(c.data, PieceIn(f, Min2(c.rem, f.n)))
                 /\ IF d.rem = 0 THEN d.state = "RECYCLE" ELSE d.state \in {"WAIT_CF", "TRY_ALLOC"}
<1> DEFINE d == CfTimer([c EXCEPT !.sn = IncSn(@)])
           n == Min2(d.rem, f.n)
           e == Add(d, f, n)
<1>1. /\ d \in Ctx /\ d.addr = c.addr /\ d.bufs = c.bufs /\ d.rem = c.rem /\ d.state = "WAIT_CF"
      /\ d.data = c.data /\ d.sn = IncSn(c.sn)
  <2>1. IncSn(c.sn) \in 0 .. SN_MOD - 1
    BY WrapTypes DEF Ctx
  <2> QED
    BY <2>1 DEF CfTimer, Ctx
<1>2. n \in Nat /\ n <= d.rem /\ n = Min2(c.rem, f.n)
  BY <1>1 DEF Min2, IsFrame, Ctx
<1> HIDE DEF d, n
<1>3. /\ e \in Ctx /\ e.addr = c.addr /\ e.bufs = c.bufs /\ e.state = "WAIT_CF"
      /\ e.rem = c.rem - Min2(c.rem, f.n) /\ e.sn = IncSn(c.sn)
      /\ e.data = Append(c.data, PieceIn(f, Min2(c.rem, f.n)))
  <2>1. Added(d, f, n, e)
    BY <1>1, <1>2, AddType
  <2> QED
    BY <1>1, <1>2, <2>1 DEF Added, PieceIn
<1> HIDE DEF e
<1>4. process_cf(c, f) = IF f.type # "CF" THEN Report(c, "UNEXP_PDU")
                         ELSE IF ~SnMatches(c, f) THEN Report(d, "WRONG_SN")
                         ELSE CfAdded(e)
  BY DEF process_cf, d, e, n
<1>5. ASSUME NEW x \in Ctx, NEW y \in {"UNEXP_PDU", "WRONG_SN"}
      PROVE  Report(x, y) \in Ctx /\ Report(x, y).addr = x.addr /\ Report(x, y).bufs = x.bufs
             /\ Report(x, y).state = "ERR"
  BY DEF Report, Ctx, RxState, RxError
<1>6. CASE f.type # "CF"
  BY <1>4, <1>5, <1>6
<1>7. CASE f.type = "CF" /\ ~SnMatches(c, f)
  BY <1>1, <1>4, <1>5, <1>7
<1>8. CASE f.type = "CF" /\ SnMatches(c, f)
  <2>1. process_cf(c, f) = CfAdded(e)
    BY <1>4, <1>8
  <2> QED
    BY <1>3, <1>8, <2>1, CfAddedType
<1> QED
  BY <1>6, <1>7, <1>8

\* receive_can_rx keeps the peer and the buffers, and needs a context that is
\* listed to start a timer.
LEMMA RxType ==
    ASSUME env \in Env, NEW c \in Ctx, NEW f, IsFrame(f)
    PROVE  LET d == receive_can_rx(c, f) IN d \in Ctx /\ d.addr = c.addr /\ d.bufs = c.bufs
<1>1. CASE c.state = "WAIT_FF_SF"
  BY <1>1, FfSfType DEF receive_can_rx
<1>2. CASE c.state = "WAIT_CF"
  BY <1>2, CfType DEF receive_can_rx
<1>3. CASE c.state \notin {"WAIT_FF_SF", "WAIT_CF"}
  BY <1>3 DEF receive_can_rx
<1> QED
  BY <1>1, <1>2, <1>3

-----------------------------------------------------------------------------
(* The helpers that compute the receiver's state from its state. *)

RxRec == [ctx : [Blocks -> Ctx], list : SUBSET Blocks, head : Blocks \cup {Nil},
          link : [Blocks -> Blocks \cup {Nil}], aliased : BOOLEAN, fc : Seq(Fc),
          got : [Peers -> Seq(Seq(Piece))], errs : [Peers -> Seq(RxError)]]

Named(S, b) == S.ctx[b].addr \in Peers

\* S is a state of the receiver, and blocks that matter have been given to a peer.
Good(S) ==
    /\ S \in RxRec
    /\ \A b \in Blocks : b \in S.list \/ S.ctx[b].timer => Named(S, b)
    /\ \A i \in DOMAIN S.fc : Named(S, S.fc[i].ctx)

SameAddr(S, T) == \A b \in Blocks : T.ctx[b].addr = S.ctx[b].addr

\* Every block but b is as it was.
Apart(S, T, b) == \A c \in Blocks : c # b => T.ctx[c] = S.ctx[c]

\* The slab and its list are as they were.
SameSlab(S, T) ==
    T.list = S.list /\ T.head = S.head /\ T.link = S.link /\ T.aliased = S.aliased

\* Every listed block but b is listed as it was.
Only(S, T, b) == Apart(S, T, b) /\ T.list \ {b} = S.list \ {b}

\* The block b is in no list and has no buffer.
Gone(T, b) == b \notin T.list /\ T.ctx[b].bufs = 0

\* The block b has been given back to the slab.
Returned(S, T, b) ==
    /\ T.list = S.list \ {b} /\ T.head = b /\ T.link = [S.link EXCEPT ![b] = S.head]
    /\ T.aliased = S.aliased /\ T.ctx[b].bufs = 0

\* A record with the fields of the receiver's state is its fields.
LEMMA RecordOf ==
    ASSUME NEW T, T = [x \in DOMAIN T |-> T[x]],
           DOMAIN T = {"ctx", "list", "head", "link", "aliased", "fc", "got", "errs"}
    PROVE  T = [ctx |-> T.ctx, list |-> T.list, head |-> T.head, link |-> T.link,
                aliased |-> T.aliased, fc |-> T.fc, got |-> T.got, errs |-> T.errs]
  OBVIOUS

\* A flow-control frame names a block.
LEMMA FcBlocks == ASSUME NEW S \in RxRec PROVE \A i \in DOMAIN S.fc : S.fc[i].ctx \in Blocks
<1>1. S.fc \in Seq(Fc)
  BY DEF RxRec
<1>2. \A i \in DOMAIN S.fc : S.fc[i] \in Fc
  BY <1>1
<1> QED
  BY <1>2 DEF Fc

\* T is S with d in the block b.
Changed(S, T, b, d) ==
    /\ SameAddr(S, T) /\ SameSlab(S, T) /\ Apart(S, T, b) /\ T.ctx[b] = d
    /\ T.fc = S.fc /\ T.got = S.got /\ T.errs = S.errs

\* A state that differs in one context, which keeps its peer, is good.
LEMMA CtxGood ==
    ASSUME NEW S, Good(S), NEW b \in Blocks, NEW d \in Ctx, NEW T,
           T = [S EXCEPT !.ctx[b] = d],
           d.addr = S.ctx[b].addr, d.timer => d.addr \in Peers
    PROVE  Good(T) /\ Changed(S, T, b, d)
<1>1. S.ctx \in [Blocks -> Ctx] /\ S \in RxRec
  BY DEF Good, RxRec
<1>2. /\ T.ctx = [S.ctx EXCEPT ![b] = d] /\ SameSlab(S, T)
      /\ T.fc = S.fc /\ T.got = S.got /\ T.errs = S.errs /\ T \in RxRec
  BY <1>1 DEF RxRec, SameSlab
<1>3. T.ctx[b] = d /\ Apart(S, T, b)
  BY <1>1, <1>2 DEF Apart
<1>4. SameAddr(S, T)
  BY <1>3 DEF SameAddr, Apart
<1>5. \A i \in DOMAIN S.fc : S.fc[i].ctx \in Blocks
  BY <1>1, FcBlocks
<1>6. Good(T)
  BY <1>2, <1>3, <1>4, <1>5 DEF Good, Named, SameAddr, SameSlab, Apart
<1> QED
  BY <1>2, <1>3, <1>4, <1>6 DEF Changed

\* free_recv_ctx gives the block and its buffers back.
LEMMA FreeGood ==
    ASSUME NEW S, Good(S), NEW b \in Blocks
    PROVE  LET T == free_recv_ctx(S, b) IN
           /\ Good(T) /\ SameAddr(S, T) /\ Apart(S, T, b) /\ Returned(S, T, b)
           /\ T.ctx[b].state = S.ctx[b].state /\ T.ctx[b].error = S.ctx[b].error
           /\ T.ctx[b].data = S.ctx[b].data /\ T.ctx[b].timer = FALSE
           /\ T.fc = S.fc /\ T.got = S.got /\ T.errs = S.errs
<1> DEFINE T == free_recv_ctx(S, b)
<1>1. S.ctx \in [Blocks -> Ctx] /\ S \in RxRec /\ S.ctx[b] \in Ctx
  BY DEF Good, RxRec
<1>2. /\ T.ctx = [S.ctx EXCEPT ![b] = [S.ctx[b] EXCEPT !.timer = FALSE, !.bufs = 0]]
      /\ T.list = S.list \ {b} /\ T.head = b /\ T.link = [S.link EXCEPT ![b] = S.head]
      /\ T.aliased = S.aliased /\ T.fc = S.fc /\ T.got = S.got /\ T.errs = S.errs
      /\ T = [ctx |-> T.ctx, list |-> T.list, head |-> T.head, link |-> T.link,
              aliased |-> T.aliased, fc |-> T.fc, got |-> T.got, errs |-> T.errs]
  <2>1. T.ctx = [S.ctx EXCEPT ![b] = [S.ctx[b] EXCEPT !.timer = FALSE, !.bufs = 0]]
    BY <1>1 DEF free_recv_ctx, RxRec, Ctx
  <2>2. /\ T.list = S.list \ {b} /\ T.head = b /\ T.link = [S.link EXCEPT ![b] = S.head]
        /\ T.aliased = S.aliased /\ T.fc = S.fc /\ T.got = S.got /\ T.errs = S.errs
    BY <1>1 DEF free_recv_ctx, RxRec
  <2>3. T = [ctx |-> T.ctx, list |-> T.list, head |-> T.head, link |-> T.link,
             aliased |-> T.aliased, fc |-> T.fc, got |-> T.got, errs |-> T.errs]
    <3>1. /\ T = [x \in DOMAIN T |-> T[x]]
          /\ DOMAIN T = {"ctx", "list", "head", "link", "aliased", "fc", "got", "errs"}
      BY <1>1 DEF free_recv_ctx, RxRec
    <3> HIDE DEF T
    <3> QED
      BY <3>1, RecordOf
  <2> QED
    BY <2>1, <2>2, <2>3
<1>3. [S.ctx[b] EXCEPT !.timer = FALSE, !.bufs = 0] \in Ctx
  BY <1>1 DEF Ctx
<1> HIDE DEF T
<1>4. T \in RxRec
  <2>1. T.ctx \in [Blocks -> Ctx] /\ T.list \in SUBSET Blocks /\ T.head \in Blocks \cup {Nil}
    BY <1>1, <1>2, <1>3 DEF RxRec
  <2>2. T.link \in [Blocks -> Blocks \cup {Nil}]
    BY <1>1, <1>2 DEF RxRec
  <2>3. T.aliased \in BOOLEAN /\ T.fc \in Seq(Fc) /\ T.got \in [Peers -> Seq(Seq(Piece))]
        /\ T.errs \in [Peers -> Seq(RxError)]
    BY <1>1, <1>2 DEF RxRec
  <2> QED
    BY <1>2, <2>1, <2>2, <2>3 DEF RxRec
<1>5. /\ Apart(S, T, b) /\ T.ctx[b] = [S.ctx[b] EXCEPT !.timer = FALSE, !.bufs = 0]
  BY <1>1, <1>2 DEF Apart
<1>6. /\ T.ctx[b].addr = S.ctx[b].addr /\ T.ctx[b].timer = FALSE /\ T.ctx[b].bufs = 0
      /\ T.ctx[b].state = S.ctx[b].state /\ T.ctx[b].error = S.ctx[b].error
      /\ T.ctx[b].data = S.ctx[b].data
  BY <1>1, <1>5 DEF Ctx
<1>7. SameAddr(S, T)
  BY <1>5, <1>6 DEF SameAddr, Apart
<1>8. \A i \in DOMAIN S.fc : S.fc[i].ctx \in Blocks
  BY <1>1, FcBlocks
<1>9. Good(T)
  BY <1>2, <1>4, <1>5, <1>6, <1>7, <1>8 DEF Good, Named, SameAddr, Apart
<1> QED
  BY <1>2, <1>5, <1>6, <1>7, <1>9 DEF Returned, T

\* What recv_callback is given for the block b.
Given(S, b) == IF S.ctx[b].bufs > 0 THEN S.ctx[b].data ELSE Freed

\* T is S after the reception in b was delivered.
Recycled(S, T, b) ==
    /\ SameAddr(S, T) /\ Apart(S, T, b) /\ Returned(S, T, b)
    /\ T.ctx[b].state = "UNBOUND" /\ T.ctx[b].timer = FALSE /\ T.fc = S.fc /\ T.errs = S.errs
    /\ T.got = [S.got EXCEPT ![S.ctx[b].addr] = Append(S.got[S.ctx[b].addr], Given(S, b))]

\* The end of a reception.
LEMMA RecycleGood ==
    ASSUME NEW S, Good(S), NEW b \in Blocks, Named(S, b)
    PROVE  Good(Recycle(S, b)) /\ Recycled(S, Recycle(S, b), b)
<1> DEFINE a == S.ctx[b].addr
           g == Given(S, b)
           d == [S.ctx[b] EXCEPT !.state = "UNBOUND"]
           U == [S EXCEPT !.got[a] = Append(@, g), !.ctx[b].state = "UNBOUND"]
           T == Recycle(S, b)
<1>1. S.ctx \in [Blocks -> Ctx] /\ S \in RxRec /\ S.ctx[b] \in Ctx /\ a \in Peers
  BY DEF Good, RxRec, Named
<1>2. g \in Seq(Piece)
  <2>1. Freed \in Seq(Piece)
    BY DEF Freed, Piece
  <2> QED
    BY <1>1, <2>1 DEF Ctx, Given
<1> HIDE DEF g
<1>3. d \in Ctx /\ d.addr = a /\ d.timer = S.ctx[b].timer /\ d.state = "UNBOUND"
  BY <1>1 DEF Ctx, RxState
<1>4. /\ U.ctx = [S.ctx EXCEPT ![b] = d] /\ SameSlab(S, U) /\ U.fc = S.fc /\ U.errs = S.errs
      /\ U.got = [S.got EXCEPT ![a] = Append(S.got[a], g)]
      /\ U = [ctx |-> U.ctx, list |-> U.list, head |-> U.head, link |-> U.link,
              aliased |-> U.aliased, fc |-> U.fc, got |-> U.got, errs |-> U.errs]
  <2>1. U.ctx = [S.ctx EXCEPT ![b] = d]
    BY <1>1 DEF RxRec
  <2>2. SameSlab(S, U) /\ U.fc = S.fc /\ U.errs = S.errs
    BY <1>1 DEF RxRec, SameSlab
  <2>3. U.got = [S.got EXCEPT ![a] = Append(S.got[a], g)]
    BY <1>1 DEF RxRec
  <2>4. U = [ctx |-> U.ctx, list |-> U.list, head |-> U.head, link |-> U.link,
             aliased |-> U.aliased, fc |-> U.fc, got |-> U.got, errs |-> U.errs]
    <3>1. /\ U = [x \in DOMAIN U |-> U[x]]
          /\ DOMAIN U = {"ctx", "list", "head", "link", "aliased", "fc", "got", "errs"}
      BY <1>1 DEF RxRec
    <3> HIDE DEF U
    <3> QED
      BY <3>1, RecordOf
  <2> QED
    BY <2>1, <2>2, <2>3, <2>4
<1>5. T = free_recv_ctx(U, b)
  BY DEF Recycle, Given, g
<1> HIDE DEF U, d, a, T
<1>6. U.got \in [Peers -> Seq(Seq(Piece))]
  <2>1. S.got \in [Peers -> Seq(Seq(Piece))]
    BY <1>1 DEF RxRec
  <2>2. Append(S.got[a], g) \in Seq(Seq(Piece))
    BY <1>1, <1>2, <2>1
  <2> QED
    BY <1>4, <2>1, <2>2
<1>7. U \in RxRec
  BY <1>1, <1>3, <1>4, <1>6 DEF RxRec, SameSlab
<1>8. U.ctx[b] = d /\ Apart(S, U, b)
  BY <1>1, <1>4 DEF Apart
<1>9. SameAddr(S, U)
  BY <1>3, <1>8 DEF SameAddr, Apart, a
<1>10. Good(U)
  <2>1. \A i \in DOMAIN S.fc : S.fc[i].ctx \in Blocks
    BY <1>1, FcBlocks
  <2> QED
    BY <1>1, <1>3, <1>4, <1>7, <1>8, <1>9, <2>1 DEF Good, Named, SameAddr, SameSlab, Apart
<1>11. /\ Good(T) /\ SameAddr(U, T) /\ Apart(U, T, b) /\ Returned(U, T, b)
       /\ T.ctx[b].state = U.ctx[b].state /\ T.ctx[b].timer = FALSE
       /\ T.fc = U.fc /\ T.got = U.got /\ T.errs = U.errs
  BY <1>5, <1>10, FreeGood
<1>12. SameAddr(S, T) /\ Apart(S, T, b)
  BY <1>8, <1>9, <1>11 DEF SameAddr, Apart
<1>13. Returned(S, T, b)
  BY <1>4, <1>11 DEF Returned, SameSlab
<1> QED
  BY <1>3, <1>4, <1>8, <1>9, <1>11, <1>12, <1>13 DEF Recycled, T, a, g

\* Reporting an error to the application.
LEMMA ErrsGood ==
    ASSUME NEW S, Good(S), NEW b \in Blocks, Named(S, b), NEW T,
           T = [S EXCEPT !.errs[S.ctx[b].addr] = Append(@, S.ctx[b].error), !.ctx[b].timer = FALSE]
    PROVE  Good(T) /\ SameAddr(S, T) /\ T.errs[S.ctx[b].addr] # <<>> /\ T.got = S.got
           /\ T.ctx[b].bufs = S.ctx[b].bufs /\ T.ctx[b].data = S.ctx[b].data
           /\ T.ctx[b].error = S.ctx[b].error /\ Only(S, T, b) /\ T.fc = S.fc /\ SameSlab(S, T)
<1> DEFINE a == S.ctx[b].addr
           d == [S.ctx[b] EXCEPT !.timer = FALSE]
<1>1. S.ctx \in [Blocks -> Ctx] /\ S \in RxRec /\ S.ctx[b] \in Ctx /\ a \in Peers
  BY DEF Good, RxRec, Named
<1>2. /\ d \in Ctx /\ d.addr = a /\ d.timer = FALSE /\ d.bufs = S.ctx[b].bufs /\ d.data = S.ctx[b].data
      /\ d.error = S.ctx[b].error
  BY <1>1 DEF Ctx
<1>3. /\ T.ctx = [S.ctx EXCEPT ![b] = d] /\ SameSlab(S, T) /\ T.fc = S.fc /\ T.got = S.got
      /\ T.errs = [S.errs EXCEPT ![a] = Append(S.errs[a], S.ctx[b].error)]
      /\ T = [ctx |-> T.ctx, list |-> T.list, head |-> T.head, link |-> T.link,
              aliased |-> T.aliased, fc |-> T.fc, got |-> T.got, errs |-> T.errs]
  BY <1>1 DEF RxRec, SameSlab
<1> HIDE DEF a, d
<1>4. T.errs \in [Peers -> Seq(RxError)] /\ T.errs[a] # <<>>
  <2>1. S.errs \in [Peers -> Seq(RxError)] /\ S.ctx[b].error \in RxError
    BY <1>1 DEF RxRec, Ctx
  <2>2. Append(S.errs[a], S.ctx[b].error) \in Seq(RxError)
        /\ Append(S.errs[a], S.ctx[b].error) # <<>>
    BY <1>1, <2>1
  <2> QED
    BY <1>1, <1>3, <2>1, <2>2
<1>5. T \in RxRec
  BY <1>1, <1>2, <1>3, <1>4 DEF RxRec, SameSlab
<1>6. T.ctx[b] = d /\ Apart(S, T, b)
  BY <1>1, <1>3 DEF Apart
<1>7. SameAddr(S, T)
  BY <1>2, <1>6 DEF SameAddr, Apart, a
<1>8. Good(T)
  <2>1. \A i \in DOMAIN S.fc : S.fc[i].ctx \in Blocks
    BY <1>1, FcBlocks
  <2> QED
    BY <1>1, <1>2, <1>3, <1>5, <1>6, <1>7, <2>1 DEF Good, Named, SameAddr, SameSlab, Apart
<1> QED
  BY <1>2, <1>3, <1>4, <1>6, <1>7, <1>8 DEF a, Only, SameSlab

\* The application is given nothing but released buffers.
NothingGiven(S, T) ==
    \A p \in Peers :
        /\ Len(S.got[p]) <= Len(T.got[p])
        /\ \A k \in DOMAIN T.got[p] :
              T.got[p][k] = IF k <= Len(S.got[p]) THEN S.got[p][k] ELSE Freed

\* No delivery is no delivery, however long.
LEMMA NothingTwice ==
    ASSUME NEW S, NEW T, NEW U, Good(S), Good(T), Good(U), NothingGiven(S, T), NothingGiven(T, U)
    PROVE  NothingGiven(S, U)
<1> SUFFICES ASSUME NEW p \in Peers
             PROVE  /\ Len(S.got[p]) <= Len(U.got[p])
                    /\ \A k \in DOMAIN U.got[p] :
                          U.got[p][k] = IF k <= Len(S.got[p]) THEN S.got[p][k] ELSE Freed
  BY DEF NothingGiven
<1> DEFINE s == S.got[p]
           t == T.got[p]
           u == U.got[p]
<1>1. s \in Seq(Seq(Piece)) /\ t \in Seq(Seq(Piece)) /\ u \in Seq(Seq(Piece))
  BY DEF Good, RxRec
<1>2. /\ Len(s) <= Len(t) /\ \A k \in DOMAIN t : t[k] = IF k <= Len(s) THEN s[k] ELSE Freed
      /\ Len(t) <= Len(u) /\ \A k \in DOMAIN u : u[k] = IF k <= Len(t) THEN t[k] ELSE Freed
  BY DEF NothingGiven
<1> HIDE DEF s, t, u
<1>3. /\ Len(s) \in Nat /\ Len(t) \in Nat /\ Len(u) \in Nat
      /\ DOMAIN t = 1 .. Len(t) /\ DOMAIN u = 1 .. Len(u)
  BY <1>1
<1>4. ASSUME NEW k \in DOMAIN u PROVE u[k] = IF k <= Len(s) THEN s[k] ELSE Freed
  <2>1. k \in 1 .. Len(u) /\ u[k] = IF k <= Len(t) THEN t[k] ELSE Freed
    BY <1>2, <1>3
  <2>2. CASE k <= Len(t)
    <3>1. k \in DOMAIN t
      BY <1>3, <2>1, <2>2
    <3> QED
      BY <1>2, <2>1, <2>2, <3>1
  <2>3. CASE ~(k <= Len(t))
    <3>1. ~(k <= Len(s))
      BY <1>2, <1>3, <2>1, <2>3
    <3> QED
      BY <2>1, <2>3, <3>1
  <2> QED
    BY <2>2, <2>3
<1>5. Len(s) <= Len(u)
  BY <1>2, <1>3
<1> QED
  BY <1>4, <1>5 DEF s, u

\* Nor do other blocks change, however often.
LEMMA OnlyTwice ==
    ASSUME NEW S, NEW T, NEW U, NEW b, Only(S, T, b), Only(T, U, b)
    PROVE  Only(S, U, b)
  BY DEF Only, Apart

\* One buffer more was passed to recv_callback of a.
OneMore(s, t, a, g) ==
    /\ Len(t[a]) = Len(s[a]) + 1 /\ t[a][Len(s[a]) + 1] = g
    /\ \A k \in 1 .. Len(s[a]) : t[a][k] = s[a][k]
    /\ \A p \in Peers : p # a => t[p] = s[p]

\* Appending a buffer.
LEMMA GotOne ==
    ASSUME NEW s \in [Peers -> Seq(Seq(Piece))], NEW a \in Peers, NEW g \in Seq(Piece)
    PROVE  OneMore(s, [s EXCEPT ![a] = Append(s[a], g)], a, g)
<1> DEFINE t == [s EXCEPT ![a] = Append(s[a], g)]
<1>1. t[a] = Append(s[a], g) /\ \A p \in Peers : p # a => t[p] = s[p]
  OBVIOUS
<1>2. s[a] \in Seq(Seq(Piece))
  OBVIOUS
<1> HIDE DEF t
<1>3. Len(t[a]) = Len(s[a]) + 1 /\ t[a][Len(s[a]) + 1] = g
      /\ \A k \in 1 .. Len(s[a]) : t[a][k] = s[a][k]
  BY <1>1, <1>2
<1> QED
  BY <1>1, <1>3 DEF OneMore, t

\* A context given back and then recycled: its buffer has been released.
LEMMA DropGood ==
    ASSUME NEW S, Good(S), NEW b \in Blocks, Named(S, b)
    PROVE  LET T == Recycle(free_recv_ctx(S, b), b) IN
           /\ Good(T) /\ SameAddr(S, T) /\ T.errs = S.errs /\ NothingGiven(S, T)
           /\ Only(S, T, b) /\ Gone(T, b)
<1> DEFINE U == free_recv_ctx(S, b)
           T == Recycle(U, b)
           a == S.ctx[b].addr
<1>1. /\ Good(U) /\ SameAddr(S, U) /\ U.ctx[b].bufs = 0 /\ U.got = S.got /\ U.errs = S.errs
      /\ Apart(S, U, b) /\ U.list = S.list \ {b}
  <2>1. U = free_recv_ctx(S, b)
    OBVIOUS
  <2> HIDE DEF U
  <2>2. /\ Good(U) /\ SameAddr(S, U) /\ Returned(S, U, b) /\ U.got = S.got /\ U.errs = S.errs
        /\ Apart(S, U, b)
    BY <2>1, FreeGood
  <2> QED
    BY <2>2 DEF Returned
<1>2. Named(U, b) /\ U.ctx[b].addr = a /\ a \in Peers
  BY <1>1 DEF Named, SameAddr
<1> HIDE DEF U, T, a
<1>3. Given(U, b) = Freed
  BY <1>1 DEF Given
<1>4. /\ Good(T) /\ SameAddr(U, T) /\ T.errs = U.errs
      /\ T.got = [U.got EXCEPT ![a] = Append(U.got[a], Freed)]
      /\ Apart(U, T, b) /\ T.list = U.list \ {b} /\ T.ctx[b].bufs = 0
  <2>1. Good(T) /\ Recycled(U, T, b)
    BY <1>1, <1>2, RecycleGood DEF T
  <2> QED
    BY <1>2, <1>3, <2>1 DEF Recycled, Returned
<1>5. Freed \in Seq(Piece)
  BY DEF Freed, Piece
<1>6. NothingGiven(S, T)
  <2> SUFFICES ASSUME NEW p \in Peers
               PROVE  /\ Len(S.got[p]) <= Len(T.got[p])
                      /\ \A k \in DOMAIN T.got[p] :
                            T.got[p][k] = IF k <= Len(S.got[p]) THEN S.got[p][k] ELSE Freed
    BY DEF NothingGiven
  <2>1. S.got[p] \in Seq(Seq(Piece)) /\ T.got[p] \in Seq(Seq(Piece))
    BY <1>4 DEF Good, RxRec
  <2>2. OneMore(S.got, T.got, a, Freed)
    <3>1. S.got \in [Peers -> Seq(Seq(Piece))] /\ T.got = [S.got EXCEPT ![a] = Append(S.got[a], Freed)]
      BY <1>1, <1>4 DEF Good, RxRec
    <3> DEFINE s == S.got
    <3>2. s \in [Peers -> Seq(Seq(Piece))] /\ T.got = [s EXCEPT ![a] = Append(s[a], Freed)]
      BY <3>1
    <3> HIDE DEF s
    <3>3. OneMore(s, [s EXCEPT ![a] = Append(s[a], Freed)], a, Freed)
      BY <1>2, <1>5, <3>2, GotOne
    <3>4. OneMore(s, T.got, a, Freed)
      BY <3>2, <3>3, Zenon
    <3> QED
      BY <3>4 DEF s
  <2>3. CASE p = a
    <3>1. Len(T.got[p]) = Len(S.got[p]) + 1 /\ T.got[p][Len(S.got[p]) + 1] = Freed
          /\ \A k \in 1 .. Len(S.got[p]) : T.got[p][k] = S.got[p][k]
      BY <2>2, <2>3 DEF OneMore
    <3>2. Len(S.got[p]) \in Nat /\ DOMAIN T.got[p] = 1 .. Len(T.got[p])
      BY <2>1
    <3>3. ASSUME NEW k \in DOMAIN T.got[p]
          PROVE  T.got[p][k] = IF k <= Len(S.got[p]) THEN S.got[p][k] ELSE Freed
      <4>1. k \in 1 .. Len(S.got[p]) + 1
        BY <3>1, <3>2
      <4>2. CASE k <= Len(S.got[p])
        BY <3>1, <3>2, <4>1, <4>2
      <4>3. CASE ~(k <= Len(S.got[p]))
        <5>1. k = Len(S.got[p]) + 1
          BY <3>2, <4>1, <4>3
        <5> QED
          BY <3>1, <4>3, <5>1
      <4> QED
        BY <4>2, <4>3
    <3> QED
      BY <3>1, <3>2, <3>3
  <2>4. CASE p # a
    BY <2>1, <2>2, <2>4 DEF OneMore
  <2> QED
    BY <2>3, <2>4
<1>7. SameAddr(S, T)
  BY <1>1, <1>4 DEF SameAddr
<1>8. Only(S, T, b) /\ Gone(T, b)
  BY <1>1, <1>4 DEF Only, Gone, Apart
<1> QED
  BY <1>1, <1>4, <1>6, <1>7, <1>8 DEF T, U

\* ISOTP_RX_STATE_ERR, entered from receive_send_fc.
LEMMA ErrorEndGood ==
    ASSUME NEW S, Good(S), NEW b \in Blocks, Named(S, b)
    PROVE  LET T == ErrorEnd(S, b) IN
           /\ Good(T) /\ SameAddr(S, T) /\ T.errs[S.ctx[b].addr] # <<>> /\ NothingGiven(S, T)
           /\ Only(S, T, b) /\ Gone(T, b)
<1> DEFINE a == S.ctx[b].addr
           U == [S EXCEPT !.errs[a] = Append(@, S.ctx[b].error), !.ctx[b].timer = FALSE]
           T == Recycle(free_recv_ctx(U, b), b)
<1>1. Good(U) /\ SameAddr(S, U) /\ U.errs[a] # <<>> /\ U.got = S.got /\ Only(S, U, b)
  BY ErrsGood
<1>2. ErrorEnd(S, b) = T
  BY DEF ErrorEnd
<1> HIDE DEF U, T, a
<1>3. Named(U, b)
  BY <1>1 DEF Named, SameAddr
<1>4. /\ Good(T) /\ SameAddr(U, T) /\ T.errs = U.errs /\ NothingGiven(U, T)
      /\ Only(U, T, b) /\ Gone(T, b)
  BY <1>1, <1>3, DropGood DEF T
<1>5. NothingGiven(S, T)
  BY <1>1, <1>4 DEF NothingGiven
<1>6. SameAddr(S, T)
  BY <1>1, <1>4 DEF SameAddr
<1>7. Only(S, T, b)
  BY <1>1, <1>4, OnlyTwice
<1> QED
  BY <1>1, <1>2, <1>4, <1>5, <1>6, <1>7 DEF a

\* T is S after receive_send_fc: with a frame more in the controller, or an error.
FcEffect(S, T, b, fs, ok) ==
    /\ SameAddr(S, T) /\ NothingGiven(S, T) /\ Only(S, T, b)
    /\ S.errs[S.ctx[b].addr] # <<>> => T.errs[S.ctx[b].addr] # <<>>
    /\ IF ok THEN /\ T.ctx = S.ctx /\ SameSlab(S, T) /\ T.errs = S.errs /\ T.got = S.got
                  /\ T.fc = Append(S.fc, [ctx |-> b, to |-> S.ctx[b].addr, fs |-> fs])
       ELSE T.errs[S.ctx[b].addr] # <<>> /\ Gone(T, b)

\* receive_send_fc puts a frame in the controller or ends the reception.
LEMMA FcGood ==
    ASSUME NEW S, Good(S), NEW b \in Blocks, Named(S, b), NEW fs \in {"CTS", "WAIT", "OVFLW"},
           NEW ok \in BOOLEAN
    PROVE  LET T == receive_send_fc(S, b, fs, ok) IN Good(T) /\ FcEffect(S, T, b, fs, ok)
<1> DEFINE T == receive_send_fc(S, b, fs, ok)
           f == [ctx |-> b, to |-> S.ctx[b].addr, fs |-> fs]
<1>1. S.ctx \in [Blocks -> Ctx] /\ S \in RxRec /\ S.ctx[b] \in Ctx /\ S.ctx[b].addr \in Peers
      /\ S.fc \in Seq(Fc)
  BY DEF Good, RxRec, Named
<1>2. CASE ok
  <2>1. T = [S EXCEPT !.fc = Append(S.fc, f)]
    BY <1>2 DEF receive_send_fc
  <2>2. f \in Fc /\ f.ctx = b
    BY <1>1 DEF Fc
  <2> HIDE DEF T, f
  <2>3. Append(S.fc, f) \in Seq(Fc)
    BY <1>1, <2>2
  <2>4. /\ T \in RxRec /\ T.ctx = S.ctx /\ SameSlab(S, T) /\ T.errs = S.errs /\ T.got = S.got
        /\ T.fc = Append(S.fc, f)
    BY <1>1, <2>1, <2>3 DEF RxRec, SameSlab
  <2>5. \A i \in DOMAIN T.fc : T.fc[i] = f \/ (i \in DOMAIN S.fc /\ T.fc[i] = S.fc[i])
    BY <1>1, <2>4
  <2>6. Good(T)
    BY <2>2, <2>4, <2>5 DEF Good, Named, SameSlab
  <2>7. SameAddr(S, T)
    BY <2>4 DEF SameAddr
  <2>8. NothingGiven(S, T)
    <3>1. \A p \in Peers : S.got[p] \in Seq(Seq(Piece))
      BY <1>1 DEF RxRec
    <3> QED
      BY <2>4, <3>1 DEF NothingGiven
  <2> QED
    BY <1>2, <2>4, <2>6, <2>7, <2>8 DEF FcEffect, T, f, Only, Apart, SameSlab
<1>3. CASE ~ok
  <2> DEFINE d == Report(S.ctx[b], "TIMEOUT_A")
             U == [S EXCEPT !.ctx[b] = d]
  <2>1. T = ErrorEnd(U, b)
    BY <1>3 DEF receive_send_fc
  <2>2. d \in Ctx /\ d.addr = S.ctx[b].addr
    BY <1>1, ReportType DEF Report, Ctx, RxError
  <2> HIDE DEF T, d
  <2>3. Good(U) /\ SameAddr(S, U) /\ U.got = S.got /\ Only(S, U, b)
    BY <1>1, <2>2, CtxGood DEF Changed, Only, SameSlab
  <2> HIDE DEF U
  <2>4. Named(U, b) /\ U.ctx[b].addr = S.ctx[b].addr
    BY <1>1, <2>3 DEF Named, SameAddr
  <2>5. /\ Good(T) /\ SameAddr(U, T) /\ T.errs[S.ctx[b].addr] # <<>> /\ NothingGiven(U, T)
        /\ Only(U, T, b) /\ Gone(T, b)
    BY <2>1, <2>3, <2>4, ErrorEndGood
  <2>6. SameAddr(S, T) /\ NothingGiven(S, T)
    BY <2>3, <2>5 DEF SameAddr, NothingGiven
  <2>7. Only(S, T, b)
    BY <2>3, <2>5, OnlyTwice
  <2> QED
    BY <1>3, <2>5, <2>6, <2>7 DEF FcEffect, T
<1> QED
  BY <1>2, <1>3

\* ISOTP_RX_STATE_ERR reports an error and delivers nothing.
LEMMA ErrorPathGood ==
    ASSUME NEW S, Good(S), NEW b \in Blocks, Named(S, b), NEW ok \in BOOLEAN
    PROVE  LET T == ErrorPath(S, b, ok) IN
           /\ Good(T) /\ SameAddr(S, T) /\ T.errs[S.ctx[b].addr] # <<>> /\ NothingGiven(S, T)
           /\ Only(S, T, b) /\ Gone(T, b)
<1> DEFINE a == S.ctx[b].addr
           T == [S EXCEPT !.errs[a] = Append(@, S.ctx[b].error), !.ctx[b].timer = FALSE]
           U == IF S.ctx[b].error = "BUFFER_OVERFLW" THEN receive_send_fc(T, b, "OVFLW", ok) ELSE T
           V == Recycle(free_recv_ctx(U, b), b)
<1>2. ErrorPath(S, b, ok) = V
  BY DEF ErrorPath
<1>0. T = [S EXCEPT !.errs[S.ctx[b].addr] = Append(@, S.ctx[b].error), !.ctx[b].timer = FALSE]
  OBVIOUS
<1> HIDE DEF T, V
<1>1. Good(T) /\ SameAddr(S, T) /\ T.errs[a] # <<>> /\ T.got = S.got /\ Only(S, T, b)
  <2> HIDE DEF U
  <2>1. Good(T) /\ SameAddr(S, T) /\ T.errs[S.ctx[b].addr] # <<>> /\ T.got = S.got /\ Only(S, T, b)
    BY <1>0, ErrsGood
  <2> QED
    BY <2>1
<1>3. Named(T, b) /\ T.ctx[b].addr = a
  BY <1>1 DEF Named, SameAddr
<1>4. NothingGiven(T, T)
  <2>1. \A p \in Peers : T.got[p] \in Seq(Seq(Piece))
    BY <1>1 DEF Good, RxRec
  <2> QED
    BY <2>1 DEF NothingGiven
<1>5. Good(U) /\ SameAddr(T, U) /\ U.errs[a] # <<>> /\ NothingGiven(T, U) /\ Only(T, U, b)
  <2>1. CASE S.ctx[b].error = "BUFFER_OVERFLW"
    <3>1. U = receive_send_fc(T, b, "OVFLW", ok)
      BY <2>1
    <3> HIDE DEF U
    <3> QED
      <4>1. /\ Good(U) /\ SameAddr(T, U) /\ NothingGiven(T, U) /\ Only(T, U, b)
            /\ T.errs[T.ctx[b].addr] # <<>> => U.errs[T.ctx[b].addr] # <<>>
        BY <1>1, <1>3, <3>1, FcGood DEF FcEffect
      <4> QED
        BY <1>1, <1>3, <4>1
  <2>2. CASE S.ctx[b].error # "BUFFER_OVERFLW"
    <3>1. U = T
      BY <2>2
    <3> HIDE DEF U
    <3> QED
      BY <1>1, <1>4, <3>1 DEF SameAddr, Only, Apart
  <2> QED
    BY <2>1, <2>2
<1> HIDE DEF U, V
<1>6. Named(U, b)
  BY <1>3, <1>5 DEF Named, SameAddr
<1>7. /\ Good(V) /\ SameAddr(U, V) /\ V.errs = U.errs /\ NothingGiven(U, V)
      /\ Only(U, V, b) /\ Gone(V, b)
  BY <1>5, <1>6, DropGood DEF V
<1>8. NothingGiven(T, V)
  BY <1>1, <1>5, <1>7, NothingTwice
<1>9. NothingGiven(S, V)
  BY <1>1, <1>8 DEF NothingGiven
<1>10. SameAddr(S, V)
  BY <1>1, <1>5, <1>7 DEF SameAddr
<1>11. Only(S, V, b)
  BY <1>1, <1>5, <1>7, OnlyTwice
<1> QED
  BY <1>2, <1>5, <1>7, <1>9, <1>10, <1>11 DEF a

-----------------------------------------------------------------------------
(* Frames *)

\* A peer's new context.
Fresh(c, p) == c.addr = p /\ c.state = "WAIT_FF_SF" /\ c.timer = FALSE /\ c.bufs = 1 /\ c.data = <<>>

\* get_recv_ctx takes a block from the slab.
LEMMA NewGood ==
    ASSUME NEW S, Good(S), NEW p \in Peers, S.head # Nil
    PROVE  LET T == NewRecvCtx(S, p)
               b == S.head
           IN
           /\ b \in Blocks /\ Good(T) /\ Apart(S, T, b)
           /\ T.ctx[b] \in Ctx /\ Fresh(T.ctx[b], p)
           /\ T.list = S.list \cup {b} /\ T.head = S.link[b] /\ T.link = S.link
           /\ T.aliased = (b \in S.list) /\ T.fc = S.fc /\ T.got = S.got /\ T.errs = S.errs
<1> DEFINE T == NewRecvCtx(S, p)
           b == S.head
           d == [S.ctx[b] EXCEPT !.addr = p, !.state = "WAIT_FF_SF", !.error = "OK",
                                 !.timer = FALSE, !.bufs = 1, !.data = <<>>]
<1>1. S.ctx \in [Blocks -> Ctx] /\ S \in RxRec /\ b \in Blocks /\ S.ctx[b] \in Ctx
  BY DEF Good, RxRec
<1>2. d \in Ctx /\ Fresh(d, p)
  <2>1. <<>> \in Seq(Piece) /\ "WAIT_FF_SF" \in RxState /\ "OK" \in RxError /\ p \in Peers \cup {Nil}
    BY DEF RxState, RxError
  <2>2. d \in Ctx
    BY <1>1, <2>1 DEF Ctx
  <2>3. d.addr = p /\ d.state = "WAIT_FF_SF" /\ d.timer = FALSE /\ d.bufs = 1 /\ d.data = <<>>
    BY <1>1 DEF Ctx
  <2> QED
    BY <2>2, <2>3 DEF Fresh
<1>3. T = [S EXCEPT !.head = S.link[b], !.list = S.list \cup {b}, !.aliased = b \in S.list,
                    !.ctx[b] = d]
  BY DEF NewRecvCtx
<1> HIDE DEF T, d
<1>4. /\ T.ctx = [S.ctx EXCEPT ![b] = d]
      /\ T.list = S.list \cup {b} /\ T.head = S.link[b] /\ T.link = S.link
      /\ T.aliased = (b \in S.list) /\ T.fc = S.fc /\ T.got = S.got /\ T.errs = S.errs
  BY <1>1, <1>3 DEF RxRec
<1>5. T = [ctx |-> T.ctx, list |-> T.list, head |-> T.head, link |-> T.link,
           aliased |-> T.aliased, fc |-> T.fc, got |-> T.got, errs |-> T.errs]
  <2>1. /\ T = [x \in DOMAIN T |-> T[x]]
        /\ DOMAIN T = {"ctx", "list", "head", "link", "aliased", "fc", "got", "errs"}
    BY <1>1, <1>3 DEF RxRec
  <2> QED
    BY <2>1, RecordOf
<1> HIDE DEF b
<1>6. T \in RxRec
  <2>1. T.ctx \in [Blocks -> Ctx] /\ T.list \in SUBSET Blocks
    BY <1>1, <1>2, <1>4 DEF RxRec
  <2>2. S.link \in [Blocks -> Blocks \cup {Nil}]
    BY <1>1 DEF RxRec
  <2>3. T.head \in Blocks \cup {Nil} /\ T.link \in [Blocks -> Blocks \cup {Nil}]
    BY <1>1, <1>4, <2>2
  <2>4. T.aliased \in BOOLEAN /\ T.fc \in Seq(Fc) /\ T.got \in [Peers -> Seq(Seq(Piece))]
        /\ T.errs \in [Peers -> Seq(RxError)]
    BY <1>1, <1>4 DEF RxRec
  <2> QED
    BY <1>5, <2>1, <2>3, <2>4 DEF RxRec
<1>7. T.ctx[b] = d /\ Apart(S, T, b)
  BY <1>1, <1>4 DEF Apart
<1>8. Good(T)
  <2>1. \A i \in DOMAIN S.fc : S.fc[i].ctx \in Blocks
    BY <1>1, FcBlocks
  <2> QED
    BY <1>2, <1>4, <1>6, <1>7, <2>1 DEF Good, Named, Apart, Fresh
<1> QED
  BY <1>1, <1>2, <1>4, <1>7, <1>8 DEF T, b

\* A frame handled for a context that has a buffer for it.
LEMMA HandleGood ==
    ASSUME env \in Env, NEW S, Good(S), NEW b \in Blocks, Named(S, b), NEW f, IsFrame(f),
           Handle(S, b, f)
    PROVE  /\ Good(rx') /\ SameAddr(S, rx') /\ SameSlab(S, rx') /\ Apart(S, rx', b)
           /\ rx'.ctx[b] = receive_can_rx(S.ctx[b], f)
           /\ rx'.fc = S.fc /\ rx'.got = S.got /\ rx'.errs = S.errs
           /\ wq' = Submit(wq, b) \/ (wq' = wq /\ rx'.ctx[b].state = "WAIT_CF")
<1> DEFINE d == receive_can_rx(S.ctx[b], f)
<1>1. S.ctx[b] \in Ctx /\ S.ctx[b].addr \in Peers
  BY DEF Good, RxRec, Named
<1>2. d \in Ctx /\ d.addr = S.ctx[b].addr
  BY <1>1, RxType
<1>3. /\ rx' = [S EXCEPT !.ctx[b] = d]
      /\ wq' = Submit(wq, b) \/ (wq' = wq /\ d.state = "WAIT_CF")
  BY DEF Handle
<1> HIDE DEF d
<1>4. /\ Good(rx') /\ SameAddr(S, rx') /\ SameSlab(S, rx') /\ Apart(S, rx', b) /\ rx'.ctx[b] = d
      /\ rx'.fc = S.fc /\ rx'.got = S.got /\ rx'.errs = S.errs
  BY <1>1, <1>2, <1>3, CtxGood DEF Changed
<1> QED
  BY <1>3, <1>4 DEF d

\* The context c with one more buffer.
OneMoreBuf(c, d) ==
    /\ d \in Ctx /\ d.bufs = c.bufs + 1
    /\ d.addr = c.addr /\ d.state = c.state /\ d.error = c.error /\ d.rem = c.rem /\ d.sn = c.sn
    /\ d.bs = c.bs /\ d.wft = c.wft /\ d.timer = c.timer /\ d.data = c.data

\* The frame f of p is handled in the context b, which p had before ...
TakenByOld(p, f, b) ==
    /\ b \in CtxOf(p) /\ SameSlab(rx, rx')
    /\ \E c \in Ctx : OneMoreBuf(rx.ctx[b], c) /\ rx'.ctx[b] = receive_can_rx(c, f)

\* ... or which it gets.
TakenByNew(p, f, b) ==
    /\ CtxOf(p) = {} /\ b = rx.head /\ rx'.list = rx.list \cup {b} /\ rx'.head = rx.link[b]
    /\ rx'.link = rx.link /\ rx'.aliased = (b \in rx.list)
    /\ \E c \in Ctx : Fresh(c, p) /\ rx'.ctx[b] = receive_can_rx(c, f)

FrameTaken(p, f, b) ==
    /\ Good(rx') /\ Apart(rx, rx', b) /\ rx'.ctx[b].addr = p
    /\ rx'.fc = rx.fc /\ rx'.got = rx.got /\ rx'.errs = rx.errs
    /\ wq' = Submit(wq, b) \/ (wq' = wq /\ rx'.ctx[b].state = "WAIT_CF")
    /\ TakenByOld(p, f, b) \/ TakenByNew(p, f, b)

\* What can_rx_callback does: the frame is dropped, or costs the peer its context,
\* or is handled.
LEMMA FrameEffect ==
    ASSUME env \in Env, Good(rx), NEW p \in Peers, NEW f, IsFrame(f), FrameRx(p, f)
    PROVE  \/ rx' = rx /\ wq' = wq /\ (NoNetBufLeft \/ (rx.head = Nil /\ CtxOf(p) = {}))
           \/ \E b \in CtxOf(p) : rx' = free_recv_ctx(rx, b) /\ wq' = wq /\ NoNetBufLeft
           \/ \E b \in Blocks : FrameTaken(p, f, b)
<1>0. rx.ctx \in [Blocks -> Ctx] /\ rx.list \subseteq Blocks
  BY DEF Good, RxRec
<1>1. ASSUME NEW b \in CtxOf(p), Handle([rx EXCEPT !.ctx[b].bufs = @ + 1], b, f)
      PROVE  FrameTaken(p, f, b)
  <2> DEFINE d == [rx.ctx[b] EXCEPT !.bufs = @ + 1]
             S == [rx EXCEPT !.ctx[b] = d]
  <2>1. b \in Blocks /\ rx.ctx[b] \in Ctx /\ rx.ctx[b].addr = p /\ b \in rx.list
    BY <1>0 DEF CtxOf
  <2>2. OneMoreBuf(rx.ctx[b], d)
    BY <2>1 DEF Ctx, OneMoreBuf
  <2>3. Handle(S, b, f)
    <3>1. S = [rx EXCEPT !.ctx[b].bufs = @ + 1]
      BY <1>0, <2>1 DEF Good, RxRec, Ctx
    <3> QED
      BY <1>1, <3>1
  <2>4. d \in Ctx /\ d.addr = p
    BY <2>1, <2>2 DEF OneMoreBuf
  <2> HIDE DEF d
  <2>5. S = [rx EXCEPT !.ctx[b] = d]
    OBVIOUS
  <2> HIDE DEF S
  <2>6. /\ Good(S) /\ SameAddr(rx, S) /\ SameSlab(rx, S) /\ Apart(rx, S, b) /\ S.ctx[b] = d
        /\ S.fc = rx.fc /\ S.got = rx.got /\ S.errs = rx.errs
    BY <2>1, <2>4, <2>5, CtxGood DEF Changed
  <2>7. Named(S, b)
    BY <2>4, <2>6 DEF Named
  <2>8. /\ Good(rx') /\ SameAddr(S, rx') /\ SameSlab(S, rx') /\ Apart(S, rx', b)
        /\ rx'.ctx[b] = receive_can_rx(d, f)
        /\ rx'.fc = S.fc /\ rx'.got = S.got /\ rx'.errs = S.errs
        /\ wq' = Submit(wq, b) \/ (wq' = wq /\ rx'.ctx[b].state = "WAIT_CF")
    BY <2>1, <2>3, <2>6, <2>7, HandleGood
  <2>9. Apart(rx, rx', b) /\ SameSlab(rx, rx') /\ rx'.ctx[b].addr = p
    BY <2>1, <2>4, <2>6, <2>8 DEF Apart, SameSlab, SameAddr
  <2>10. TakenByOld(p, f, b)
    BY <2>2, <2>4, <2>8, <2>9 DEF TakenByOld
  <2> QED
    BY <2>6, <2>8, <2>9, <2>10 DEF FrameTaken
<1>2. ASSUME CtxOf(p) = {}, rx.head # Nil, Handle(NewRecvCtx(rx, p), rx.head, f)
      PROVE  rx.head \in Blocks /\ FrameTaken(p, f, rx.head)
  <2> DEFINE b == rx.head
             S == NewRecvCtx(rx, p)
  <2>1. /\ b \in Blocks /\ Good(S) /\ Apart(rx, S, b)
        /\ S.ctx[b] \in Ctx /\ Fresh(S.ctx[b], p)
        /\ S.list = rx.list \cup {b} /\ S.head = rx.link[b] /\ S.link = rx.link
        /\ S.aliased = (b \in rx.list) /\ S.fc = rx.fc /\ S.got = rx.got /\ S.errs = rx.errs
    BY <1>2, NewGood
  <2>2. Handle(S, b, f)
    BY <1>2
  <2>3. Named(S, b)
    BY <2>1 DEF Named, Fresh
  <2> HIDE DEF S, b
  <2>4. /\ Good(rx') /\ SameAddr(S, rx') /\ SameSlab(S, rx') /\ Apart(S, rx', b)
        /\ rx'.ctx[b] = receive_can_rx(S.ctx[b], f)
        /\ rx'.fc = S.fc /\ rx'.got = S.got /\ rx'.errs = S.errs
        /\ wq' = Submit(wq, b) \/ (wq' = wq /\ rx'.ctx[b].state = "WAIT_CF")
    BY <2>1, <2>2, <2>3, HandleGood
  <2>5. Apart(rx, rx', b) /\ rx'.ctx[b].addr = p
    BY <2>1, <2>4 DEF Apart, SameAddr, Fresh
  <2>6. TakenByNew(p, f, b)
    BY <1>2, <2>1, <2>4 DEF TakenByNew, SameSlab, b
  <2>7. FrameTaken(p, f, b)
    BY <2>1, <2>4, <2>5, <2>6 DEF FrameTaken
  <2> QED
    BY <2>1, <2>7 DEF b
<1>3. CASE \E b \in CtxOf(p) : IF NoNetBufLeft THEN rx' = free_recv_ctx(rx, b) /\ wq' = wq
                               ELSE Handle([rx EXCEPT !.ctx[b].bufs = @ + 1], b, f)
  <2>1. PICK b \in CtxOf(p) : IF NoNetBufLeft THEN rx' = free_recv_ctx(rx, b) /\ wq' = wq
                              ELSE Handle([rx EXCEPT !.ctx[b].bufs = @ + 1], b, f)
    BY <1>3
  <2>2. b \in Blocks
    BY <1>0 DEF CtxOf
  <2>3. CASE NoNetBufLeft
    BY <2>1, <2>3
  <2>4. CASE ~NoNetBufLeft
    <3>1. FrameTaken(p, f, b)
      BY <1>1, <2>1, <2>4
    <3> QED
      BY <2>2, <3>1
  <2> QED
    BY <2>3, <2>4
<1>4. CASE CtxOf(p) = {} /\ IF rx.head = Nil \/ NoNetBufLeft THEN UNCHANGED <<rx, wq>>
                            ELSE Handle(NewRecvCtx(rx, p), rx.head, f)
  BY <1>2, <1>4
<1> QED
  BY <1>3, <1>4 DEF FrameRx

-----------------------------------------------------------------------------
(* The work queue *)

\* The reception in c goes on in d.
Kept(c, d) ==
    d.addr = c.addr /\ d.rem = c.rem /\ d.sn = c.sn /\ d.bufs = c.bufs /\ d.data = c.data

Complete   == {"PROCESS_SF", "RECYCLE"}
Collecting == {"PROCESS_FF", "TRY_ALLOC", "SEND_FC", "WAIT_CF", "SEND_WAIT"}

\* The work item ends the reception in b and delivers it ...
WorkEnds(b) ==
    /\ rx.ctx[b].state \in Complete /\ rx'.ctx[b].state = "UNBOUND"
    /\ Apart(rx, rx', b) /\ Returned(rx, rx', b) /\ rx'.fc = rx.fc /\ rx'.errs = rx.errs
    /\ rx'.got = [rx.got EXCEPT ![rx.ctx[b].addr] = Append(rx.got[rx.ctx[b].addr], Given(rx, b))]
    /\ cur' = cur

\* ... or sends a flow-control frame ...
WorkGoesOn(b) ==
    /\ rx.ctx[b].state \in Collecting /\ rx'.ctx[b].state \in {"SEND_FC", "SEND_WAIT"}
    /\ Apart(rx, rx', b) /\ SameSlab(rx, rx') /\ Kept(rx.ctx[b], rx'.ctx[b])
    /\ rx'.errs = rx.errs /\ rx'.got = rx.got
    /\ cur' \in Cur /\ cur'.pc = "fc" /\ cur'.b = b

\* ... or reports an error and delivers nothing ...
WorkFails(b) ==
    /\ rx'.errs[rx.ctx[b].addr] # <<>> /\ NothingGiven(rx, rx')
    /\ Only(rx, rx', b) /\ Gone(rx', b)
    /\ cur' = cur \/ (cur' \in Cur /\ cur'.pc = "fc" /\ cur'.b = b)

\* ... or has nothing to do.
WorkEffect(b) == WorkEnds(b) \/ WorkGoesOn(b) \/ WorkFails(b) \/ (rx' = rx /\ cur' = cur)

\* can_send succeeds or fails.
LEMMA SendResults == CanSendResults \subseteq BOOLEAN
  BY DEF CanSendResults

\* A context that changes before a flow-control frame is sent.
LEMMA SendFcEffect ==
    ASSUME Good(rx), NEW b \in Blocks, Named(rx, b), rx.ctx[b].state \in Collecting,
           NEW d \in Ctx, Kept(rx.ctx[b], d), d.timer => rx.ctx[b].timer,
           d.state \in {"SEND_FC", "SEND_WAIT"}, NEW S, S = [rx EXCEPT !.ctx[b] = d],
           NEW fs \in {"CTS", "WAIT", "OVFLW"}, NEW ok \in BOOLEAN,
           rx' = receive_send_fc(S, b, fs, ok), cur' \in Cur, cur'.pc = "fc", cur'.b = b
    PROVE  Good(rx') /\ SameAddr(rx, rx') /\ (WorkGoesOn(b) \/ WorkFails(b))
<1>1. /\ Good(S) /\ SameAddr(rx, S) /\ SameSlab(rx, S) /\ Apart(rx, S, b) /\ S.ctx[b] = d
      /\ S.fc = rx.fc /\ S.got = rx.got /\ S.errs = rx.errs
  <2>1. d.addr = rx.ctx[b].addr /\ (d.timer => d.addr \in Peers)
    BY DEF Kept, Named
  <2> QED
    <3>1. Good(S) /\ Changed(rx, S, b, d)
      BY <2>1, CtxGood
    <3> QED
      BY <3>1 DEF Changed
<1>2. Named(S, b) /\ S.ctx[b].addr = rx.ctx[b].addr
  BY <1>1 DEF Named, SameAddr
<1>3. /\ Good(rx') /\ SameAddr(S, rx') /\ NothingGiven(S, rx')
      /\ Only(S, rx', b)
      /\ IF ok THEN rx'.ctx = S.ctx /\ SameSlab(S, rx') /\ rx'.errs = S.errs
         ELSE rx'.errs[S.ctx[b].addr] # <<>> /\ Gone(rx', b)
  <2>1. Good(rx') /\ FcEffect(S, rx', b, fs, ok)
    BY <1>1, <1>2, FcGood
  <2> QED
    BY <2>1 DEF FcEffect
<1>4. SameAddr(rx, rx')
  BY <1>1, <1>3 DEF SameAddr
<1>5. CASE ok
  <2>1. rx'.got = S.got
    BY <1>5 DEF receive_send_fc, Good, RxRec
  <2> QED
    BY <1>1, <1>3, <1>4, <1>5, <2>1 DEF WorkGoesOn, Apart, SameSlab
<1>6. CASE ~ok
  <2>1. NothingGiven(rx, rx')
    BY <1>1, <1>3 DEF NothingGiven
  <2>2. Only(rx, rx', b)
    BY <1>1, <1>3 DEF Only, Apart, SameSlab
  <2> QED
    BY <1>2, <1>3, <1>4, <1>6, <2>1, <2>2 DEF WorkFails
<1> QED
  BY <1>5, <1>6

\* An error is noted in the context and reported.
LEMMA FailEffect ==
    ASSUME Good(rx), NEW b \in Blocks, Named(rx, b), NEW d \in Ctx, d.addr = rx.ctx[b].addr,
           d.timer => rx.ctx[b].timer, NEW S, S = [rx EXCEPT !.ctx[b] = d], NEW ok \in BOOLEAN,
           rx' = ErrorPath(S, b, ok), cur' = cur
    PROVE  Good(rx') /\ SameAddr(rx, rx') /\ WorkFails(b)
<1>1. /\ Good(S) /\ SameAddr(rx, S) /\ S.got = rx.got /\ Only(rx, S, b)
  <2>1. d.timer => d.addr \in Peers
    BY DEF Named
  <2> QED
    <3>1. Good(S) /\ Changed(rx, S, b, d)
      BY <2>1, CtxGood
    <3> QED
      BY <3>1 DEF Changed, Only, SameSlab
<1>2. Named(S, b) /\ S.ctx[b].addr = rx.ctx[b].addr
  BY <1>1 DEF Named, SameAddr
<1>3. /\ Good(rx') /\ SameAddr(S, rx') /\ rx'.errs[S.ctx[b].addr] # <<>> /\ NothingGiven(S, rx')
      /\ Only(S, rx', b) /\ Gone(rx', b)
  BY <1>1, <1>2, ErrorPathGood
<1>4. SameAddr(rx, rx') /\ NothingGiven(rx, rx')
  BY <1>1, <1>3 DEF SameAddr, NothingGiven
<1>5. Only(rx, rx', b)
  BY <1>1, <1>3, OnlyTwice
<1> QED
  BY <1>2, <1>3, <1>4, <1>5 DEF WorkFails

\* A reception that is complete.
LEMMA EndEffect ==
    ASSUME Good(rx), NEW b \in Blocks, Named(rx, b), rx.ctx[b].state \in Complete,
           NEW d \in Ctx, d.addr = rx.ctx[b].addr, d.timer = rx.ctx[b].timer,
           d.bufs = rx.ctx[b].bufs, d.data = rx.ctx[b].data,
           NEW S, S = [rx EXCEPT !.ctx[b] = d], rx' = Recycle(S, b), cur' = cur
    PROVE  Good(rx') /\ SameAddr(rx, rx') /\ WorkEnds(b)
<1>1. /\ Good(S) /\ SameAddr(rx, S) /\ SameSlab(rx, S) /\ Apart(rx, S, b) /\ S.ctx[b] = d
      /\ S.fc = rx.fc /\ S.got = rx.got /\ S.errs = rx.errs
  <2>1. d.timer => d.addr \in Peers
    BY DEF Good, Named
  <2> QED
    <3>1. Good(S) /\ Changed(rx, S, b, d)
      BY <2>1, CtxGood
    <3> QED
      BY <3>1 DEF Changed
<1>2. Named(S, b) /\ S.ctx[b].addr = rx.ctx[b].addr /\ Given(S, b) = Given(rx, b)
  BY <1>1 DEF Named, SameAddr, Given
<1>3. /\ Good(rx') /\ SameAddr(S, rx') /\ Apart(S, rx', b) /\ Returned(S, rx', b)
      /\ rx'.ctx[b].state = "UNBOUND" /\ rx'.fc = S.fc /\ rx'.errs = S.errs
      /\ rx'.got = [S.got EXCEPT ![S.ctx[b].addr] = Append(S.got[S.ctx[b].addr], Given(S, b))]
  <2>1. Good(rx') /\ Recycled(S, rx', b)
    BY <1>1, <1>2, RecycleGood
  <2> QED
    BY <2>1 DEF Recycled
<1>4. SameAddr(rx, rx') /\ Apart(rx, rx', b) /\ Returned(rx, rx', b)
  BY <1>1, <1>3 DEF SameAddr, Apart, Returned, SameSlab
<1> QED
  BY <1>1, <1>2, <1>3, <1>4 DEF WorkEnds

\* The context b, unchanged.
LEMMA SameCtx == ASSUME Good(rx), NEW b \in Blocks PROVE rx = [rx EXCEPT !.ctx[b] = rx.ctx[b]]
  BY DEF Good, RxRec

\* What receive_state_machine does for a context, whatever its state.
LEMMA WorkSteps ==
    ASSUME env \in Env, Good(rx), cur \in Cur, NEW b \in Blocks, Named(rx, b), Work(b)
    PROVE  /\ Good(rx') /\ SameAddr(rx, rx') /\ WorkEffect(b)
           /\ cur = Idle /\ Usable /\ wq # <<>> /\ b = Head(wq) /\ wq' = Tail(wq)
           /\ env' = env /\ peer' = peer
<1> DEFINE c == rx.ctx[b]
<1>1. c \in Ctx /\ c.addr \in Peers /\ rx.ctx \in [Blocks -> Ctx]
  BY DEF Good, RxRec, Named
<1>2. /\ cur = Idle /\ Usable /\ wq # <<>> /\ b = Head(wq) /\ wq' = Tail(wq)
      /\ env' = env /\ peer' = peer
  BY DEF Work, WorkSf, WorkFfTooLong, WorkFf, WorkTryAlloc, WorkSendWait, WorkErr,
         WorkRecycle, WorkNothing, Running
<1> SUFFICES Good(rx') /\ SameAddr(rx, rx') /\ WorkEffect(b)
  BY <1>2
<1>3. ASSUME NEW x \in {"WAIT_CF", "TRY_ALLOC"}, cur' = [pc |-> "fc", b |-> b, to |-> x]
      PROVE  cur' \in Cur /\ cur'.pc = "fc" /\ cur'.b = b
  BY <1>3 DEF Cur
<1>4. CASE WorkSf(b)
  <2> DEFINE d == [c EXCEPT !.rem = 0]
  <2>1. /\ d \in Ctx /\ d.addr = c.addr /\ d.timer = c.timer /\ d.bufs = c.bufs /\ d.data = c.data
    BY <1>1 DEF Ctx
  <2>2. c.state \in Complete /\ rx' = Recycle([rx EXCEPT !.ctx[b] = d], b) /\ cur' = cur
    BY <1>4 DEF WorkSf, Running, Complete
  <2> HIDE DEF d
  <2> QED
    BY <2>1, <2>2, EndEffect DEF WorkEffect, Good
<1>5. CASE WorkRecycle(b)
  <2>1. c.state \in Complete /\ rx' = Recycle(rx, b) /\ cur' = cur
    BY <1>5 DEF WorkRecycle, Running, Complete
  <2>2. rx = [rx EXCEPT !.ctx[b] = c]
    BY SameCtx
  <2> HIDE DEF c
  <2>3. Good(rx') /\ SameAddr(rx, rx') /\ WorkEnds(b)
    BY <1>1, <2>1, <2>2, EndEffect DEF c
  <2> QED
    BY <2>3 DEF WorkEffect
<1>6. CASE WorkErr(b)
  <2>1. PICK ok \in CanSendResults : rx' = ErrorPath(rx, b, ok)
    BY <1>6 DEF WorkErr
  <2>2. rx = [rx EXCEPT !.ctx[b] = c] /\ ok \in BOOLEAN /\ cur' = cur
    BY <1>6, SameCtx, SendResults DEF WorkErr
  <2> HIDE DEF c
  <2>3. Good(rx') /\ SameAddr(rx, rx') /\ WorkFails(b)
    BY <1>1, <2>1, <2>2, FailEffect DEF c
  <2> QED
    BY <2>3 DEF WorkEffect
<1>7. CASE WorkFfTooLong(b)
  <2> DEFINE d == Report(c, "BUFFER_OVERFLW")
  <2>1. d \in Ctx /\ d.addr = c.addr /\ d.timer = c.timer
    BY <1>1, ReportType DEF Report, RxError, Ctx
  <2>2. PICK ok \in CanSendResults : rx' = ErrorPath([rx EXCEPT !.ctx[b] = d], b, ok)
    BY <1>7 DEF WorkFfTooLong
  <2>3. ok \in BOOLEAN /\ cur' = cur
    BY <1>7, SendResults DEF WorkFfTooLong
  <2> HIDE DEF d
  <2>4. Good(rx') /\ SameAddr(rx, rx') /\ WorkFails(b)
    BY <2>1, <2>2, <2>3, FailEffect
  <2> QED
    BY <2>4 DEF WorkEffect
<1>8. CASE WorkFf(b)
  <2> DEFINE e == [c EXCEPT !.bs = IF RxBs # 0 THEN RxBs ELSE @, !.wft = WFT_FIRST]
             d == [e EXCEPT !.timer = FALSE, !.state = "SEND_FC"]
             S == [rx EXCEPT !.ctx[b].bs = IF RxBs # 0 THEN RxBs ELSE @, !.ctx[b].wft = WFT_FIRST]
  <2>1. e \in Ctx /\ Kept(c, e)
    BY <1>1, WrapTypes DEF Ctx, Kept, Env, RxBs
  <2>2. d \in Ctx /\ Kept(c, d) /\ d.timer = FALSE /\ d.state = "SEND_FC"
    BY <2>1 DEF Ctx, Kept, RxState
  <2>3. c.state \in Collecting /\ SendCts(S, b)
    BY <1>8 DEF WorkFf, Running, Collecting
  <2>4. [S EXCEPT !.ctx[b].timer = FALSE, !.ctx[b].state = "SEND_FC"] = [rx EXCEPT !.ctx[b] = d]
    <3>1. S = [rx EXCEPT !.ctx[b] = e]
      BY <1>1 DEF Good, RxRec, Ctx
    <3> HIDE DEF S, e
    <3> QED
      BY <1>1, <2>1, <3>1 DEF Good, RxRec, Ctx
  <2> HIDE DEF d, e
  <2>5. PICK ok \in BOOLEAN : rx' = receive_send_fc([rx EXCEPT !.ctx[b] = d], b, "CTS", ok)
    BY <2>3, <2>4, SendResults DEF SendCts
  <2>6. cur' \in Cur /\ cur'.pc = "fc" /\ cur'.b = b
    BY <1>3, <2>3 DEF SendCts
  <2>7. Good(rx') /\ SameAddr(rx, rx') /\ (WorkGoesOn(b) \/ WorkFails(b))
    BY <2>2, <2>3, <2>5, <2>6, SendFcEffect
  <2> QED
    BY <2>7 DEF WorkEffect
<1>9. CASE WorkTryAlloc(b)
  <2> DEFINE d == [c EXCEPT !.timer = FALSE, !.state = "SEND_FC"]
  <2>1. d \in Ctx /\ Kept(c, d) /\ d.timer = FALSE /\ d.state = "SEND_FC"
    BY <1>1 DEF Ctx, Kept, RxState
  <2>2. c.state \in Collecting /\ SendCts(rx, b)
    BY <1>9 DEF WorkTryAlloc, Running, Collecting
  <2>3. [rx EXCEPT !.ctx[b].timer = FALSE, !.ctx[b].state = "SEND_FC"] = [rx EXCEPT !.ctx[b] = d]
    BY <1>1 DEF Good, RxRec, Ctx
  <2> HIDE DEF d
  <2>4. PICK ok \in BOOLEAN : rx' = receive_send_fc([rx EXCEPT !.ctx[b] = d], b, "CTS", ok)
    BY <2>2, <2>3, SendResults DEF SendCts
  <2>5. cur' \in Cur /\ cur'.pc = "fc" /\ cur'.b = b
    BY <1>3, <2>2 DEF SendCts
  <2>6. Good(rx') /\ SameAddr(rx, rx') /\ (WorkGoesOn(b) \/ WorkFails(b))
    BY <2>1, <2>2, <2>4, <2>5, SendFcEffect
  <2> QED
    BY <2>6 DEF WorkEffect
<1>10. CASE WorkSendWait(b)
  <2> DEFINE d == [c EXCEPT !.wft = Inc8(@)]
             S == [rx EXCEPT !.ctx[b].wft = Inc8(@)]
  <2>1. d \in Ctx /\ Kept(c, d) /\ d.timer = c.timer /\ d.state = c.state
    BY <1>1, WrapTypes DEF Ctx, Kept
  <2>2. S = [rx EXCEPT !.ctx[b] = d]
    BY <1>1 DEF Good, RxRec, Ctx
  <2>3. c.state = "SEND_WAIT"
    BY <1>10 DEF WorkSendWait, Running
  <2>4. PICK ok \in CanSendResults :
          IF S.ctx[b].wft < WFTMAX
          THEN /\ rx' = receive_send_fc(S, b, "WAIT", ok)
               /\ cur' = [pc |-> "fc", b |-> b, to |-> "TRY_ALLOC"]
          ELSE /\ rx' = ErrorPath([S EXCEPT !.ctx[b] = Report(@, "BUFFER_OVERFLW")], b, ok)
               /\ cur' = cur
    BY <1>10 DEF WorkSendWait
  <2>5. ok \in BOOLEAN
    BY SendResults
  <2>6. CASE S.ctx[b].wft < WFTMAX
    <3>1. rx' = receive_send_fc([rx EXCEPT !.ctx[b] = d], b, "WAIT", ok)
      BY <2>2, <2>4, <2>6
    <3>2. cur' \in Cur /\ cur'.pc = "fc" /\ cur'.b = b
      BY <1>3, <2>4, <2>6
    <3>3. c.state \in Collecting
      BY <2>3 DEF Collecting
    <3> HIDE DEF d, S
    <3>4. Good(rx') /\ SameAddr(rx, rx') /\ (WorkGoesOn(b) \/ WorkFails(b))
      BY <2>1, <2>3, <2>5, <3>1, <3>2, <3>3, SendFcEffect
    <3> QED
      BY <3>4 DEF WorkEffect
  <2>7. CASE ~(S.ctx[b].wft < WFTMAX)
    <3> DEFINE e == Report(d, "BUFFER_OVERFLW")
    <3>1. e \in Ctx /\ e.addr = c.addr /\ e.timer = c.timer
      <4>1. d \in Ctx /\ d.addr = c.addr /\ d.timer = c.timer
        BY <2>1 DEF Kept
      <4> HIDE DEF d
      <4>2. e \in Ctx
        BY <4>1, ReportType DEF RxError
      <4> QED
        BY <4>1, <4>2 DEF Report, Ctx
    <3>2. [S EXCEPT !.ctx[b] = Report(@, "BUFFER_OVERFLW")] = [rx EXCEPT !.ctx[b] = e]
      <4> HIDE DEF d, S
      <4> QED
        BY <1>1, <2>1, <2>2 DEF Good, RxRec
    <3>3. rx' = ErrorPath([rx EXCEPT !.ctx[b] = e], b, ok) /\ cur' = cur
      BY <2>4, <2>7, <3>2
    <3> HIDE DEF e, d, S
    <3>4. Good(rx') /\ SameAddr(rx, rx') /\ WorkFails(b)
      BY <2>5, <3>1, <3>3, FailEffect
    <3> QED
      BY <3>4 DEF WorkEffect
  <2> QED
    BY <2>6, <2>7
<1>11. CASE WorkNothing(b)
  BY <1>11 DEF WorkNothing, WorkEffect, SameAddr
<1> QED
  BY <1>4, <1>5, <1>6, <1>7, <1>8, <1>9, <1>10, <1>11 DEF Work

-----------------------------------------------------------------------------
(* The other steps *)

PeerRec == [msg : 0 .. MaxMsgs, len : Lengths \cup {0}, i : Nat, open : Nat]

\* The state, with what is needed to prove that it stays well-typed: blocks in a
\* queue, in a frame or with a timer have been given to a peer.
TypeInv ==
    /\ env \in Env /\ Good(rx)
    /\ wq \in Seq(Blocks) /\ \A i \in DOMAIN wq : Named(rx, wq[i])
    /\ cur \in Cur /\ (cur.pc = "fc" => Named(rx, cur.b))
    /\ peer \in [Peers -> PeerRec] /\ \A p \in Peers : peer[p].i >= 2

\* Only interrupts that preempt the work queue find it working.
Served == cur = Idle \/ "preempt" \in Faults

\* Blocks stay given to a peer.
NamedKept == \A b \in Blocks : Named(rx, b) => Named(rx', b)

\* Given to the same peers, blocks stay given.
LEMMA SameNamed == SameAddr(rx, rx') => NamedKept
  BY DEF SameAddr, NamedKept, Named

\* The work queue is as it was, without its head, or has one more item.
LEMMA QueueNext ==
    ASSUME TypeInv, NamedKept,
           \/ wq' = wq
           \/ wq # <<>> /\ wq' = Tail(wq)
           \/ \E b \in Blocks : Named(rx', b) /\ wq' = Submit(wq, b)
    PROVE  wq' \in Seq(Blocks) /\ \A i \in DOMAIN wq' : Named(rx', wq'[i])
<1>1. wq \in Seq(Blocks) /\ \A i \in DOMAIN wq : wq[i] \in Blocks /\ Named(rx', wq[i])
  BY DEF TypeInv, NamedKept
<1>2. CASE wq' = wq
  BY <1>1, <1>2
<1>3. CASE wq # <<>> /\ wq' = Tail(wq)
  <2>1. wq' \in Seq(Blocks) /\ \A i \in DOMAIN wq' : i + 1 \in DOMAIN wq /\ wq'[i] = wq[i + 1]
    BY <1>1, <1>3
  <2> QED
    BY <1>1, <2>1
<1>4. CASE \E b \in Blocks : Named(rx', b) /\ wq' = Submit(wq, b)
  <2>1. PICK b \in Blocks : Named(rx', b) /\ wq' = Submit(wq, b)
    BY <1>4
  <2>2. wq' = wq \/ wq' = Append(wq, b)
    BY <2>1 DEF Submit
  <2>3. CASE wq' = wq
    BY <1>1, <2>3
  <2>4. CASE wq' = Append(wq, b)
    <3>1. wq' \in Seq(Blocks) /\ \A i \in DOMAIN wq' : wq'[i] = b \/ (i \in DOMAIN wq /\ wq'[i] = wq[i])
      BY <1>1, <2>4
    <3> QED
      BY <1>1, <2>1, <3>1
  <2> QED
    BY <2>2, <2>3, <2>4
<1> QED
  BY <1>2, <1>3, <1>4

\* After can_send() the thread sets the timer and the state.
FinishEffect(d) ==
    /\ cur.pc = "fc" /\ Changed(rx, rx', cur.b, d) /\ Kept(rx.ctx[cur.b], d)
    /\ d.state \in {"WAIT_CF", "TRY_ALLOC"}

\* FinishFc changes the context the frame was sent for.
LEMMA FinishStep ==
    ASSUME TypeInv, FinishFc
    PROVE  Good(rx') /\ \E d \in Ctx : FinishEffect(d)
<1> DEFINE b == cur.b
           d == [rx.ctx[b] EXCEPT !.timer = TRUE, !.state = cur.to]
<1>1. cur.pc = "fc" /\ b \in Blocks /\ cur.to \in {"WAIT_CF", "TRY_ALLOC"} /\ Named(rx, b)
  BY DEF FinishFc, TypeInv, Cur
<1>2. Good(rx) /\ rx.ctx \in [Blocks -> Ctx] /\ rx.ctx[b] \in Ctx /\ rx \in RxRec
  BY <1>1 DEF TypeInv, Good, RxRec
<1>3. d \in Ctx /\ Kept(rx.ctx[b], d) /\ d.state = cur.to
  BY <1>1, <1>2 DEF Ctx, Kept, RxState
<1>4. rx' = [rx EXCEPT !.ctx[b] = d]
  BY <1>1, <1>2 DEF FinishFc, RxRec, Ctx
<1>5. d.addr = rx.ctx[b].addr /\ (d.timer => d.addr \in Peers)
  BY <1>1, <1>3 DEF Kept, Named
<1> HIDE DEF b, d
<1>6. Good(rx') /\ Changed(rx, rx', b, d)
  BY <1>1, <1>2, <1>3, <1>4, <1>5, CtxGood
<1> QED
  BY <1>1, <1>3, <1>6 DEF FinishEffect, b

\* The timeout of the context b.
TimeoutEffect(b, d) ==
    /\ rx.ctx[b].timer /\ Changed(rx, rx', b, d) /\ Kept(rx.ctx[b], d) /\ d.timer = FALSE
    /\ \/ d.state = "ERR"
       \/ rx.ctx[b].state = "TRY_ALLOC" /\ d.state = "SEND_WAIT"
       \/ d.state = rx.ctx[b].state
    /\ wq' = Submit(wq, b)

\* receive_timeout_handler changes one context.
LEMMA TimeoutStep ==
    ASSUME TypeInv, NEW b \in Blocks, Timeout(b)
    PROVE  Good(rx') /\ \E d \in Ctx : TimeoutEffect(b, d)
<1> DEFINE c == [rx.ctx[b] EXCEPT !.timer = FALSE]
           d == CASE c.state = "WAIT_CF"   -> Report(c, "TIMEOUT_CR")
                  [] c.state = "TRY_ALLOC" -> [c EXCEPT !.state = "SEND_WAIT"]
                  [] OTHER                 -> c
<1>1. Good(rx) /\ rx.ctx \in [Blocks -> Ctx] /\ rx.ctx[b] \in Ctx /\ rx.ctx[b].timer
  BY DEF TypeInv, Good, RxRec, Timeout
<1>2. c \in Ctx /\ Kept(rx.ctx[b], c) /\ c.state = rx.ctx[b].state /\ c.timer = FALSE
  BY <1>1 DEF Ctx, Kept
<1>3. rx' = [rx EXCEPT !.ctx[b] = d] /\ wq' = Submit(wq, b)
  BY DEF Timeout
<1> HIDE DEF c
<1>4. /\ d \in Ctx /\ Kept(c, d) /\ d.timer = FALSE
      /\ \/ d.state = "ERR"
         \/ c.state = "TRY_ALLOC" /\ d.state = "SEND_WAIT"
         \/ d.state = c.state
  <2>1. CASE c.state = "WAIT_CF"
    <3>1. d = Report(c, "TIMEOUT_CR")
      BY <2>1
    <3>2. Report(c, "TIMEOUT_CR") \in Ctx
      BY <1>2, ReportType DEF RxError
    <3> HIDE DEF d
    <3> QED
      BY <1>2, <3>1, <3>2 DEF Report, Ctx, Kept
  <2>2. CASE c.state = "TRY_ALLOC"
    <3>1. d = [c EXCEPT !.state = "SEND_WAIT"]
      BY <2>2
    <3> HIDE DEF d
    <3> QED
      BY <1>2, <2>2, <3>1 DEF Ctx, Kept, RxState
  <2>3. CASE c.state \notin {"WAIT_CF", "TRY_ALLOC"}
    <3>1. d = c
      BY <2>3
    <3> HIDE DEF d
    <3> QED
      BY <1>2, <3>1 DEF Kept
  <2> QED
    BY <2>1, <2>2, <2>3
<1> HIDE DEF d
<1>5. d.addr = rx.ctx[b].addr /\ (d.timer => d.addr \in Peers)
  BY <1>2, <1>4 DEF Kept
<1>6. Good(rx') /\ Changed(rx, rx', b, d)
  BY <1>1, <1>3, <1>4, <1>5, CtxGood
<1> QED
  BY <1>1, <1>2, <1>3, <1>4, <1>6 DEF TimeoutEffect, Kept

\* A flow-control frame has left the controller.
FcGone == rx'.fc = Tail(rx.fc) /\ SameSlab(rx, rx') /\ rx'.got = rx.got /\ rx'.errs = rx.errs

\* It has been sent.
LEMMA FcTxStep ==
    ASSUME TypeInv, FcTx
    PROVE  Good(rx') /\ FcGone /\ rx'.ctx = rx.ctx /\ rx.fc # <<>>
<1>1. rx \in RxRec /\ rx.fc \in Seq(Fc) /\ rx.fc # <<>> /\ rx' = [rx EXCEPT !.fc = Tail(rx.fc)]
  BY DEF TypeInv, Good, RxRec, FcTx
<1>2. /\ Tail(rx.fc) \in Seq(Fc)
      /\ \A i \in DOMAIN Tail(rx.fc) : i + 1 \in DOMAIN rx.fc /\ Tail(rx.fc)[i] = rx.fc[i + 1]
  BY <1>1
<1>3. FcGone /\ rx'.ctx = rx.ctx /\ rx' \in RxRec
  BY <1>1, <1>2 DEF RxRec, FcGone, SameSlab
<1>4. Good(rx')
  BY <1>2, <1>3 DEF TypeInv, Good, Named, FcGone, SameSlab
<1> QED
  BY <1>1, <1>3, <1>4

\* Its transmission has failed: the context it names reports an error.
FcErrorEffect(b) ==
    /\ FcGone /\ Named(rx, b) /\ Apart(rx, rx', b) /\ Kept(rx.ctx[b], rx'.ctx[b])
    /\ rx'.ctx[b].state = "ERR" /\ wq' = Submit(wq, b)

\* receive_can_tx with an error.
LEMMA FcErrorStep ==
    ASSUME TypeInv, FcTxError
    PROVE  Good(rx') /\ \E b \in Blocks : FcErrorEffect(b)
<1> DEFINE b == Head(rx.fc).ctx
           d == Report(rx.ctx[b], "ERROR")
           S == [rx EXCEPT !.ctx[b] = d]
<1>1. rx \in RxRec /\ rx.fc \in Seq(Fc) /\ rx.fc # <<>> /\ Good(rx)
  BY DEF TypeInv, Good, RxRec, FcTxError
<1>2. b \in Blocks /\ Named(rx, b)
  <2>1. 1 \in DOMAIN rx.fc /\ Head(rx.fc) = rx.fc[1] /\ Head(rx.fc) \in Fc
    BY <1>1
  <2> QED
    BY <1>1, <2>1 DEF Good, Fc
<1>3. rx.ctx \in [Blocks -> Ctx] /\ rx.ctx[b] \in Ctx
  BY <1>1, <1>2 DEF RxRec
<1>4. d \in Ctx /\ Kept(rx.ctx[b], d) /\ d.state = "ERR"
  <2>1. d \in Ctx
    BY <1>3, ReportType DEF RxError
  <2> QED
    BY <1>3, <2>1 DEF Report, Ctx, Kept
<1>5. rx' = [S EXCEPT !.fc = Tail(rx.fc)] /\ wq' = Submit(wq, b)
  BY <1>1, <1>2, <1>3 DEF FcTxError, RxRec
<1> HIDE DEF b, d
<1>6. Good(S) /\ Changed(rx, S, b, d)
  <2>1. d.addr = rx.ctx[b].addr /\ (d.timer => d.addr \in Peers) /\ S = [rx EXCEPT !.ctx[b] = d]
    BY <1>2, <1>4 DEF Kept, Named
  <2> HIDE DEF S
  <2> QED
    BY <1>1, <1>2, <1>4, <2>1, CtxGood
<1> HIDE DEF S
<1>7. /\ Tail(rx.fc) \in Seq(Fc)
      /\ \A i \in DOMAIN Tail(rx.fc) : i + 1 \in DOMAIN rx.fc /\ Tail(rx.fc)[i] = rx.fc[i + 1]
  BY <1>1
<1>8. FcGone /\ rx'.ctx = S.ctx /\ rx' \in RxRec
  BY <1>5, <1>6, <1>7 DEF Good, RxRec, FcGone, SameSlab, Changed
<1>9. Good(rx')
  BY <1>6, <1>7, <1>8 DEF Good, Named, FcGone, SameSlab, Changed
<1>10. Apart(rx, rx', b) /\ rx'.ctx[b] = d
  BY <1>6, <1>8 DEF Changed, Apart
<1> QED
  BY <1>2, <1>4, <1>5, <1>8, <1>9, <1>10 DEF FcErrorEffect

\* A peer's record.
LEMMA PeerTypes ==
    ASSUME TypeInv, NEW p \in Peers
    PROVE  /\ peer \in [Peers -> PeerRec] /\ peer[p] \in PeerRec
           /\ peer[p].len \in Nat /\ peer[p].msg \in 0 .. MaxMsgs /\ peer[p].msg \in Nat
           /\ peer[p].i \in Nat /\ peer[p].i >= 2 /\ peer[p].open \in Nat
           /\ MaxMsgs \in Nat /\ RxBs \in Nat
<1>1. peer \in [Peers -> PeerRec] /\ peer[p].i >= 2
  BY DEF TypeInv
<1>2. peer[p] \in PeerRec
  BY <1>1
<1>3. /\ peer[p].msg \in 0 .. MaxMsgs /\ peer[p].len \in Lengths \cup {0}
      /\ peer[p].i \in Nat /\ peer[p].open \in Nat
  BY <1>2 DEF PeerRec
<1>4. MaxMsgs \in Nat /\ Lengths \subseteq Nat \ {0}
  BY RecvAssumptions DEF RecvAssumptions
<1>5. peer[p].len \in Nat /\ peer[p].msg \in Nat
  <2> DEFINE l == peer[p].len
             m == peer[p].msg
  <2>1. l \in Lengths \cup {0} /\ m \in 0 .. MaxMsgs
    BY <1>3
  <2> HIDE DEF l, m
  <2>2. l \in Nat
    BY <1>4, <2>1
  <2>3. m \in Nat
    BY <1>4, <2>1
  <2> QED
    BY <2>2, <2>3 DEF l, m
<1>6. RxBs \in Nat
  <2>1. RxBs \in Bytes
    BY DEF TypeInv, Env, RxBs
  <2>2. BYTE \in Nat
    BY SegTypes
  <2> QED
    BY <2>1, <2>2 DEF Bytes
<1> QED
  BY <1>1, <1>2, <1>3, <1>4, <1>5, <1>6

\* The peer q, after a flow-control frame or none.
FcAnswered(p) ==
    /\ peer' \in [Peers -> PeerRec] /\ \A q \in Peers : q # p => peer'[q] = peer[q]
    /\ peer'[p].len = peer[p].len /\ peer'[p].msg = peer[p].msg
    /\ peer'[p].i = peer[p].i \/ peer'[p].i = NumFrames(peer[p].len) + 1

\* A peer that gets a flow-control frame goes on, or gives its message up.
LEMMA FcTxPeer ==
    ASSUME TypeInv, FcTx
    PROVE  peer' = peer \/ \E p \in Peers : FcAnswered(p)
<1> DEFINE f == Head(rx.fc)
<1>1. f.to \in Peers
  <2>1. rx.fc \in Seq(Fc) /\ rx.fc # <<>>
    BY DEF TypeInv, Good, RxRec, FcTx
  <2>2. f \in Fc
    BY <2>1
  <2> QED
    BY <2>2 DEF Fc
<1>2. CASE peer' = [peer EXCEPT ![f.to] = OnFc(@, f.fs)]
  <2> DEFINE p == f.to
             q == peer[p]
             r == OnFc(q, f.fs)
  <2>1. q \in PeerRec /\ q.len \in Nat /\ RxBs \in Nat
    BY <1>1, PeerTypes
  <2>2. NumFrames(q.len) \in Nat
    BY <2>1, FrameCount
  <2> HIDE DEF q
  <2>3. /\ r \in PeerRec /\ r.len = q.len /\ r.msg = q.msg
        /\ r.i = q.i \/ r.i = NumFrames(q.len) + 1
    <3> DEFINE n == NumFrames(q.len)
               x == IF RxBs = 0 THEN n ELSE RxBs
    <3>1. n \in Nat /\ n + 1 \in Nat /\ x \in Nat
      BY <2>1, <2>2
    <3>2. r = [q EXCEPT !.i = n + 1, !.open = 0] \/ r = [q EXCEPT !.open = x] \/ r = q
      BY DEF OnFc
    <3> HIDE DEF r, n, x
    <3>3. CASE r = [q EXCEPT !.i = n + 1, !.open = 0]
      <4>1. r \in PeerRec /\ r.len = q.len /\ r.msg = q.msg /\ r.i = n + 1
        BY <2>1, <3>1, <3>3 DEF PeerRec
      <4> QED
        BY <4>1 DEF n
    <3>4. CASE r = [q EXCEPT !.open = x]
      BY <2>1, <3>1, <3>4 DEF PeerRec
    <3> QED
      BY <2>1, <3>2, <3>3, <3>4
  <2>4. peer' = [peer EXCEPT ![p] = r] /\ peer \in [Peers -> PeerRec] /\ p \in Peers
    BY <1>1, <1>2 DEF TypeInv, q
  <2> HIDE DEF p, r
  <2>5. FcAnswered(p)
    BY <2>3, <2>4 DEF FcAnswered, q
  <2> QED
    BY <2>4, <2>5
<1> QED
  BY <1>2 DEF FcTx

\* A peer starts a message.
Started(p) ==
    /\ peer' \in [Peers -> PeerRec] /\ \A q \in Peers : q # p => peer'[q] = peer[q]
    /\ peer'[p].msg = peer[p].msg + 1 /\ peer'[p].i = 2 /\ peer'[p].len \in Lengths

\* Its first frame arrives, or does not.
LEMMA StartStep ==
    ASSUME TypeInv, NEW p \in Peers, NEW l \in Lengths, PeerStart(p, l)
    PROVE  LET f == FrameOf(peer[p].msg + 1, l, 1) IN
           /\ Started(p) /\ peer'[p].len = l /\ peer[p].msg + 1 \in Nat /\ IsFrame(f)
           /\ FrameRx(p, f) \/ (rx' = rx /\ wq' = wq)
           /\ cur' = cur /\ env' = env
<1> DEFINE f == FrameOf(peer[p].msg + 1, l, 1)
           r == [msg |-> peer[p].msg + 1, len |-> l, i |-> 2, open |-> 0]
<1>1. peer \in [Peers -> PeerRec] /\ l \in Nat \ {0} /\ env.msgs \in 0 .. MaxMsgs /\ MaxMsgs \in Nat
  BY SegTypes, RecvAssumptions DEF TypeInv, RecvAssumptions, Env
<1>2. peer[p] \in PeerRec /\ peer[p].msg < env.msgs
  BY <1>1 DEF PeerStart
<1>3. peer[p].msg + 1 \in 0 .. MaxMsgs /\ peer[p].msg + 1 \in Nat
  BY <1>1, <1>2 DEF PeerRec
<1>4. r \in PeerRec
  BY <1>3 DEF PeerRec
<1>5. peer' = [peer EXCEPT ![p] = r]
  BY DEF PeerStart
<1>6. Started(p) /\ peer'[p].len = l
  BY <1>1, <1>4, <1>5 DEF Started
<1>7. IsFrame(f)
  <2> DEFINE m == peer[p].msg + 1
  <2>1. m \in Nat
    BY <1>3
  <2> HIDE DEF m
  <2>2. /\ FrameOf(m, l, 1).msg = m /\ FrameOf(m, l, 1).off = 0 /\ FrameOf(m, l, 1).n \in Nat
        /\ FrameOf(m, l, 1).len = l
        /\ \/ l <= SfMax /\ FrameOf(m, l, 1).type = "SF" /\ FrameOf(m, l, 1).n = l
           \/ l > SfMax /\ FrameOf(m, l, 1).type = "FF" /\ FfLen <= l
    BY <1>1, <2>1, FirstFrame
  <2>3. IsFrame(FrameOf(m, l, 1))
    BY <1>1, <2>1, <2>2 DEF IsFrame
  <2> QED
    BY <2>3 DEF m
<1>8. (FrameRx(p, f) \/ (rx' = rx /\ wq' = wq)) /\ cur' = cur /\ env' = env
  BY DEF PeerStart, Arrives
<1> QED
  BY <1>3, <1>6, <1>7, <1>8

\* A peer goes on with its message.
WentOn(p) ==
    /\ peer' \in [Peers -> PeerRec] /\ \A q \in Peers : q # p => peer'[q] = peer[q]
    /\ peer'[p].msg = peer[p].msg /\ peer'[p].len = peer[p].len /\ peer'[p].i = peer[p].i + 1

\* Its next frame arrives, or does not.
LEMMA CfStep ==
    ASSUME TypeInv, NEW p \in Peers, PeerCf(p)
    PROVE  LET f == FrameOf(peer[p].msg, peer[p].len, peer[p].i) IN
           /\ WentOn(p) /\ Sending(p) /\ IsFrame(f)
           /\ FrameRx(p, f) \/ (rx' = rx /\ wq' = wq)
           /\ cur' = cur /\ env' = env
<1> DEFINE q == peer[p]
           f == FrameOf(q.msg, q.len, q.i)
           r == [q EXCEPT !.i = @ + 1, !.open = @ - 1]
<1>1. peer \in [Peers -> PeerRec] /\ Sending(p) /\ q.open > 0
  BY DEF TypeInv, PeerCf
<1>2. q \in PeerRec /\ q.len \in Nat /\ q.i \in Nat /\ q.i >= 2 /\ q.i <= NumFrames(q.len) /\ q.msg \in Nat
      /\ q.open \in Nat
  BY <1>1, PeerTypes DEF Sending
<1>3. peer' = [peer EXCEPT ![p] = r]
  <2>1. peer' = [peer EXCEPT ![p].i = @ + 1, ![p].open = @ - 1]
    BY DEF PeerCf
  <2> QED
    BY <1>1, <2>1 DEF PeerRec
<1>4. (FrameRx(p, f) \/ (rx' = rx /\ wq' = wq)) /\ cur' = cur /\ env' = env
  BY DEF PeerCf, Arrives
<1>5. r \in PeerRec /\ r.msg = q.msg /\ r.len = q.len /\ r.i = q.i + 1
  <2>1. q.i + 1 \in Nat /\ q.open - 1 \in Nat
    BY <1>1, <1>2
  <2> HIDE DEF q
  <2> QED
    BY <1>2, <2>1 DEF PeerRec
<1> HIDE DEF q
<1>6. IsFrame(f)
  <2>1. /\ f.type = "CF" /\ f.msg = q.msg /\ f.off \in Nat /\ f.n \in Nat
    BY <1>2, NextFrame
  <2> QED
    BY <1>2, <2>1 DEF IsFrame
<1> HIDE DEF r
<1>7. WentOn(p)
  BY <1>1, <1>3, <1>5 DEF WentOn, q
<1> QED
  BY <1>1, <1>4, <1>6, <1>7 DEF q

\* A frame that arrives keeps the types.
LEMMA FrameType ==
    ASSUME TypeInv, NEW p \in Peers, NEW f, IsFrame(f), FrameRx(p, f) \/ (rx' = rx /\ wq' = wq)
    PROVE  Good(rx') /\ NamedKept /\ wq' \in Seq(Blocks) /\ \A i \in DOMAIN wq' : Named(rx', wq'[i])
<1>1. CASE rx' = rx /\ wq' = wq
  BY <1>1 DEF TypeInv, NamedKept
<1>2. CASE \E b \in CtxOf(p) : rx' = free_recv_ctx(rx, b) /\ wq' = wq
  <2>1. PICK b \in CtxOf(p) : rx' = free_recv_ctx(rx, b) /\ wq' = wq
    BY <1>2
  <2>2. b \in Blocks /\ Good(rx)
    BY DEF CtxOf, TypeInv, Good, RxRec
  <2>3. Good(rx') /\ SameAddr(rx, rx')
    BY <2>1, <2>2, FreeGood
  <2>4. NamedKept
    BY <2>3, SameNamed
  <2> QED
    BY <2>1, <2>3, <2>4, QueueNext
<1>3. CASE \E b \in Blocks : FrameTaken(p, f, b)
  <2>1. PICK b \in Blocks : FrameTaken(p, f, b)
    BY <1>3
  <2>2. Good(rx') /\ Named(rx', b) /\ NamedKept /\ (wq' = wq \/ wq' = Submit(wq, b))
    BY <2>1 DEF FrameTaken, Named, NamedKept, Apart
  <2> QED
    BY <2>2, QueueNext
<1> QED
  BY <1>1, <1>2, <1>3, FrameEffect DEF TypeInv

\* The work queue runs a context that has been given to a peer.
LEMMA HeadNamed == ASSUME TypeInv, NEW b \in Blocks, Work(b) PROVE Named(rx, b)
<1>1. wq # <<>> /\ b = Head(wq)
  BY DEF Work, WorkSf, WorkFfTooLong, WorkFf, WorkTryAlloc, WorkSendWait, WorkErr,
         WorkRecycle, WorkNothing, Running
<1>2. wq \in Seq(Blocks) /\ \A i \in DOMAIN wq : Named(rx, wq[i])
  BY DEF TypeInv
<1>3. 1 \in DOMAIN wq /\ b = wq[1]
  BY <1>1, <1>2
<1> QED
  BY <1>2, <1>3

\* The types hold at the start ...
LEMMA TypeInit == Init => TypeInv
<1> SUFFICES ASSUME Init PROVE TypeInv
  OBVIOUS
<1> DEFINE c == [addr |-> Nil, state |-> "UNBOUND", error |-> "OK", rem |-> 0, sn |-> 0,
                 bs |-> 0, wft |-> 0, timer |-> FALSE, bufs |-> 0, data |-> <<>>]
<1>1. c \in Ctx
  BY WrapTypes DEF Ctx, RxState, RxError
<1>2. /\ rx = [ctx |-> [b \in Blocks |-> c], list |-> {}, head |-> 1,
               link |-> [b \in Blocks |-> IF b = RX_BUF_COUNT THEN Nil ELSE b + 1],
               aliased |-> FALSE, fc |-> <<>>,
               got |-> [p \in Peers |-> <<>>], errs |-> [p \in Peers |-> <<>>]]
      /\ wq = <<>> /\ cur = Idle /\ env \in Envs
      /\ peer = [p \in Peers |-> [msg |-> 0, len |-> 0, i |-> 2, open |-> 0]]
  BY DEF Init
<1>3. \A b \in Blocks : c.timer = FALSE
  OBVIOUS
<1> HIDE DEF c
<1>4. 1 \in Blocks /\ \A b \in Blocks : b = RX_BUF_COUNT \/ b + 1 \in Blocks
  BY SegTypes DEF Blocks
<1>5. rx \in RxRec
  <2>1. [b \in Blocks |-> c] \in [Blocks -> Ctx]
    BY <1>1
  <2>2. [b \in Blocks |-> IF b = RX_BUF_COUNT THEN Nil ELSE b + 1] \in [Blocks -> Blocks \cup {Nil}]
    BY <1>4
  <2>3. [p \in Peers |-> <<>>] \in [Peers -> Seq(Seq(Piece))] /\ [p \in Peers |-> <<>>] \in [Peers -> Seq(RxError)]
        /\ <<>> \in Seq(Fc)
    OBVIOUS
  <2> QED
    BY <1>2, <1>4, <2>1, <2>2, <2>3 DEF RxRec
<1>6. Good(rx)
  BY <1>2, <1>3, <1>5 DEF Good
<1>7. peer \in [Peers -> PeerRec] /\ \A p \in Peers : peer[p].i >= 2
  BY <1>2, RecvAssumptions DEF PeerRec, RecvAssumptions
<1>8. cur \in Cur /\ cur.pc # "fc"
  BY <1>2 DEF Idle, Cur
<1>9. wq \in Seq(Blocks) /\ DOMAIN wq = {}
  BY <1>2
<1> QED
  BY <1>2, <1>6, <1>7, <1>8, <1>9, SegTypes DEF TypeInv

\* ... and every step keeps them.
LEMMA TypeNext == TypeInv /\ [Next]_vars => TypeInv'
<1> SUFFICES ASSUME TypeInv, [Next]_vars PROVE TypeInv'
  OBVIOUS
<1>0. Good(rx) /\ env \in Env /\ cur \in Cur
  BY DEF TypeInv
<1>1. CASE UNCHANGED vars
  BY <1>1 DEF TypeInv, vars
<1>2. ASSUME Good(rx'), NamedKept, env' = env, cur' = cur \/ cur' = Idle, peer' = peer,
             \/ wq' = wq
             \/ wq # <<>> /\ wq' = Tail(wq)
             \/ \E b \in Blocks : Named(rx', b) /\ wq' = Submit(wq, b)
      PROVE  TypeInv'
  <2>1. wq' \in Seq(Blocks) /\ \A i \in DOMAIN wq' : Named(rx', wq'[i])
    BY <1>2, QueueNext
  <2>2. cur' \in Cur /\ (cur'.pc = "fc" => Named(rx', cur'.b))
    BY <1>2 DEF TypeInv, Idle, Cur, NamedKept
  <2> QED
    BY <1>2, <2>1, <2>2 DEF TypeInv
<1>3. CASE FinishFc
  <2>1. Good(rx') /\ NamedKept
    BY <1>3, FinishStep, SameNamed DEF FinishEffect, Changed
  <2> QED
    BY <1>2, <1>3, <2>1 DEF FinishFc
<1>4. ASSUME NEW b \in Blocks, Work(b) PROVE TypeInv'
  <2>1. Named(rx, b)
    BY <1>4, HeadNamed
  <2>2. /\ Good(rx') /\ SameAddr(rx, rx') /\ WorkEffect(b)
        /\ cur = Idle /\ wq # <<>> /\ wq' = Tail(wq) /\ env' = env /\ peer' = peer
    BY <1>0, <1>4, <2>1, WorkSteps
  <2>3. NamedKept
    BY <2>2, SameNamed
  <2>4. cur' = cur \/ (cur' \in Cur /\ cur'.pc = "fc" /\ cur'.b = b)
    BY <2>2 DEF WorkEffect, WorkEnds, WorkGoesOn, WorkFails
  <2>5. CASE cur' = cur
    BY <1>2, <2>2, <2>3, <2>5
  <2>6. CASE cur' \in Cur /\ cur'.pc = "fc" /\ cur'.b = b
    <3>1. Named(rx', cur'.b)
      BY <2>1, <2>3, <2>6 DEF NamedKept
    <3>2. wq' \in Seq(Blocks) /\ \A i \in DOMAIN wq' : Named(rx', wq'[i])
      BY <2>2, <2>3, QueueNext
    <3> QED
      BY <2>2, <2>6, <3>1, <3>2 DEF TypeInv
  <2> QED
    BY <2>4, <2>5, <2>6
<1>5. CASE FcTx
  <2>1. Good(rx') /\ rx'.ctx = rx.ctx
    BY <1>5, FcTxStep
  <2>2. NamedKept
    BY <2>1 DEF NamedKept, Named
  <2>3. env' = env /\ wq' = wq /\ cur' = cur
    BY <1>5 DEF FcTx
  <2>4. wq' \in Seq(Blocks) /\ \A i \in DOMAIN wq' : Named(rx', wq'[i])
    BY <2>2, <2>3, QueueNext
  <2>5. peer' \in [Peers -> PeerRec] /\ \A p \in Peers : peer'[p].i >= 2
    <3>1. CASE peer' = peer
      BY <3>1 DEF TypeInv
    <3>2. CASE \E p \in Peers : FcAnswered(p)
      <4>1. PICK p \in Peers : FcAnswered(p)
        BY <3>2
      <4>2. peer[p].len \in Nat
        BY PeerTypes
      <4>3. NumFrames(peer[p].len) \in Nat /\ NumFrames(peer[p].len) >= 1
        BY <4>2, FrameCount
      <4>4. peer'[p].i >= 2
        BY <4>1, <4>3 DEF FcAnswered, TypeInv, PeerRec
      <4> QED
        BY <4>1, <4>4 DEF FcAnswered, TypeInv
    <3> QED
      BY <1>5, <3>1, <3>2, FcTxPeer
  <2>6. cur' \in Cur /\ (cur'.pc = "fc" => Named(rx', cur'.b))
    BY <2>1, <2>3 DEF TypeInv, Named
  <2> QED
    BY <1>0, <2>1, <2>3, <2>4, <2>5, <2>6 DEF TypeInv
<1>6. CASE FcTxError
  <2>1. PICK b \in Blocks : Good(rx') /\ FcErrorEffect(b)
    BY <1>6, FcErrorStep
  <2>2. NamedKept
    BY <2>1 DEF FcErrorEffect, NamedKept, Named, Apart, Kept
  <2>3. Named(rx', b) /\ wq' = Submit(wq, b)
    BY <2>1, <2>2 DEF FcErrorEffect, NamedKept
  <2> QED
    BY <1>2, <1>6, <2>1, <2>2, <2>3 DEF FcTxError
<1>7. ASSUME NEW p \in Peers, NEW f, IsFrame(f), FrameRx(p, f) \/ (rx' = rx /\ wq' = wq),
             env' = env, cur' = cur,
             peer' \in [Peers -> PeerRec], \A q \in Peers : peer'[q].i >= 2
      PROVE  TypeInv'
  <2>1. Good(rx') /\ NamedKept /\ wq' \in Seq(Blocks) /\ \A i \in DOMAIN wq' : Named(rx', wq'[i])
    BY <1>7, FrameType
  <2>2. cur' \in Cur /\ (cur'.pc = "fc" => Named(rx', cur'.b))
    BY <1>7, <2>1 DEF TypeInv, NamedKept, Cur
  <2> QED
    BY <1>0, <1>7, <2>1, <2>2 DEF TypeInv
<1>8. ASSUME NEW p \in Peers, NEW l \in Lengths, PeerStart(p, l) PROVE TypeInv'
  <2> DEFINE f == FrameOf(peer[p].msg + 1, l, 1)
  <2>2. peer' \in [Peers -> PeerRec] /\ \A q \in Peers : peer'[q].i >= 2
    BY <1>8, StartStep DEF Started, TypeInv
  <2>3. /\ IsFrame(f) /\ (FrameRx(p, f) \/ (rx' = rx /\ wq' = wq)) /\ cur' = cur /\ env' = env
    BY <1>8, StartStep
  <2> HIDE DEF f
  <2> QED
    BY <1>7, <2>2, <2>3
<1>9. ASSUME NEW p \in Peers, PeerCf(p) PROVE TypeInv'
  <2> DEFINE f == FrameOf(peer[p].msg, peer[p].len, peer[p].i)
  <2>1. WentOn(p)
    BY <1>9, CfStep
  <2>2. /\ IsFrame(f) /\ (FrameRx(p, f) \/ (rx' = rx /\ wq' = wq)) /\ cur' = cur /\ env' = env
    BY <1>9, CfStep
  <2>3. peer' \in [Peers -> PeerRec] /\ \A q \in Peers : peer'[q].i >= 2
    <3>1. peer[p].i \in Nat /\ peer[p].i >= 2
      BY PeerTypes
    <3>2. \A q \in Peers : peer[q].i >= 2
      BY DEF TypeInv
    <3> QED
      BY <2>1, <3>1, <3>2 DEF WentOn
  <2> HIDE DEF f
  <2> QED
    BY <1>7, <2>2, <2>3
<1>10. ASSUME NEW b \in Blocks, Timeout(b) PROVE TypeInv'
  <2>1. PICK d \in Ctx : Good(rx') /\ TimeoutEffect(b, d)
    BY <1>10, TimeoutStep
  <2>2. NamedKept /\ Named(rx', b) /\ wq' = Submit(wq, b)
    BY <1>0, <2>1, SameNamed DEF TimeoutEffect, Changed, NamedKept, Good
  <2> QED
    BY <1>2, <1>10, <2>1, <2>2 DEF Timeout
<1> QED
  BY <1>1, <1>3, <1>4, <1>5, <1>6, <1>8, <1>9, <1>10 DEF Next, Worker, Send

\* Every field keeps the width the code gives it, and no operation of the receiver
\* meets a context that was never given to a peer, whatever is lost, late,
\* repeated or refused, and also after the slab has gone wrong.
THEOREM TypeCorrect == Spec => []TypeOK
<1>1. TypeInv => TypeOK
  BY DEF TypeInv, TypeOK, Good, RxRec, PeerRec
<1> QED
  BY <1>1, TypeInit, TypeNext, PTL DEF Spec

-----------------------------------------------------------------------------
(* The slab *)

\* The blocks of F, linked by k from h on, in the order s.
Path(F, h, k, s) ==
    /\ s \in [1 .. Cardinality(F) -> F]
    /\ \A i, j \in DOMAIN s : i # j => s[i] # s[j]
    /\ h = IF F = {} THEN Nil ELSE s[1]
    /\ \A i \in DOMAIN s : k[s[i]] = IF i = Cardinality(F) THEN Nil ELSE s[i + 1]

\* Sets of blocks are finite, and are empty when they have no member.
LEMMA BlockSets ==
    ASSUME NEW F \in SUBSET Blocks
    PROVE  /\ IsFiniteSet(F) /\ Cardinality(F) \in Nat /\ (F = {} <=> Cardinality(F) = 0)
           /\ IsFiniteSet(Blocks) /\ Cardinality(Blocks) = RX_BUF_COUNT
<1>1. RX_BUF_COUNT \in Nat /\ RX_BUF_COUNT > 0
  BY SegTypes
<1>2. IsFiniteSet(Blocks) /\ Cardinality(Blocks) = RX_BUF_COUNT
  <2>1. IsFiniteSet(1 .. RX_BUF_COUNT)
        /\ Cardinality(1 .. RX_BUF_COUNT) = IF 1 > RX_BUF_COUNT THEN 0 ELSE RX_BUF_COUNT - 1 + 1
    BY <1>1, FS_Interval
  <2> QED
    BY <1>1, <2>1 DEF Blocks
<1>3. IsFiniteSet(F)
  BY <1>2, FS_Subset
<1>4. Cardinality(F) \in Nat
  BY <1>3, FS_CardinalityType
<1>5. F = {} <=> Cardinality(F) = 0
  BY <1>3, FS_EmptySet
<1> QED
  BY <1>2, <1>3, <1>4, <1>5

\* k_mem_slab_free: a block that is not free goes to the head of the list.
LEMMA Push ==
    ASSUME NEW F \in SUBSET Blocks, NEW h, NEW k \in [Blocks -> Blocks \cup {Nil}], NEW s,
           Path(F, h, k, s), NEW b \in Blocks, b \notin F
    PROVE  \E t : Path(F \cup {b}, b, [k EXCEPT ![b] = h], t)
<1> DEFINE n == Cardinality(F)
           G == F \cup {b}
           m == [k EXCEPT ![b] = h]
           t == [i \in 1 .. n + 1 |-> IF i = 1 THEN b ELSE s[i - 1]]
<1>1. n \in Nat /\ (F = {} <=> n = 0) /\ IsFiniteSet(F)
  BY BlockSets
<1>2. Cardinality(G) = n + 1 /\ G # {}
  BY <1>1, FS_AddElement
<1>3. /\ s \in [1 .. n -> F] /\ \A i, j \in 1 .. n : i # j => s[i] # s[j]
      /\ h = IF F = {} THEN Nil ELSE s[1]
      /\ \A i \in 1 .. n : k[s[i]] = IF i = n THEN Nil ELSE s[i + 1]
  BY DEF Path
<1> HIDE DEF n
<1>4. /\ t[1] = b /\ DOMAIN t = 1 .. n + 1 /\ 1 \in 1 .. n + 1
      /\ \A i \in 1 .. n + 1 : i # 1 => i - 1 \in 1 .. n /\ t[i] = s[i - 1]
  BY <1>1
<1>5. t \in [1 .. n + 1 -> G]
  BY <1>1, <1>3
<1> HIDE DEF t
<1>6. \A i, j \in 1 .. n + 1 : i # j => t[i] # t[j]
  <2> SUFFICES ASSUME NEW i \in 1 .. n + 1, NEW j \in 1 .. n + 1, i # j PROVE t[i] # t[j]
    OBVIOUS
  <2>1. CASE i = 1
    BY <1>3, <1>4, <2>1
  <2>2. CASE j = 1
    BY <1>3, <1>4, <2>2
  <2>3. CASE i # 1 /\ j # 1
    BY <1>1, <1>3, <1>4, <2>3
  <2> QED
    BY <2>1, <2>2, <2>3
<1>7. m[b] = h /\ \A x \in F : m[x] = k[x]
  BY DEF m
<1> HIDE DEF m
<1>8. ASSUME NEW i \in 1 .. n + 1 PROVE m[t[i]] = IF i = n + 1 THEN Nil ELSE t[i + 1]
  <2>1. CASE i = 1
    <3>1. m[t[i]] = h
      BY <1>4, <1>7, <2>1
    <3>2. CASE n = 0
      BY <1>1, <1>3, <2>1, <3>1, <3>2
    <3>3. CASE n # 0
      <4>1. 2 \in 1 .. n + 1 /\ h = s[1] /\ i # n + 1
        BY <1>1, <1>3, <2>1, <3>3
      <4>2. t[2] = s[1]
        BY <1>4, <4>1
      <4> QED
        BY <2>1, <3>1, <4>1, <4>2
    <3> QED
      BY <3>2, <3>3
  <2>2. CASE i # 1
    <3>1. i - 1 \in 1 .. n /\ t[i] = s[i - 1] /\ s[i - 1] \in F
      BY <1>3, <1>4, <2>2
    <3>2. m[t[i]] = IF i - 1 = n THEN Nil ELSE s[(i - 1) + 1]
      BY <1>3, <1>7, <3>1
    <3>3. CASE i = n + 1
      BY <1>1, <3>2, <3>3
    <3>4. CASE i # n + 1
      <4>1. i + 1 \in 1 .. n + 1 /\ i + 1 # 1 /\ (i + 1) - 1 = i /\ (i - 1) + 1 = i /\ i - 1 # n
        BY <1>1, <3>4
      <4>2. t[i + 1] = s[i]
        BY <1>4, <4>1
      <4> QED
        BY <3>2, <3>4, <4>1, <4>2
    <3> QED
      BY <3>3, <3>4
  <2> QED
    BY <2>1, <2>2
<1>9. Path(G, b, m, t)
  BY <1>2, <1>4, <1>5, <1>6, <1>8 DEF Path
<1> QED
  BY <1>9 DEF m, t

\* The head of the list is Nil when no block is free, and else a free block.
LEMMA PathHead ==
    ASSUME NEW F \in SUBSET Blocks, NEW h, NEW k, NEW s, Path(F, h, k, s)
    PROVE  IF F = {} THEN h = Nil ELSE h \in F /\ h # Nil /\ 1 \in 1 .. Cardinality(F) /\ h = s[1]
<1>1. Cardinality(F) \in Nat /\ (F = {} <=> Cardinality(F) = 0)
  BY BlockSets
<1>2. ASSUME F # {} PROVE h \in F /\ h # Nil /\ 1 \in 1 .. Cardinality(F) /\ h = s[1]
  <2>1. 1 \in 1 .. Cardinality(F) /\ h = s[1]
    BY <1>1, <1>2 DEF Path
  <2>2. h \in F
    BY <2>1 DEF Path
  <2>3. h # Nil
    BY <2>2, SegTypes DEF Blocks, Nil
  <2> QED
    BY <2>1, <2>2, <2>3
<1> QED
  BY <1>2 DEF Path

\* k_mem_slab_alloc: the head of the list is taken.
LEMMA Pop ==
    ASSUME NEW F \in SUBSET Blocks, NEW h, NEW k, NEW s, Path(F, h, k, s), F # {}
    PROVE  \E t : Path(F \ {h}, k[h], k, t)
<1> DEFINE n == Cardinality(F)
           G == F \ {h}
           t == [i \in 1 .. n - 1 |-> s[i + 1]]
<1>1. n \in Nat /\ n # 0 /\ IsFiniteSet(F) /\ h \in F /\ 1 \in 1 .. n /\ h = s[1]
  BY BlockSets, PathHead
<1>2. Cardinality(G) = n - 1
  BY <1>1, FS_RemoveElement
<1>3. n - 1 \in Nat /\ G \in SUBSET Blocks /\ (G = {} <=> n - 1 = 0)
  <2>1. G \in SUBSET Blocks
    OBVIOUS
  <2> QED
    BY <1>1, <1>2, <2>1, BlockSets
<1>4. /\ s \in [1 .. n -> F] /\ \A i, j \in 1 .. n : i # j => s[i] # s[j]
      /\ \A i \in 1 .. n : k[s[i]] = IF i = n THEN Nil ELSE s[i + 1]
  BY DEF Path
<1> HIDE DEF n
<1>5. \A i \in 1 .. n - 1 : i + 1 \in 1 .. n /\ i + 1 # 1 /\ s[i + 1] \in G
  <2> SUFFICES ASSUME NEW i \in 1 .. n - 1 PROVE i + 1 \in 1 .. n /\ i + 1 # 1 /\ s[i + 1] \in G
    OBVIOUS
  <2>1. i + 1 \in 1 .. n /\ i + 1 # 1
    BY <1>1
  <2>2. s[i + 1] \in F /\ s[i + 1] # s[1]
    BY <1>1, <1>4, <2>1
  <2> QED
    BY <1>1, <2>1, <2>2
<1>6. t \in [1 .. n - 1 -> G] /\ DOMAIN t = 1 .. n - 1 /\ \A i \in 1 .. n - 1 : t[i] = s[i + 1]
  BY <1>5
<1> HIDE DEF t, G
<1>7. \A i, j \in 1 .. n - 1 : i # j => t[i] # t[j]
  <2> SUFFICES ASSUME NEW i \in 1 .. n - 1, NEW j \in 1 .. n - 1, i # j PROVE t[i] # t[j]
    OBVIOUS
  <2>1. i + 1 \in 1 .. n /\ j + 1 \in 1 .. n /\ i + 1 # j + 1
    BY <1>1, <1>5
  <2> QED
    BY <1>4, <1>6, <2>1
<1>8. ASSUME NEW i \in 1 .. n - 1 PROVE k[t[i]] = IF i = n - 1 THEN Nil ELSE t[i + 1]
  <2>1. i + 1 \in 1 .. n /\ t[i] = s[i + 1]
    BY <1>5, <1>6
  <2>2. k[t[i]] = IF i + 1 = n THEN Nil ELSE s[(i + 1) + 1]
    BY <1>4, <2>1
  <2>3. CASE i = n - 1
    BY <1>1, <2>2, <2>3
  <2>4. CASE i # n - 1
    <3>1. i + 1 \in 1 .. n - 1 /\ i + 1 # n
      BY <1>1, <2>4
    <3>2. t[i + 1] = s[(i + 1) + 1]
      BY <1>6, <3>1
    <3> QED
      BY <2>2, <2>4, <3>1, <3>2
  <2> QED
    BY <2>3, <2>4
<1>9. k[h] = IF G = {} THEN Nil ELSE t[1]
  <2>1. k[h] = IF 1 = n THEN Nil ELSE s[1 + 1]
    BY <1>1, <1>4
  <2>2. CASE n = 1
    BY <1>3, <2>1, <2>2
  <2>3. CASE n # 1
    <3>1. 1 \in 1 .. n - 1 /\ G # {}
      BY <1>1, <1>3, <2>3
    <3>2. t[1] = s[1 + 1]
      BY <1>6, <3>1
    <3> QED
      BY <2>1, <2>3, <3>1, <3>2
  <2> QED
    BY <2>2, <2>3
<1>10. Path(G, k[h], k, t)
  BY <1>2, <1>6, <1>7, <1>8, <1>9 DEF Path
<1> QED
  BY <1>10 DEF G

\* The slab's free list is a path.
LEMMA SlabPath == SlabConserved <=> \E s : Path(Blocks \ rx.list, rx.head, rx.link, s)
  BY DEF SlabConserved, Path

-----------------------------------------------------------------------------
(* What a reception takes it gives back *)

\* Interrupts do not preempt the work queue, peers do not restart, and no error has been reported.
Calm == Faults \cap {"preempt", "b2b", "abort"} = {} /\ \A p \in Peers : rx.errs[p] = <<>>

SendingOn(q) == q.i <= NumFrames(q.len)

\* A complete reception is one whose peer has nothing more to send, and what a
\* reception still expects covers what its peer has still to send.
Ahead(c, q) ==
    /\ c.state \in Complete => ~SendingOn(q)
    /\ c.state \in Collecting /\ SendingOn(q) => c.rem >= q.len - SegOff(q.i)

AllAhead == \A b \in rx.list : Ahead(rx.ctx[b], peer[rx.ctx[b].addr])

\* No reception is complete without a block.
CompleteListed == \A b \in Blocks \ rx.list : rx.ctx[b].state \notin Complete

\* The thread that has sent a flow-control frame finds the context in the state it left it in.
FcUndisturbed == cur.pc = "fc" => rx.ctx[cur.b].state \in {"SEND_FC", "SEND_WAIT"}

Conserved ==
    /\ ~rx.aliased /\ SlabConserved /\ BuffersReturned
    /\ CompleteListed /\ FcUndisturbed /\ AllAhead

ConserveInv == Calm => Conserved

\* At the start every block is free.
LEMMA ConserveInit == Init => ConserveInv
<1> SUFFICES ASSUME Init PROVE Conserved
  BY DEF ConserveInv
<1>1. /\ rx.list = {} /\ rx.head = 1 /\ rx.aliased = FALSE
      /\ rx.link = [b \in Blocks |-> IF b = RX_BUF_COUNT THEN Nil ELSE b + 1]
      /\ \A b \in Blocks : rx.ctx[b].state = "UNBOUND" /\ rx.ctx[b].bufs = 0
      /\ cur = Idle
  BY DEF Init
<1>2. SlabConserved
  <2> DEFINE s == [i \in Blocks |-> i]
  <2>1. Blocks \ rx.list = Blocks /\ Blocks # {} /\ 1 \in Blocks /\ Blocks = 1 .. RX_BUF_COUNT
    BY <1>1, SegTypes DEF Blocks
  <2>2. Cardinality(Blocks) = RX_BUF_COUNT
    BY BlockSets
  <2>3. s \in [1 .. RX_BUF_COUNT -> Blocks] /\ \A i, j \in DOMAIN s : i # j => s[i] # s[j]
    BY <2>1
  <2>4. \A i \in DOMAIN s : rx.link[s[i]] = IF i = RX_BUF_COUNT THEN Nil ELSE s[i + 1]
    BY <1>1, <2>1, SegTypes DEF Blocks
  <2>5. Path(Blocks, 1, rx.link, s)
    BY <2>1, <2>2, <2>3, <2>4 DEF Path
  <2> QED
    BY <1>1, <2>1, <2>5, SlabPath
<1>3. BuffersReturned /\ CompleteListed /\ AllAhead
  BY <1>1 DEF BuffersReturned, CompleteListed, AllAhead, Complete
<1>4. FcUndisturbed
  BY <1>1 DEF FcUndisturbed, Idle
<1> QED
  BY <1>1, <1>2, <1>3, <1>4 DEF Conserved

\* A reception looks no further than its peer: going on sending keeps it ahead.
LEMMA AheadOn ==
    ASSUME TypeInv, NEW p \in Peers, NEW c \in Ctx, Ahead(c, peer[p]), Sending(p), WentOn(p)
    PROVE  Ahead(c, peer'[p])
<1> DEFINE q == peer[p]
           r == peer'[p]
<1>1. /\ q.len \in Nat /\ q.i \in Nat /\ q.i >= 2 /\ r.len = q.len /\ r.i = q.i + 1
      /\ q.i <= NumFrames(q.len) /\ NumFrames(q.len) \in Nat
  <2>1. q.len \in Nat /\ q.i \in Nat /\ q.i >= 2
    BY PeerTypes
  <2> QED
    BY <2>1, FrameCount DEF WentOn, Sending
<1>2. SegOff(q.i) \in Nat /\ SegOff(r.i) = SegOff(q.i) + CfLen
  BY <1>1, SegNext
<1>3. c.state \notin Complete /\ (c.state \in Collecting => c.rem >= q.len - SegOff(q.i)) /\ c.rem \in Nat
  BY <1>1 DEF Ahead, SendingOn, Ctx
<1> HIDE DEF q, r
<1>4. c.state \in Collecting => c.rem >= r.len - SegOff(r.i)
  BY <1>1, <1>2, <1>3, SegTypes
<1> QED
  BY <1>3, <1>4 DEF Ahead, r

\* The peer's next frame takes from a reception no more than its peer has sent.
LEMMA AheadFrame ==
    ASSUME TypeInv, NEW p \in Peers, NEW c \in Ctx, Ahead(c, peer[p]), Sending(p), WentOn(p)
    PROVE  Ahead(receive_can_rx(c, FrameOf(peer[p].msg, peer[p].len, peer[p].i)), peer'[p])
<1> DEFINE q == peer[p]
           r == peer'[p]
           f == FrameOf(q.msg, q.len, q.i)
           d == receive_can_rx(c, f)
<1>1. /\ q.len \in Nat /\ q.i \in Nat /\ q.i >= 2 /\ r.len = q.len /\ r.i = q.i + 1 /\ q.msg \in Nat
      /\ q.i <= NumFrames(q.len) /\ NumFrames(q.len) \in Nat
  <2>1. q.len \in Nat /\ q.i \in Nat /\ q.i >= 2 /\ q.msg \in Nat
    BY PeerTypes
  <2> QED
    BY <2>1, FrameCount DEF WentOn, Sending
<1>2. SegOff(q.i) \in Nat /\ SegOff(r.i) = SegOff(q.i) + CfLen
  BY <1>1, SegNext
<1>3. /\ q.len > SfMax /\ f.type = "CF" /\ f.msg = q.msg /\ f.off \in Nat
      /\ f.n \in Nat /\ f.n > 0 /\ f.n = Min2(q.len - SegOff(q.i), CfLen)
  BY <1>1, NextFrame
<1>4. IsFrame(f) /\ env \in Env
  BY <1>1, <1>3 DEF IsFrame, TypeInv
<1>5. SegOff(q.i) < q.len /\ (SendingOn(r) <=> SegOff(r.i) < q.len)
  <2>1. r.i \in Nat /\ r.i >= 2
    BY <1>1
  <2>2. SegOff(q.i) < q.len
    BY <1>1, FrameCount
  <2>3. r.i <= NumFrames(q.len) <=> q.len > SfMax /\ SegOff(r.i) < q.len
    BY <1>1, <2>1, FrameCount
  <2> QED
    BY <1>1, <1>3, <2>2, <2>3 DEF SendingOn
<1>6. Ahead(c, r)
  BY AheadOn
<1>7. Ahead(c, q)
  OBVIOUS
<1> HIDE DEF q, r, f
<1>8. CASE c.state = "WAIT_FF_SF"
  <2>1. d = c
    BY <1>3, <1>8 DEF receive_can_rx, process_ff_sf
  <2> QED
    BY <1>6, <2>1 DEF q, r, f
<1>9. CASE c.state \notin {"WAIT_FF_SF", "WAIT_CF"}
  <2>1. d = c
    BY <1>9 DEF receive_can_rx
  <2> QED
    BY <1>6, <2>1 DEF q, r, f
<1>10. CASE c.state = "WAIT_CF"
  <2>1. d = process_cf(c, f)
    BY <1>10 DEF receive_can_rx
  <2> HIDE DEF d
  <2>2. \/ d.state = "ERR"
        \/ /\ d.rem = c.rem - Min2(c.rem, f.n)
           /\ IF d.rem = 0 THEN d.state = "RECYCLE" ELSE d.state \in {"WAIT_CF", "TRY_ALLOC"}
    BY <1>4, <1>10, <2>1, CfType
  <2>3. c.rem \in Nat /\ c.rem >= q.len - SegOff(q.i)
    <3>1. c.rem \in Nat
      BY DEF Ctx
    <3> QED
      BY <1>1, <1>7, <1>10, <3>1 DEF Ahead, Collecting, SendingOn
  <2>4. Min2(c.rem, f.n) = f.n
    BY <1>1, <1>2, <1>3, <1>5, <2>3, SegTypes DEF Min2
  <2>5. CASE d.state = "ERR"
    <3>1. Ahead(d, r)
      BY <2>5 DEF Ahead, Complete, Collecting
    <3> QED
      BY <3>1 DEF q, r, f, d
  <2>6. CASE d.rem = c.rem - f.n /\ d.rem = 0 /\ d.state = "RECYCLE"
    <3>1. c.rem = f.n
      BY <1>3, <2>3, <2>6
    <3>2. ~(SegOff(r.i) < q.len)
      BY <1>1, <1>2, <1>3, <1>5, <2>3, <3>1, SegTypes DEF Min2
    <3>3. Ahead(d, r)
      BY <1>5, <2>6, <3>2 DEF Ahead, Collecting
    <3> QED
      BY <3>3 DEF q, r, f, d
  <2>7. CASE d.rem = c.rem - f.n /\ d.state \in {"WAIT_CF", "TRY_ALLOC"}
    <3>1. SegOff(r.i) < q.len => c.rem - f.n >= q.len - SegOff(r.i)
      BY <1>1, <1>2, <1>3, <1>5, <2>3, SegTypes DEF Min2
    <3>2. Ahead(d, r)
      BY <1>1, <1>5, <2>7, <3>1 DEF Ahead, Complete
    <3> QED
      BY <3>2 DEF q, r, f, d
  <2> QED
    BY <2>2, <2>4, <2>5, <2>6, <2>7
<1> QED
  BY <1>8, <1>9, <1>10

\* The first frame of a message leaves a new context ahead of its peer.
LEMMA AheadStart ==
    ASSUME TypeInv, NEW p \in Peers, NEW l \in Lengths, NEW m \in Nat, Started(p), peer'[p].len = l,
           NEW c \in Ctx, Fresh(c, p)
    PROVE  Ahead(receive_can_rx(c, FrameOf(m, l, 1)), peer'[p])
<1> DEFINE r == peer'[p]
           f == FrameOf(m, l, 1)
           d == process_ff_sf(c, f)
<1>1. l \in Nat /\ l \in Nat \ {0} /\ r.len = l /\ r.i = 2
  BY SegTypes DEF Started
<1>2. /\ f.msg = m /\ f.off = 0 /\ f.n \in Nat /\ f.len = l
      /\ \/ l <= SfMax /\ f.type = "SF" /\ f.n = l
         \/ l > SfMax /\ f.type = "FF" /\ FfLen <= l
  BY <1>1, FirstFrame
<1>3. IsFrame(f)
  BY <1>1, <1>2 DEF IsFrame
<1>4. receive_can_rx(c, f) = d
  BY DEF receive_can_rx, Fresh
<1>5. SegOff(2) = FfLen
  BY SegTypes DEF SegOff
<1> HIDE DEF f, r
<1>6. (f.type = "SF" => d.state = "PROCESS_SF") /\ (f.type = "FF" => d.state = "PROCESS_FF" /\ d.rem = f.len - FfLen)
  BY <1>3, FfSfType
<1> HIDE DEF d
<1>7. Ahead(d, r)
  <2>1. CASE l <= SfMax /\ f.type = "SF"
    <3>1. NumFrames(l) = 1
      BY <2>1 DEF NumFrames
    <3> QED
      BY <1>1, <1>6, <2>1, <3>1 DEF Ahead, SendingOn, Collecting
  <2>2. CASE l > SfMax /\ f.type = "FF"
    BY <1>1, <1>2, <1>5, <1>6, <2>2, SegTypes DEF Ahead, Complete
  <2> QED
    BY <1>2, <2>1, <2>2
<1> QED
  BY <1>4, <1>7 DEF r, f

\* A listed block's context is one of its peer's.
LEMMA ListedCtx ==
    ASSUME TypeInv, NEW b \in rx.list
    PROVE  b \in Blocks /\ rx.ctx[b] \in Ctx /\ rx.ctx[b].addr \in Peers
  BY DEF TypeInv, Good, RxRec, Named

\* The context b changes, and is still ahead of its peer.
LEMMA ConserveCtx ==
    ASSUME TypeInv, Conserved, NEW b \in Blocks, SameSlab(rx, rx'), Apart(rx, rx', b),
           rx'.ctx[b].addr = rx.ctx[b].addr,
           b \notin rx.list => rx'.ctx[b].bufs = rx.ctx[b].bufs /\ rx'.ctx[b].state \notin Complete,
           b \in rx.list => Ahead(rx'.ctx[b], peer'[rx.ctx[b].addr]),
           \A c \in rx.list \ {b} : Ahead(rx.ctx[c], peer'[rx.ctx[c].addr]),
           FcUndisturbed'
    PROVE  Conserved'
<1>1. rx'.list = rx.list /\ rx.list \subseteq Blocks /\ ~rx'.aliased
  BY DEF SameSlab, TypeInv, Good, RxRec, Conserved
<1>2. SlabConserved'
  BY DEF Conserved, SlabConserved, SameSlab
<1>3. BuffersReturned'
  BY <1>1 DEF Conserved, BuffersReturned, Apart
<1>4. CompleteListed'
  BY <1>1 DEF Conserved, CompleteListed, Apart
<1>5. AllAhead'
  <2> SUFFICES ASSUME NEW c \in rx.list PROVE Ahead(rx'.ctx[c], peer'[rx'.ctx[c].addr])
    BY <1>1 DEF AllAhead
  <2>1. CASE c = b
    BY <2>1
  <2>2. CASE c # b
    BY <1>1, <2>2 DEF Apart
  <2> QED
    BY <2>1, <2>2
<1> QED
  BY <1>1, <1>2, <1>3, <1>4, <1>5 DEF Conserved

\* The block b, which no complete reception holds, goes back to the slab.
LEMMA ConserveReturn ==
    ASSUME TypeInv, Conserved, NEW b \in rx.list, Good(rx'), Returned(rx, rx', b), Apart(rx, rx', b),
           rx'.ctx[b].state \notin Complete, cur' = Idle,
           \A c \in rx.list \ {b} : Ahead(rx.ctx[c], peer'[rx.ctx[c].addr])
    PROVE  Conserved'
<1>1. rx.list \subseteq Blocks /\ b \in Blocks /\ rx'.list = rx.list \ {b} /\ rx'.aliased = rx.aliased
      /\ rx.link \in [Blocks -> Blocks \cup {Nil}]
  BY DEF Returned, TypeInv, Good, RxRec
<1>2. SlabConserved'
  <2> DEFINE F == Blocks \ rx.list
  <2>1. PICK s : Path(F, rx.head, rx.link, s)
    BY SlabPath DEF Conserved
  <2>2. F \in SUBSET Blocks /\ b \notin F /\ Blocks \ rx'.list = F \cup {b}
    BY <1>1
  <2> HIDE DEF F
  <2>3. PICK t : Path(F \cup {b}, b, [rx.link EXCEPT ![b] = rx.head], t)
    BY <1>1, <2>1, <2>2, Push
  <2>4. Path(Blocks \ rx'.list, rx'.head, rx'.link, t)
    BY <2>2, <2>3 DEF Returned
  <2> QED
    BY <2>4 DEF SlabConserved, Path
<1>3. BuffersReturned'
  BY <1>1 DEF Conserved, BuffersReturned, Apart, Returned
<1>4. CompleteListed'
  BY <1>1 DEF Conserved, CompleteListed, Apart
<1>5. AllAhead'
  BY <1>1 DEF AllAhead, Apart
<1>6. FcUndisturbed'
  BY DEF FcUndisturbed, Idle
<1> QED
  BY <1>1, <1>2, <1>3, <1>4, <1>5, <1>6 DEF Conserved

\* A peer gets the head of the slab's list, which nobody uses.
LEMMA ConserveTake ==
    ASSUME TypeInv, Conserved, NEW p \in Peers, NEW f, FrameTaken(p, f, rx.head), TakenByNew(p, f, rx.head),
           rx.head \in Blocks, Ahead(rx'.ctx[rx.head], peer'[p]), cur' = Idle,
           \A c \in rx.list : Ahead(rx.ctx[c], peer'[rx.ctx[c].addr])
    PROVE  Conserved'
<1> DEFINE b == rx.head
           F == Blocks \ rx.list
<1>1. PICK s : Path(F, b, rx.link, s)
  BY SlabPath DEF Conserved
<1>2. F \in SUBSET Blocks /\ b # Nil
  BY SegTypes DEF Blocks, Nil
<1>3. F # {} /\ b \in F
  BY <1>1, <1>2, PathHead
<1>4. rx.list \subseteq Blocks /\ rx'.list = rx.list \cup {b} /\ ~rx'.aliased /\ b \in Blocks
  BY <1>3 DEF TakenByNew, TypeInv, Good, RxRec
<1>5. Apart(rx, rx', b) /\ rx'.ctx[b].addr = p
  BY DEF FrameTaken
<1>6. SlabConserved'
  <2>1. Blocks \ rx'.list = F \ {b}
    BY <1>4
  <2> HIDE DEF F, b
  <2>2. PICK t : Path(F \ {b}, rx.link[b], rx.link, t)
    BY <1>1, <1>2, <1>3, Pop
  <2>3. Path(Blocks \ rx'.list, rx'.head, rx'.link, t)
    BY <2>1, <2>2 DEF TakenByNew, b
  <2> QED
    BY <2>3 DEF SlabConserved, Path
<1>7. BuffersReturned'
  BY <1>4, <1>5 DEF Conserved, BuffersReturned, Apart
<1>8. CompleteListed'
  BY <1>4, <1>5 DEF Conserved, CompleteListed, Apart
<1>9. AllAhead'
  <2> SUFFICES ASSUME NEW c \in rx.list \cup {b} PROVE Ahead(rx'.ctx[c], peer'[rx'.ctx[c].addr])
    BY <1>4 DEF AllAhead
  <2>1. CASE c = b
    BY <1>5, <2>1
  <2>2. CASE c # b
    BY <1>4, <1>5, <2>2 DEF Apart
  <2> QED
    BY <2>1, <2>2
<1>10. FcUndisturbed'
  BY DEF FcUndisturbed, Idle
<1> QED
  BY <1>4, <1>6, <1>7, <1>8, <1>9, <1>10 DEF Conserved

\* Nothing happens to the receiver.
LEMMA ConserveNothing ==
    ASSUME TypeInv, Conserved, rx'.ctx = rx.ctx, SameSlab(rx, rx'), cur' = cur,
           \A c \in rx.list : Ahead(rx.ctx[c], peer'[rx.ctx[c].addr])
    PROVE  Conserved'
  BY DEF Conserved, SlabConserved, BuffersReturned, CompleteListed, AllAhead, FcUndisturbed, SameSlab

\* A peer's next frame arrives or does not.
LEMMA ConserveCf ==
    ASSUME TypeInv, Conserved, NEW p \in Peers, PeerCf(p), cur = Idle
    PROVE  Conserved'
<1> DEFINE f == FrameOf(peer[p].msg, peer[p].len, peer[p].i)
<1>1. /\ WentOn(p) /\ Sending(p) /\ IsFrame(f)
      /\ FrameRx(p, f) \/ (rx' = rx /\ wq' = wq)
      /\ cur' = cur
  BY CfStep
<1>2. env \in Env /\ Good(rx) /\ Peers \subseteq Peers
  BY DEF TypeInv
<1>3. \A c \in rx.list : Ahead(rx.ctx[c], peer'[rx.ctx[c].addr])
  <2> SUFFICES ASSUME NEW c \in rx.list PROVE Ahead(rx.ctx[c], peer'[rx.ctx[c].addr])
    OBVIOUS
  <2>1. rx.ctx[c] \in Ctx /\ rx.ctx[c].addr \in Peers /\ Ahead(rx.ctx[c], peer[rx.ctx[c].addr])
    BY ListedCtx DEF Conserved, AllAhead
  <2>2. CASE rx.ctx[c].addr = p
    BY <1>1, <2>1, <2>2, AheadOn
  <2>3. CASE rx.ctx[c].addr # p
    BY <1>1, <2>1, <2>3 DEF WentOn
  <2> QED
    BY <2>2, <2>3
<1>4. CASE rx' = rx
  BY <1>1, <1>3, <1>4, ConserveNothing DEF SameSlab
<1>5. ASSUME NEW b \in CtxOf(p), rx' = free_recv_ctx(rx, b) PROVE Conserved'
  <2>1. b \in rx.list /\ rx.ctx[b].addr = p /\ b \in Blocks
    BY ListedCtx DEF CtxOf
  <2>2. Good(rx') /\ Returned(rx, rx', b) /\ Apart(rx, rx', b) /\ rx'.ctx[b].state = rx.ctx[b].state
    BY <1>2, <1>5, <2>1, FreeGood
  <2>3. rx.ctx[b].state \notin Complete
    BY <1>1, <2>1 DEF Conserved, AllAhead, Ahead, SendingOn, Sending
  <2> QED
    BY <1>1, <1>3, <2>1, <2>2, <2>3, ConserveReturn
<1>6. ASSUME NEW b \in Blocks, FrameTaken(p, f, b) PROVE Conserved'
  <2>1. CASE TakenByOld(p, f, b)
    <3>1. PICK c \in Ctx : OneMoreBuf(rx.ctx[b], c) /\ rx'.ctx[b] = receive_can_rx(c, f)
      BY <2>1 DEF TakenByOld
    <3>2. b \in rx.list /\ rx.ctx[b].addr = p /\ SameSlab(rx, rx') /\ Apart(rx, rx', b) /\ rx'.ctx[b].addr = p
      BY <1>6, <2>1 DEF TakenByOld, CtxOf, FrameTaken
    <3>3. Ahead(c, peer[p])
      BY <3>1, <3>2 DEF Conserved, AllAhead, Ahead, OneMoreBuf
    <3>4. Ahead(rx'.ctx[b], peer'[p])
      BY <1>1, <3>1, <3>3, AheadFrame
    <3>5. FcUndisturbed'
      BY <1>1 DEF FcUndisturbed, Idle
    <3> QED
      BY <1>3, <3>2, <3>4, <3>5, ConserveCtx
  <2>2. CASE TakenByNew(p, f, b)
    <3>1. PICK c \in Ctx : Fresh(c, p) /\ rx'.ctx[b] = receive_can_rx(c, f)
      BY <2>2 DEF TakenByNew
    <3>2. b = rx.head
      BY <2>2 DEF TakenByNew
    <3>3. Ahead(c, peer[p])
      BY <3>1 DEF Ahead, Fresh, Complete, Collecting
    <3>4. Ahead(rx'.ctx[b], peer'[p])
      BY <1>1, <3>1, <3>3, AheadFrame
    <3> HIDE DEF f
    <3> QED
      BY <1>1, <1>3, <1>6, <2>2, <3>2, <3>4, ConserveTake
  <2> QED
    BY <1>6, <2>1, <2>2 DEF FrameTaken
<1> HIDE DEF f
<1>7. CASE FrameRx(p, f)
  BY <1>1, <1>2, <1>4, <1>5, <1>6, <1>7, FrameEffect
<1> QED
  BY <1>1, <1>4, <1>7

\* A peer starts a message when it has no context.
LEMMA ConserveStart ==
    ASSUME TypeInv, Conserved, Calm, NEW p \in Peers, NEW l \in Lengths, PeerStart(p, l), cur = Idle
    PROVE  Conserved'
<1> DEFINE m == peer[p].msg + 1
           f == FrameOf(m, l, 1)
<1>1. /\ Started(p) /\ peer'[p].len = l /\ m \in Nat /\ IsFrame(f)
      /\ FrameRx(p, f) \/ (rx' = rx /\ wq' = wq)
      /\ cur' = cur
  BY StartStep
<1>2. env \in Env /\ Good(rx)
  BY DEF TypeInv
<1>3. CtxOf(p) = {}
  BY DEF PeerStart, Calm
<1>4. \A c \in rx.list : Ahead(rx.ctx[c], peer'[rx.ctx[c].addr])
  <2> SUFFICES ASSUME NEW c \in rx.list PROVE Ahead(rx.ctx[c], peer'[rx.ctx[c].addr])
    OBVIOUS
  <2>1. rx.ctx[c].addr \in Peers /\ Ahead(rx.ctx[c], peer[rx.ctx[c].addr])
    BY ListedCtx DEF Conserved, AllAhead
  <2>2. rx.ctx[c].addr # p
    BY <1>3 DEF CtxOf
  <2> QED
    BY <1>1, <2>1, <2>2 DEF Started
<1> HIDE DEF m
<1>5. CASE rx' = rx
  BY <1>1, <1>4, <1>5, ConserveNothing DEF SameSlab
<1>6. ASSUME NEW b \in Blocks, FrameTaken(p, f, b) PROVE Conserved'
  <2>1. TakenByNew(p, f, b)
    BY <1>3, <1>6 DEF FrameTaken, TakenByOld
  <2>2. PICK c \in Ctx : Fresh(c, p) /\ rx'.ctx[b] = receive_can_rx(c, f)
    BY <2>1 DEF TakenByNew
  <2>3. b = rx.head
    BY <2>1 DEF TakenByNew
  <2>4. Ahead(rx'.ctx[b], peer'[p])
    BY <1>1, <2>2, AheadStart
  <2> HIDE DEF f
  <2> QED
    BY <1>1, <1>4, <1>6, <2>1, <2>3, <2>4, ConserveTake
<1> HIDE DEF f
<1>7. CASE FrameRx(p, f)
  BY <1>1, <1>2, <1>3, <1>5, <1>6, <1>7, FrameEffect
<1> QED
  BY <1>1, <1>5, <1>7

\* A reception that goes on in the same or another collecting state, or is given
\* up, stays ahead.
LEMMA AheadKept ==
    ASSUME NEW c, NEW d, NEW q, Ahead(c, q), Kept(c, d),
           d.state \in Collecting => c.state \in Collecting,
           d.state \in Complete => c.state \in Complete
    PROVE  Ahead(d, q)
  BY DEF Ahead, Kept

\* The state of a context changes, and nothing else that matters.
LEMMA ConserveKept ==
    ASSUME TypeInv, Conserved, NEW b \in Blocks, SameSlab(rx, rx'), Apart(rx, rx', b),
           Kept(rx.ctx[b], rx'.ctx[b]), peer' = peer,
           rx'.ctx[b].state \in Collecting => rx.ctx[b].state \in Collecting,
           rx'.ctx[b].state \in Complete => rx.ctx[b].state \in Complete,
           FcUndisturbed'
    PROVE  Conserved'
<1>1. \A c \in rx.list : Ahead(rx.ctx[c], peer'[rx.ctx[c].addr])
  BY DEF Conserved, AllAhead
<1>2. b \in rx.list => Ahead(rx'.ctx[b], peer'[rx.ctx[b].addr])
  BY <1>1, AheadKept
<1>3. b \notin rx.list => rx'.ctx[b].bufs = rx.ctx[b].bufs /\ rx'.ctx[b].state \notin Complete
  BY DEF Conserved, CompleteListed, Kept
<1>4. rx'.ctx[b].addr = rx.ctx[b].addr
  BY DEF Kept
<1> QED
  BY <1>1, <1>2, <1>3, <1>4, ConserveCtx

\* A flow-control frame reaches a peer, which is done or as far as before.
LEMMA ConserveFc ==
    ASSUME TypeInv, Conserved, FcTx
    PROVE  Conserved'
<1>1. rx'.ctx = rx.ctx /\ SameSlab(rx, rx') /\ cur' = cur
  BY FcTxStep DEF FcGone, FcTx
<1>2. ASSUME NEW c \in rx.list PROVE Ahead(rx.ctx[c], peer'[rx.ctx[c].addr])
  <2> DEFINE a == rx.ctx[c].addr
  <2>1. a \in Peers /\ Ahead(rx.ctx[c], peer[a])
    BY ListedCtx DEF Conserved, AllAhead
  <2> HIDE DEF a
  <2>2. CASE peer' = peer
    BY <2>1, <2>2 DEF a
  <2>3. ASSUME NEW p \in Peers, FcAnswered(p) PROVE Ahead(rx.ctx[c], peer'[a])
    <3>1. CASE a # p
      BY <2>1, <2>3, <3>1 DEF FcAnswered
    <3>2. CASE a = p /\ peer'[p].i = peer[p].i
      BY <2>1, <2>3, <3>2 DEF FcAnswered, Ahead, SendingOn
    <3>3. CASE a = p /\ peer'[p].i = NumFrames(peer[p].len) + 1
      <4>1. NumFrames(peer[p].len) \in Nat
        BY PeerTypes, FrameCount
      <4>2. ~SendingOn(peer'[p])
        BY <2>3, <3>3, <4>1 DEF FcAnswered, SendingOn
      <4> QED
        BY <3>3, <4>2 DEF Ahead
    <3> QED
      BY <2>3, <3>1, <3>2, <3>3 DEF FcAnswered
  <2> QED
    BY <2>2, <2>3, FcTxPeer DEF a
<1> QED
  BY <1>1, <1>2, ConserveNothing

\* What a work item does.
LEMMA ConserveWork ==
    ASSUME TypeInv, Conserved, Calm', NEW b \in Blocks, Work(b)
    PROVE  Conserved'
<1>1. Named(rx, b)
  BY HeadNamed
<1>2. Good(rx') /\ SameAddr(rx, rx') /\ WorkEffect(b) /\ cur = Idle /\ peer' = peer
  BY <1>1, WorkSteps DEF TypeInv
<1>3. \A c \in rx.list : Ahead(rx.ctx[c], peer'[rx.ctx[c].addr])
  BY <1>2 DEF Conserved, AllAhead
<1>4. CASE WorkEnds(b)
  <2>1. b \in rx.list
    BY <1>4 DEF WorkEnds, Conserved, CompleteListed
  <2>2. Returned(rx, rx', b) /\ Apart(rx, rx', b) /\ rx'.ctx[b].state \notin Complete /\ cur' = Idle
    BY <1>2, <1>4 DEF WorkEnds, Complete
  <2> QED
    BY <1>2, <1>3, <2>1, <2>2, ConserveReturn
<1>5. CASE WorkGoesOn(b)
  <2>1. SameSlab(rx, rx') /\ Apart(rx, rx', b) /\ Kept(rx.ctx[b], rx'.ctx[b])
    BY <1>5 DEF WorkGoesOn
  <2>2. rx.ctx[b].state \in Collecting /\ rx'.ctx[b].state \notin Complete /\ FcUndisturbed'
    BY <1>5 DEF WorkGoesOn, Complete, FcUndisturbed
  <2> QED
    BY <1>2, <2>1, <2>2, ConserveKept
<1>6. CASE WorkFails(b)
  <2>1. rx.ctx[b].addr \in Peers /\ rx'.errs[rx.ctx[b].addr] # <<>>
    BY <1>1, <1>6 DEF WorkFails, Named
  <2> QED
    BY <2>1 DEF Calm
<1>7. CASE rx' = rx /\ cur' = cur
  BY <1>3, <1>7, ConserveNothing DEF SameSlab
<1> QED
  BY <1>2, <1>4, <1>5, <1>6, <1>7 DEF WorkEffect

\* Every step keeps the slab.
LEMMA ConserveNext == TypeInv /\ ConserveInv /\ [Next]_vars => ConserveInv'
<1> SUFFICES ASSUME TypeInv, ConserveInv, [Next]_vars, Calm' PROVE Conserved'
  BY DEF ConserveInv
<1>1. CASE UNCHANGED vars
  <2>1. Calm
    BY <1>1 DEF Calm, Faults, vars
  <2>2. Conserved
    BY <2>1 DEF ConserveInv
  <2> QED
    BY <1>1, <2>2 DEF vars, Conserved, SlabConserved, BuffersReturned, CompleteListed, FcUndisturbed, AllAhead
<1>2. ASSUME env' = env, rx'.errs = rx.errs PROVE Calm /\ Conserved
  BY <1>2 DEF Calm, Faults, ConserveInv
<1>3. ASSUME IsrAllowed, Calm PROVE cur = Idle
  BY <1>3 DEF IsrAllowed, Calm
<1>4. CASE FinishFc
  <2>1. PICK d \in Ctx : FinishEffect(d)
    BY <1>4, FinishStep
  <2>2. /\ cur.pc = "fc" /\ cur.b \in Blocks /\ SameSlab(rx, rx') /\ Apart(rx, rx', cur.b)
        /\ Kept(rx.ctx[cur.b], rx'.ctx[cur.b]) /\ rx'.ctx[cur.b].state \in {"WAIT_CF", "TRY_ALLOC"}
        /\ rx'.errs = rx.errs
    BY <2>1 DEF FinishEffect, Changed, TypeInv, Cur
  <2>3. Conserved
    BY <1>2, <1>4, <2>2 DEF FinishFc
  <2>4. rx.ctx[cur.b].state \in Collecting /\ rx'.ctx[cur.b].state \notin Complete
    BY <2>2, <2>3 DEF Conserved, FcUndisturbed, Collecting, Complete
  <2>5. FcUndisturbed' /\ peer' = peer
    BY <1>4 DEF FinishFc, FcUndisturbed, Idle
  <2> QED
    BY <2>2, <2>3, <2>4, <2>5, ConserveKept
<1>5. ASSUME NEW b \in Blocks, Work(b) PROVE Conserved'
  <2>1. Named(rx, b)
    BY <1>5, HeadNamed
  <2>2. WorkEffect(b) /\ env' = env
    BY <1>5, <2>1, WorkSteps DEF TypeInv
  <2>3. rx'.errs = rx.errs
    <3>1. ~WorkFails(b)
      BY <2>1 DEF WorkFails, Calm, Named
    <3> QED
      BY <2>2, <3>1 DEF WorkEffect, WorkEnds, WorkGoesOn
  <2> QED
    BY <1>2, <1>5, <2>2, <2>3, ConserveWork
<1>6. CASE FcTx
  <2>1. env' = env /\ rx'.errs = rx.errs
    BY <1>6, FcTxStep DEF FcTx, FcGone
  <2> QED
    BY <1>2, <1>6, <2>1, ConserveFc
<1>7. CASE FcTxError
  <2>1. PICK b \in Blocks : FcErrorEffect(b)
    BY <1>7, FcErrorStep
  <2>2. /\ SameSlab(rx, rx') /\ Apart(rx, rx', b) /\ Kept(rx.ctx[b], rx'.ctx[b])
        /\ rx'.ctx[b].state = "ERR" /\ rx'.errs = rx.errs
    BY <2>1 DEF FcErrorEffect, FcGone
  <2>3. env' = env /\ cur' = cur /\ peer' = peer /\ IsrAllowed
    BY <1>7 DEF FcTxError
  <2>4. Calm /\ Conserved /\ cur' = Idle
    BY <1>2, <1>3, <2>2, <2>3
  <2>5. rx'.ctx[b].state \notin Collecting /\ rx'.ctx[b].state \notin Complete /\ FcUndisturbed'
    BY <2>2, <2>4 DEF Collecting, Complete, FcUndisturbed, Idle
  <2> QED
    BY <2>2, <2>3, <2>4, <2>5, ConserveKept
<1>8. ASSUME NEW p \in Peers, NEW f, IsFrame(f), FrameRx(p, f) \/ (rx' = rx /\ wq' = wq)
      PROVE  rx'.errs = rx.errs
  <2>1. ASSUME NEW b \in CtxOf(p), rx' = free_recv_ctx(rx, b) PROVE rx'.errs = rx.errs
    <3>1. b \in Blocks
      BY ListedCtx DEF CtxOf
    <3> QED
      BY <2>1, <3>1, FreeGood DEF TypeInv
  <2> QED
    BY <1>8, <2>1, FrameEffect DEF TypeInv, FrameTaken
<1>9. ASSUME NEW p \in Peers, NEW l \in Lengths, PeerStart(p, l) PROVE Conserved'
  <2> DEFINE f == FrameOf(peer[p].msg + 1, l, 1)
  <2>1. IsFrame(f) /\ (FrameRx(p, f) \/ (rx' = rx /\ wq' = wq)) /\ env' = env /\ IsrAllowed
    BY <1>9, StartStep DEF PeerStart
  <2> HIDE DEF f
  <2>2. Calm /\ Conserved /\ cur = Idle
    BY <1>2, <1>3, <1>8, <2>1
  <2> QED
    BY <1>9, <2>2, ConserveStart
<1>10. ASSUME NEW p \in Peers, PeerCf(p) PROVE Conserved'
  <2> DEFINE f == FrameOf(peer[p].msg, peer[p].len, peer[p].i)
  <2>1. IsFrame(f) /\ (FrameRx(p, f) \/ (rx' = rx /\ wq' = wq)) /\ env' = env /\ IsrAllowed
    BY <1>10, CfStep DEF PeerCf
  <2> HIDE DEF f
  <2>2. Conserved /\ cur = Idle
    BY <1>2, <1>3, <1>8, <2>1
  <2> QED
    BY <1>10, <2>2, ConserveCf
<1>11. ASSUME NEW b \in Blocks, Timeout(b) PROVE Conserved'
  <2>1. PICK d \in Ctx : TimeoutEffect(b, d)
    BY <1>11, TimeoutStep
  <2>2. /\ SameSlab(rx, rx') /\ Apart(rx, rx', b) /\ Kept(rx.ctx[b], rx'.ctx[b]) /\ rx'.errs = rx.errs
        /\ \/ rx'.ctx[b].state = "ERR"
           \/ rx.ctx[b].state = "TRY_ALLOC" /\ rx'.ctx[b].state = "SEND_WAIT"
           \/ rx'.ctx[b].state = rx.ctx[b].state
    BY <2>1 DEF TimeoutEffect, Changed
  <2>3. env' = env /\ cur' = cur /\ peer' = peer /\ IsrAllowed
    BY <1>11 DEF Timeout
  <2>4. Calm /\ Conserved /\ cur' = Idle
    BY <1>2, <1>3, <2>2, <2>3
  <2>5. FcUndisturbed'
    BY <2>4 DEF FcUndisturbed, Idle
  <2>6. /\ rx'.ctx[b].state \in Collecting => rx.ctx[b].state \in Collecting
        /\ rx'.ctx[b].state \in Complete => rx.ctx[b].state \in Complete
    BY <2>2 DEF Collecting, Complete
  <2> QED
    BY <2>2, <2>3, <2>4, <2>5, <2>6, ConserveKept
<1> QED
  BY <1>1, <1>4, <1>5, <1>6, <1>7, <1>9, <1>10, <1>11 DEF Next, Worker, Send

\* Until an error is reported no block and no buffer is lost or shared, whatever is lost or late,
\* for any number of peers and contexts: a reception that loses its context to a
\* full pool was not complete, and is not put back a second time.
THEOREM ResourcesAreConserved == Spec => []ResourcesConserved
<1>1. ConserveInv => ResourcesConserved
  BY DEF ConserveInv, Calm, Conserved, ResourcesConserved
<1>2. Init => TypeInv /\ ConserveInv
  BY TypeInit, ConserveInit
<1>3. TypeInv /\ ConserveInv /\ [Next]_vars => (TypeInv /\ ConserveInv)'
  BY TypeNext, ConserveNext
<1> QED
  BY <1>1, <1>2, <1>3, PTL DEF Spec

-----------------------------------------------------------------------------
(* What is delivered *)

\* The sequence number counts the frames.
LEMMA SnNext == ASSUME NEW k \in Nat PROVE IncSn(k % SN_MOD) = (k + 1) % SN_MOD
<1> DEFINE p == k \div SN_MOD
           r == k % SN_MOD
<1>1. SN_MOD \in Nat /\ SN_MOD > 1
  BY SegTypes
<1>2. k = SN_MOD * p + r /\ p \in Nat /\ r \in 0 .. SN_MOD - 1
  BY <1>1
<1> HIDE DEF p, r
<1>3. CASE r + 1 < SN_MOD
  <2>1. k + 1 = SN_MOD * p + (r + 1) /\ r + 1 \in 0 .. SN_MOD - 1
    BY <1>1, <1>2, <1>3
  <2>2. (k + 1) % SN_MOD = r + 1
    BY <1>1, <1>2, <2>1
  <2> QED
    BY <1>1, <1>2, <1>3, <2>2 DEF IncSn, r
<1>4. CASE r + 1 = SN_MOD
  <2>1. k + 1 = SN_MOD * (p + 1)
    BY <1>1, <1>2, <1>4
  <2>2. (k + 1) % SN_MOD = 0
    BY <1>1, <1>2, <2>1
  <2>3. r = SN_MOD - 1
    BY <1>1, <1>2, <1>4
  <2> QED
    BY <2>2, <2>3 DEF IncSn, r
<1> QED
  BY <1>1, <1>2, <1>3, <1>4

\* It tells frames apart that are less than SN_MOD apart.
LEMMA SnApart ==
    ASSUME NEW k \in Nat, NEW i \in Nat, k <= i, i - k < SN_MOD, i % SN_MOD = k % SN_MOD
    PROVE  i = k
<1> DEFINE p == k \div SN_MOD
           q == i \div SN_MOD
           r == k % SN_MOD
<1>1. SN_MOD \in Nat /\ SN_MOD > 1
  BY SegTypes
<1>2. /\ k = SN_MOD * p + r /\ p \in Nat /\ r \in 0 .. SN_MOD - 1
      /\ i = SN_MOD * q + r /\ q \in Nat
  BY <1>1
<1> HIDE DEF p, q, r
<1>3. CASE q = p
  BY <1>2, <1>3
<1>4. CASE q > p
  <2>1. SN_MOD * q >= SN_MOD * (p + 1)
    BY <1>1, <1>2, <1>4
  <2>2. SN_MOD * (p + 1) = SN_MOD * p + SN_MOD
    BY <1>1, <1>2
  <2> QED
    BY <1>1, <1>2, <2>1, <2>2
<1>5. CASE q < p
  <2>1. SN_MOD * p >= SN_MOD * (q + 1)
    BY <1>1, <1>2, <1>5
  <2>2. SN_MOD * (q + 1) = SN_MOD * q + SN_MOD
    BY <1>1, <1>2
  <2> QED
    BY <1>1, <1>2, <2>1, <2>2
<1> QED
  BY <1>2, <1>3, <1>4, <1>5

\* The data of the i-th frame of a message.
PieceOf(m, l, i) ==
    LET f == FrameOf(m, l, i) IN [msg |-> f.msg, off |-> f.off, n |-> f.n]

\* The context c has collected the first frames of the message m, of length l.
PartOf(c, m, l) ==
    LET k == Len(c.data) IN
    /\ k >= 1 /\ k <= NumFrames(l)
    /\ \A j \in 1 .. k : c.data[j] = PieceOf(m, l, j)
    /\ c.state \in Complete => k = NumFrames(l)
    /\ c.state \in Collecting => k < NumFrames(l) /\ c.rem = l - SegOff(k + 1) /\ c.sn = k % SN_MOD

\* Everything in g is of messages before m.
After(g, m) == \A k \in DOMAIN g : g[k] # Freed => g[k][1].msg < m

\* What g is, if it was delivered from the peer q.
DeliveredFrom(g, q) ==
    \A k \in DOMAIN g : g[k] # Freed =>
        /\ \E m \in 1 .. q.msg, l \in Lengths : g[k] = PiecesOf(m, l)
        /\ \A j \in 1 .. k - 1 : g[j] # Freed => g[j][1].msg < g[k][1].msg

\* What the context c collects is a message of q that g does not hold yet, as far
\* as q has sent it.
Collects(c, g, q, m, l) ==
    /\ PartOf(c, m, l) /\ After(g, m)
    /\ m = q.msg => l = q.len /\ Len(c.data) < q.i

Holds(c, g, q) ==
    /\ c.state = "WAIT_FF_SF" => c.data = <<>>
    /\ c.state \in Complete \cup Collecting =>
          \E m \in 1 .. q.msg, l \in Lengths : Collects(c, g, q, m, l)

\* The peer goes on from q to r.
Later(q, r) ==
    /\ q.msg \in Nat /\ r.msg \in Nat /\ q.i \in Nat /\ r.i \in Nat /\ r.msg >= q.msg
    /\ r.msg = q.msg => r.len = q.len /\ (r.i >= q.i \/ r.i = NumFrames(r.len) + 1)

\* g is followed by nothing but released buffers.
GivenFreed(g, h) ==
    /\ Len(g) <= Len(h)
    /\ \A k \in DOMAIN h : h[k] = IF k <= Len(g) THEN g[k] ELSE Freed

\* What has been collected stays so when the peer goes on and nothing is delivered.
LEMMA HoldsOn ==
    ASSUME NEW c \in Ctx, NEW g \in Seq(Seq(Piece)), NEW h \in Seq(Seq(Piece)), NEW q, NEW r,
           Holds(c, g, q), Later(q, r), GivenFreed(g, h)
    PROVE  Holds(c, h, r)
<1>1. ASSUME NEW m \in 1 .. q.msg, NEW l \in Lengths, Collects(c, g, q, m, l)
      PROVE  m \in 1 .. r.msg /\ Collects(c, h, r, m, l)
  <2>1. m \in 1 .. r.msg /\ (m = r.msg => m = q.msg /\ q.msg = r.msg)
    BY DEF Later
  <2>2. Len(g) \in Nat /\ Len(h) \in Nat /\ DOMAIN g = 1 .. Len(g) /\ DOMAIN h = 1 .. Len(h)
    OBVIOUS
  <2>3. After(h, m)
    BY <1>1, <2>2 DEF Collects, After, GivenFreed
  <2>4. ASSUME m = r.msg PROVE l = r.len /\ Len(c.data) < r.i
    <3>1. l = q.len /\ Len(c.data) < q.i /\ r.len = q.len /\ (r.i >= q.i \/ r.i = NumFrames(r.len) + 1)
      BY <1>1, <2>1, <2>4 DEF Collects, Later
    <3>2. Len(c.data) <= NumFrames(l) /\ Len(c.data) \in Nat
      BY <1>1 DEF Collects, PartOf, Ctx
    <3>3. l \in Nat /\ NumFrames(l) \in Nat /\ q.i \in Nat /\ r.i \in Nat
      <4>1. l \in Nat
        BY SegTypes
      <4> QED
        BY <4>1, FrameCount DEF Later
    <3> QED
      BY <3>1, <3>2, <3>3
  <2> QED
    BY <1>1, <2>1, <2>3, <2>4 DEF Collects
<1> QED
  BY <1>1 DEF Holds

\* And so does what has been delivered.
LEMMA DeliveredOn ==
    ASSUME NEW g \in Seq(Seq(Piece)), NEW h \in Seq(Seq(Piece)), NEW q, NEW r,
           DeliveredFrom(g, q), Later(q, r), GivenFreed(g, h)
    PROVE  DeliveredFrom(h, r)
<1>1. Len(g) \in Nat /\ Len(h) \in Nat /\ DOMAIN g = 1 .. Len(g) /\ DOMAIN h = 1 .. Len(h)
  OBVIOUS
<1> SUFFICES ASSUME NEW k \in DOMAIN h, h[k] # Freed
             PROVE  /\ \E m \in 1 .. r.msg, l \in Lengths : h[k] = PiecesOf(m, l)
                    /\ \A j \in 1 .. k - 1 : h[j] # Freed => h[j][1].msg < h[k][1].msg
  BY DEF DeliveredFrom
<1>2. k <= Len(g) /\ h[k] = g[k] /\ k \in DOMAIN g
  BY <1>1 DEF GivenFreed
<1>3. ASSUME NEW j \in 1 .. k - 1 PROVE h[j] = g[j]
  <2>1. j \in DOMAIN h /\ j <= Len(g)
    BY <1>1, <1>2
  <2> QED
    BY <2>1 DEF GivenFreed
<1>4. PICK m \in 1 .. q.msg, l \in Lengths : g[k] = PiecesOf(m, l)
  BY <1>2 DEF DeliveredFrom
<1>5. m \in 1 .. r.msg
  BY DEF Later
<1> QED
  BY <1>2, <1>3, <1>4, <1>5 DEF DeliveredFrom

\* Delivered messages have begun.
LEMMA DeliveredMsg ==
    ASSUME NEW g \in Seq(Seq(Piece)), NEW q, q.msg \in Nat, DeliveredFrom(g, q), NEW m \in Nat, q.msg < m
    PROVE  After(g, m)
<1> SUFFICES ASSUME NEW k \in DOMAIN g, g[k] # Freed PROVE g[k][1].msg < m
  BY DEF After
<1>1. PICK n \in 1 .. q.msg, l \in Lengths : g[k] = PiecesOf(n, l)
  BY DEF DeliveredFrom
<1>2. l \in Nat \ {0} /\ n \in Nat /\ l \in Nat
  BY SegTypes
<1>3. 1 \in 1 .. NumFrames(l) /\ FrameOf(n, l, 1).msg = n
  BY <1>2, FrameCount, FirstFrame
<1>4. g[k][1].msg = n
  BY <1>1, <1>3 DEF PiecesOf
<1> QED
  BY <1>2, <1>4

\* A complete message is delivered.
LEMMA DeliveredMore ==
    ASSUME NEW c \in Ctx, c.state \in Complete, NEW g \in Seq(Seq(Piece)), NEW q, q.msg \in Nat,
           Holds(c, g, q), DeliveredFrom(g, q)
    PROVE  DeliveredFrom(Append(g, c.data), q)
<1> DEFINE h == Append(g, c.data)
<1>1. PICK m \in 1 .. q.msg, l \in Lengths : Collects(c, g, q, m, l)
  BY DEF Holds
<1>2. l \in Nat \ {0} /\ l \in Nat /\ m \in Nat /\ NumFrames(l) \in Nat /\ NumFrames(l) >= 1
  <2>1. l \in Nat \ {0} /\ l \in Nat /\ m \in Nat
    BY SegTypes
  <2> QED
    BY <2>1, FrameCount
<1>3. /\ c.data \in Seq(Piece) /\ Len(c.data) = NumFrames(l)
      /\ \A j \in 1 .. NumFrames(l) : c.data[j] = PieceOf(m, l, j)
  BY <1>1 DEF Ctx, Collects, PartOf
<1>4. c.data = PiecesOf(m, l)
  <2>1. DOMAIN c.data = 1 .. NumFrames(l) /\ c.data = [j \in 1 .. NumFrames(l) |-> c.data[j]]
    BY <1>3
  <2> QED
    BY <1>3, <2>1 DEF PiecesOf, PieceOf
<1>5. c.data[1].msg = m
  <2>1. 1 \in 1 .. NumFrames(l) /\ FrameOf(m, l, 1).msg = m
    BY <1>2, FirstFrame
  <2> QED
    <3>1. c.data[1] = PieceOf(m, l, 1)
      BY <1>3, <2>1
    <3>2. PieceOf(m, l, 1).msg = m
      BY <2>1 DEF PieceOf
    <3> QED
      BY <3>1, <3>2
<1>6. /\ h \in Seq(Seq(Piece)) /\ DOMAIN h = 1 .. Len(g) + 1 /\ Len(g) \in Nat /\ h[Len(g) + 1] = c.data
      /\ \A j \in 1 .. Len(g) : h[j] = g[j] /\ j \in DOMAIN g
  BY <1>3
<1> HIDE DEF h
<1> SUFFICES ASSUME NEW k \in DOMAIN h, h[k] # Freed
             PROVE  /\ \E n \in 1 .. q.msg, x \in Lengths : h[k] = PiecesOf(n, x)
                    /\ \A j \in 1 .. k - 1 : h[j] # Freed => h[j][1].msg < h[k][1].msg
  BY DEF DeliveredFrom, h
<1>7. CASE k = Len(g) + 1
  <2>1. ASSUME NEW j \in 1 .. k - 1, h[j] # Freed PROVE h[j][1].msg < m
    <3>1. h[j] = g[j] /\ j \in DOMAIN g
      BY <1>6, <1>7
    <3> QED
      BY <1>1, <2>1, <3>1 DEF Collects, After
  <2> QED
    BY <1>4, <1>5, <1>6, <1>7, <2>1
<1>8. CASE k # Len(g) + 1
  <2>1. k \in 1 .. Len(g)
    BY <1>6, <1>8
  <2>2. k \in DOMAIN g /\ h[k] = g[k] /\ \A j \in 1 .. k - 1 : h[j] = g[j]
    BY <1>6, <2>1
  <2> QED
    BY <2>2 DEF DeliveredFrom
<1> QED
  BY <1>7, <1>8

\* A frame that arrives for c is of the message c collects, and the sequence
\* number tells how many were lost before it.
InTime(c, q) ==
    c.state = "WAIT_CF" /\ SendingOn(q) => c.data[1].msg = q.msg /\ q.i - Len(c.data) <= SN_MOD

\* The next frame of the peer, in any state of the context.
LEMMA HoldsCf ==
    ASSUME TypeInv, NEW p \in Peers, NEW c \in Ctx, NEW g \in Seq(Seq(Piece)), Holds(c, g, peer[p]),
           InTime(c, peer[p]), Sending(p), WentOn(p)
    PROVE  Holds(receive_can_rx(c, FrameOf(peer[p].msg, peer[p].len, peer[p].i)), g, peer'[p])
<1> DEFINE q == peer[p]
           r == peer'[p]
           f == FrameOf(q.msg, q.len, q.i)
           d == receive_can_rx(c, f)
<1>1. /\ q.len \in Nat /\ q.i \in Nat /\ q.i >= 2 /\ q.msg \in Nat
      /\ r.len = q.len /\ r.i = q.i + 1 /\ r.msg = q.msg
      /\ q.i <= NumFrames(q.len) /\ NumFrames(q.len) \in Nat
  <2>1. q.len \in Nat /\ q.i \in Nat /\ q.i >= 2 /\ q.msg \in Nat
    BY PeerTypes
  <2> QED
    BY <2>1, FrameCount DEF WentOn, Sending
<1>2. /\ q.len > SfMax /\ f.type = "CF" /\ f.msg = q.msg /\ f.off = SegOff(q.i) /\ f.off \in Nat
      /\ f.n \in Nat /\ f.n > 0 /\ f.n = Min2(q.len - SegOff(q.i), CfLen) /\ f.sn = (q.i - 1) % SN_MOD
  <2> HIDE DEF q, r, d
  <2>1. q.msg \in Nat /\ q.len \in Nat /\ q.i \in Nat /\ q.i >= 2 /\ q.i <= NumFrames(q.len)
    BY <1>1
  <2> QED
    BY <2>1, NextFrame
<1>3. IsFrame(f) /\ env \in Env
  BY <1>1, <1>2 DEF IsFrame, TypeInv
<1>4. Holds(c, g, r)
  <2>1. Later(q, r)
    BY <1>1 DEF Later
  <2>2. GivenFreed(g, g)
    BY DEF GivenFreed
  <2> HIDE DEF q, r
  <2> QED
    BY <2>1, <2>2, HoldsOn DEF q
<1>5. Holds(c, g, q) /\ InTime(c, q) /\ SendingOn(q)
  BY DEF Sending, SendingOn
<1>6. f.n = q.len - SegOff(q.i) \/ (f.n = CfLen /\ CfLen <= q.len - SegOff(q.i))
  BY <1>1, <1>2, SegTypes DEF Min2
<1>7. PieceOf(q.msg, q.len, q.i) = PieceIn(f, f.n)
  BY DEF PieceOf, PieceIn
<1> HIDE DEF q, r, f
<1>8. CASE c.state # "WAIT_CF"
  <2>1. d = c
    BY <1>2, <1>8 DEF receive_can_rx, process_ff_sf
  <2> QED
    BY <1>4, <2>1 DEF q, r, f
<1>9. CASE c.state = "WAIT_CF"
  <2>1. d = process_cf(c, f)
    BY <1>9 DEF receive_can_rx
  <2> HIDE DEF d
  <2>2. \/ d.state = "ERR"
        \/ /\ d.rem = c.rem - Min2(c.rem, f.n) /\ SnMatches(c, f) /\ d.sn = IncSn(c.sn)
           /\ d.data = Append(c.data, PieceIn(f, Min2(c.rem, f.n)))
           /\ IF d.rem = 0 THEN d.state = "RECYCLE" ELSE d.state \in {"WAIT_CF", "TRY_ALLOC"}
    BY <1>3, <1>9, <2>1, CfType
  <2>3. CASE d.state = "ERR"
    <3>1. Holds(d, g, r)
      BY <2>3 DEF Holds, Complete, Collecting
    <3> QED
      BY <3>1 DEF q, r, f, d
  <2>4. CASE /\ d.rem = c.rem - Min2(c.rem, f.n) /\ SnMatches(c, f) /\ d.sn = IncSn(c.sn)
             /\ d.data = Append(c.data, PieceIn(f, Min2(c.rem, f.n)))
             /\ IF d.rem = 0 THEN d.state = "RECYCLE" ELSE d.state \in {"WAIT_CF", "TRY_ALLOC"}
    <3> DEFINE k == Len(c.data)
    <3>1. PICK m \in 1 .. q.msg, l \in Lengths : Collects(c, g, q, m, l)
      BY <1>5, <1>9 DEF Holds, Collecting
    <3>2. /\ k >= 1 /\ k < NumFrames(l) /\ c.rem = l - SegOff(k + 1) /\ c.sn = k % SN_MOD
          /\ \A j \in 1 .. k : c.data[j] = PieceOf(m, l, j)
      BY <1>9, <3>1 DEF Collects, PartOf, Collecting
    <3>3. k \in Nat /\ c.data \in Seq(Piece) /\ l \in Nat /\ l \in Nat \ {0} /\ m \in Nat
      BY <1>1, SegTypes DEF Ctx
    <3>4. c.data[1].msg = q.msg /\ q.i - k <= SN_MOD
      BY <1>5, <1>9 DEF InTime
    <3>5. m = q.msg
      <4>1. c.data[1] = PieceOf(m, l, 1)
        BY <3>2, <3>3
      <4>2. PieceOf(m, l, 1).msg = FrameOf(m, l, 1).msg
        BY DEF PieceOf
      <4>3. FrameOf(m, l, 1).msg = m
        BY <3>3, FirstFrame
      <4> QED
        BY <3>4, <4>1, <4>2, <4>3
    <3>6. l = q.len /\ k < q.i /\ After(g, m)
      BY <3>1, <3>5 DEF Collects
    <3>7. q.i - 1 = k
      <4>1. (q.i - 1) % SN_MOD = k % SN_MOD
        BY <1>2, <2>4, <3>2 DEF SnMatches
      <4>2. q.i - 1 \in Nat /\ k <= q.i - 1 /\ (q.i - 1) - k < SN_MOD
        <5> DEFINE i == q.i
        <5>1. i \in Nat /\ i >= 2 /\ k \in Nat /\ k < i /\ i - k <= SN_MOD /\ SN_MOD \in Nat
          BY <1>1, <3>3, <3>4, <3>6, SegTypes
        <5> HIDE DEF i, k
        <5>2. i - 1 \in Nat /\ k <= i - 1 /\ (i - 1) - k < SN_MOD
          BY <5>1
        <5> QED
          BY <5>2 DEF i
      <4> HIDE DEF k
      <4> QED
        BY <3>3, <4>1, <4>2, SnApart
    <3> HIDE DEF k
    <3>8. SegOff(q.i) \in Nat /\ SegOff(q.i + 1) = SegOff(q.i) + CfLen /\ q.i = k + 1
      <4>1. SegOff(q.i) \in Nat /\ SegOff(q.i + 1) = SegOff(q.i) + CfLen
        BY <1>1, SegNext
      <4>2. q.i = k + 1
        BY <1>1, <3>3, <3>7
      <4> QED
        BY <4>1, <4>2
    <3>9. c.rem = q.len - SegOff(q.i) /\ Min2(c.rem, f.n) = f.n
      BY <1>1, <1>2, <1>6, <3>2, <3>6, <3>8, SegTypes DEF Min2
    <3>10. /\ d.data = Append(c.data, PieceOf(m, l, q.i)) /\ d.rem = q.len - SegOff(q.i) - f.n
           /\ Len(c.data) = k
      BY <1>7, <2>4, <3>5, <3>6, <3>9 DEF k
    <3>11. /\ Len(d.data) = q.i /\ \A j \in 1 .. q.i : d.data[j] = PieceOf(m, l, j)
      <4> DEFINE x == PieceOf(m, l, q.i)
      <4>1. d.data = Append(c.data, x) /\ Len(c.data) = k /\ c.data \in Seq(Piece)
        BY <3>3, <3>10
      <4>2. x \in Piece
        <5>1. x = PieceIn(f, f.n)
          BY <1>7, <3>5, <3>6
        <5> QED
          BY <1>2, <5>1, <1>1 DEF PieceIn, Piece
      <4> HIDE DEF x
      <4>3. Len(d.data) = k + 1 /\ d.data[k + 1] = x /\ \A j \in 1 .. k : d.data[j] = c.data[j]
        BY <4>1, <4>2
      <4>4. \A j \in 1 .. q.i : j = k + 1 \/ j \in 1 .. k
        BY <3>3, <3>8
      <4> QED
        BY <3>2, <3>8, <4>3, <4>4 DEF x
    <3>12. d.sn = q.i % SN_MOD
      BY <2>4, <3>2, <3>3, <3>8, SnNext
    <3>13. CASE q.i = NumFrames(l)
      <4>1. ~(SegOff(q.i + 1) < l)
        <5>1. q.i + 1 \in Nat /\ q.i + 1 >= 2 /\ ~(q.i + 1 <= NumFrames(l))
          BY <1>1, <3>13
        <5>2. l > SfMax
          BY <1>2, <3>6
        <5> QED
          BY <3>3, <5>1, <5>2, FrameCount
      <4>2. d.rem = 0
        <5> DEFINE x == SegOff(q.i)
                   n == f.n
        <5>1. x \in Nat /\ n \in Nat /\ CfLen \in Nat /\ ~(x + CfLen < l) /\ d.rem = l - x - n
              /\ (n = l - x \/ (n = CfLen /\ CfLen <= l - x))
          BY <1>2, <1>6, <3>6, <3>8, <3>10, <4>1, SegTypes
        <5> HIDE DEF x, n
        <5> QED
          BY <3>3, <5>1
      <4>3. d.state = "RECYCLE"
        BY <2>4, <4>2
      <4>4. PartOf(d, m, l)
        BY <1>1, <3>11, <3>13, <4>3 DEF PartOf, Collecting
      <4>5. Collects(d, g, r, m, l)
        BY <1>1, <3>5, <3>6, <3>11, <4>4 DEF Collects
      <4>6. Holds(d, g, r)
        BY <1>1, <4>3, <4>5 DEF Holds
      <4> QED
        BY <4>6 DEF q, r, f, d
    <3>14. CASE q.i # NumFrames(l)
      <4>1. SegOff(q.i + 1) < l /\ q.i < NumFrames(l)
        <5>1. q.i + 1 \in Nat /\ q.i + 1 >= 2 /\ q.i + 1 <= NumFrames(l) /\ q.i < NumFrames(l)
          BY <1>1, <3>6, <3>14
        <5> QED
          BY <3>3, <5>1, FrameCount
      <4>2. d.rem = l - SegOff(q.i + 1) /\ d.rem # 0
        <5> DEFINE x == SegOff(q.i)
                   y == SegOff(q.i + 1)
                   n == f.n
        <5>1. /\ x \in Nat /\ n \in Nat /\ CfLen \in Nat /\ y = x + CfLen /\ y < l /\ d.rem = l - x - n
              /\ n = l - x \/ (n = CfLen /\ CfLen <= l - x)
              /\ n = Min2(l - x, CfLen)
          BY <1>2, <1>6, <3>6, <3>8, <3>10, <4>1, SegTypes
        <5> HIDE DEF x, y, n
        <5>2. n = CfLen
          BY <3>3, <5>1 DEF Min2
        <5>3. d.rem = l - y /\ d.rem # 0
          BY <3>3, <5>1, <5>2
        <5> QED
          BY <5>3 DEF y
      <4>3. d.state \in {"WAIT_CF", "TRY_ALLOC"}
        BY <2>4, <4>2
      <4>4. PartOf(d, m, l)
        <5> DEFINE i == q.i
        <5>1. /\ i >= 1 /\ i < NumFrames(l) /\ i <= NumFrames(l) /\ Len(d.data) = i
              /\ \A j \in 1 .. i : d.data[j] = PieceOf(m, l, j)
              /\ d.rem = l - SegOff(i + 1) /\ d.sn = i % SN_MOD
          BY <1>1, <3>6, <3>11, <3>12, <4>1, <4>2
        <5>2. d.state \notin Complete
          BY <4>3 DEF Complete
        <5> HIDE DEF i
        <5> QED
          BY <5>1, <5>2 DEF PartOf
      <4>5. Collects(d, g, r, m, l)
        BY <1>1, <3>5, <3>6, <3>11, <4>4 DEF Collects
      <4>6. Holds(d, g, r)
        BY <1>1, <4>3, <4>5 DEF Holds
      <4> QED
        BY <4>6 DEF q, r, f, d
    <3> QED
      BY <3>13, <3>14
  <2> QED
    BY <2>2, <2>3, <2>4
<1> QED
  BY <1>8, <1>9

\* The first frame of the peer's next message, in any state of the context.
LEMMA HoldsStart ==
    ASSUME TypeInv, NEW p \in Peers, NEW l \in Lengths, NEW c \in Ctx, NEW g \in Seq(Seq(Piece)),
           Holds(c, g, peer[p]), DeliveredFrom(g, peer[p]), Started(p), peer'[p].len = l
    PROVE  Holds(receive_can_rx(c, FrameOf(peer[p].msg + 1, l, 1)), g, peer'[p])
<1> DEFINE q == peer[p]
           r == peer'[p]
           m == q.msg + 1
           f == FrameOf(m, l, 1)
           d == receive_can_rx(c, f)
<1>1. /\ q.msg \in Nat /\ m \in Nat /\ m > q.msg /\ q.i \in Nat
      /\ r.len = l /\ r.i = 2 /\ r.msg = m /\ l \in Nat /\ l \in Nat \ {0}
  <2>1. q.msg \in Nat /\ q.i \in Nat
    BY PeerTypes
  <2> QED
    BY <2>1, SegTypes DEF Started
<1>2. /\ f.msg = m /\ f.off = 0 /\ f.n \in Nat /\ f.len = l
      /\ \/ l <= SfMax /\ f.type = "SF" /\ f.n = l
         \/ l > SfMax /\ f.type = "FF" /\ FfLen <= l
  <2> HIDE DEF m
  <2> QED
    BY <1>1, FirstFrame
<1>3. IsFrame(f) /\ env \in Env
  BY <1>1, <1>2 DEF IsFrame, TypeInv
<1>4. Holds(c, g, r)
  <2>1. Later(q, r)
    BY <1>1 DEF Later
  <2>2. GivenFreed(g, g)
    BY DEF GivenFreed
  <2> HIDE DEF q, r
  <2> QED
    BY <2>1, <2>2, HoldsOn DEF q
<1>5. After(g, m)
  BY <1>1, DeliveredMsg
<1>6. PieceOf(m, l, 1) = PieceIn(f, f.n) /\ (l > SfMax => f.n = FfLen)
  <2>1. PieceOf(m, l, 1) = PieceIn(f, f.n)
    BY DEF PieceOf, PieceIn
  <2>2. ASSUME l > SfMax PROVE f.n = FfLen
    <3>1. ~(l <= SfMax) /\ FfLen <= l - 0
      BY <1>1, <2>2, SegTypes
    <3>2. f.n = SegLen(l, 1)
      BY <3>1 DEF FrameOf, Segment
    <3> QED
      BY <1>1, <3>1, <3>2, SegTypes DEF SegLen, SegOff, Min2
  <2> QED
    BY <2>1, <2>2
<1>7. NumFrames(l) \in Nat /\ NumFrames(l) >= 1 /\ (l > SfMax => NumFrames(l) > 1) /\ (l <= SfMax => NumFrames(l) = 1)
  <2>1. NumFrames(l) \in Nat /\ NumFrames(l) >= 1
    BY <1>1, FrameCount
  <2>2. l > SfMax => NumFrames(l) > 1
    <3>1. ~(l <= SfMax) => NumFrames(l) = NumSegs(l)
      BY DEF NumFrames
    <3>2. l > SfMax => NumSegs(l) >= 2 /\ NumSegs(l) \in Nat
      <4>1. 2 \in Nat /\ 2 >= 2
        OBVIOUS
      <4> QED
        BY <1>1, <4>1, SegCount
    <3> QED
      BY <1>1, <3>1, <3>2, SegTypes
  <2>3. l <= SfMax => NumFrames(l) = 1
    BY DEF NumFrames
  <2> QED
    BY <2>1, <2>2, <2>3
<1> HIDE DEF q, r, f, m
<1>8. CASE c.state = "WAIT_FF_SF"
  <2>1. d = process_ff_sf(c, f)
    BY <1>8 DEF receive_can_rx
  <2>2. c.data = <<>>
    BY <1>8 DEF Holds
  <2> HIDE DEF d
  <2>3. /\ f.type = "SF" => d.state = "PROCESS_SF" /\ d.data = Append(c.data, PieceIn(f, f.n))
        /\ f.type = "FF" => /\ d.state = "PROCESS_FF" /\ d.rem = f.len - FfLen /\ d.sn = 1
                            /\ d.data = Append(c.data, PieceIn(f, FfLen))
    BY <1>3, <2>1, FfSfType
  <2>4. d.data = <<PieceOf(m, l, 1)>>
    BY <1>2, <1>6, <2>2, <2>3
  <2>5. Len(d.data) = 1 /\ \A j \in 1 .. 1 : d.data[j] = PieceOf(m, l, j)
    BY <2>4
  <2>6. m \in 1 .. r.msg
    <3>1. m \in Nat /\ m > 0 /\ r.msg = m
      BY <1>1
    <3> QED
      BY <3>1
  <2>7. PartOf(d, m, l)
    <3>1. CASE f.type = "SF"
      BY <1>2, <1>7, <2>3, <2>5, <3>1 DEF PartOf, Collecting
    <3>2. CASE f.type = "FF"
      <4>1. SegOff(1 + 1) = FfLen /\ 1 % SN_MOD = 1
        BY SegTypes DEF SegOff
      <4>2. l > SfMax /\ NumFrames(l) > 1 /\ d.rem = l - FfLen /\ d.sn = 1 /\ d.state = "PROCESS_FF"
        BY <1>2, <1>7, <2>3, <3>2
      <4> QED
        BY <1>7, <2>5, <4>1, <4>2 DEF PartOf, Complete
    <3> QED
      BY <1>2, <3>1, <3>2
  <2>8. Collects(d, g, r, m, l)
    BY <1>1, <1>5, <2>5, <2>7 DEF Collects
  <2>9. Holds(d, g, r)
    <3>1. d.state \in {"PROCESS_SF", "PROCESS_FF"}
      BY <1>2, <2>3
    <3> QED
      BY <2>6, <2>8, <3>1 DEF Holds
  <2> QED
    BY <2>9 DEF q, r, f, d, m
<1>9. CASE c.state = "WAIT_CF"
  <2>1. d = process_cf(c, f)
    BY <1>9 DEF receive_can_rx
  <2> HIDE DEF d
  <2>2. d.state = "ERR"
    BY <1>2, <1>3, <1>9, <2>1, CfType
  <2>3. Holds(d, g, r)
    BY <2>2 DEF Holds, Complete, Collecting
  <2> QED
    BY <2>3 DEF q, r, f, d, m
<1>10. CASE c.state \notin {"WAIT_FF_SF", "WAIT_CF"}
  <2>1. d = c
    BY <1>10 DEF receive_can_rx
  <2> QED
    BY <1>4, <2>1 DEF q, r, f, m
<1> QED
  BY <1>8, <1>9, <1>10

\* Every context is one peer's.
OneEach == \A b, e \in rx.list : b # e => rx.ctx[b].addr # rx.ctx[e].addr

\* What listed contexts collect, and what has been delivered.
AllHold == \A b \in rx.list : Holds(rx.ctx[b], rx.got[rx.ctx[b].addr], peer[rx.ctx[b].addr])
AllDelivered == \A p \in Peers : DeliveredFrom(rx.got[p], peer[p])

\* The thread that has sent a flow-control frame finds the context as it left it, if it still is one.
FcListed == cur.pc = "fc" /\ cur.b \in rx.list => rx.ctx[cur.b].state \in {"SEND_FC", "SEND_WAIT"}

DeliverInv == OneEach /\ BuffersReturned /\ FcListed /\ AllHold /\ AllDelivered

\* The peers go on.
AllLater == \A p \in Peers : Later(peer[p], peer'[p])

\* At the start nothing has been received.
LEMMA DeliverInit == Init => DeliverInv
  BY DEF Init, DeliverInv, OneEach, BuffersReturned, FcListed, AllHold, AllDelivered, DeliveredFrom, Idle

\* What was delivered.
LEMMA GotType == TypeInv => \A p \in Peers : rx.got[p] \in Seq(Seq(Piece))
  BY DEF TypeInv, Good, RxRec

\* Peers that do nothing are not behind themselves.
LEMMA SameLater == TypeInv /\ peer' = peer => AllLater
<1> SUFFICES ASSUME TypeInv, peer' = peer, NEW p \in Peers PROVE Later(peer[p], peer'[p])
  BY DEF AllLater
<1>1. peer[p].msg \in Nat /\ peer[p].i \in Nat
  BY PeerTypes
<1> QED
  BY <1>1 DEF Later

\* A listed context that nothing happens to.
LEMMA HeldStill ==
    ASSUME TypeInv, TypeInv', DeliverInv, AllLater, NEW e \in rx.list,
           GivenFreed(rx.got[rx.ctx[e].addr], rx'.got[rx.ctx[e].addr])
    PROVE  Holds(rx.ctx[e], rx'.got[rx.ctx[e].addr], peer'[rx.ctx[e].addr])
<1> DEFINE a == rx.ctx[e].addr
<1>1. rx.ctx[e] \in Ctx /\ a \in Peers
  BY ListedCtx
<1>2. rx.got[a] \in Seq(Seq(Piece)) /\ rx'.got[a] \in Seq(Seq(Piece))
  <2>1. \A p \in Peers : rx.got[p] \in Seq(Seq(Piece))
    BY GotType
  <2>2. \A p \in Peers : rx'.got[p] \in Seq(Seq(Piece))
    BY DEF TypeInv, Good, RxRec
  <2> HIDE DEF a
  <2> QED
    BY <1>1, <2>1, <2>2
<1>3. Holds(rx.ctx[e], rx.got[a], peer[a]) /\ Later(peer[a], peer'[a])
  BY <1>1 DEF DeliverInv, AllHold, AllLater
<1> HIDE DEF a
<1>4. Holds(rx.ctx[e], rx'.got[a], peer'[a])
  BY <1>1, <1>2, <1>3, HoldsOn DEF a
<1> QED
  BY <1>4 DEF a

\* Nothing delivered is nothing lost.
LEMMA DeliveredStill ==
    ASSUME TypeInv, TypeInv', DeliverInv, AllLater, NEW p \in Peers,
           GivenFreed(rx.got[p], rx'.got[p])
    PROVE  DeliveredFrom(rx'.got[p], peer'[p])
<1>1. rx.got[p] \in Seq(Seq(Piece)) /\ rx'.got[p] \in Seq(Seq(Piece))
  BY DEF TypeInv, Good, RxRec
<1>2. DeliveredFrom(rx.got[p], peer[p]) /\ Later(peer[p], peer'[p])
  BY DEF DeliverInv, AllDelivered, AllLater
<1> QED
  BY <1>1, <1>2, DeliveredOn

\* No delivery is no delivery.
LEMMA NotGiven == ASSUME TypeInv, rx'.got = rx.got PROVE \A p \in Peers : GivenFreed(rx.got[p], rx'.got[p])
<1>1. \A p \in Peers : rx.got[p] \in Seq(Seq(Piece))
  BY GotType
<1> QED
  BY <1>1 DEF GivenFreed

\* One context changes, and still holds what it should.
LEMMA DeliverCtx ==
    ASSUME TypeInv, TypeInv', DeliverInv, AllLater, NEW b \in Blocks, rx'.list = rx.list,
           Apart(rx, rx', b), rx'.ctx[b].addr = rx.ctx[b].addr, rx'.got = rx.got,
           b \notin rx.list => rx'.ctx[b].bufs = rx.ctx[b].bufs,
           b \in rx.list => Holds(rx'.ctx[b], rx.got[rx.ctx[b].addr], peer'[rx.ctx[b].addr]),
           FcListed'
    PROVE  DeliverInv'
<1>1. \A p \in Peers : GivenFreed(rx.got[p], rx'.got[p])
  BY NotGiven
<1>2. rx.list \subseteq Blocks /\ \A e \in Blocks : e # b => rx'.ctx[e] = rx.ctx[e]
  BY DEF TypeInv, Good, RxRec, Apart
<1>3. OneEach'
  BY <1>2 DEF DeliverInv, OneEach
<1>4. BuffersReturned'
  BY <1>2 DEF DeliverInv, BuffersReturned
<1>5. AllHold'
  <2> SUFFICES ASSUME NEW e \in rx.list PROVE Holds(rx'.ctx[e], rx'.got[rx'.ctx[e].addr], peer'[rx'.ctx[e].addr])
    BY DEF AllHold
  <2>1. CASE e = b
    BY <2>1
  <2>2. CASE e # b
    <3>1. rx'.ctx[e] = rx.ctx[e] /\ rx.ctx[e].addr \in Peers
      BY <1>2, <2>2, ListedCtx
    <3>2. Holds(rx.ctx[e], rx'.got[rx.ctx[e].addr], peer'[rx.ctx[e].addr])
      BY <1>1, <3>1, HeldStill
    <3> QED
      BY <3>1, <3>2
  <2> QED
    BY <2>1, <2>2
<1>6. AllDelivered'
  BY <1>1, DeliveredStill DEF AllDelivered
<1> QED
  BY <1>3, <1>4, <1>5, <1>6 DEF DeliverInv

\* A block is given up, and other peers are delivered nothing.
LEMMA DeliverGone ==
    ASSUME TypeInv, TypeInv', DeliverInv, AllLater, NEW b \in Blocks,
           Only(rx, rx', b), Gone(rx', b), AllDelivered', FcListed',
           \A e \in rx.list : e # b => GivenFreed(rx.got[rx.ctx[e].addr], rx'.got[rx.ctx[e].addr])
    PROVE  DeliverInv'
<1>1. /\ rx.list \subseteq Blocks /\ rx'.list \subseteq rx.list /\ b \notin rx'.list /\ rx'.ctx[b].bufs = 0
      /\ \A e \in rx.list : e # b => e \in rx'.list
      /\ \A e \in Blocks : e # b => rx'.ctx[e] = rx.ctx[e]
  BY DEF TypeInv, Good, RxRec, Only, Apart, Gone
<1>2. OneEach'
  BY <1>1 DEF DeliverInv, OneEach
<1>3. BuffersReturned'
  BY <1>1 DEF DeliverInv, BuffersReturned
<1>4. AllHold'
  <2> SUFFICES ASSUME NEW e \in rx'.list PROVE Holds(rx'.ctx[e], rx'.got[rx'.ctx[e].addr], peer'[rx'.ctx[e].addr])
    BY DEF AllHold
  <2>1. e \in rx.list /\ e # b /\ rx'.ctx[e] = rx.ctx[e]
    BY <1>1
  <2>2. Holds(rx.ctx[e], rx'.got[rx.ctx[e].addr], peer'[rx.ctx[e].addr])
    BY <2>1, HeldStill
  <2> QED
    BY <2>1, <2>2
<1> QED
  BY <1>2, <1>3, <1>4 DEF DeliverInv

\* A peer without a context gets one.
LEMMA DeliverTaken ==
    ASSUME TypeInv, TypeInv', DeliverInv, AllLater, NEW p \in Peers, NEW f,
           NEW b \in Blocks, FrameTaken(p, f, b), TakenByNew(p, f, b), cur' = Idle,
           Holds(rx'.ctx[b], rx.got[p], peer'[p])
    PROVE  DeliverInv'
<1>1. \A q \in Peers : GivenFreed(rx.got[q], rx'.got[q])
  BY NotGiven DEF FrameTaken
<1>2. /\ rx.list \subseteq Blocks /\ rx'.list = rx.list \cup {b} /\ rx'.ctx[b].addr = p /\ rx'.got = rx.got
      /\ \A e \in Blocks : e # b => rx'.ctx[e] = rx.ctx[e]
      /\ \A e \in rx.list : rx.ctx[e].addr # p
  BY DEF TypeInv, Good, RxRec, FrameTaken, TakenByNew, Apart, CtxOf
<1>3. OneEach'
  BY <1>2 DEF DeliverInv, OneEach
<1>4. BuffersReturned'
  BY <1>2 DEF DeliverInv, BuffersReturned
<1>5. AllHold'
  <2> SUFFICES ASSUME NEW e \in rx.list \cup {b}
               PROVE Holds(rx'.ctx[e], rx'.got[rx'.ctx[e].addr], peer'[rx'.ctx[e].addr])
    BY <1>2 DEF AllHold
  <2>1. CASE e = b
    BY <1>2, <2>1
  <2>2. CASE e # b
    <3>1. e \in rx.list /\ rx'.ctx[e] = rx.ctx[e] /\ rx.ctx[e].addr \in Peers
      BY <1>2, <2>2, ListedCtx
    <3>2. Holds(rx.ctx[e], rx'.got[rx.ctx[e].addr], peer'[rx.ctx[e].addr])
      BY <1>1, <3>1, HeldStill
    <3> QED
      BY <3>1, <3>2
  <2> QED
    BY <2>1, <2>2
<1>6. AllDelivered'
  BY <1>1, DeliveredStill DEF AllDelivered
<1>7. FcListed'
  BY DEF FcListed, Idle
<1> QED
  BY <1>3, <1>4, <1>5, <1>6, <1>7 DEF DeliverInv

\* The peers and what they have sent.
LEMMA FrameLater ==
    ASSUME TypeInv, NEW p \in Peers, Started(p) \/ WentOn(p)
    PROVE  AllLater
<1> SUFFICES ASSUME NEW q \in Peers PROVE Later(peer[q], peer'[q])
  BY DEF AllLater
<1>1. peer[q].msg \in Nat /\ peer[q].i \in Nat /\ peer[p].msg \in Nat /\ peer[p].i \in Nat
  BY PeerTypes
<1>2. CASE q # p
  <2>1. peer'[q] = peer[q]
    BY <1>2 DEF Started, WentOn
  <2> QED
    BY <1>1, <2>1 DEF Later
<1>3. CASE q = p /\ Started(p)
  BY <1>1, <1>3 DEF Later, Started
<1>4. CASE q = p /\ WentOn(p)
  BY <1>1, <1>4 DEF Later, WentOn
<1> QED
  BY <1>2, <1>3, <1>4

\* A frame arrives, or does not.
LEMMA DeliverFrame ==
    ASSUME TypeInv, TypeInv', DeliverInv, AllLater, NEW p \in Peers, NEW f, IsFrame(f),
           FrameRx(p, f) \/ (rx' = rx /\ wq' = wq), cur = Idle, cur' = cur,
           \A c \in Ctx : /\ \A b \in rx.list : rx.ctx[b].addr = p /\ OneMoreBuf(rx.ctx[b], c)
                                => Holds(receive_can_rx(c, f), rx.got[p], peer'[p])
                          /\ Fresh(c, p) => Holds(receive_can_rx(c, f), rx.got[p], peer'[p])
    PROVE  DeliverInv'
<1>1. env \in Env /\ Good(rx) /\ rx.list \subseteq Blocks
  BY DEF TypeInv, Good, RxRec
<1>2. FcListed'
  BY DEF FcListed, Idle
<1>3. ASSUME rx'.got = rx.got
      PROVE  /\ \A q \in Peers : GivenFreed(rx.got[q], rx'.got[q])
             /\ AllDelivered'
             /\ \A e \in rx.list : GivenFreed(rx.got[rx.ctx[e].addr], rx'.got[rx.ctx[e].addr])
  <2>1. \A q \in Peers : GivenFreed(rx.got[q], rx'.got[q])
    BY <1>3, NotGiven
  <2>2. AllDelivered'
    BY <2>1, DeliveredStill DEF AllDelivered
  <2>3. \A e \in rx.list : rx.ctx[e].addr \in Peers
    BY ListedCtx
  <2> QED
    BY <2>1, <2>2, <2>3
<1>4. CASE rx' = rx
  <2>1. AllHold'
    <3> SUFFICES ASSUME NEW e \in rx.list PROVE Holds(rx.ctx[e], rx'.got[rx.ctx[e].addr], peer'[rx.ctx[e].addr])
      BY <1>4 DEF AllHold
    <3>1. GivenFreed(rx.got[rx.ctx[e].addr], rx'.got[rx.ctx[e].addr])
      BY <1>3, <1>4
    <3> QED
      BY <3>1, HeldStill
  <2> QED
    BY <1>2, <1>3, <1>4, <2>1 DEF DeliverInv, OneEach, BuffersReturned
<1>5. ASSUME NEW b \in CtxOf(p), rx' = free_recv_ctx(rx, b) PROVE DeliverInv'
  <2>1. b \in Blocks
    BY <1>1 DEF CtxOf
  <2>2. Returned(rx, rx', b) /\ Apart(rx, rx', b) /\ rx'.got = rx.got
    BY <1>1, <1>5, <2>1, FreeGood
  <2>3. Only(rx, rx', b) /\ Gone(rx', b)
    BY <2>2 DEF Only, Gone, Returned
  <2> QED
    BY <1>2, <1>3, <2>1, <2>2, <2>3, DeliverGone
<1>6. ASSUME NEW b \in Blocks, FrameTaken(p, f, b) PROVE DeliverInv'
  <2>1. CASE TakenByOld(p, f, b)
    <3>1. PICK c \in Ctx : OneMoreBuf(rx.ctx[b], c) /\ rx'.ctx[b] = receive_can_rx(c, f)
      BY <2>1 DEF TakenByOld
    <3>2. b \in rx.list /\ rx.ctx[b].addr = p /\ rx'.list = rx.list /\ Apart(rx, rx', b) /\ rx'.ctx[b].addr = p
          /\ rx'.got = rx.got
      BY <1>6, <2>1 DEF TakenByOld, CtxOf, FrameTaken, SameSlab
    <3>3. Holds(rx'.ctx[b], rx.got[p], peer'[p])
      BY <3>1, <3>2
    <3> QED
      BY <1>2, <3>2, <3>3, DeliverCtx
  <2>2. CASE TakenByNew(p, f, b)
    <3>1. PICK c \in Ctx : Fresh(c, p) /\ rx'.ctx[b] = receive_can_rx(c, f)
      BY <2>2 DEF TakenByNew
    <3>2. Holds(rx'.ctx[b], rx.got[p], peer'[p])
      BY <3>1
    <3> QED
      BY <1>6, <2>2, <3>2, DeliverTaken
  <2> QED
    BY <1>6, <2>1, <2>2 DEF FrameTaken
<1>7. CASE FrameRx(p, f)
  BY <1>1, <1>4, <1>5, <1>6, <1>7, FrameEffect
<1> QED
  BY <1>4, <1>7

\* A context that keeps what it has collected, and goes on collecting or stops.
LEMMA HoldsKept ==
    ASSUME NEW c, NEW d, NEW g, NEW q, Kept(c, d), Holds(c, g, q),
           d.state = c.state \/ d.state = "ERR" \/ (c.state \in Collecting /\ d.state \in Collecting)
    PROVE  Holds(d, g, q)
<1>1. CASE d.state = "ERR"
  BY <1>1 DEF Holds, Complete, Collecting
<1>2. CASE d.state = c.state \/ (c.state \in Collecting /\ d.state \in Collecting)
  <2>1. \A m, l : Collects(c, g, q, m, l) => Collects(d, g, q, m, l)
    BY <1>2 DEF Collects, PartOf, Kept, Complete, Collecting
  <2>2. d.state = "WAIT_FF_SF" => c.state = "WAIT_FF_SF"
    BY <1>2 DEF Collecting
  <2>3. d.state \in Complete \cup Collecting => c.state \in Complete \cup Collecting
    BY <1>2
  <2> QED
    BY <2>1, <2>2, <2>3 DEF Holds, Kept
<1> QED
  BY <1>1, <1>2

\* One more buffer.
LEMMA HoldsBuf ==
    ASSUME NEW c, NEW d, NEW g, NEW q, OneMoreBuf(c, d), Holds(c, g, q)
    PROVE  Holds(d, g, q)
<1>1. \A m, l : Collects(c, g, q, m, l) => Collects(d, g, q, m, l)
  BY DEF Collects, PartOf, OneMoreBuf
<1> QED
  BY <1>1 DEF Holds, OneMoreBuf

\* A reception that ends.
LEMMA DeliverEnds ==
    ASSUME TypeInv, TypeInv', DeliverInv, NEW b \in Blocks, Named(rx, b), WorkEnds(b),
           peer' = peer, cur = Idle
    PROVE  DeliverInv'
<1> DEFINE a == rx.ctx[b].addr
           g == rx.got[a]
<1>1. /\ a \in Peers /\ rx.ctx[b] \in Ctx /\ rx.got \in [Peers -> Seq(Seq(Piece))]
      /\ Given(rx, b) \in Seq(Piece)
  <2>1. Freed \in Seq(Piece)
    BY DEF Freed, Piece
  <2> QED
    BY <2>1 DEF TypeInv, Good, RxRec, Named, Given, Ctx
<1>2. rx'.got[a] = Append(g, Given(rx, b)) /\ \A p \in Peers : p # a => rx'.got[p] = rx.got[p]
  BY <1>1 DEF WorkEnds
<1>3. AllLater
  BY SameLater
<1>4. Only(rx, rx', b) /\ Gone(rx', b) /\ FcListed'
  BY DEF WorkEnds, Returned, Only, Gone, FcListed, Idle
<1>5. \A p \in Peers : p # a => GivenFreed(rx.got[p], rx'.got[p])
  BY <1>1, <1>2 DEF GivenFreed
<1>6. ASSUME Given(rx, b) = Freed PROVE GivenFreed(g, rx'.got[a])
  <2>1. g \in Seq(Seq(Piece)) /\ rx'.got[a] = Append(g, Freed) /\ Freed \in Seq(Piece)
    BY <1>1, <1>2, <1>6
  <2> DEFINE h == rx'.got[a]
  <2> HIDE DEF g, h
  <2>2. /\ Len(g) \in Nat /\ Len(h) = Len(g) + 1 /\ h[Len(g) + 1] = Freed /\ DOMAIN h = 1 .. Len(g) + 1
        /\ \A k \in 1 .. Len(g) : h[k] = g[k]
    BY <2>1 DEF h
  <2>3. GivenFreed(g, h)
    <3>1. ASSUME NEW k \in DOMAIN h PROVE h[k] = IF k <= Len(g) THEN g[k] ELSE Freed
      <4>1. k \in 1 .. Len(g) \/ (k = Len(g) + 1 /\ ~(k <= Len(g)))
        BY <2>2
      <4>2. k \in 1 .. Len(g) => k <= Len(g)
        BY <2>2
      <4> QED
        BY <2>2, <4>1, <4>2
    <3> QED
      BY <2>2, <3>1 DEF GivenFreed
  <2> QED
    BY <2>3 DEF h
<1>7. b \notin rx.list => Given(rx, b) = Freed
  BY DEF DeliverInv, BuffersReturned, Given
<1>8. AllDelivered'
  <2> SUFFICES ASSUME NEW p \in Peers PROVE DeliveredFrom(rx'.got[p], peer'[p])
    BY DEF AllDelivered
  <2>1. CASE p # a \/ Given(rx, b) = Freed
    <3>1. GivenFreed(rx.got[p], rx'.got[p])
      BY <1>5, <1>6, <2>1
    <3> QED
      BY <1>3, <3>1, DeliveredStill
  <2>2. CASE p = a /\ Given(rx, b) # Freed
    <3>1. b \in rx.list /\ Given(rx, b) = rx.ctx[b].data
      BY <1>7, <2>2 DEF Given
    <3>2. Holds(rx.ctx[b], rx.got[p], peer[p]) /\ DeliveredFrom(rx.got[p], peer[p])
      BY <2>2, <3>1 DEF DeliverInv, AllHold, AllDelivered
    <3>3. rx.ctx[b].state \in Complete /\ rx.got[p] \in Seq(Seq(Piece)) /\ peer[p].msg \in Nat
      BY <1>1, PeerTypes DEF WorkEnds
    <3>4. DeliveredFrom(Append(rx.got[p], rx.ctx[b].data), peer[p])
      BY <1>1, <3>2, <3>3, DeliveredMore
    <3> QED
      BY <1>2, <2>2, <3>1, <3>4
  <2> QED
    BY <2>1, <2>2
<1>9. ASSUME NEW e \in rx.list, e # b
      PROVE  GivenFreed(rx.got[rx.ctx[e].addr], rx'.got[rx.ctx[e].addr])
  <2>1. rx.ctx[e].addr \in Peers
    BY ListedCtx
  <2>2. CASE b \in rx.list
    <3>1. rx.ctx[e].addr # a
      BY <1>9, <2>2 DEF DeliverInv, OneEach
    <3> QED
      BY <1>5, <2>1, <3>1
  <2>3. CASE b \notin rx.list
    BY <1>5, <1>6, <1>7, <2>1, <2>3
  <2> QED
    BY <2>2, <2>3
<1> QED
  BY <1>3, <1>4, <1>8, <1>9, DeliverGone

\* The work queue.
LEMMA DeliverWork ==
    ASSUME TypeInv, TypeInv', DeliverInv, NEW b \in Blocks, Work(b)
    PROVE  DeliverInv'
<1>1. Named(rx, b)
  BY HeadNamed
<1>2. Good(rx') /\ SameAddr(rx, rx') /\ WorkEffect(b) /\ cur = Idle /\ peer' = peer
  BY <1>1, WorkSteps DEF TypeInv
<1>3. AllLater
  BY <1>2, SameLater
<1>4. CASE WorkEnds(b)
  BY <1>1, <1>2, <1>4, DeliverEnds
<1>5. CASE WorkGoesOn(b)
  <2>1. /\ Apart(rx, rx', b) /\ rx'.list = rx.list /\ Kept(rx.ctx[b], rx'.ctx[b]) /\ rx'.got = rx.got
        /\ rx.ctx[b].state \in Collecting /\ rx'.ctx[b].state \in Collecting
    BY <1>5 DEF WorkGoesOn, SameSlab, Collecting
  <2>2. b \in rx.list => Holds(rx'.ctx[b], rx.got[rx.ctx[b].addr], peer'[rx.ctx[b].addr])
    BY <1>2, <2>1, HoldsKept DEF DeliverInv, AllHold
  <2>3. FcListed'
    BY <1>5 DEF WorkGoesOn, FcListed
  <2>4. rx'.ctx[b].addr = rx.ctx[b].addr /\ rx'.ctx[b].bufs = rx.ctx[b].bufs
    BY <2>1 DEF Kept
  <2> QED
    BY <1>3, <2>1, <2>2, <2>3, <2>4, DeliverCtx
<1>6. CASE WorkFails(b)
  <2>1. Only(rx, rx', b) /\ Gone(rx', b) /\ \A p \in Peers : GivenFreed(rx.got[p], rx'.got[p])
    BY <1>6 DEF WorkFails, NothingGiven, GivenFreed
  <2>2. AllDelivered'
    BY <1>3, <2>1, DeliveredStill DEF AllDelivered
  <2>3. FcListed'
    BY <1>2, <1>6 DEF WorkFails, Gone, FcListed, Idle
  <2>4. \A e \in rx.list : rx.ctx[e].addr \in Peers
    BY ListedCtx
  <2> QED
    BY <1>3, <2>1, <2>2, <2>3, <2>4, DeliverGone
<1>7. CASE rx' = rx /\ cur' = cur
  BY <1>2, <1>7 DEF DeliverInv, OneEach, BuffersReturned, FcListed, AllHold, AllDelivered
<1> QED
  BY <1>2, <1>4, <1>5, <1>6, <1>7 DEF WorkEffect

\* The frames of the peers reach the contexts they are for: no interrupt comes
\* between the sending of a flow-control frame and the statements after it, and
\* fewer frames in a row are lost than the sequence number counts.
Orderly ==
    /\ "preempt" \notin Faults
    /\ \A b \in rx.list : InTime(rx.ctx[b], peer[rx.ctx[b].addr])

\* What the interrupt or the work queue changes in one context of the list.
LEMMA DeliverKept ==
    ASSUME TypeInv, TypeInv', DeliverInv, AllLater, NEW b \in Blocks, SameSlab(rx, rx'),
           Apart(rx, rx', b), Kept(rx.ctx[b], rx'.ctx[b]), rx'.got = rx.got, cur' = Idle,
           b \in rx.list => \/ rx'.ctx[b].state \in {"ERR", rx.ctx[b].state}
                            \/ rx.ctx[b].state \in Collecting /\ rx'.ctx[b].state \in Collecting
    PROVE  DeliverInv'
<1>1. rx'.list = rx.list /\ rx'.ctx[b].addr = rx.ctx[b].addr /\ rx'.ctx[b].bufs = rx.ctx[b].bufs
  BY DEF SameSlab, Kept
<1>2. FcListed'
  BY DEF FcListed, Idle
<1>3. ASSUME b \in rx.list PROVE Holds(rx'.ctx[b], rx.got[rx.ctx[b].addr], peer'[rx.ctx[b].addr])
  <2>1. Holds(rx.ctx[b], rx.got[rx.ctx[b].addr], peer'[rx.ctx[b].addr])
    <3>1. rx.ctx[b].addr \in Peers
      BY <1>3, ListedCtx
    <3>2. GivenFreed(rx.got[rx.ctx[b].addr], rx'.got[rx.ctx[b].addr])
      BY <3>1, NotGiven
    <3> QED
      BY <1>3, <3>2, HeldStill
  <2> QED
    BY <1>3, <2>1, HoldsKept
<1> QED
  BY <1>1, <1>2, <1>3, DeliverCtx

\* A frame of a peer.
LEMMA DeliverSend ==
    ASSUME TypeInv, TypeInv', DeliverInv, Orderly, NEW p \in Peers, cur = Idle,
           PeerCf(p) \/ \E l \in Lengths : PeerStart(p, l)
    PROVE  DeliverInv'
<1>1. rx.got[p] \in Seq(Seq(Piece)) /\ DeliveredFrom(rx.got[p], peer[p])
  BY GotType DEF DeliverInv, AllDelivered
<1>2. ASSUME NEW c \in Ctx, Fresh(c, p)
      PROVE  Holds(c, rx.got[p], peer[p]) /\ InTime(c, peer[p])
  BY <1>2 DEF Fresh, Holds, InTime, Complete, Collecting
<1>3. ASSUME NEW c \in Ctx, NEW b \in rx.list, rx.ctx[b].addr = p, OneMoreBuf(rx.ctx[b], c)
      PROVE  Holds(c, rx.got[p], peer[p]) /\ InTime(c, peer[p])
  <2>1. Holds(rx.ctx[b], rx.got[p], peer[p]) /\ InTime(rx.ctx[b], peer[p])
    BY <1>3 DEF DeliverInv, AllHold, Orderly
  <2>2. InTime(c, peer[p])
    BY <1>3, <2>1 DEF InTime, OneMoreBuf
  <2> QED
    BY <1>3, <2>1, <2>2, HoldsBuf
<1>4. CASE PeerCf(p)
  <2> DEFINE f == FrameOf(peer[p].msg, peer[p].len, peer[p].i)
  <2>1. /\ WentOn(p) /\ Sending(p) /\ IsFrame(f)
        /\ FrameRx(p, f) \/ (rx' = rx /\ wq' = wq)
        /\ cur' = cur
    BY <1>4, CfStep
  <2>2. AllLater
    BY <2>1, FrameLater
  <2>3. ASSUME NEW c \in Ctx, Holds(c, rx.got[p], peer[p]), InTime(c, peer[p])
        PROVE  Holds(receive_can_rx(c, f), rx.got[p], peer'[p])
    BY <1>1, <2>1, <2>3, HoldsCf
  <2> HIDE DEF f
  <2> QED
    BY <1>2, <1>3, <2>1, <2>2, <2>3, DeliverFrame
<1>5. CASE \E l \in Lengths : PeerStart(p, l)
  <2>1. PICK l \in Lengths : PeerStart(p, l)
    BY <1>5
  <2> DEFINE f == FrameOf(peer[p].msg + 1, l, 1)
  <2>2. /\ Started(p) /\ peer'[p].len = l /\ IsFrame(f)
        /\ FrameRx(p, f) \/ (rx' = rx /\ wq' = wq)
        /\ cur' = cur
    BY <2>1, StartStep
  <2>3. AllLater
    BY <2>2, FrameLater
  <2>4. ASSUME NEW c \in Ctx, Holds(c, rx.got[p], peer[p])
        PROVE  Holds(receive_can_rx(c, f), rx.got[p], peer'[p])
    BY <1>1, <2>2, <2>4, HoldsStart
  <2> HIDE DEF f
  <2> QED
    BY <1>2, <1>3, <2>2, <2>3, <2>4, DeliverFrame
<1> QED
  BY <1>4, <1>5

\* A flow-control frame has reached its peer, or been lost.
LEMMA DeliverFc ==
    ASSUME TypeInv, TypeInv', DeliverInv, FcTx, cur = Idle
    PROVE  DeliverInv'
<1>1. FcGone /\ rx'.ctx = rx.ctx /\ cur' = cur
  BY FcTxStep DEF FcTx
<1>2. AllLater
  <2>1. CASE peer' = peer
    BY <2>1, SameLater
  <2>2. CASE \E p \in Peers : FcAnswered(p)
    <3>1. PICK p \in Peers : FcAnswered(p)
      BY <2>2
    <3> SUFFICES ASSUME NEW q \in Peers PROVE Later(peer[q], peer'[q])
      BY DEF AllLater
    <3>2. peer[q].msg \in Nat /\ peer[q].i \in Nat /\ peer[q].len \in Nat /\ NumFrames(peer[q].len) \in Nat
      <4>1. peer[q].msg \in Nat /\ peer[q].i \in Nat /\ peer[q].len \in Nat
        BY PeerTypes
      <4> QED
        BY <4>1, FrameCount
    <3>3. /\ peer'[q].msg = peer[q].msg /\ peer'[q].len = peer[q].len
          /\ peer'[q].i = peer[q].i \/ peer'[q].i = NumFrames(peer[q].len) + 1
      BY <3>1 DEF FcAnswered
    <3> QED
      BY <3>2, <3>3 DEF Later
  <2> QED
    BY <2>1, <2>2, FcTxPeer
<1>3. SameSlab(rx, rx') /\ rx'.got = rx.got /\ cur' = Idle
  BY <1>1 DEF FcGone
<1>4. 1 \in Blocks
  BY SegTypes DEF Blocks
<1>5. Apart(rx, rx', 1) /\ Kept(rx.ctx[1], rx'.ctx[1]) /\ rx'.ctx[1].state = rx.ctx[1].state
  BY <1>1 DEF Apart, Kept
<1> QED
  BY <1>2, <1>3, <1>4, <1>5, DeliverKept

\* Every step keeps what has been collected and delivered.
LEMMA DeliverNext == TypeInv /\ DeliverInv /\ Orderly /\ [Next]_vars => DeliverInv'
<1> SUFFICES ASSUME TypeInv, DeliverInv, Orderly, [Next]_vars PROVE DeliverInv'
  OBVIOUS
<1>1. TypeInv'
  BY TypeNext
<1>2. IsrAllowed => cur = Idle
  BY DEF IsrAllowed, Orderly
<1>3. CASE UNCHANGED vars
  BY <1>3 DEF vars, DeliverInv, OneEach, BuffersReturned, FcListed, AllHold, AllDelivered
<1>4. CASE FinishFc
  <2>1. PICK d \in Ctx : FinishEffect(d)
    BY <1>4, FinishStep
  <2> DEFINE b == cur.b
  <2>2. b \in Blocks
    BY <2>1 DEF FinishEffect, TypeInv, Cur
  <2>3. /\ SameSlab(rx, rx') /\ Apart(rx, rx', b) /\ Kept(rx.ctx[b], rx'.ctx[b]) /\ rx'.got = rx.got
        /\ rx'.ctx[b].state \in {"WAIT_CF", "TRY_ALLOC"}
    BY <2>1 DEF FinishEffect, Changed
  <2>4. b \in rx.list => rx.ctx[b].state \in Collecting /\ rx'.ctx[b].state \in Collecting
    BY <2>1, <2>3 DEF FinishEffect, DeliverInv, FcListed, Collecting
  <2>5. cur' = Idle /\ AllLater
    BY <1>4, SameLater DEF FinishFc
  <2> HIDE DEF b
  <2> QED
    BY <1>1, <2>2, <2>3, <2>4, <2>5, DeliverKept
<1>5. CASE \E b \in Blocks : Work(b)
  BY <1>1, <1>5, DeliverWork
<1>6. CASE FcTx
  BY <1>1, <1>2, <1>6, DeliverFc DEF FcTx
<1>7. CASE FcTxError
  <2>1. PICK b \in Blocks : FcErrorEffect(b)
    BY <1>7, FcErrorStep
  <2>2. /\ SameSlab(rx, rx') /\ Apart(rx, rx', b) /\ Kept(rx.ctx[b], rx'.ctx[b]) /\ rx'.got = rx.got
        /\ rx'.ctx[b].state = "ERR"
    BY <2>1 DEF FcErrorEffect, FcGone
  <2>3. cur' = Idle /\ AllLater
    BY <1>2, <1>7, SameLater DEF FcTxError
  <2> QED
    BY <1>1, <2>2, <2>3, DeliverKept
<1>8. CASE \E p \in Peers : Send(p)
  <2>1. PICK p \in Peers : PeerCf(p) \/ \E l \in Lengths : PeerStart(p, l)
    BY <1>8 DEF Send
  <2>2. cur = Idle
    BY <1>2, <2>1 DEF PeerCf, PeerStart
  <2> QED
    BY <1>1, <2>1, <2>2, DeliverSend
<1>9. CASE \E b \in Blocks : Timeout(b)
  <2>1. PICK b \in Blocks : Timeout(b)
    BY <1>9
  <2>2. PICK d \in Ctx : TimeoutEffect(b, d)
    BY <2>1, TimeoutStep
  <2>3. /\ SameSlab(rx, rx') /\ Apart(rx, rx', b) /\ Kept(rx.ctx[b], rx'.ctx[b]) /\ rx'.got = rx.got
        /\ \/ rx'.ctx[b].state \in {"ERR", rx.ctx[b].state}
           \/ rx.ctx[b].state \in Collecting /\ rx'.ctx[b].state \in Collecting
    BY <2>2 DEF TimeoutEffect, Changed, Collecting
  <2>4. cur' = Idle /\ AllLater
    BY <1>2, <2>1, SameLater DEF Timeout
  <2> QED
    BY <1>1, <2>3, <2>4, DeliverKept
<1> QED
  BY <1>3, <1>4, <1>5, <1>6, <1>7, <1>8, <1>9 DEF Next, Worker

\* As long as the frames reach the contexts they are for, data that recv_callback
\* is given is one whole message of the peer, and none is given twice or out of
\* order, whatever else is lost, late, given up or fails.
THEOREM WholeWhileInOrder == Spec /\ []Orderly => []DeliveredWhole
<1>1. DeliverInv => DeliveredWhole
  BY DEF DeliverInv, AllDelivered, DeliveredFrom, DeliveredWhole
<1> QED
  BY <1>1, TypeInit, TypeNext, DeliverInit, DeliverNext, PTL DEF Spec

-----------------------------------------------------------------------------
(* When the peers send one message after the other *)

\* A peer starts a message when its previous one has been dealt with, and no
\* message has more consecutive frames than the sequence number counts.
OneByOne ==
    /\ Faults \cap {"preempt", "b2b", "abort"} = {}
    /\ \A l \in Lengths : NumFrames(l) <= SN_MOD + 1

\* What the context c collects is the message that q sends.
SameMsg(c, q) == c.state \in Complete \cup Collecting => c.data[1].msg = q.msg

SameMsgs == \A b \in rx.list : SameMsg(rx.ctx[b], peer[rx.ctx[b].addr])

\* What d collects c has begun to collect.
Follows(c, d) ==
    /\ d.addr = c.addr
    /\ d.state \in Complete \cup Collecting =>
          c.state \in Complete \cup Collecting /\ d.data[1] = c.data[1]

\* Then the frames of the peers reach the contexts they are for.
LEMMA OneByOneOrderly == TypeInv /\ DeliverInv /\ SameMsgs /\ OneByOne => Orderly
<1> SUFFICES ASSUME TypeInv, DeliverInv, SameMsgs, OneByOne, NEW b \in rx.list,
                    rx.ctx[b].state = "WAIT_CF", SendingOn(peer[rx.ctx[b].addr])
             PROVE  /\ rx.ctx[b].data[1].msg = peer[rx.ctx[b].addr].msg
                    /\ peer[rx.ctx[b].addr].i - Len(rx.ctx[b].data) <= SN_MOD
  BY DEF Orderly, OneByOne, InTime
<1> DEFINE a == rx.ctx[b].addr
           q == peer[a]
           k == Len(rx.ctx[b].data)
<1>1. a \in Peers /\ rx.ctx[b] \in Ctx
  BY ListedCtx
<1>2. rx.ctx[b].data[1].msg = q.msg
  BY DEF SameMsgs, SameMsg, Collecting
<1>3. k \in Nat /\ k >= 1
  <2>1. Holds(rx.ctx[b], rx.got[a], q)
    BY DEF DeliverInv, AllHold
  <2>2. k >= 1
    BY <2>1 DEF Holds, Collects, PartOf, Collecting
  <2> QED
    BY <1>1, <2>2 DEF Ctx
<1>4. q.i \in Nat /\ q.i <= NumFrames(q.len) /\ q.len \in Lengths
  <2>1. q.i \in Nat /\ q.i >= 2 /\ q.len \in Lengths \cup {0} /\ q.i <= NumFrames(q.len)
    <3>1. q \in PeerRec /\ q.i \in Nat /\ q.i >= 2
      BY <1>1, PeerTypes
    <3> QED
      BY <3>1 DEF PeerRec, SendingOn
  <2>2. NumFrames(0) = 1
    BY SegTypes DEF NumFrames
  <2>3. q.len # 0
    BY <2>1, <2>2
  <2> QED
    BY <2>1, <2>3
<1>5. NumFrames(q.len) <= SN_MOD + 1 /\ NumFrames(q.len) \in Nat /\ SN_MOD \in Nat
  <2>1. q.len \in Nat
    BY <1>4, SegTypes
  <2> QED
    BY <1>4, <2>1, SegTypes, FrameCount DEF OneByOne
<1> HIDE DEF k, q
<1>6. q.i - k <= SN_MOD
  <2> DEFINE i == q.i
             n == NumFrames(q.len)
  <2>1. i \in Nat /\ n \in Nat /\ i <= n /\ n <= SN_MOD + 1
    BY <1>4, <1>5
  <2> HIDE DEF i, n
  <2>2. i - k <= SN_MOD
    BY <1>3, <1>5, <2>1
  <2> QED
    BY <2>2 DEF i
<1> QED
  BY <1>2, <1>6 DEF k, q

\* A step after which every listed context follows one that was listed.
LEMMA MsgsFollow ==
    ASSUME SameMsgs,
           \A e \in rx'.list :
              \/ /\ e \in rx.list /\ Follows(rx.ctx[e], rx'.ctx[e])
                 /\ peer'[rx.ctx[e].addr].msg = peer[rx.ctx[e].addr].msg
              \/ SameMsg(rx'.ctx[e], peer'[rx'.ctx[e].addr])
    PROVE  SameMsgs'
<1> SUFFICES ASSUME NEW e \in rx'.list PROVE SameMsg(rx'.ctx[e], peer'[rx'.ctx[e].addr])
  BY DEF SameMsgs
<1>1. CASE /\ e \in rx.list /\ Follows(rx.ctx[e], rx'.ctx[e])
           /\ peer'[rx.ctx[e].addr].msg = peer[rx.ctx[e].addr].msg
  BY <1>1 DEF SameMsgs, SameMsg, Follows
<1> QED
  BY <1>1

\* One context changes.
LEMMA MsgsKept ==
    ASSUME SameMsgs, NEW b \in Blocks, rx'.list \subseteq rx.list, rx.list \subseteq Blocks,
           Apart(rx, rx', b), \A p \in Peers : peer'[p].msg = peer[p].msg,
           \A e \in rx.list : rx.ctx[e].addr \in Peers,
           b \in rx'.list => Follows(rx.ctx[b], rx'.ctx[b])
    PROVE  SameMsgs'
<1>1. ASSUME NEW e \in rx'.list
      PROVE  /\ e \in rx.list /\ Follows(rx.ctx[e], rx'.ctx[e])
             /\ peer'[rx.ctx[e].addr].msg = peer[rx.ctx[e].addr].msg
  <2>1. CASE e = b
    BY <2>1
  <2>2. CASE e # b
    BY <2>2 DEF Apart, Follows
  <2> QED
    BY <2>1, <2>2
<1> QED
  BY <1>1, MsgsFollow

\* A frame of a peer, which has no context when it starts a message.
LEMMA MsgsFrame ==
    ASSUME TypeInv, DeliverInv, SameMsgs, NEW p \in Peers, NEW f, IsFrame(f),
           FrameRx(p, f) \/ (rx' = rx /\ wq' = wq), f.msg = peer'[p].msg,
           \/ WentOn(p) /\ f.type = "CF"
           \/ Started(p) /\ CtxOf(p) = {}
    PROVE  SameMsgs'
<1>1. /\ env \in Env /\ Good(rx) /\ rx.list \subseteq Blocks
      /\ \A e \in rx.list : rx.ctx[e].addr \in Peers /\ rx.ctx[e] \in Ctx
  <2>1. \A e \in rx.list : rx.ctx[e].addr \in Peers /\ rx.ctx[e] \in Ctx
    BY ListedCtx
  <2> QED
    BY <2>1 DEF TypeInv, Good, RxRec
<1>2. \A e \in rx.list : peer'[rx.ctx[e].addr].msg = peer[rx.ctx[e].addr].msg
  BY <1>1 DEF WentOn, Started, CtxOf
<1>3. ASSUME NEW e \in rx.list, rx'.ctx[e] = rx.ctx[e]
      PROVE  /\ Follows(rx.ctx[e], rx'.ctx[e])
             /\ peer'[rx.ctx[e].addr].msg = peer[rx.ctx[e].addr].msg
  BY <1>2, <1>3 DEF Follows
<1>4. CASE rx' = rx
  BY <1>3, <1>4, MsgsFollow
<1>5. ASSUME NEW b \in CtxOf(p), rx' = free_recv_ctx(rx, b) PROVE SameMsgs'
  <2>1. b \in Blocks
    BY <1>1 DEF CtxOf
  <2>2. Returned(rx, rx', b) /\ Apart(rx, rx', b)
    BY <1>1, <1>5, <2>1, FreeGood
  <2>3. \A e \in rx'.list : e \in rx.list /\ rx'.ctx[e] = rx.ctx[e]
    BY <1>1, <2>2 DEF Apart, Returned
  <2> QED
    BY <1>3, <2>3, MsgsFollow
<1>6. ASSUME NEW b \in Blocks, TakenByOld(p, f, b), Apart(rx, rx', b) PROVE SameMsgs'
  <2>1. PICK c \in Ctx : OneMoreBuf(rx.ctx[b], c) /\ rx'.ctx[b] = receive_can_rx(c, f)
    BY <1>6 DEF TakenByOld
  <2>2. b \in rx.list /\ rx.ctx[b].addr = p /\ rx'.list = rx.list /\ WentOn(p) /\ f.type = "CF"
    BY <1>6 DEF TakenByOld, CtxOf, SameSlab
  <2>3. Holds(c, rx.got[p], peer[p])
    BY <2>1, <2>2, HoldsBuf DEF DeliverInv, AllHold
  <2>4. Follows(c, receive_can_rx(c, f))
    <3> DEFINE d == receive_can_rx(c, f)
    <3>1. d.addr = c.addr
      BY <1>1, RxType
    <3>2. CASE c.state # "WAIT_CF"
      <4>1. d = c
        BY <2>2, <3>2 DEF receive_can_rx, process_ff_sf
      <4> QED
        BY <4>1 DEF Follows
    <3>3. CASE c.state = "WAIT_CF"
      <4>1. d = process_cf(c, f)
        BY <3>3 DEF receive_can_rx
      <4> HIDE DEF d
      <4>2. d.state = "ERR" \/ d.data = Append(c.data, PieceIn(f, Min2(c.rem, f.n)))
        BY <1>1, <3>3, <4>1, CfType
      <4>3. CASE d.state = "ERR"
        <5>1. Follows(c, d)
          BY <3>1, <4>3 DEF Follows, Complete, Collecting
        <5> QED
          BY <5>1 DEF d
      <4>4. CASE d.data = Append(c.data, PieceIn(f, Min2(c.rem, f.n)))
        <5>1. c.data \in Seq(Piece) /\ Len(c.data) >= 1
          BY <2>3, <3>3 DEF Ctx, Holds, Collects, PartOf, Collecting
        <5>2. d.data[1] = c.data[1]
          BY <4>4, <5>1
        <5>3. Follows(c, d)
          BY <3>1, <3>3, <5>2 DEF Follows, Collecting
        <5> QED
          BY <5>3 DEF d
      <4> QED
        BY <4>2, <4>3, <4>4
    <3> QED
      BY <3>2, <3>3
  <2>5. Follows(rx.ctx[b], rx'.ctx[b])
    BY <2>1, <2>4 DEF Follows, OneMoreBuf
  <2>6. \A q \in Peers : peer'[q].msg = peer[q].msg
    BY <2>2 DEF WentOn
  <2> QED
    BY <1>1, <1>6, <2>2, <2>5, <2>6, MsgsKept
<1>7. ASSUME NEW b \in Blocks, FrameTaken(p, f, b), TakenByNew(p, f, b) PROVE SameMsgs'
  <2>1. PICK c \in Ctx : Fresh(c, p) /\ rx'.ctx[b] = receive_can_rx(c, f)
    BY <1>7 DEF TakenByNew
  <2>2. rx'.list = rx.list \cup {b} /\ Apart(rx, rx', b) /\ rx'.ctx[b].addr = p
    BY <1>7 DEF TakenByNew, FrameTaken
  <2>3. rx'.ctx[b] = process_ff_sf(c, f) /\ c.data = <<>> /\ c.state = "WAIT_FF_SF"
    BY <2>1 DEF receive_can_rx, Fresh
  <2>4. SameMsg(rx'.ctx[b], peer'[p])
    <3>1. CASE f.type = "CF"
      <4>1. rx'.ctx[b] = c
        BY <2>3, <3>1, FfSfType
      <4> QED
        BY <2>3, <4>1 DEF SameMsg, Complete, Collecting
    <3>2. CASE f.type \in {"SF", "FF"}
      <4>1. \E n : rx'.ctx[b].data = Append(c.data, PieceIn(f, n))
        BY <2>3, <3>2, FfSfType
      <4>2. rx'.ctx[b].data[1].msg = f.msg
        BY <2>3, <4>1 DEF PieceIn
      <4> QED
        BY <4>2 DEF SameMsg
    <3> QED
      BY <3>1, <3>2 DEF IsFrame
  <2>5. ASSUME NEW e \in rx'.list, e # b
        PROVE  /\ e \in rx.list /\ Follows(rx.ctx[e], rx'.ctx[e])
               /\ peer'[rx.ctx[e].addr].msg = peer[rx.ctx[e].addr].msg
    <3>1. e \in rx.list /\ rx'.ctx[e] = rx.ctx[e]
      BY <1>1, <2>2, <2>5 DEF Apart
    <3> QED
      BY <1>3, <3>1
  <2>6. ASSUME NEW e \in rx'.list
        PROVE  \/ /\ e \in rx.list /\ Follows(rx.ctx[e], rx'.ctx[e])
                  /\ peer'[rx.ctx[e].addr].msg = peer[rx.ctx[e].addr].msg
               \/ SameMsg(rx'.ctx[e], peer'[rx'.ctx[e].addr])
    <3>1. CASE e = b
      BY <2>2, <2>4, <3>1
    <3>2. CASE e # b
      BY <2>5, <3>2
    <3> QED
      BY <3>1, <3>2
  <2> QED
    BY <2>6, MsgsFollow
<1>8. CASE FrameRx(p, f)
  <2>1. CASE \E b \in Blocks : FrameTaken(p, f, b)
    BY <1>6, <1>7, <2>1 DEF FrameTaken
  <2> QED
    BY <1>1, <1>4, <1>5, <1>8, <2>1, FrameEffect
<1> QED
  BY <1>4, <1>8

\* Every step keeps messages apart.
LEMMA MsgsNext == TypeInv /\ DeliverInv /\ SameMsgs /\ OneByOne /\ [Next]_vars => SameMsgs'
<1> SUFFICES ASSUME TypeInv, DeliverInv, SameMsgs, OneByOne, [Next]_vars PROVE SameMsgs'
  OBVIOUS
<1>1. /\ rx.list \subseteq Blocks /\ Good(rx) /\ env \in Env
      /\ \A e \in rx.list : rx.ctx[e].addr \in Peers
  BY ListedCtx DEF TypeInv, Good, RxRec
<1>2. ASSUME NEW b \in Blocks, rx'.list \subseteq rx.list, Apart(rx, rx', b), peer' = peer,
             b \in rx'.list => /\ Kept(rx.ctx[b], rx'.ctx[b])
                               /\ \/ rx'.ctx[b].state \in {"ERR", rx.ctx[b].state}
                                  \/ rx.ctx[b].state \in Collecting
      PROVE  SameMsgs'
  <2>1. b \in rx'.list => Follows(rx.ctx[b], rx'.ctx[b])
    BY <1>2 DEF Kept, Follows, Complete, Collecting
  <2> QED
    BY <1>1, <1>2, <2>1, MsgsKept
<1>3. CASE UNCHANGED vars
  BY <1>3 DEF vars, SameMsgs
<1>4. CASE FinishFc
  <2>1. PICK d \in Ctx : FinishEffect(d)
    BY <1>4, FinishStep
  <2> DEFINE b == cur.b
  <2>2. b \in Blocks /\ rx'.list = rx.list /\ Apart(rx, rx', b) /\ Kept(rx.ctx[b], rx'.ctx[b])
    BY <2>1 DEF FinishEffect, Changed, SameSlab, TypeInv, Cur
  <2>3. b \in rx.list => rx.ctx[b].state \in Collecting
    BY <2>1 DEF FinishEffect, DeliverInv, FcListed, Collecting
  <2>4. peer' = peer
    BY <1>4 DEF FinishFc
  <2> HIDE DEF b
  <2> QED
    BY <1>2, <2>2, <2>3, <2>4
<1>5. ASSUME NEW b \in Blocks, Work(b) PROVE SameMsgs'
  <2>1. WorkEffect(b) /\ peer' = peer
    BY <1>1, <1>5, HeadNamed, WorkSteps DEF TypeInv
  <2>2. CASE WorkEnds(b) \/ WorkFails(b)
    <3>1. Apart(rx, rx', b) /\ rx'.list \subseteq rx.list /\ b \notin rx'.list
      BY <2>2 DEF WorkEnds, WorkFails, Returned, Only, Gone
    <3> QED
      BY <1>2, <2>1, <3>1
  <2>3. CASE WorkGoesOn(b)
    <3>1. /\ Apart(rx, rx', b) /\ rx'.list = rx.list /\ Kept(rx.ctx[b], rx'.ctx[b])
          /\ rx.ctx[b].state \in Collecting
      BY <2>3 DEF WorkGoesOn, SameSlab
    <3> QED
      BY <1>2, <2>1, <3>1
  <2>4. CASE rx' = rx
    BY <2>1, <2>4 DEF SameMsgs
  <2> QED
    BY <2>1, <2>2, <2>3, <2>4 DEF WorkEffect
<1>6. CASE FcTx
  <2>1. rx'.list = rx.list /\ rx'.ctx = rx.ctx
    BY <1>6, FcTxStep DEF FcGone, SameSlab
  <2>2. \A p \in Peers : peer'[p].msg = peer[p].msg
    BY <1>6, FcTxPeer DEF FcAnswered
  <2>3. \A e \in rx'.list : /\ e \in rx.list /\ Follows(rx.ctx[e], rx'.ctx[e])
                            /\ peer'[rx.ctx[e].addr].msg = peer[rx.ctx[e].addr].msg
    BY <1>1, <2>1, <2>2 DEF Follows
  <2> QED
    BY <2>3, MsgsFollow
<1>7. CASE FcTxError
  <2>1. PICK b \in Blocks : FcErrorEffect(b)
    BY <1>7, FcErrorStep
  <2>2. /\ rx'.list = rx.list /\ Apart(rx, rx', b) /\ Kept(rx.ctx[b], rx'.ctx[b])
        /\ rx'.ctx[b].state = "ERR" /\ peer' = peer
    BY <1>7, <2>1 DEF FcErrorEffect, FcGone, SameSlab, FcTxError
  <2> QED
    BY <1>2, <2>2
<1>8. ASSUME NEW p \in Peers, PeerCf(p) PROVE SameMsgs'
  <2> DEFINE f == FrameOf(peer[p].msg, peer[p].len, peer[p].i)
  <2>1. /\ WentOn(p) /\ Sending(p) /\ IsFrame(f)
        /\ FrameRx(p, f) \/ (rx' = rx /\ wq' = wq)
    BY <1>8, CfStep
  <2>2. f.type = "CF" /\ f.msg = peer'[p].msg
    <3>1. /\ peer[p].msg \in Nat /\ peer[p].len \in Nat /\ peer[p].i \in Nat /\ peer[p].i >= 2
          /\ peer[p].i <= NumFrames(peer[p].len)
      BY <2>1, PeerTypes DEF Sending
    <3>2. f.type = "CF" /\ f.msg = peer[p].msg
      BY <3>1, NextFrame
    <3> QED
      BY <2>1, <3>2 DEF WentOn
  <2> HIDE DEF f
  <2> QED
    BY <2>1, <2>2, MsgsFrame
<1>9. ASSUME NEW p \in Peers, NEW l \in Lengths, PeerStart(p, l) PROVE SameMsgs'
  <2> DEFINE f == FrameOf(peer[p].msg + 1, l, 1)
  <2>1. /\ Started(p) /\ IsFrame(f) /\ peer[p].msg + 1 \in Nat
        /\ FrameRx(p, f) \/ (rx' = rx /\ wq' = wq)
    BY <1>9, StartStep
  <2>2. CtxOf(p) = {}
    BY <1>9 DEF PeerStart, OneByOne
  <2>3. f.msg = peer'[p].msg
    <3>1. l \in Nat \ {0}
      BY SegTypes
    <3>2. f.msg = peer[p].msg + 1
      BY <2>1, <3>1, FirstFrame
    <3> QED
      BY <2>1, <3>2 DEF Started
  <2> HIDE DEF f
  <2> QED
    BY <2>1, <2>2, <2>3, MsgsFrame
<1>10. CASE \E b \in Blocks : Timeout(b)
  <2>1. PICK b \in Blocks : Timeout(b)
    BY <1>10
  <2>2. PICK d \in Ctx : TimeoutEffect(b, d)
    BY <2>1, TimeoutStep
  <2>3. /\ rx'.list = rx.list /\ Apart(rx, rx', b) /\ Kept(rx.ctx[b], rx'.ctx[b])
        /\ \/ rx'.ctx[b].state \in {"ERR", rx.ctx[b].state}
           \/ rx.ctx[b].state \in Collecting
    BY <2>2 DEF TimeoutEffect, Changed, SameSlab, Collecting
  <2>4. peer' = peer
    BY <2>1 DEF Timeout
  <2> QED
    BY <1>2, <2>3, <2>4
<1> QED
  BY <1>3, <1>4, <1>5, <1>6, <1>7, <1>8, <1>9, <1>10 DEF Next, Worker, Send

\* The environment is fixed.
LEMMA EnvFixed == TypeInv /\ [Next]_vars => env' = env
<1> SUFFICES ASSUME TypeInv, [Next]_vars PROVE env' = env
  OBVIOUS
<1>1. ASSUME NEW b \in Blocks, Work(b) PROVE env' = env
  BY <1>1, HeadNamed, WorkSteps DEF TypeInv
<1> QED
  BY <1>1 DEF Next, Worker, Send, FinishFc, FcTx, FcTxError, PeerCf, PeerStart, Timeout, vars

\* When every peer sends one message after the other, each with no more frames than
\* the sequence number tells apart, frames may be lost in both directions, the
\* timeout may be early, flow control may fail: what recv_callback is given is whole.
THEOREM WholeOneByOne == Spec => [](OneByOne => DeliveredWhole)
<1> DEFINE Inv == OneByOne => DeliverInv /\ SameMsgs
<1>1. Init => Inv
  BY DeliverInit DEF Init, SameMsgs
<1>2. TypeInv /\ Inv /\ [Next]_vars => Inv'
  <2> SUFFICES ASSUME TypeInv, Inv, [Next]_vars, OneByOne' PROVE (DeliverInv /\ SameMsgs)'
    OBVIOUS
  <2>1. OneByOne
    BY EnvFixed DEF OneByOne, Faults
  <2> QED
    BY <2>1, DeliverNext, MsgsNext, OneByOneOrderly
<1>3. Inv => (OneByOne => DeliveredWhole)
  BY DEF DeliverInv, AllDelivered, DeliveredFrom, DeliveredWhole
<1> QED
  BY <1>1, <1>2, <1>3, TypeInit, TypeNext, PTL DEF Spec
=============================================================================
