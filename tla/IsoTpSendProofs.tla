-------------------------- MODULE IsoTpSendProofs --------------------------
(***************************************************************************)
(* Theorems about IsoTpSend, for every value of its constants.             *)
(***************************************************************************)
EXTENDS IsoTpSend, TLAPS


-----------------------------------------------------------------------------
(* The helpers that compute a context from a context. *)

\* What the proofs use of the constants' assumptions.
LEMMA ConstTypes ==
    /\ OPTS_BS \in Bytes /\ OPTS_STMIN \in Bytes /\ 0 \in Bytes
    /\ FcBS \subseteq Bytes /\ FcStmin \subseteq Bytes
    /\ NoInit \subseteq Bytes
  BY SendAssumptions, FrameAssumptions DEF SendAssumptions, FrameAssumptions, Bytes

\* Wrap-around arithmetic stays in its width.
LEMMA WrapTypes ==
    /\ \A x \in Bytes : Inc8(x) \in Bytes /\ Dec8(x) \in Bytes
    /\ \A x \in 0 .. SN_MOD - 1 : IncSn(x) \in 0 .. SN_MOD - 1
  BY SendAssumptions, FrameAssumptions DEF SendAssumptions, FrameAssumptions, Bytes, Inc8, Dec8, IncSn

\* Taking a context from the slab, freeing one and noting an error yield a
\* context.
LEMMA CtxHelperTypes ==
    ASSUME NEW c \in Ctx, NEW e \in Errors
    PROVE  /\ NewSendCtx(c) \in Ctx
           /\ free_send_ctx(c) \in Ctx
           /\ Retire(c) \in Ctx
           /\ send_report_error(c, e) \in Ctx
<1>1. NewSendCtx(c) \in Ctx
  BY ConstTypes DEF Ctx, NewSendCtx, TxState, Errors
<1>2. free_send_ctx(c) \in Ctx
  BY DEF Ctx, free_send_ctx
<1>3. Retire(c) \in Ctx
  BY DEF Ctx, Retire, free_send_ctx, TxState
<1>4. send_report_error(c, e) \in Ctx
  BY DEF Ctx, send_report_error, TxState
<1> QED
  BY <1>1, <1>2, <1>3, <1>4

\* What the loop of ISOTP_TX_SEND_CF makes of a context.
LEMMA CfHelperTypes ==
    ASSUME NEW c \in Ctx
    PROVE  CountCf(c) \in Ctx /\ AfterCf(c) \in Ctx
  BY WrapTypes DEF Ctx, CountCf, AfterCf, TxState

\* What the interrupt handlers make of a context.
LEMMA TxCallbackType == ASSUME NEW c \in Ctx PROVE TxCallback(c) \in Ctx
<1> DEFINE d == [c EXCEPT !.backlog = Dec8(@), !.sem = 1]
<1>1. d \in Ctx
  BY WrapTypes DEF Ctx
<1>2. [d EXCEPT !.state = "WAIT_FIN"] \in Ctx
  BY <1>1 DEF Ctx, TxState
<1> QED
  BY <1>1, <1>2 DEF TxCallback

\* send_can_rx makes a context of a context.
LEMMA FcHelperTypes ==
    ASSUME NEW c \in Ctx, NEW fc \in FC
    PROVE  send_can_rx(c, fc) \in Ctx
<1>1. ASSUME NEW d \in Ctx PROVE OnWait(d) \in Ctx
  BY WrapTypes DEF Ctx, OnWait, send_report_error, TxState, Errors
<1>2. ASSUME NEW d \in Ctx PROVE send_process_fc(d, fc) \in Ctx
  <2>1. CASE fc.fs = "CTS"
    <3>1. fc.bs \in FcBS /\ fc.stmin \in FcStmin
      BY <2>1 DEF FC
    <3>2. fc.bs \in Bytes /\ fc.stmin \in Bytes
      BY <3>1, ConstTypes
    <3> QED
      BY <2>1, <3>2, ConstTypes DEF send_process_fc, Ctx, TxState
  <2>2. CASE fc.fs = "WAIT"
    BY <1>1, <2>2 DEF send_process_fc
  <2>3. CASE fc.fs \notin {"CTS", "WAIT"}
    BY <2>3, CtxHelperTypes DEF send_process_fc, Errors
  <2> QED
    BY <2>1, <2>2, <2>3
<1>3. [c EXCEPT !.timer = FALSE] \in Ctx
  BY DEF Ctx
<1> QED
  BY <1>2, <1>3, CtxHelperTypes DEF send_can_rx, Errors

-----------------------------------------------------------------------------
(* Type correctness *)

\* Reading the work queue thread's state.
LEMMA CurCases ==
    ASSUME cur \in Cur
    PROVE  /\ cur.pc \in {"idle", "ff", "cf", "sem"}
           /\ cur.pc # "idle" => cur.t \in Targets
  BY DEF Cur

\* k_work_submit keeps the queue a sequence of contexts.
LEMMA SubmitType ==
    ASSUME NEW q \in Seq(Targets), NEW t \in Targets
    PROVE  Submit(q, t) \in Seq(Targets)
  BY DEF Submit

\* Dequeuing keeps the queue a sequence of contexts.
LEMMA RunningType ==
    ASSUME wq \in Seq(Targets), NEW t \in Targets, NEW st, Running(t, st)
    PROVE  wq' \in Seq(Targets)
  BY DEF Running

\* The frames send_ff and send_cf build are frames, and what they leave of the
\* message is a context.
LEMMA SendCfTypes ==
    ASSUME TypeOK, NEW t \in Targets, NEW c \in Ctx, SendCf(t, c)
    PROVE  /\ sctx' \in [Targets -> Ctx]
           /\ cur' \in Cur
           /\ mbox' \in [Targets -> Seq(Frame)]
           /\ out' \in [Msgs \cup {NoMsg} -> Seq(Frame)]
           /\ window' \in [Targets -> Int]
<1> DEFINE n == Min2(c.rem, CfLen)
           f == [type |-> "CF", sn |-> c.sn, msg |-> c.msg, off |-> c.off,
                 n |-> n, len |-> 0]
           d == [c EXCEPT !.rem = @ - n, !.off = @ + n]
<1>0. /\ sctx \in [Targets -> Ctx] /\ mbox \in [Targets -> Seq(Frame)]
      /\ out \in [Msgs \cup {NoMsg} -> Seq(Frame)] /\ window \in [Targets -> Int]
  BY DEF TypeOK
<1>1. CfLen \in Nat /\ FfLen \in Nat
  BY SendAssumptions, FrameAssumptions DEF SendAssumptions, FrameAssumptions, CfLen, FfLen
<1>2. c.rem \in Nat /\ c.off \in Nat
  BY DEF Ctx
<1>3. n \in Nat /\ c.rem - n \in Nat /\ c.off + n \in Nat
  BY <1>1, <1>2 DEF Min2
<1>4. d \in Ctx
  BY <1>3 DEF Ctx
<1>5. f \in Frame
  BY <1>2, <1>3 DEF Ctx, Frame
<1> HIDE DEF d, f, n
<1>6. PICK r \in CanSendResults :
          IF r = "ok"
          THEN /\ HandToController(t, f)
               /\ window' = [window EXCEPT ![t] = @ - 1]
               /\ sctx' = [sctx EXCEPT ![t] = d]
               /\ cur' = [pc |-> "cf", t |-> t]
          ELSE /\ sctx' = [sctx EXCEPT ![t] = send_report_error(d,
                              IF r = "EAGAIN" THEN "TIMEOUT_A" ELSE "ERROR")]
               /\ cur' = Idle
               /\ UNCHANGED <<mbox, out, window>>
  BY DEF SendCf, d, f, n
<1>7. CASE r = "ok"
  <2>0. /\ HandToController(t, f)
        /\ window' = [window EXCEPT ![t] = @ - 1]
        /\ sctx' = [sctx EXCEPT ![t] = d]
    BY <1>6, <1>7
  <2>1. f.msg \in Msgs \cup {NoMsg}
    BY <1>5 DEF Frame
  <2>2. mbox' \in [Targets -> Seq(Frame)] /\ out' \in [Msgs \cup {NoMsg} -> Seq(Frame)]
    BY <1>0, <1>5, <2>0, <2>1 DEF HandToController
  <2>3. sctx' \in [Targets -> Ctx] /\ window' \in [Targets -> Int]
    BY <1>0, <1>4, <2>0
  <2>4. cur' \in Cur
    BY <1>6, <1>7 DEF Cur
  <2> QED
    BY <2>2, <2>3, <2>4
<1>8. CASE r # "ok"
  <2>1. send_report_error(d, IF r = "EAGAIN" THEN "TIMEOUT_A" ELSE "ERROR") \in Ctx
    BY <1>4, CtxHelperTypes DEF Errors
  <2> QED
    BY <1>0, <1>6, <1>8, <2>1 DEF Cur, Idle
<1> QED
  BY <1>7, <1>8

\* A call of isotp_fast_send keeps the types.
LEMMA AppTypes ==
    ASSUME TypeOK, NEW t \in Targets, App(t)
    PROVE  TypeOK'
<1>1. PICK l \in Lengths : SendSf(t, l) \/ SendRefused(t, l) \/ SendMulti(t, l)
  BY DEF App
<1>2. l \in Nat /\ MaxSends \in Nat
  BY SendAssumptions, FrameAssumptions DEF SendAssumptions, FrameAssumptions
<1>3. CASE SendSf(t, l)
  <2>1. calls' \in 0 .. MaxSends /\ calls + 1 \in Msgs
    BY <1>2, <1>3 DEF SendSf, MayCall, TypeOK, Msgs
  <2>2. report' \in [Msgs \cup {NoMsg} -> Seq(Errors)]
    BY <1>3, <2>1 DEF SendSf, TypeOK, Errors
  <2> QED
    BY <1>3, <2>1, <2>2 DEF SendSf, TypeOK, hist
<1>4. CASE SendRefused(t, l)
  <2>1. calls' \in 0 .. MaxSends
    BY <1>2, <1>4 DEF SendRefused, MayCall, TypeOK
  <2> QED
    BY <1>4, <2>1 DEF SendRefused, TypeOK, hist
<1>5. CASE SendMulti(t, l)
  <2>1. calls' \in 0 .. MaxSends /\ calls + 1 \in Msgs
    BY <1>2, <1>5 DEF SendMulti, MayCall, TypeOK, Msgs
  <2>2. get_send_ctx(t) \in Ctx
    BY CtxHelperTypes DEF TypeOK, get_send_ctx, Errors
  <2>3. [get_send_ctx(t) EXCEPT !.msg = calls + 1, !.off = 0, !.rem = l] \in Ctx
    BY <1>2, <2>1, <2>2 DEF Ctx
  <2>4. sctx' \in [Targets -> Ctx]
    BY <1>5, <2>3 DEF SendMulti, TypeOK
  <2>5. wq' \in Seq(Targets)
    BY <1>5, SubmitType DEF SendMulti, TypeOK
  <2>6. len' \in [Msgs -> Nat] /\ window' \in [Targets -> Int] /\ waits' \in [Targets -> Nat]
    BY <1>2, <1>5, <2>1 DEF SendMulti, TypeOK
  <2> QED
    BY <1>5, <2>1, <2>4, <2>5, <2>6 DEF SendMulti, TypeOK
<1> QED
  BY <1>1, <1>3, <1>4, <1>5

\* A step of the work queue's thread keeps the types.
LEMMA WorkerTypes ==
    ASSUME TypeOK, Worker
    PROVE  TypeOK'
<1>1. CASE FinishFf
  <2>1. cur.t \in Targets
    BY <1>1, CurCases DEF FinishFf, TypeOK
  <2>2. sctx' \in [Targets -> Ctx]
    <3>1. sctx[cur.t] \in Ctx
      BY <2>1 DEF TypeOK
    <3>2. [sctx[cur.t] EXCEPT !.timer = TRUE, !.state = "WAIT_FC"] \in Ctx
      BY <3>1 DEF Ctx, TxState
    <3> QED
      BY <1>1, <2>1, <3>2 DEF FinishFf, TypeOK, Ctx
  <2> QED
    BY <1>1, <2>2 DEF FinishFf, TypeOK, hist, appVars, Cur, Idle
<1>2. CASE FinishCf
  <2>1. cur.t \in Targets
    BY <1>2, CurCases DEF FinishCf, TypeOK
  <2>2. AfterCf(CountCf(sctx[cur.t])) \in Ctx
    BY <2>1, CfHelperTypes DEF TypeOK
  <2>3. sctx' \in [Targets -> Ctx]
    BY <1>2, <2>1, <2>2 DEF FinishCf, TypeOK
  <2>4. cur' \in Cur
    BY <1>2, <2>1 DEF FinishCf, Cur, Idle
  <2> QED
    BY <1>2, <2>3, <2>4 DEF FinishCf, TypeOK, hist, appVars
<1>3. CASE TakeSem
  <2>1. cur.t \in Targets
    BY <1>3, CurCases DEF TakeSem, TypeOK
  <2>a. sctx[cur.t] \in Ctx
    BY <2>1 DEF TypeOK
  <2>2. [sctx[cur.t] EXCEPT !.sem = 0] \in Ctx
    BY <2>a DEF Ctx
  <2>3. SendCf(cur.t, [sctx[cur.t] EXCEPT !.sem = 0])
    BY <1>3 DEF TakeSem
  <2> QED
    BY <1>3, <2>1, <2>2, <2>3, SendCfTypes DEF TakeSem, TypeOK, appVars
<1>4. ASSUME NEW t \in Targets, Work(t)
      PROVE  TypeOK'
  <2>0. sctx[t] \in Ctx
    BY DEF TypeOK
  <2>q. wq' \in Seq(Targets)
    BY <1>4, RunningType
       DEF Work, WorkSendFf, WorkSendCf, WorkWaitSt, WorkFinish, WorkNothing, TypeOK
  <2>1. CASE WorkSendFf(t)
    <3> DEFINE c == sctx[t]
               n == Min2(FfLen, c.rem)
               f == [type |-> "FF", sn |-> 0, msg |-> c.msg, off |-> c.off,
                     n |-> n, len |-> c.rem]
               d == [c EXCEPT !.sn = 1, !.rem = @ - n, !.off = @ + n]
    <3>1. FfLen \in Nat /\ 0 \in 0 .. SN_MOD - 1 /\ 1 \in 0 .. SN_MOD - 1
      BY SendAssumptions, FrameAssumptions DEF SendAssumptions, FrameAssumptions, FfLen
    <3>2. c.rem \in Nat /\ c.off \in Nat
      BY <2>0 DEF Ctx
    <3>3. n \in Nat /\ c.rem - n \in Nat /\ c.off + n \in Nat
      BY <3>1, <3>2 DEF Min2
    <3>4. d \in Ctx
      BY <2>0, <3>1, <3>3 DEF Ctx
    <3>5. f \in Frame
      BY <2>0, <3>1, <3>2, <3>3 DEF Ctx, Frame
    <3>6. f.msg \in Msgs \cup {NoMsg}
      BY <3>5 DEF Frame
    <3>7. sctx' = [sctx EXCEPT ![t] = d] /\ (HandToController(t, f) \/ UNCHANGED <<mbox, out>>)
      BY <2>1 DEF WorkSendFf
    <3> HIDE DEF d, f, n
    <3>8. mbox' \in [Targets -> Seq(Frame)] /\ out' \in [Msgs \cup {NoMsg} -> Seq(Frame)]
      <4>1. mbox \in [Targets -> Seq(Frame)] /\ out \in [Msgs \cup {NoMsg} -> Seq(Frame)]
        BY DEF TypeOK
      <4>2. CASE HandToController(t, f)
        BY <3>5, <3>6, <4>1, <4>2 DEF HandToController
      <4> QED
        BY <3>7, <4>1, <4>2
    <3>9. sctx' \in [Targets -> Ctx]
      BY <3>4, <3>7 DEF TypeOK
    <3>10. cur' \in Cur
      BY <2>1 DEF WorkSendFf, Cur
    <3> QED
      BY <2>1, <2>q, <3>8, <3>9, <3>10 DEF WorkSendFf, TypeOK, appVars
  <2>2. CASE WorkSendCf(t)
    <3>1. [sctx[t] EXCEPT !.timer = FALSE] \in Ctx
      BY <2>0 DEF Ctx
    <3>2. SendCf(t, [sctx[t] EXCEPT !.timer = FALSE])
      BY <2>2 DEF WorkSendCf
    <3> QED
      BY <2>2, <2>q, <3>1, <3>2, SendCfTypes DEF WorkSendCf, TypeOK, appVars
  <2>3. CASE WorkWaitSt(t)
    <3>1. [sctx[t] EXCEPT !.timer = TRUE, !.state = "SEND_CF"] \in Ctx
      BY <2>0 DEF Ctx, TxState
    <3>2. sctx' \in [Targets -> Ctx]
      BY <2>0, <2>3, <3>1 DEF WorkWaitSt, TypeOK, Ctx
    <3> QED
      BY <2>3, <2>q, <3>2 DEF WorkWaitSt, TypeOK, appVars, hist
  <2>4. CASE WorkFinish(t)
    <3>1. sctx' \in [Targets -> Ctx]
      BY <2>0, <2>4, CtxHelperTypes DEF WorkFinish, TypeOK, Errors
    <3>2. sctx[t].msg \in Msgs \cup {NoMsg} /\ sctx[t].error \in Errors /\ "OK" \in Errors
      BY <2>0 DEF Ctx, Errors
    <3>3. report' \in [Msgs \cup {NoMsg} -> Seq(Errors)]
      BY <2>4, <3>2 DEF WorkFinish, TypeOK
    <3> QED
      BY <2>4, <2>q, <3>1, <3>3 DEF WorkFinish, TypeOK, appVars, hist
  <2>5. CASE WorkNothing(t)
    BY <2>5, <2>q DEF WorkNothing, TypeOK, appVars, hist
  <2> QED
    BY <1>4, <2>1, <2>2, <2>3, <2>4, <2>5 DEF Work
<1> QED
  BY <1>1, <1>2, <1>3, <1>4 DEF Worker

\* An interrupt handler keeps the types.
LEMMA IsrTypes ==
    ASSUME TypeOK, NEW t \in Targets, Driver(t) \/ Peer(t) \/ Timeout(t)
    PROVE  TypeOK'
<1>0. sctx[t] \in Ctx
  BY DEF TypeOK
<1>1. CASE Driver(t)
  <2>1. PICK ok \in BOOLEAN : TxDone(t, ok)
    BY <1>1 DEF Driver
  <2>2. mbox[t] \in Seq(Frame) /\ mbox[t] # <<>>
    BY <2>1 DEF TxDone, TypeOK
  <2>3. Tail(mbox[t]) \in Seq(Frame) /\ Head(mbox[t]) \in Frame
    BY <2>2
  <2>4. Head(mbox[t]).msg \in Msgs \cup {NoMsg}
    BY <2>3 DEF Frame
  <2>5. mbox' \in [Targets -> Seq(Frame)]
    BY <2>1, <2>3 DEF TxDone, TypeOK
  <2>6. acked' \in [Msgs \cup {NoMsg} -> Nat]
    BY <2>1, <2>4 DEF TxDone, TypeOK
  <2>7. sctx' \in [Targets -> Ctx]
    BY <1>0, <2>1, TxCallbackType DEF TxDone, TypeOK
  <2>8. wq' \in Seq(Targets)
    BY <2>1, SubmitType DEF TxDone, TypeOK
  <2> QED
    BY <2>1, <2>5, <2>6, <2>7, <2>8 DEF TxDone, TypeOK, appVars
<1>2. CASE Peer(t)
  <2>1. PICK fc \in FC : FcRx(t, fc)
    BY <1>2 DEF Peer
  <2>2. get_send_ctx(t) \in Ctx
    BY <1>0, CtxHelperTypes DEF get_send_ctx, Errors
  <2>3. sctx' \in [Targets -> Ctx]
    BY <2>1, <2>2, FcHelperTypes DEF FcRx, HandleFc, TypeOK
  <2>4. window' \in [Targets -> Int]
    <3>0. fc.fs = "CTS" => fc.bs \in FcBS
      BY DEF FC
    <3>1. fc.fs = "CTS" => fc.bs \in Int
      <4>1. FcBS \subseteq Bytes /\ BYTE \in Nat
        BY SendAssumptions, FrameAssumptions DEF SendAssumptions, FrameAssumptions
      <4>2. \A x \in Bytes : x \in Int
        BY <4>1 DEF Bytes
      <4> QED
        BY <3>0, <4>1, <4>2
    <3>2. Unlimited \in Int
      BY SendAssumptions, FrameAssumptions DEF SendAssumptions, FrameAssumptions, Unlimited
    <3> QED
      BY <2>1, <3>1, <3>2 DEF FcRx, HandleFc, TypeOK
  <2>5. waits' \in [Targets -> Nat]
    BY <2>1 DEF FcRx, HandleFc, TypeOK
  <2>6. wq' \in Seq(Targets)
    BY <2>1, SubmitType DEF FcRx, HandleFc, TypeOK
  <2> QED
    BY <2>1, <2>3, <2>4, <2>5, <2>6 DEF FcRx, HandleFc, TypeOK, appVars
<1>3. CASE Timeout(t)
  <2>1. [sctx[t] EXCEPT !.timer = FALSE] \in Ctx
    BY <1>0 DEF Ctx
  <2>2. sctx' \in [Targets -> Ctx]
    BY <1>3, <2>1, CtxHelperTypes DEF Timeout, TypeOK, Errors
  <2>3. wq' \in Seq(Targets)
    BY <1>3, SubmitType DEF Timeout, TypeOK
  <2> QED
    BY <1>3, <2>2, <2>3 DEF Timeout, TypeOK, appVars, hist
<1> QED
  BY <1>1, <1>2, <1>3

\* Every variable keeps its type: in particular the bit-fields and uint8_t
\* counters of struct isotp_fast_send_ctx stay within their width.
THEOREM TypeCorrect == Spec => []TypeOK
<1>1. Init => TypeOK
  <2> SUFFICES ASSUME Init PROVE TypeOK
    OBVIOUS
  <2>1. PICK g \in NoInit : sctx = [t \in Targets |->
            [alloc |-> FALSE, state |-> "RESET", error |-> "OK", msg |-> NoMsg,
             off |-> 0, rem |-> 0, sn |-> 0, bs |-> 0, stmin |-> 0,
             backlog |-> g, wft |-> g, sem |-> 0, timer |-> FALSE]]
    BY DEF Init
  <2>2. g \in Bytes /\ 0 \in Bytes /\ 0 \in 0 .. SN_MOD - 1 /\ 0 \in 0 .. MaxSends
    BY ConstTypes, SendAssumptions, FrameAssumptions DEF SendAssumptions, FrameAssumptions
  <2>3. sctx \in [Targets -> Ctx]
    BY <2>1, <2>2 DEF Ctx, TxState, Errors
  <2>4. cur \in Cur /\ wq \in Seq(Targets) /\ calls \in 0 .. MaxSends
    BY <2>2 DEF Init, Cur, Idle
  <2>5. mbox \in [Targets -> Seq(Frame)] /\ out \in [Msgs \cup {NoMsg} -> Seq(Frame)]
    BY DEF Init
  <2>6. len \in [Msgs -> Nat] /\ report \in [Msgs \cup {NoMsg} -> Seq(Errors)]
    BY DEF Init
  <2>7. /\ acked \in [Msgs \cup {NoMsg} -> Nat]
        /\ window \in [Targets -> Int] /\ waits \in [Targets -> Nat]
    BY DEF Init
  <2> QED
    BY <2>3, <2>4, <2>5, <2>6, <2>7 DEF TypeOK
<1>2. TypeOK /\ [Next]_vars => TypeOK'
  <2> SUFFICES ASSUME TypeOK, [Next]_vars PROVE TypeOK'
    OBVIOUS
  <2>1. CASE UNCHANGED vars
    BY <2>1 DEF vars, TypeOK
  <2>2. CASE Next
    BY <2>2, WorkerTypes, AppTypes, IsrTypes DEF Next
  <2> QED
    BY <2>1, <2>2
<1> QED
  BY <1>1, <1>2, PTL DEF Spec

-----------------------------------------------------------------------------
(* A freed context is at rest *)

\* A step that changes neither whether a context is allocated nor, if it is
\* not, its state, timer and user.
LEMMA FreedFrame ==
    ASSUME NEW t \in Targets, FreedIsIdleAt(t),
           sctx'[t].alloc = sctx[t].alloc,
           ~sctx[t].alloc => /\ sctx'[t].state = sctx[t].state
                             /\ sctx'[t].timer = sctx[t].timer
                             /\ cur'.pc = "idle" \/ cur' = cur \/ cur'.t # t
    PROVE  FreedIsIdleAt(t)'
  BY DEF FreedIsIdleAt

\* A step that leaves a context allocated.
LEMMA FreedAlloc ==
    ASSUME NEW t \in Targets, sctx'[t].alloc
    PROVE  FreedIsIdleAt(t)'
  BY DEF FreedIsIdleAt

\* Which helpers keep a context allocated.
LEMMA AllocHelpers ==
    ASSUME NEW c \in Ctx
    PROVE  /\ \A e \in Errors : send_report_error(c, e).alloc = c.alloc
           /\ TxCallback(c).alloc = c.alloc /\ TxCallback(c).timer = c.timer
           /\ c.state = "RESET" => TxCallback(c).state = "RESET"
           /\ NewSendCtx(c).alloc
           /\ CountCf(c).alloc = c.alloc /\ AfterCf(c).alloc = c.alloc
           /\ ~Retire(c).alloc /\ Retire(c).state = "RESET" /\ ~Retire(c).timer
<1>1. \A e \in Errors : send_report_error(c, e).alloc = c.alloc
  BY DEF send_report_error, Ctx
<1>2. TxCallback(c).alloc = c.alloc /\ TxCallback(c).timer = c.timer
  BY DEF TxCallback, Ctx
<1>3. c.state = "RESET" => TxCallback(c).state = "RESET"
  BY DEF TxCallback, Ctx
<1>4. NewSendCtx(c).alloc
  BY DEF NewSendCtx, Ctx
<1>5. CountCf(c).alloc = c.alloc
  BY DEF CountCf, Ctx
<1>6. AfterCf(c).alloc = c.alloc
  BY DEF AfterCf, Ctx
<1>7. ~Retire(c).alloc /\ Retire(c).state = "RESET" /\ ~Retire(c).timer
  BY DEF Retire, free_send_ctx, Ctx
<1> QED
  BY <1>1, <1>2, <1>3, <1>4, <1>5, <1>6, <1>7

\* send_can_rx keeps an allocated context allocated.
LEMMA AllocFc ==
    ASSUME NEW c \in Ctx, NEW fc \in FC, c.alloc
    PROVE  send_can_rx(c, fc).alloc
<1> DEFINE b == [c EXCEPT !.timer = FALSE]
<1>0. b \in Ctx /\ b.alloc
  BY DEF Ctx
<1> HIDE DEF b
<1>1. OnWait(b).alloc
  BY <1>0 DEF OnWait, send_report_error, Ctx
<1>2. send_process_fc(b, fc).alloc
  <2>1. CASE fc.fs = "CTS"
    BY <1>0, <2>1 DEF send_process_fc, Ctx
  <2>2. CASE fc.fs = "WAIT"
    BY <1>1, <2>2 DEF send_process_fc
  <2>3. CASE fc.fs \notin {"CTS", "WAIT"}
    BY <1>0, <2>3, AllocHelpers DEF send_process_fc, Errors
  <2> QED
    BY <2>1, <2>2, <2>3
<1> QED
  BY <1>2, AllocHelpers DEF send_can_rx, b, Errors

\* send_cf keeps the context it works on allocated.
LEMMA AllocSendCf ==
    ASSUME TypeOK, FreedIsIdle, NEW u \in Targets, NEW c \in Ctx, c.alloc, SendCf(u, c),
           NEW t \in Targets
    PROVE  FreedIsIdleAt(t)'
<1>0. sctx \in [Targets -> Ctx] /\ FreedIsIdleAt(t)
  BY DEF TypeOK, FreedIsIdle
<1> DEFINE n == Min2(c.rem, CfLen)
           d == [c EXCEPT !.rem = @ - n, !.off = @ + n]
<1>1. d.alloc
  BY DEF Ctx
<1>2. \A e \in Errors : send_report_error(d, e).alloc
  BY DEF send_report_error, Ctx
<1>3. /\ cur' = Idle \/ cur' = [pc |-> "cf", t |-> u]
      /\ \/ sctx' = [sctx EXCEPT ![u] = d]
         \/ \E e \in Errors : sctx' = [sctx EXCEPT ![u] = send_report_error(d, e)]
  BY DEF SendCf, Errors
<1> HIDE DEF d
<1>4. CASE t = u
  BY <1>0, <1>1, <1>2, <1>3, <1>4, FreedAlloc
<1>5. CASE t # u
  <2>1. sctx'[t] = sctx[t]
    BY <1>0, <1>3, <1>5
  <2>2. cur'.pc = "idle" \/ cur'.t # t
    BY <1>3, <1>5 DEF Idle
  <2> QED
    BY <1>0, <2>1, <2>2, FreedFrame
<1> QED
  BY <1>4, <1>5

\* Whatever interrupts, errors and late callbacks do, a context that went back
\* to the slab is at rest.
THEOREM FreedContextsIdle == Spec => []FreedIsIdle
<1>1. Init => FreedIsIdle
  BY DEF Init, FreedIsIdle, FreedIsIdleAt, Idle
<1>2. TypeOK /\ FreedIsIdle /\ [Next]_vars => FreedIsIdle'
  <2> SUFFICES ASSUME TypeOK, FreedIsIdle, [Next]_vars, NEW t \in Targets
               PROVE  FreedIsIdleAt(t)'
    BY DEF FreedIsIdle
  <2>0. sctx \in [Targets -> Ctx] /\ FreedIsIdleAt(t)
    BY DEF TypeOK, FreedIsIdle
  <2>1. CASE UNCHANGED vars
    BY <2>0, <2>1, FreedFrame DEF vars
  <2>2. ASSUME NEW u \in Targets, App(u) PROVE FreedIsIdleAt(t)'
    <3>1. PICK l \in Lengths : SendSf(u, l) \/ SendRefused(u, l) \/ SendMulti(u, l)
      BY <2>2 DEF App
    <3>2. CASE SendSf(u, l) \/ SendRefused(u, l)
      BY <2>0, <3>2, FreedFrame DEF SendSf, SendRefused
    <3>3. CASE SendMulti(u, l)
      <4>1. get_send_ctx(u) \in Ctx /\ get_send_ctx(u).alloc
        BY <2>0, CtxHelperTypes, AllocHelpers DEF get_send_ctx, Errors
      <4>2. [get_send_ctx(u) EXCEPT !.msg = calls + 1, !.off = 0, !.rem = l].alloc
        BY <4>1 DEF Ctx
      <4>3. sctx'[t] = sctx[t] \/ sctx'[t].alloc
        BY <2>0, <3>3, <4>2 DEF SendMulti
      <4>4. cur' = cur
        BY <3>3 DEF SendMulti
      <4> QED
        BY <2>0, <4>3, <4>4, FreedAlloc, FreedFrame
    <3> QED
      BY <3>1, <3>2, <3>3
  <2>3. CASE FinishFf
    <3>1. cur.t \in Targets /\ sctx[cur.t].alloc
      BY <2>3, CurCases DEF FinishFf, TypeOK, FreedIsIdle, FreedIsIdleAt
    <3>2. sctx'[t] = sctx[t] \/ sctx'[t].alloc
      BY <2>0, <2>3, <3>1 DEF FinishFf, Ctx
    <3>3. cur' = Idle
      BY <2>3 DEF FinishFf
    <3> QED
      BY <2>0, <3>2, <3>3, FreedAlloc, FreedFrame DEF Idle
  <2>4. CASE FinishCf
    <3>1. cur.t \in Targets /\ sctx[cur.t].alloc
      BY <2>4, CurCases DEF FinishCf, TypeOK, FreedIsIdle, FreedIsIdleAt
    <3>2. AfterCf(CountCf(sctx[cur.t])).alloc
      BY <2>0, <3>1, CfHelperTypes, AllocHelpers
    <3>3. (sctx'[t] = sctx[t] /\ t # cur.t) \/ sctx'[t].alloc
      BY <2>0, <2>4, <3>1, <3>2 DEF FinishCf
    <3>4. cur' = Idle \/ cur' = [pc |-> "sem", t |-> cur.t]
      BY <2>4 DEF FinishCf
    <3> QED
      BY <2>0, <3>3, <3>4, FreedAlloc, FreedFrame DEF Idle
  <2>5. CASE TakeSem
    <3>1. cur.t \in Targets /\ sctx[cur.t].alloc
      BY <2>5, CurCases DEF TakeSem, TypeOK, FreedIsIdle, FreedIsIdleAt
    <3>a. sctx[cur.t] \in Ctx
      BY <2>0, <3>1
    <3>2. [sctx[cur.t] EXCEPT !.sem = 0] \in Ctx /\ [sctx[cur.t] EXCEPT !.sem = 0].alloc
      BY <3>1, <3>a DEF Ctx
    <3> QED
      BY <2>5, <3>1, <3>2, AllocSendCf DEF TakeSem
  <2>6. ASSUME NEW u \in Targets, Work(u) PROVE FreedIsIdleAt(t)'
    <3>0. sctx[u] \in Ctx /\ FreedIsIdleAt(u)
      BY <2>0 DEF FreedIsIdle
    <3>1. CASE WorkSendFf(u)
      <4>1. sctx[u].alloc
        BY <3>0, <3>1 DEF WorkSendFf, Running, FreedIsIdleAt
      <4>2. sctx'[u].alloc /\ (t # u => sctx'[t] = sctx[t])
        BY <2>0, <3>0, <3>1, <4>1 DEF WorkSendFf, Ctx
      <4>3. cur' = [pc |-> "ff", t |-> u]
        BY <3>1 DEF WorkSendFf
      <4> QED
        BY <2>0, <4>2, <4>3, FreedAlloc, FreedFrame
    <3>2. CASE WorkSendCf(u)
      <4>1. sctx[u].alloc
        BY <3>0, <3>2 DEF WorkSendCf, Running, FreedIsIdleAt
      <4>2. /\ [sctx[u] EXCEPT !.timer = FALSE] \in Ctx
            /\ [sctx[u] EXCEPT !.timer = FALSE].alloc
        BY <3>0, <4>1 DEF Ctx
      <4> QED
        BY <3>2, <4>2, AllocSendCf DEF WorkSendCf
    <3>3. CASE WorkWaitSt(u)
      <4>1. sctx[u].alloc
        BY <3>0, <3>3 DEF WorkWaitSt, Running, FreedIsIdleAt
      <4>2. sctx'[t] = sctx[t] \/ sctx'[t].alloc
        BY <2>0, <3>0, <3>3, <4>1 DEF WorkWaitSt, Ctx
      <4> QED
        BY <2>0, <3>3, <4>2, FreedAlloc, FreedFrame DEF WorkWaitSt
    <3>4. CASE WorkFinish(u)
      <4>1. sctx' = [sctx EXCEPT ![u] = Retire(sctx[u])] /\ cur' = cur /\ cur = Idle
        BY <3>4 DEF WorkFinish, Running
      <4>2. CASE t = u
        BY <2>0, <3>0, <4>1, <4>2, AllocHelpers DEF FreedIsIdleAt, Idle
      <4>3. CASE t # u
        BY <2>0, <4>1, <4>3, FreedFrame
      <4> QED
        BY <4>2, <4>3
    <3>5. CASE WorkNothing(u)
      BY <2>0, <3>5, FreedFrame DEF WorkNothing
    <3> QED
      BY <2>6, <3>1, <3>2, <3>3, <3>4, <3>5 DEF Work
  <2>7. ASSUME NEW u \in Targets, Driver(u) PROVE FreedIsIdleAt(t)'
    <3>1. sctx' = [sctx EXCEPT ![u] = TxCallback(sctx[u])] /\ cur' = cur
      BY <2>7 DEF Driver, TxDone
    <3>2. CASE t = u
      <4>1. sctx'[t] = TxCallback(sctx[t]) /\ sctx[t] \in Ctx
        BY <2>0, <3>1, <3>2
      <4> QED
        BY <2>0, <3>1, <4>1, AllocHelpers DEF FreedIsIdleAt
    <3>3. CASE t # u
      BY <2>0, <3>1, <3>3, FreedFrame
    <3> QED
      BY <3>2, <3>3
  <2>8. ASSUME NEW u \in Targets, Peer(u) PROVE FreedIsIdleAt(t)'
    <3>1. PICK fc \in FC : FcRx(u, fc)
      BY <2>8 DEF Peer
    <3>2. get_send_ctx(u) \in Ctx /\ get_send_ctx(u).alloc
      BY <2>0, CtxHelperTypes, AllocHelpers DEF get_send_ctx, Errors
    <3>3. sctx' = [sctx EXCEPT ![u] = send_can_rx(get_send_ctx(u), fc)] /\ cur' = cur
      BY <3>1 DEF FcRx, HandleFc
    <3>4. sctx'[t] = sctx[t] \/ sctx'[t].alloc
      BY <2>0, <3>2, <3>3, AllocFc
    <3> QED
      BY <2>0, <3>3, <3>4, FreedAlloc, FreedFrame
  <2>9. ASSUME NEW u \in Targets, Timeout(u) PROVE FreedIsIdleAt(t)'
    <3>0. sctx[u] \in Ctx /\ sctx[u].alloc
      BY <2>0, <2>9 DEF FreedIsIdle, FreedIsIdleAt, Timeout
    <3>1. [sctx[u] EXCEPT !.timer = FALSE] \in Ctx /\ [sctx[u] EXCEPT !.timer = FALSE].alloc
      BY <3>0 DEF Ctx
    <3> DEFINE c == [sctx[u] EXCEPT !.timer = FALSE]
    <3>a. \E d \in {c, send_report_error(c, "TIMEOUT_BS")} : sctx' = [sctx EXCEPT ![u] = d]
      BY <2>9 DEF Timeout
    <3>b. c.alloc /\ send_report_error(c, "TIMEOUT_BS").alloc
      BY <3>1, AllocHelpers DEF Errors
    <3>c. cur' = cur
      BY <2>9 DEF Timeout
    <3> HIDE DEF c
    <3>2. sctx'[u].alloc /\ (t # u => sctx'[t] = sctx[t]) /\ cur' = cur
      BY <2>0, <3>a, <3>b, <3>c
    <3> QED
      BY <2>0, <3>2, FreedAlloc, FreedFrame
  <2> QED
    BY <2>1, <2>2, <2>3, <2>4, <2>5, <2>6, <2>7, <2>8, <2>9 DEF Next, Worker
<1> QED
  BY <1>1, <1>2, TypeCorrect, PTL DEF Spec

-----------------------------------------------------------------------------
(* Flow control *)

\* What the flow-control theorem assumes: the node itself uses a block size, and
\* no peer grants an unlimited one.
BlockSizesUsed == OPTS_BS # 0 /\ 0 \notin FcBS

\* A step that leaves a context's state, bs and window alone, and does not put
\* the work queue's thread to work on it, keeps its part of the invariant.
LEMMA FlowFrame ==
    ASSUME NEW t \in Targets, FlowInvAt(t),
           sctx'[t].state = sctx[t].state, sctx'[t].bs = sctx[t].bs,
           window'[t] = window[t],
           \A p \in {"ff", "cf", "sem"} : At(p, t)' => At(p, t),
           At("cf", t) => At("cf", t)'
    PROVE  FlowInvAt(t)'
  BY DEF FlowInvAt, MirrorsWindow

\* A step that moves a context into the error state, and does not put the work
\* queue's thread to work on it, keeps its part of the invariant.
LEMMA FlowError ==
    ASSUME NEW t \in Targets, FlowInvAt(t),
           sctx'[t].state = "ERR", sctx'[t].bs = sctx[t].bs,
           window'[t] = window[t], cur' = cur
    PROVE  FlowInvAt(t)'
  BY DEF FlowInvAt, MirrorsWindow, At

\* send_cf: the thread is left after can_send(), or the send failed.
LEMMA FlowSendCf ==
    ASSUME TypeOK, FlowInv, NEW u \in Targets, NEW c \in Ctx, SendCf(u, c),
           c.bs = sctx[u].bs, c.state = sctx[u].state,
           c.state \in {"SEND_CF", "ERR"}, MirrorsWindow(u),
           \A t \in Targets : t # u => ~At("cf", t),
           NEW t \in Targets
    PROVE  FlowInvAt(t)'
<1>0. sctx \in [Targets -> Ctx] /\ window \in [Targets -> Int] /\ FlowInvAt(t)
  BY DEF TypeOK, FlowInv
<1>b. sctx[u].bs \in Nat
  BY <1>0, SendAssumptions, FrameAssumptions DEF SendAssumptions, FrameAssumptions, Ctx, Bytes
<1> DEFINE n == Min2(c.rem, CfLen)
           d == [c EXCEPT !.rem = @ - n, !.off = @ + n]
<1>1. d.bs = sctx[u].bs /\ d.state = sctx[u].state
  BY DEF Ctx
<1>2. \/ /\ window' = [window EXCEPT ![u] = @ - 1]
         /\ sctx' = [sctx EXCEPT ![u] = d]
         /\ cur' = [pc |-> "cf", t |-> u]
      \/ /\ \E e \in Errors : sctx' = [sctx EXCEPT ![u] = send_report_error(d, e)]
         /\ cur' = Idle
         /\ UNCHANGED window
  BY DEF SendCf, Errors
<1> HIDE DEF d
<1>3. CASE t # u
  <2>1. sctx'[t] = sctx[t] /\ window'[t] = window[t]
    BY <1>0, <1>2, <1>3
  <2>2. \A p \in {"ff", "cf", "sem"} : ~At(p, t)'
    BY <1>2, <1>3 DEF At, Idle
  <2> QED
    BY <1>0, <1>3, <2>1, <2>2, FlowFrame
<1>4. CASE t = u
  <2>1. CASE cur' = Idle /\ UNCHANGED window
    <3>1. PICK e \in Errors : sctx' = [sctx EXCEPT ![u] = send_report_error(d, e)]
      BY <1>2, <2>1 DEF Idle
    <3>2. sctx'[u].state = "ERR"
      <4>1. d \in [alloc : {c.alloc}, state : {c.state}, error : {c.error}, msg : {c.msg},
                   off : {c.off + n}, rem : {c.rem - n}, sn : {c.sn}, bs : {c.bs},
                   stmin : {c.stmin}, backlog : {c.backlog}, wft : {c.wft},
                   sem : {c.sem}, timer : {c.timer}]
        BY DEF d, Ctx
      <4> QED
        BY <1>0, <3>1, <4>1 DEF send_report_error
    <3> QED
      BY <1>0, <1>4, <2>1, <3>2 DEF FlowInvAt, At, Idle
  <2>2. CASE /\ window' = [window EXCEPT ![u] = @ - 1]
             /\ sctx' = [sctx EXCEPT ![u] = d]
             /\ cur' = [pc |-> "cf", t |-> u]
    <3>1. window'[u] = window[u] - 1 /\ sctx'[u].bs = sctx[u].bs
          /\ sctx'[u].state = sctx[u].state
      BY <1>0, <1>1, <2>2
    <3>2. cur'.pc = "cf" /\ cur'.t = u
      BY <2>2
    <3> QED
      BY <1>b, <1>4, <3>1, <3>2 DEF FlowInvAt, MirrorsWindow, At
  <2> QED
    BY <1>2, <2>1, <2>2
<1> QED
  BY <1>3, <1>4

\* The helpers of the interrupt handlers, as far as flow control is concerned.
LEMMA FlowHelpers ==
    ASSUME NEW c \in Ctx, NEW e \in Errors
    PROVE  /\ send_report_error(c, e).state = "ERR"
           /\ send_report_error(c, e).bs = c.bs
           /\ TxCallback(c).bs = c.bs
           /\ \/ TxCallback(c).state = c.state
              \/ c.state = "WAIT_BACKLOG" /\ TxCallback(c).state = "WAIT_FIN"
           /\ Retire(c).state = "RESET" /\ Retire(c).bs = c.bs
           /\ NewSendCtx(c).state = "SEND_FF"
<1>1. send_report_error(c, e).state = "ERR" /\ send_report_error(c, e).bs = c.bs
  BY DEF send_report_error, Ctx
<1>2. TxCallback(c).bs = c.bs
  BY DEF TxCallback, Ctx
<1>3. \/ TxCallback(c).state = c.state
      \/ c.state = "WAIT_BACKLOG" /\ TxCallback(c).state = "WAIT_FIN"
  BY DEF TxCallback, Ctx
<1>4. Retire(c).state = "RESET" /\ Retire(c).bs = c.bs
  BY DEF Retire, free_send_ctx, Ctx
<1>5. NewSendCtx(c).state = "SEND_FF"
  BY DEF NewSendCtx, Ctx
<1> QED
  BY <1>1, <1>2, <1>3, <1>4, <1>5

\* A flow-control frame either stops the transfer, leaves it waiting, or is a
\* CTS that opens the peer's window together with bs.
LEMMA FlowFc ==
    ASSUME NEW c \in Ctx, NEW fc \in FC
    PROVE  LET d == send_can_rx(c, fc) IN
           \/ d.state = "ERR" /\ d.bs = c.bs
              /\ ~(c.state = "WAIT_FC" /\ fc.fs = "CTS")
           \/ c.state = "WAIT_FC" /\ fc.fs = "WAIT" /\ d.state = "WAIT_FC" /\ d.bs = c.bs
           \/ c.state = "WAIT_FC" /\ fc.fs = "CTS" /\ d.state = "SEND_CF" /\ d.bs = fc.bs
<1> DEFINE b == [c EXCEPT !.timer = FALSE]
<1>0. b \in Ctx /\ b.state = c.state /\ b.bs = c.bs
  BY DEF Ctx
<1> HIDE DEF b
<1>1. CASE c.state # "WAIT_FC"
  <2>1. send_can_rx(c, fc) = send_report_error(c, "UNEXP_PDU")
    BY <1>1 DEF send_can_rx
  <2> QED
    BY <1>1, <2>1, FlowHelpers DEF Errors
<1>2. CASE c.state = "WAIT_FC"
  <2>1. send_can_rx(c, fc) = send_process_fc(b, fc)
    BY <1>2 DEF send_can_rx, b
  <2>2. CASE fc.fs = "CTS"
    BY <1>0, <1>2, <2>1, <2>2 DEF send_process_fc, Ctx
  <2>3. CASE fc.fs = "WAIT"
    <3>1. send_can_rx(c, fc) = OnWait(b)
      BY <2>1, <2>3 DEF send_process_fc
    <3>2. OnWait(b).bs = b.bs /\ OnWait(b).state \in {b.state, "ERR"}
      BY <1>0 DEF OnWait, send_report_error, Ctx
    <3> QED
      BY <1>0, <1>2, <2>3, <3>1, <3>2
  <2>4. CASE fc.fs \notin {"CTS", "WAIT"}
    <3>1. \E e \in Errors : send_can_rx(c, fc) = send_report_error(b, e)
      BY <2>1, <2>4 DEF send_process_fc, Errors
    <3> QED
      BY <1>0, <2>4, <3>1, FlowHelpers
  <2> QED
    BY <2>2, <2>3, <2>4
<1> QED
  BY <1>1, <1>2

\* What a call of isotp_fast_send does to flow control: a fresh context has its
\* window closed, a context in use keeps its own.
LEMMA FlowApp ==
    ASSUME TypeOK, FreedIsIdle, FlowInv, NEW u \in Targets, App(u), NEW t \in Targets
    PROVE  FlowInvAt(t)'
<1>0. sctx \in [Targets -> Ctx] /\ window \in [Targets -> Int] /\ FlowInvAt(t)
  BY DEF TypeOK, FlowInv
<1>c. cur' = cur /\ cur.pc \in {"idle", "sem"}
  BY DEF App, SendSf, SendRefused, SendMulti, MayCall
<1>1. PICK l \in Lengths : SendSf(u, l) \/ SendRefused(u, l) \/ SendMulti(u, l)
  BY DEF App
<1>2. CASE SendSf(u, l) \/ SendRefused(u, l)
  BY <1>0, <1>2, <1>c, FlowFrame DEF SendSf, SendRefused, hist, At
<1>3. CASE SendMulti(u, l)
  <2>1. CASE t # u
    <3>1. sctx'[t] = sctx[t] /\ window'[t] = window[t]
      BY <1>0, <1>3, <2>1 DEF SendMulti
    <3> QED
      BY <1>0, <1>c, <3>1, FlowFrame DEF At
  <2>2. CASE t = u
    <3>1. get_send_ctx(u) \in Ctx
      BY <1>0, CtxHelperTypes DEF get_send_ctx, Errors
    <3>2. sctx'[u].state = get_send_ctx(u).state /\ sctx'[u].bs = get_send_ctx(u).bs
      BY <1>0, <1>3, <3>1 DEF SendMulti, Ctx
    <3>3. CASE sctx[u].alloc
      <4>1. sctx'[u].state = sctx[u].state /\ sctx'[u].bs = sctx[u].bs
        BY <3>2, <3>3 DEF get_send_ctx
      <4>2. window'[u] = window[u]
        BY <1>0, <1>3, <3>3 DEF SendMulti
      <4> QED
        BY <1>0, <1>c, <2>2, <4>1, <4>2, FlowFrame DEF At
    <3>4. CASE ~sctx[u].alloc
      <4>1. sctx'[u].state = "SEND_FF"
        BY <1>0, <3>2, <3>4, FlowHelpers DEF get_send_ctx, Errors
      <4>2. window'[u] = 0
        BY <1>0, <1>3, <3>4 DEF SendMulti
      <4>3. ~At("sem", u)
        BY <3>4 DEF FreedIsIdle, FreedIsIdleAt, At
      <4> QED
        BY <1>c, <2>2, <4>1, <4>2, <4>3 DEF FlowInvAt, At
    <3> QED
      BY <3>3, <3>4
  <2> QED
    BY <2>1, <2>2
<1> QED
  BY <1>1, <1>2, <1>3

\* A step of the work queue's thread keeps the flow-control invariant.
LEMMA FlowWorker ==
    ASSUME BlockSizesUsed, TypeOK, FlowInv, Worker, NEW t \in Targets
    PROVE  FlowInvAt(t)'
<1>0. sctx \in [Targets -> Ctx] /\ window \in [Targets -> Int] /\ FlowInvAt(t)
  BY DEF TypeOK, FlowInv
<1>n. \A u \in Targets : sctx[u].bs \in Nat /\ sctx[u].bs < BYTE
  BY <1>0, SendAssumptions, FrameAssumptions DEF SendAssumptions, FrameAssumptions, Ctx, Bytes
<1>1. CASE FinishFf
  <2>1. cur.t \in Targets /\ At("ff", cur.t) /\ FlowInvAt(cur.t)
    BY <1>1, CurCases DEF FinishFf, TypeOK, FlowInv, At
  <2>2. window' = window /\ cur' = Idle
    BY <1>1 DEF FinishFf, hist
  <2>3. CASE t = cur.t
    <3>1. sctx'[t].state = "WAIT_FC"
      BY <1>0, <1>1, <2>1, <2>3 DEF FinishFf, Ctx
    <3> QED
      BY <2>1, <2>2, <2>3, <3>1 DEF FlowInvAt, At, Idle
  <2>4. CASE t # cur.t
    <3>1. sctx'[t] = sctx[t]
      BY <1>0, <1>1, <2>1, <2>4 DEF FinishFf
    <3> QED
      BY <1>0, <2>2, <2>4, <3>1, FlowFrame DEF At, Idle
  <2> QED
    BY <2>3, <2>4
<1>2. CASE FinishCf
  <2>1. cur.t \in Targets /\ At("cf", cur.t) /\ FlowInvAt(cur.t)
    BY <1>2, CurCases DEF FinishCf, TypeOK, FlowInv, At
  <2>2. window' = window
    BY <1>2 DEF FinishCf, hist
  <2>3. CASE t = cur.t
    <3> DEFINE c == CountCf(sctx[t])
    <3>1. c \in Ctx /\ c.bs = Dec8(sctx[t].bs) /\ c.state = sctx[t].state
      BY <1>0, <2>3, CfHelperTypes DEF CountCf, Ctx
    <3>2. c.bs = window[t] /\ window[t] >= 0
      BY <1>n, <2>1, <2>3, <3>1 DEF FlowInvAt, Dec8
    <3> HIDE DEF c
    <3>3. /\ sctx'[t] = AfterCf(c)
          /\ cur' = IF c.rem # 0 /\ ~(OPTS_BS # 0 /\ c.bs = 0) /\ c.stmin = 0
                    THEN [pc |-> "sem", t |-> t] ELSE Idle
      BY <1>0, <1>2, <2>3 DEF FinishCf, c
    <3>4. CASE c.rem = 0
      <4>1. sctx'[t].state = "WAIT_BACKLOG" /\ cur' = Idle
        BY <3>1, <3>3, <3>4 DEF AfterCf, Ctx
      <4> QED
        BY <2>2, <3>2, <4>1 DEF FlowInvAt, At, Idle
    <3>5. CASE c.rem # 0 /\ c.bs = 0
      <4>1. sctx'[t].state = "WAIT_FC" /\ cur' = Idle
        BY <3>1, <3>3, <3>5 DEF AfterCf, Ctx, BlockSizesUsed
      <4> QED
        BY <2>2, <3>2, <3>5, <4>1 DEF FlowInvAt, At, Idle
    <3>6. CASE c.rem # 0 /\ c.bs # 0 /\ c.stmin # 0
      <4>1. sctx'[t].state = "WAIT_ST" /\ sctx'[t].bs = c.bs /\ cur' = Idle
        BY <3>1, <3>3, <3>6 DEF AfterCf, Ctx, BlockSizesUsed
      <4> QED
        BY <1>0, <2>2, <3>2, <3>6, <4>1 DEF FlowInvAt, MirrorsWindow, At, Idle
    <3>7. CASE c.rem # 0 /\ c.bs # 0 /\ c.stmin = 0
      <4>1. sctx'[t] = c /\ cur' = [pc |-> "sem", t |-> t]
        BY <3>1, <3>3, <3>7 DEF AfterCf, Ctx, BlockSizesUsed
      <4>2. c.state \in {"SEND_CF", "ERR"}
        BY <2>1, <2>3, <3>1 DEF FlowInvAt
      <4>3. cur'.pc = "sem" /\ cur'.t = t
        BY <4>1
      <4> QED
        BY <1>0, <2>2, <3>2, <3>7, <4>1, <4>2, <4>3 DEF FlowInvAt, MirrorsWindow, At
    <3> QED
      BY <3>4, <3>5, <3>6, <3>7
  <2>4. CASE t # cur.t
    <3>1. sctx'[t] = sctx[t]
      BY <1>0, <1>2, <2>1, <2>4 DEF FinishCf
    <3>2. cur' = Idle \/ cur' = [pc |-> "sem", t |-> cur.t]
      BY <1>2 DEF FinishCf
    <3> QED
      BY <1>0, <2>2, <2>4, <3>1, <3>2, FlowFrame DEF At, Idle
  <2> QED
    BY <2>3, <2>4
<1>3. CASE TakeSem
  <2>1. cur.t \in Targets /\ At("sem", cur.t) /\ FlowInvAt(cur.t)
    BY <1>3, CurCases DEF TakeSem, TypeOK, FlowInv, At
  <2> DEFINE c == [sctx[cur.t] EXCEPT !.sem = 0]
  <2>a. sctx[cur.t] \in Ctx
    BY <1>0, <2>1
  <2>2. c \in Ctx /\ c.bs = sctx[cur.t].bs /\ c.state = sctx[cur.t].state
    BY <2>a DEF Ctx
  <2>3. SendCf(cur.t, c)
    BY <1>3 DEF TakeSem
  <2>4. c.state \in {"SEND_CF", "ERR"} /\ MirrorsWindow(cur.t)
    BY <2>1, <2>2 DEF FlowInvAt
  <2>5. \A u \in Targets : ~At("cf", u)
    BY <2>1 DEF At
  <2> HIDE DEF c
  <2> QED
    BY <2>1, <2>2, <2>3, <2>4, <2>5, FlowSendCf
<1>4. ASSUME NEW u \in Targets, Work(u)
      PROVE  FlowInvAt(t)'
  <2>0. sctx[u] \in Ctx /\ FlowInvAt(u)
    BY <1>0 DEF FlowInv
  <2>i. cur = Idle /\ \A p \in {"ff", "cf", "sem"}, v \in Targets : ~At(p, v)
    BY <1>4 DEF Work, WorkSendFf, WorkSendCf, WorkWaitSt, WorkFinish, WorkNothing,
                Running, At, Idle
  <2>1. CASE WorkSendFf(u)
    <3>1. window' = window /\ cur' = [pc |-> "ff", t |-> u]
      BY <2>1 DEF WorkSendFf
    <3>2. CASE t = u
      <4>1. sctx'[u].state = "SEND_FF" /\ sctx[u].state = "SEND_FF"
        BY <1>0, <2>0, <2>1 DEF WorkSendFf, Running, Ctx
      <4>2. cur'.pc = "ff"
        BY <3>1
      <4> QED
        BY <1>0, <3>1, <3>2, <4>1, <4>2 DEF FlowInvAt, At
    <3>3. CASE t # u
      <4>1. sctx'[t] = sctx[t]
        BY <1>0, <2>1, <3>3 DEF WorkSendFf
      <4> QED
        BY <1>0, <2>i, <3>1, <3>3, <4>1, FlowFrame DEF At
    <3> QED
      BY <3>2, <3>3
  <2>2. CASE WorkSendCf(u)
    <3> DEFINE c == [sctx[u] EXCEPT !.timer = FALSE]
    <3>1. c \in Ctx /\ c.bs = sctx[u].bs /\ c.state = sctx[u].state
      BY <2>0 DEF Ctx
    <3>2. SendCf(u, c) /\ sctx[u].state = "SEND_CF"
      BY <2>2 DEF WorkSendCf, Running
    <3>3. MirrorsWindow(u)
      BY <2>0, <2>i, <3>2 DEF FlowInvAt
    <3> HIDE DEF c
    <3> QED
      BY <2>i, <3>1, <3>2, <3>3, FlowSendCf
  <2>3. CASE WorkWaitSt(u)
    <3>1. window' = window /\ cur' = cur
      BY <2>3 DEF WorkWaitSt, hist
    <3>2. CASE t = u
      <4>1. /\ sctx'[u].state = "SEND_CF" /\ sctx'[u].bs = sctx[u].bs
            /\ sctx[u].state = "WAIT_ST"
        BY <1>0, <2>0, <2>3 DEF WorkWaitSt, Running, Ctx
      <4> QED
        BY <1>0, <2>i, <3>1, <3>2, <4>1 DEF FlowInvAt, MirrorsWindow, At
    <3>3. CASE t # u
      <4>1. sctx'[t] = sctx[t]
        BY <1>0, <2>3, <3>3 DEF WorkWaitSt
      <4> QED
        BY <1>0, <3>1, <4>1, FlowFrame DEF At
    <3> QED
      BY <3>2, <3>3
  <2>4. CASE WorkFinish(u)
    <3>1. /\ window' = window /\ cur' = cur
          /\ sctx' = [sctx EXCEPT ![u] = Retire(sctx[u])]
      BY <2>4 DEF WorkFinish, hist
    <3>2. CASE t = u
      <4>1. sctx'[u].state = "RESET"
        BY <1>0, <2>0, <3>1, FlowHelpers DEF Errors
      <4> QED
        BY <1>0, <2>i, <3>1, <3>2, <4>1 DEF FlowInvAt, At
    <3>3. CASE t # u
      BY <1>0, <3>1, <3>3, FlowFrame DEF At
    <3> QED
      BY <3>2, <3>3
  <2>5. CASE WorkNothing(u)
    BY <1>0, <2>5, FlowFrame DEF WorkNothing, hist, At
  <2> QED
    BY <1>4, <2>1, <2>2, <2>3, <2>4, <2>5 DEF Work
<1> QED
  BY <1>1, <1>2, <1>3, <1>4 DEF Worker

\* An interrupt handler keeps the flow-control invariant.
LEMMA FlowIsr ==
    ASSUME BlockSizesUsed, TypeOK, FreedIsIdle, FlowInv, NEW u \in Targets,
           Driver(u) \/ Peer(u) \/ Timeout(u), NEW t \in Targets
    PROVE  FlowInvAt(t)'
<1>0. /\ sctx \in [Targets -> Ctx] /\ window \in [Targets -> Int] /\ FlowInvAt(t)
      /\ sctx[u] \in Ctx
  BY DEF TypeOK, FlowInv
<1>c. cur' = cur
  BY DEF Driver, TxDone, Peer, FcRx, HandleFc, Timeout
<1>1. CASE Driver(u)
  <2>1. sctx' = [sctx EXCEPT ![u] = TxCallback(sctx[u])] /\ window' = window
    BY <1>1 DEF Driver, TxDone
  <2>2. CASE t # u
    BY <1>0, <1>c, <2>1, <2>2, FlowFrame DEF At
  <2>3. CASE t = u
    <3>1. /\ sctx'[u].bs = sctx[u].bs
          /\ \/ sctx'[u].state = sctx[u].state
             \/ sctx[u].state = "WAIT_BACKLOG" /\ sctx'[u].state = "WAIT_FIN"
      BY <1>0, <2>1, FlowHelpers DEF Errors
    <3>2. CASE sctx'[u].state = sctx[u].state
      BY <1>0, <1>c, <2>1, <2>3, <3>1, <3>2, FlowFrame DEF At
    <3>3. CASE sctx[u].state = "WAIT_BACKLOG" /\ sctx'[u].state = "WAIT_FIN"
      BY <1>0, <1>c, <2>1, <2>3, <3>3 DEF FlowInvAt, At
    <3> QED
      BY <3>1, <3>2, <3>3
  <2> QED
    BY <2>2, <2>3
<1>2. CASE Peer(u)
  <2>1. PICK fc \in FC : FcRx(u, fc)
    BY <1>2 DEF Peer
  <2> DEFINE c == get_send_ctx(u)
             d == send_can_rx(c, fc)
  <2>2. c \in Ctx
    BY <1>0, CtxHelperTypes DEF get_send_ctx, Errors
  <2>3. sctx' = [sctx EXCEPT ![u] = d]
    BY <2>1 DEF FcRx, HandleFc
  <2>4. window' = IF c.state = "WAIT_FC" /\ fc.fs = "CTS"
                  THEN [window EXCEPT ![u] = IF fc.bs = 0 THEN Unlimited ELSE fc.bs]
                  ELSE window
    BY <2>1 DEF FcRx, HandleFc
  <2>5. CASE t # u
    <3>1. sctx'[t] = sctx[t] /\ window'[t] = window[t]
      BY <1>0, <2>3, <2>4, <2>5
    <3> QED
      BY <1>0, <1>c, <3>1, FlowFrame DEF At
  <2>6. CASE t = u /\ ~sctx[u].alloc
    <3>1. c.state = "SEND_FF"
      BY <1>0, <2>6, FlowHelpers DEF get_send_ctx, Errors
    <3>2. d.state = "ERR"
      BY <2>2, <3>1, FlowFc
    <3>3. sctx'[u].state = "ERR" /\ window' = window
      BY <1>0, <2>3, <2>4, <3>1, <3>2
    <3>4. \A p \in {"ff", "cf", "sem"} : ~At(p, u)'
      BY <1>c, <2>6 DEF FreedIsIdle, FreedIsIdleAt, At
    <3> QED
      BY <1>0, <2>6, <3>3, <3>4 DEF FlowInvAt
  <2>7. CASE t = u /\ sctx[u].alloc
    <3>1. c = sctx[u] /\ sctx'[u] = d
      BY <1>0, <2>3, <2>7 DEF get_send_ctx
    <3> HIDE DEF c, d
    <3>2. \/ d.state = "ERR" /\ d.bs = c.bs /\ ~(c.state = "WAIT_FC" /\ fc.fs = "CTS")
          \/ c.state = "WAIT_FC" /\ fc.fs = "WAIT" /\ d.state = "WAIT_FC" /\ d.bs = c.bs
          \/ c.state = "WAIT_FC" /\ fc.fs = "CTS" /\ d.state = "SEND_CF" /\ d.bs = fc.bs
      BY <2>2, FlowFc DEF d
    <3>3. CASE d.state = "ERR" /\ d.bs = c.bs /\ ~(c.state = "WAIT_FC" /\ fc.fs = "CTS")
      BY <1>0, <1>c, <2>4, <2>7, <3>1, <3>3, FlowError
    <3>4. CASE c.state = "WAIT_FC" /\ fc.fs = "WAIT" /\ d.state = "WAIT_FC" /\ d.bs = c.bs
      BY <1>0, <1>c, <2>4, <2>7, <3>1, <3>4, FlowFrame DEF At
    <3>5. CASE c.state = "WAIT_FC" /\ fc.fs = "CTS" /\ d.state = "SEND_CF" /\ d.bs = fc.bs
      <4>1. fc.bs \in FcBS
        BY <3>5 DEF FC
      <4>2. fc.bs \in Nat /\ fc.bs > 0
        <5>1. FcBS \subseteq Bytes /\ BYTE \in Nat
          BY SendAssumptions, FrameAssumptions DEF SendAssumptions, FrameAssumptions
        <5>2. \A x \in Bytes : x \in Nat
          BY <5>1 DEF Bytes
        <5>3. fc.bs # 0
          BY <4>1 DEF BlockSizesUsed
        <5>4. fc.bs \in Nat
          BY <4>1, <5>1, <5>2
        <5> QED
          BY <5>3, <5>4
      <4>3. window'[u] = fc.bs
        BY <1>0, <2>4, <3>5, <4>2
      <4>4. \A p \in {"ff", "cf", "sem"} : ~At(p, u)
        BY <1>0, <2>7, <3>1, <3>5 DEF FlowInvAt
      <4>5. \A p \in {"ff", "cf", "sem"} : ~At(p, u)'
        BY <1>c, <4>4 DEF At
      <4> QED
        BY <2>7, <3>1, <3>5, <4>2, <4>3, <4>5 DEF FlowInvAt, MirrorsWindow
    <3> QED
      BY <3>2, <3>3, <3>4, <3>5
  <2> QED
    BY <2>5, <2>6, <2>7
<1>3. CASE Timeout(u)
  <2> DEFINE c == [sctx[u] EXCEPT !.timer = FALSE]
  <2>0. c \in Ctx /\ c.state = sctx[u].state /\ c.bs = sctx[u].bs
    BY <1>0 DEF Ctx
  <2>1. window' = window
    BY <1>3 DEF Timeout, hist
  <2>2. \E d \in {c, send_report_error(c, "TIMEOUT_BS")} : sctx' = [sctx EXCEPT ![u] = d]
    BY <1>3 DEF Timeout
  <2> HIDE DEF c
  <2>3. CASE t # u
    <3>1. sctx'[t] = sctx[t]
      BY <1>0, <2>2, <2>3
    <3> QED
      BY <1>0, <1>c, <2>1, <3>1, FlowFrame DEF At
  <2>4. CASE t = u
    <3>1. CASE sctx' = [sctx EXCEPT ![u] = c]
      BY <1>0, <1>c, <2>0, <2>1, <2>4, <3>1, FlowFrame DEF At
    <3>2. CASE sctx' = [sctx EXCEPT ![u] = send_report_error(c, "TIMEOUT_BS")]
      <4>1. sctx'[u].state = "ERR" /\ sctx'[u].bs = sctx[u].bs
        BY <1>0, <2>0, <3>2, FlowHelpers DEF Errors
      <4> QED
        BY <1>0, <1>c, <2>1, <2>4, <4>1, FlowError
    <3> QED
      BY <2>2, <3>1, <3>2
  <2> QED
    BY <2>3, <2>4
<1> QED
  BY <1>1, <1>2, <1>3

\* The inductive invariant behind flow control.
LEMMA FlowInvariant == ASSUME BlockSizesUsed PROVE Spec => []FlowInv
<1>1. Init => FlowInv
  BY DEF Init, FlowInv, FlowInvAt, At, Idle
<1>2. TypeOK /\ FreedIsIdle /\ FlowInv /\ [Next]_vars => FlowInv'
  <2> SUFFICES ASSUME TypeOK, FreedIsIdle, FlowInv, [Next]_vars, NEW t \in Targets
               PROVE  FlowInvAt(t)'
    BY DEF FlowInv
  <2>1. CASE UNCHANGED vars
    BY <2>1, FlowFrame DEF vars, At, FlowInv
  <2>2. CASE Next
    BY <2>2, FlowApp, FlowWorker, FlowIsr DEF Next
  <2> QED
    BY <2>1, <2>2
<1> QED
  BY <1>1, <1>2, TypeCorrect, FreedContextsIdle, PTL DEF Spec

\* Under every fault of the environment and any interleaving of the interrupt
\* handlers with the work queue, send_cf never exceeds the block size of the
\* peer's last CTS, if block sizes are used on both sides.
THEOREM FlowControl == ASSUME BlockSizesUsed PROVE Spec => []FlowControlRespected
<1>1. FlowInv => FlowControlRespected
  BY DEF FlowInv, FlowInvAt, FlowControlRespected
<1> QED
  BY <1>1, FlowInvariant, PTL

\* Under the same conditions the sender waits for an FC only when the peer owes
\* one, so no transfer times out for want of a frame the peer never sends.
THEOREM NoSelfInflictedTimeout == ASSUME BlockSizesUsed PROVE Spec => []WaitsOnlyForOwedFc
<1>1. FlowInv => WaitsOnlyForOwedFc
  BY DEF FlowInv, FlowInvAt, WaitsOnlyForOwedFc
<1> QED
  BY <1>1, FlowInvariant, PTL

-----------------------------------------------------------------------------
(* Which message a context works on *)

\* The two contexts are about the same place of the same message.
Keeps(d, c) == /\ d \in Ctx /\ d.alloc = c.alloc /\ d.msg = c.msg
               /\ d.off = c.off /\ d.rem = c.rem /\ d.sn = c.sn

\* The helpers that leave the message alone.
LEMMA KeepHelpers ==
    ASSUME NEW c \in Ctx, NEW e \in Errors
    PROVE  /\ Keeps(send_report_error(c, e), c) /\ send_report_error(c, e).state = "ERR"
           /\ Keeps(TxCallback(c), c) /\ TxCallback(c).backlog = Dec8(c.backlog)
           /\ \/ TxCallback(c).state = c.state
              \/ c.state = "WAIT_BACKLOG" /\ Dec8(c.backlog) = 0 /\ TxCallback(c).state = "WAIT_FIN"
           /\ Keeps(AfterCf(c), c) /\ AfterCf(c).backlog = c.backlog
           /\ c.rem = 0 => AfterCf(c).state = "WAIT_BACKLOG"
           /\ c.rem # 0 => AfterCf(c).state \in {"WAIT_FC", "WAIT_ST", c.state}
<1>1. Keeps(send_report_error(c, e), c) /\ send_report_error(c, e).state = "ERR"
  BY CtxHelperTypes DEF send_report_error, Ctx, Keeps
<1>2. Keeps(TxCallback(c), c)
  BY TxCallbackType DEF TxCallback, Ctx, Keeps
<1>3. TxCallback(c).backlog = Dec8(c.backlog)
  BY DEF TxCallback, Ctx
<1>4. \/ TxCallback(c).state = c.state
      \/ c.state = "WAIT_BACKLOG" /\ Dec8(c.backlog) = 0 /\ TxCallback(c).state = "WAIT_FIN"
  BY DEF TxCallback, Ctx
<1>5. Keeps(AfterCf(c), c) /\ AfterCf(c).backlog = c.backlog
  BY CfHelperTypes DEF AfterCf, Ctx, Keeps
<1>6. /\ c.rem = 0 => AfterCf(c).state = "WAIT_BACKLOG"
      /\ c.rem # 0 => AfterCf(c).state \in {"WAIT_FC", "WAIT_ST", c.state}
  BY DEF AfterCf, Ctx
<1> QED
  BY <1>1, <1>2, <1>3, <1>4, <1>5, <1>6

\* A flow-control frame leaves the message alone.
LEMMA KeepFc ==
    ASSUME NEW c \in Ctx, NEW fc \in FC
    PROVE  LET d == send_can_rx(c, fc) IN
           /\ Keeps(d, c)
           /\ \/ d.state = "ERR"
              \/ c.state = "WAIT_FC" /\ d.state = "WAIT_FC"
              \/ c.state = "WAIT_FC" /\ d.state = "SEND_CF" /\ d.backlog = 0
<1> DEFINE b == [c EXCEPT !.timer = FALSE]
<1>0. b \in Ctx /\ Keeps(b, c) /\ b.state = c.state
  BY DEF Ctx, Keeps
<1>t. \A d, x : Keeps(d, x) /\ Keeps(x, c) => Keeps(d, c)
  BY DEF Keeps
<1> HIDE DEF b
<1>1. CASE c.state # "WAIT_FC"
  <2>1. send_can_rx(c, fc) = send_report_error(c, "UNEXP_PDU")
    BY <1>1 DEF send_can_rx
  <2> QED
    BY <1>1, <2>1, KeepHelpers DEF Errors
<1>2. CASE c.state = "WAIT_FC"
  <2>1. send_can_rx(c, fc) = send_process_fc(b, fc)
    BY <1>2 DEF send_can_rx, b
  <2>2. CASE fc.fs = "CTS"
    <3>1. fc.bs \in Bytes /\ fc.stmin \in Bytes
      <4>1. fc.bs \in FcBS /\ fc.stmin \in FcStmin
        BY <2>2 DEF FC
      <4> QED
        BY <4>1, ConstTypes
    <3> DEFINE d == [b EXCEPT !.state = "SEND_CF", !.wft = 0, !.backlog = 0,
                              !.sem = 0, !.bs = fc.bs, !.stmin = fc.stmin]
    <3>2. send_can_rx(c, fc) = d
      BY <2>1, <2>2 DEF send_process_fc
    <3>3. d \in Ctx /\ d.state = "SEND_CF" /\ d.backlog = 0
      BY <1>0, <3>1, ConstTypes DEF Ctx, TxState
    <3>4. d.alloc = b.alloc /\ d.msg = b.msg /\ d.off = b.off /\ d.rem = b.rem /\ d.sn = b.sn
      BY <1>0 DEF Ctx
    <3>5. Keeps(d, b)
      BY <3>3, <3>4 DEF Keeps
    <3> QED
      BY <1>0, <1>2, <1>t, <3>2, <3>3, <3>5
  <2>3. CASE fc.fs = "WAIT"
    <3>1. send_can_rx(c, fc) = OnWait(b)
      BY <2>1, <2>3 DEF send_process_fc
    <3>2. OnWait(b) \in Ctx
      BY <1>0, <1>2, <2>3, <3>1, FcHelperTypes
    <3>3. Keeps(OnWait(b), b) /\ OnWait(b).state \in {b.state, "ERR"}
      BY <1>0, <3>2 DEF OnWait, send_report_error, Ctx, Keeps
    <3> QED
      BY <1>0, <1>2, <1>t, <3>1, <3>3
  <2>4. CASE fc.fs \notin {"CTS", "WAIT"}
    <3>1. \E e \in Errors : send_can_rx(c, fc) = send_report_error(b, e)
      BY <2>1, <2>4 DEF send_process_fc, Errors
    <3> QED
      BY <1>0, <1>t, <3>1, KeepHelpers
  <2> QED
    BY <2>2, <2>3, <2>4
<1> QED
  BY <1>1, <1>2

\* What an interrupt handler does to the context of u, which is allocated if the
\* handler is for a flow-control frame and nothing late or stray comes in.
LEMMA IsrFacts ==
    ASSUME TypeOK, FreedIsIdle, NEW u \in Targets, Driver(u) \/ Peer(u) \/ Timeout(u)
    PROVE  /\ cur' = cur /\ calls' = calls /\ len' = len /\ report' = report /\ out' = out
           /\ sctx' \in [Targets -> Ctx]
           /\ \A v \in Targets : v # u => sctx'[v] = sctx[v]
           /\ \/ Keeps(sctx'[u], sctx[u])
              \/ /\ Peer(u) /\ ~sctx[u].alloc /\ sctx'[u].state = "ERR"
                 /\ sctx'[u].msg = sctx[u].msg
                 /\ Faults \cap {"latefc", "strayfc"} # {}
           /\ \/ sctx'[u].state = sctx[u].state
              \/ sctx'[u].state = "ERR"
              \/ sctx[u].state = "WAIT_BACKLOG" /\ sctx'[u].state = "WAIT_FIN"
              \/ /\ Peer(u) /\ sctx[u].state = "WAIT_FC" /\ sctx'[u].state = "SEND_CF"
                 /\ sctx'[u].backlog = 0
                 /\ PeerOwesFc(u) \/ "strayfc" \in Faults
<1>0. sctx \in [Targets -> Ctx] /\ sctx[u] \in Ctx /\ sctx' \in [Targets -> Ctx]
  BY IsrTypes DEF TypeOK
<1>c. cur' = cur /\ calls' = calls /\ len' = len /\ report' = report /\ out' = out
  BY DEF Driver, TxDone, Peer, FcRx, HandleFc, Timeout, appVars, hist
<1>1. CASE Driver(u)
  <2>1. sctx' = [sctx EXCEPT ![u] = TxCallback(sctx[u])]
    BY <1>1 DEF Driver, TxDone
  <2>2. sctx'[u] = TxCallback(sctx[u]) /\ \A v \in Targets : v # u => sctx'[v] = sctx[v]
    BY <1>0, <2>1
  <2>3. /\ Keeps(TxCallback(sctx[u]), sctx[u])
        /\ \/ TxCallback(sctx[u]).state = sctx[u].state
           \/ sctx[u].state = "WAIT_BACKLOG" /\ TxCallback(sctx[u]).state = "WAIT_FIN"
    BY <1>0, KeepHelpers DEF Errors
  <2> QED
    BY <1>0, <1>c, <2>2, <2>3
<1>2. CASE Timeout(u)
  <2> DEFINE c == [sctx[u] EXCEPT !.timer = FALSE]
             d == IF c.state # "SEND_CF" THEN send_report_error(c, "TIMEOUT_BS") ELSE c
  <2>1. sctx' = [sctx EXCEPT ![u] = d]
    BY <1>2 DEF Timeout
  <2>2. Keeps(c, sctx[u]) /\ c.state = sctx[u].state /\ c \in Ctx
    BY <1>0 DEF Ctx, Keeps
  <2>t. \A y, x : Keeps(y, x) /\ Keeps(x, sctx[u]) => Keeps(y, sctx[u])
    BY DEF Keeps
  <2> HIDE DEF c
  <2>3. Keeps(d, sctx[u]) /\ (d.state = sctx[u].state \/ d.state = "ERR")
    BY <2>2, <2>t, KeepHelpers DEF Errors
  <2> HIDE DEF d
  <2>4. sctx'[u] = d /\ \A v \in Targets : v # u => sctx'[v] = sctx[v]
    BY <1>0, <2>1
  <2> QED
    BY <1>0, <1>c, <2>3, <2>4
<1>3. CASE Peer(u)
  <2>1. PICK fc \in FC : FcRx(u, fc)
    BY <1>3 DEF Peer
  <2> DEFINE c == get_send_ctx(u)
             d == send_can_rx(c, fc)
  <2>2. sctx' = [sctx EXCEPT ![u] = d]
    BY <2>1 DEF FcRx, HandleFc
  <2>3. sctx'[u] = d /\ \A v \in Targets : v # u => sctx'[v] = sctx[v]
    BY <1>0, <2>2
  <2>4. c \in Ctx
    BY <1>0, CtxHelperTypes DEF get_send_ctx, Errors
  <2>5. /\ Keeps(d, c)
        /\ \/ d.state = "ERR"
           \/ c.state = "WAIT_FC" /\ d.state = "WAIT_FC"
           \/ c.state = "WAIT_FC" /\ d.state = "SEND_CF" /\ d.backlog = 0
    BY <2>4, KeepFc
  <2>6. CASE sctx[u].alloc
    <3>1. c = sctx[u]
      BY <2>6 DEF get_send_ctx
    <3>2. PeerOwesFc(u) \/ "strayfc" \in Faults
      BY <2>1, <2>6 DEF FcRx, FcMayArrive
    <3> QED
      BY <1>0, <1>3, <1>c, <2>3, <2>5, <3>1, <3>2
  <2>7. CASE ~sctx[u].alloc
    <3>1. c.state = "SEND_FF" /\ c.msg = sctx[u].msg
      BY <1>0, <2>7 DEF get_send_ctx, NewSendCtx, Ctx
    <3>2. d.state = "ERR" /\ d.msg = sctx[u].msg
      BY <2>5, <3>1 DEF Keeps
    <3>3. Faults \cap {"latefc", "strayfc"} # {}
      BY <2>1, <2>7 DEF FcRx, FcMayArrive, PeerOwesFc
    <3> QED
      BY <1>0, <1>3, <1>c, <2>3, <2>7, <3>2, <3>3
  <2> QED
    BY <2>6, <2>7
<1> QED
  BY <1>1, <1>2, <1>3

\* What send_cf leaves in the context.
LEMMA SendCfFacts ==
    ASSUME TypeOK, NEW u \in Targets, NEW c \in Ctx, SendCf(u, c), Keeps(c, sctx[u]),
           c.state = sctx[u].state, c.backlog = sctx[u].backlog
    PROVE  LET n == Min2(sctx[u].rem, CfLen)
               f == [type |-> "CF", sn |-> sctx[u].sn, msg |-> sctx[u].msg, off |-> sctx[u].off,
                     n |-> n, len |-> 0]
           IN
           /\ sctx' \in [Targets -> Ctx]
           /\ \A v \in Targets : v # u => sctx'[v] = sctx[v]
           /\ sctx'[u].alloc = sctx[u].alloc /\ sctx'[u].msg = sctx[u].msg
           /\ sctx'[u].sn = sctx[u].sn /\ sctx'[u].backlog = sctx[u].backlog
           /\ sctx'[u].rem = sctx[u].rem - n /\ sctx'[u].off = sctx[u].off + n
           /\ \/ /\ HandToController(u, f) /\ cur' = [pc |-> "cf", t |-> u]
                 /\ sctx'[u].state = sctx[u].state
              \/ UNCHANGED <<mbox, out>> /\ cur' = Idle /\ sctx'[u].state = "ERR"
<1> DEFINE n == Min2(c.rem, CfLen)
           r == c.rem - n
           o == c.off + n
           f == [type |-> "CF", sn |-> c.sn, msg |-> c.msg, off |-> c.off,
                 n |-> n, len |-> 0]
           d == [c EXCEPT !.rem = r, !.off = o]
<1>0. sctx \in [Targets -> Ctx] /\ sctx' \in [Targets -> Ctx]
  BY SendCfTypes DEF TypeOK
<1>1. r \in Nat /\ o \in Nat
  <2>1. CfLen \in Nat /\ c.rem \in Nat /\ c.off \in Nat
    BY SendAssumptions, FrameAssumptions DEF SendAssumptions, FrameAssumptions, CfLen, Ctx
  <2> QED
    BY <2>1 DEF Min2
<1>2. \/ /\ HandToController(u, f) /\ cur' = [pc |-> "cf", t |-> u] /\ sctx' = [sctx EXCEPT ![u] = d]
      \/ /\ UNCHANGED <<mbox, out>> /\ cur' = Idle
         /\ \E e \in Errors : sctx' = [sctx EXCEPT ![u] = send_report_error(d, e)]
  BY DEF SendCf, Errors
<1>n. n = Min2(sctx[u].rem, CfLen)
  BY DEF Keeps
<1>f. f = [type |-> "CF", sn |-> sctx[u].sn, msg |-> sctx[u].msg, off |-> sctx[u].off,
           n |-> Min2(sctx[u].rem, CfLen), len |-> 0]
  BY DEF Keeps
<1>r. r = sctx[u].rem - n /\ o = sctx[u].off + n
  BY DEF Keeps
<1> HIDE DEF r, o, f, n
<1>3. d \in Ctx /\ d.alloc = c.alloc /\ d.msg = c.msg /\ d.sn = c.sn /\ d.backlog = c.backlog
      /\ d.state = c.state /\ d.rem = r /\ d.off = o
  BY <1>1 DEF Ctx
<1> HIDE DEF d
<1>4. CASE HandToController(u, f) /\ cur' = [pc |-> "cf", t |-> u] /\ sctx' = [sctx EXCEPT ![u] = d]
  <2>1. sctx'[u] = d /\ \A v \in Targets : v # u => sctx'[v] = sctx[v]
    BY <1>0, <1>4
  <2> QED
    BY <1>0, <1>3, <1>4, <1>f, <1>n, <1>r, <2>1 DEF Keeps
<1>5. CASE /\ UNCHANGED <<mbox, out>> /\ cur' = Idle
           /\ \E e \in Errors : sctx' = [sctx EXCEPT ![u] = send_report_error(d, e)]
  <2>0. PICK e \in Errors : sctx' = [sctx EXCEPT ![u] = send_report_error(d, e)]
    BY <1>5
  <2>1. sctx'[u] = send_report_error(d, e) /\ \A v \in Targets : v # u => sctx'[v] = sctx[v]
    BY <1>0, <2>0
  <2>2. Keeps(send_report_error(d, e), d) /\ send_report_error(d, e).state = "ERR"
    BY <1>3, KeepHelpers
  <2>3. send_report_error(d, e).backlog = d.backlog
    BY <1>3 DEF send_report_error, Ctx
  <2> QED
    BY <1>0, <1>3, <1>5, <1>n, <1>r, <2>1, <2>2, <2>3 DEF Keeps
<1> QED
  BY <1>2, <1>4, <1>5

\* What a step of the work queue's thread does to the contexts' messages: only
\* reporting a result frees a context.
LEMMA WorkerFacts ==
    ASSUME TypeOK, FreedIsIdle, Worker
    PROVE  /\ calls' = calls /\ len' = len /\ sctx' \in [Targets -> Ctx]
           /\ \/ /\ report' = report
                 /\ \A v \in Targets : sctx'[v].alloc = sctx[v].alloc /\ sctx'[v].msg = sctx[v].msg
              \/ \E u \in Targets, e \in Errors :
                   /\ WorkFinish(u) /\ sctx[u].alloc /\ ~sctx'[u].alloc
                   /\ sctx'[u].msg = sctx[u].msg
                   /\ \A v \in Targets : v # u => sctx'[v] = sctx[v]
                   /\ report' = [report EXCEPT ![sctx[u].msg] = Append(report[sctx[u].msg], e)]
<1>0. sctx \in [Targets -> Ctx] /\ sctx' \in [Targets -> Ctx]
  BY WorkerTypes DEF TypeOK
<1>c. calls' = calls /\ len' = len
  BY DEF Worker, FinishFf, FinishCf, TakeSem, Work, WorkSendFf, WorkSendCf, WorkWaitSt, WorkFinish,
         WorkNothing, appVars
<1>1. CASE FinishFf
  <2>1. cur.t \in Targets /\ sctx[cur.t] \in Ctx /\ report' = report
    BY <1>0, <1>1, CurCases DEF FinishFf, TypeOK
  <2> DEFINE d == [sctx[cur.t] EXCEPT !.timer = TRUE, !.state = "WAIT_FC"]
  <2>2. sctx' = [sctx EXCEPT ![cur.t] = d]
    BY <1>0, <1>1, <2>1 DEF FinishFf, Ctx
  <2>3. d.alloc = sctx[cur.t].alloc /\ d.msg = sctx[cur.t].msg
    BY <2>1 DEF Ctx
  <2> HIDE DEF d
  <2>4. \A v \in Targets : sctx'[v].alloc = sctx[v].alloc /\ sctx'[v].msg = sctx[v].msg
    BY <1>0, <2>1, <2>2, <2>3
  <2> QED
    BY <1>0, <1>c, <2>1, <2>4
<1>2. CASE FinishCf
  <2>1. cur.t \in Targets /\ sctx[cur.t] \in Ctx /\ report' = report
    BY <1>0, <1>2, CurCases DEF FinishCf, TypeOK
  <2> DEFINE c == CountCf(sctx[cur.t])
             d == AfterCf(c)
  <2>2. sctx' = [sctx EXCEPT ![cur.t] = d]
    BY <1>2 DEF FinishCf
  <2>3. c \in Ctx /\ c.alloc = sctx[cur.t].alloc /\ c.msg = sctx[cur.t].msg
    BY <2>1, CfHelperTypes DEF CountCf, Ctx
  <2> HIDE DEF c
  <2>4. d.alloc = sctx[cur.t].alloc /\ d.msg = sctx[cur.t].msg
    BY <2>3, KeepHelpers DEF Errors, Keeps
  <2> HIDE DEF d
  <2>5. \A v \in Targets : sctx'[v].alloc = sctx[v].alloc /\ sctx'[v].msg = sctx[v].msg
    BY <1>0, <2>1, <2>2, <2>4
  <2> QED
    BY <1>0, <1>c, <2>1, <2>5
<1>3. CASE TakeSem
  <2>1. cur.t \in Targets /\ sctx[cur.t] \in Ctx /\ report' = report
    BY <1>0, <1>3, CurCases DEF TakeSem, TypeOK
  <2> DEFINE c == [sctx[cur.t] EXCEPT !.sem = 0]
  <2>2. c \in Ctx /\ Keeps(c, sctx[cur.t]) /\ c.state = sctx[cur.t].state
        /\ c.backlog = sctx[cur.t].backlog
    BY <2>1 DEF Ctx, Keeps
  <2>3. SendCf(cur.t, c)
    BY <1>3 DEF TakeSem
  <2> HIDE DEF c
  <2>4. \A v \in Targets : sctx'[v].alloc = sctx[v].alloc /\ sctx'[v].msg = sctx[v].msg
    BY <2>1, <2>2, <2>3, SendCfFacts
  <2> QED
    BY <1>0, <1>c, <2>1, <2>4
<1>4. ASSUME NEW u \in Targets, Work(u)
      PROVE  \/ /\ report' = report
                /\ \A v \in Targets : sctx'[v].alloc = sctx[v].alloc /\ sctx'[v].msg = sctx[v].msg
             \/ \E e \in Errors :
                   /\ WorkFinish(u) /\ sctx[u].alloc /\ ~sctx'[u].alloc
                   /\ sctx'[u].msg = sctx[u].msg
                   /\ \A v \in Targets : v # u => sctx'[v] = sctx[v]
                   /\ report' = [report EXCEPT ![sctx[u].msg] = Append(report[sctx[u].msg], e)]
  <2>0. sctx[u] \in Ctx
    BY <1>0
  <2>1. CASE WorkSendFf(u)
    <3> DEFINE n == Min2(FfLen, sctx[u].rem)
               r == sctx[u].rem - n
               o == sctx[u].off + n
               d == [sctx[u] EXCEPT !.sn = 1, !.rem = r, !.off = o]
    <3>1. sctx' = [sctx EXCEPT ![u] = d] /\ report' = report
      BY <2>1 DEF WorkSendFf
    <3> HIDE DEF r, o
    <3>2. d.alloc = sctx[u].alloc /\ d.msg = sctx[u].msg
      BY <2>0 DEF Ctx
    <3> HIDE DEF d
    <3> QED
      BY <1>0, <3>1, <3>2
  <2>2. CASE WorkSendCf(u)
    <3> DEFINE c == [sctx[u] EXCEPT !.timer = FALSE]
    <3>1. c \in Ctx /\ Keeps(c, sctx[u]) /\ c.state = sctx[u].state /\ c.backlog = sctx[u].backlog
      BY <2>0 DEF Ctx, Keeps
    <3>2. SendCf(u, c) /\ report' = report
      BY <2>2 DEF WorkSendCf
    <3> HIDE DEF c
    <3> QED
      BY <3>1, <3>2, SendCfFacts
  <2>3. CASE WorkWaitSt(u)
    <3> DEFINE d == [sctx[u] EXCEPT !.timer = TRUE, !.state = "SEND_CF"]
    <3>1. sctx' = [sctx EXCEPT ![u] = d] /\ report' = report
      BY <1>0, <2>0, <2>3 DEF WorkWaitSt, Ctx
    <3>2. d.alloc = sctx[u].alloc /\ d.msg = sctx[u].msg
      BY <2>0 DEF Ctx
    <3> HIDE DEF d
    <3> QED
      BY <1>0, <3>1, <3>2
  <2>4. CASE WorkFinish(u)
    <3>1. sctx' = [sctx EXCEPT ![u] = Retire(sctx[u])]
      BY <2>4 DEF WorkFinish
    <3>2. ~Retire(sctx[u]).alloc
      BY <2>0, AllocHelpers
    <3>3. Retire(sctx[u]).msg = sctx[u].msg
      BY <2>0 DEF Retire, free_send_ctx, Ctx
    <3>4. sctx[u].alloc
      BY <2>4 DEF WorkFinish, Running, FreedIsIdle, FreedIsIdleAt
    <3>5. \E e \in Errors : report' = [report EXCEPT ![sctx[u].msg] = Append(report[sctx[u].msg], e)]
      <4>1. sctx[u].error \in Errors /\ "OK" \in Errors
        BY <2>0 DEF Ctx, Errors
      <4> QED
        BY <2>4, <4>1 DEF WorkFinish
    <3>6. sctx'[u] = Retire(sctx[u]) /\ \A v \in Targets : v # u => sctx'[v] = sctx[v]
      BY <1>0, <3>1
    <3> QED
      BY <2>4, <3>2, <3>3, <3>4, <3>5, <3>6
  <2>5. CASE WorkNothing(u)
    BY <2>5 DEF WorkNothing
  <2> QED
    BY <1>4, <2>1, <2>2, <2>3, <2>4, <2>5 DEF Work
<1> QED
  BY <1>0, <1>1, <1>2, <1>3, <1>4, <1>c DEF Worker

\* What accepting a message does.
LEMMA MultiFacts ==
    ASSUME TypeOK, NEW u \in Targets, NEW l \in Lengths, SendMulti(u, l)
    PROVE  /\ calls < MaxSends /\ calls' = calls + 1 /\ calls + 1 \in Msgs
           /\ len' = [len EXCEPT ![calls + 1] = l]
           /\ sctx' \in [Targets -> Ctx]
           /\ \A v \in Targets : v # u => sctx'[v] = sctx[v]
           /\ sctx'[u].alloc = TRUE /\ sctx'[u].msg = calls + 1 /\ sctx'[u].off = 0 /\ sctx'[u].rem = l
           /\ ~sctx[u].alloc => sctx'[u].state = "SEND_FF"
<1>0. sctx \in [Targets -> Ctx] /\ sctx[u] \in Ctx /\ calls \in 0 .. MaxSends
  BY DEF TypeOK
<1>1. calls < MaxSends /\ calls' = calls + 1 /\ calls + 1 \in Msgs /\ l \in Nat
  BY <1>0, SendAssumptions DEF SendMulti, MayCall, Msgs, SendAssumptions
<1> DEFINE c == get_send_ctx(u)
           k == calls + 1
           d == [c EXCEPT !.msg = k, !.off = 0, !.rem = l]
<1>2. sctx' = [sctx EXCEPT ![u] = d] /\ len' = [len EXCEPT ![calls + 1] = l]
  BY DEF SendMulti
<1>3. c \in Ctx /\ c.alloc /\ (~sctx[u].alloc => c.state = "SEND_FF")
  <2>1. CASE sctx[u].alloc
    BY <1>0, <2>1 DEF get_send_ctx
  <2>2. CASE ~sctx[u].alloc
    <3>1. c = NewSendCtx(sctx[u])
      BY <2>2 DEF get_send_ctx
    <3>2. NewSendCtx(sctx[u]) \in Ctx /\ NewSendCtx(sctx[u]).state = "SEND_FF"
      BY <1>0, CtxHelperTypes, FlowHelpers DEF Errors
    <3>3. NewSendCtx(sctx[u]).alloc
      BY <1>0, AllocHelpers
    <3> QED
      BY <3>1, <3>2, <3>3
  <2> QED
    BY <2>1, <2>2
<1>k. k \in Msgs
  BY <1>1
<1> HIDE DEF c, k
<1>4. d \in Ctx /\ d.msg = k /\ d.off = 0 /\ d.rem = l /\ d.state = c.state /\ d.alloc = c.alloc
  BY <1>1, <1>3, <1>k DEF Ctx
<1> HIDE DEF d
<1>5. sctx' \in [Targets -> Ctx] /\ sctx'[u] = d /\ \A v \in Targets : v # u => sctx'[v] = sctx[v]
  BY <1>0, <1>2, <1>4
<1>6. c.alloc = TRUE
  BY <1>3 DEF Ctx
<1> QED
  BY <1>1, <1>2, <1>3, <1>4, <1>5, <1>6 DEF k

-----------------------------------------------------------------------------
(* Every result is reported once *)

\* Nothing late or stray: a flow-control frame comes from a peer that owes one.
NoStrays == Faults \cap {"latefc", "strayfc"} = {}

\* Messages that are not reported yet: those to come, and those in a context.
ReportInv ==
    /\ report[NoMsg] = <<>>
    /\ \A m \in Msgs : Len(report[m]) <= 1 /\ (m > calls => report[m] = <<>>)
    /\ \A t \in Targets : sctx[t].alloc => sctx[t].msg \in 1 .. calls /\ report[sctx[t].msg] = <<>>
    /\ \A t, u \in Targets : t # u /\ sctx[t].alloc /\ sctx[u].alloc => sctx[t].msg # sctx[u].msg

\* A step that keeps allocation, messages and results keeps the invariant.
LEMMA ReportFrame ==
    ASSUME ReportInv, report' = report, calls' = calls,
           \A v \in Targets : sctx'[v].alloc = sctx[v].alloc /\ sctx'[v].msg = sctx[v].msg
    PROVE  ReportInv'
  BY DEF ReportInv

\* The invariant is inductive.
LEMMA ReportNext ==
    ASSUME NoStrays
    PROVE  TypeOK /\ FreedIsIdle /\ ReportInv /\ [Next]_vars => ReportInv'
<1> SUFFICES ASSUME TypeOK, FreedIsIdle, ReportInv, [Next]_vars PROVE ReportInv'
  OBVIOUS
<1>0. /\ sctx \in [Targets -> Ctx] /\ calls \in 0 .. MaxSends /\ MaxSends \in Nat
      /\ report \in [Msgs \cup {NoMsg} -> Seq(Errors)]
      /\ NoMsg \notin Msgs /\ \A m \in Msgs : m \in Nat /\ m > 0 /\ m <= MaxSends
  BY SendAssumptions DEF TypeOK, SendAssumptions, Msgs, NoMsg
<1>u. CASE UNCHANGED vars
  BY <1>u, ReportFrame DEF vars
<1>1. ASSUME NEW u \in Targets, App(u) PROVE ReportInv'
  <2>1. PICK l \in Lengths : SendSf(u, l) \/ SendRefused(u, l) \/ SendMulti(u, l)
    BY <1>1 DEF App
  <2>2. calls < MaxSends /\ calls' = calls + 1
    BY <2>1 DEF SendSf, SendRefused, SendMulti, MayCall
  <2>3. calls + 1 \in Msgs /\ \A m \in Msgs : m > calls' => m > calls /\ m # calls + 1
    BY <1>0, <2>2 DEF Msgs
  <2>4. \A x : x \in 1 .. calls => x \in 1 .. calls' /\ x # calls + 1
    BY <1>0, <2>2
  <2>5. report[calls + 1] = <<>>
    BY <1>0, <2>2, <2>3 DEF ReportInv
  <2>6. CASE SendSf(u, l)
    <3>1. PICK e \in Errors : report' = [report EXCEPT ![calls + 1] = Append(report[calls + 1], e)]
      BY <2>6 DEF SendSf, Errors
    <3>2. sctx' = sctx
      BY <2>6 DEF SendSf
    <3>3. Len(report'[calls + 1]) = 1
      BY <1>0, <2>3, <2>5, <3>1
    <3>4. \A m \in Msgs \cup {NoMsg} : m # calls + 1 => report'[m] = report[m]
      BY <1>0, <3>1
    <3>5. calls + 1 # NoMsg
      BY <1>0, <2>3
    <3>6. \A t \in Targets : sctx[t].alloc => sctx[t].msg \in Msgs \cup {NoMsg}
      BY <1>0 DEF Ctx
    <3>7. report'[NoMsg] = <<>>
      BY <3>4, <3>5 DEF ReportInv
    <3>8. ASSUME NEW m \in Msgs PROVE Len(report'[m]) <= 1 /\ (m > calls' => report'[m] = <<>>)
      <4>1. CASE m = calls + 1
        <5>1. report'[m] = report'[calls + 1] /\ ~(m > calls')
          BY <2>3, <4>1
        <5>2. Len(report'[m]) = 1
          BY <3>3, <5>1
        <5> QED
          BY <5>1, <5>2
      <4>2. CASE m # calls + 1
        BY <2>3, <3>4, <4>2 DEF ReportInv
      <4> QED
        BY <4>1, <4>2
    <3>9. ASSUME NEW t \in Targets, sctx'[t].alloc
          PROVE  sctx'[t].msg \in 1 .. calls' /\ report'[sctx'[t].msg] = <<>>
      <4>1. sctx[t].msg \in 1 .. calls /\ report[sctx[t].msg] = <<>> /\ sctx[t].msg \in Msgs \cup {NoMsg}
        BY <3>2, <3>6, <3>9 DEF ReportInv
      <4> QED
        BY <2>4, <3>2, <3>4, <4>1
    <3> QED
      BY <3>2, <3>7, <3>8, <3>9 DEF ReportInv
  <2>7. CASE SendRefused(u, l)
    BY <2>2, <2>3, <2>4, <2>7 DEF SendRefused, ReportInv
  <2>8. CASE SendMulti(u, l)
    <3>1. /\ \A v \in Targets : v # u => sctx'[v] = sctx[v]
          /\ sctx'[u].msg = calls + 1 /\ report' = report
      BY <2>8, MultiFacts DEF SendMulti
    <3>2. calls + 1 \in 1 .. calls'
      BY <1>0, <2>2
    <3>3. /\ report'[NoMsg] = <<>>
          /\ \A m \in Msgs : Len(report'[m]) <= 1 /\ (m > calls' => report'[m] = <<>>)
      BY <2>3, <3>1 DEF ReportInv
    <3>4. ASSUME NEW t \in Targets, sctx'[t].alloc
          PROVE  sctx'[t].msg \in 1 .. calls' /\ report'[sctx'[t].msg] = <<>>
      BY <2>4, <2>5, <3>1, <3>2, <3>4 DEF ReportInv
    <3>5. ASSUME NEW t \in Targets, NEW v \in Targets, t # v, sctx'[t].alloc, sctx'[v].alloc
          PROVE  sctx'[t].msg # sctx'[v].msg
      BY <2>4, <3>1, <3>5 DEF ReportInv
    <3> QED
      BY <3>3, <3>4, <3>5 DEF ReportInv
  <2> QED
    BY <2>1, <2>6, <2>7, <2>8
<1>2. CASE Worker
  <2>1. CASE /\ report' = report
             /\ \A v \in Targets : sctx'[v].alloc = sctx[v].alloc /\ sctx'[v].msg = sctx[v].msg
    BY <1>2, <2>1, ReportFrame, WorkerFacts
  <2>2. ASSUME NEW u \in Targets, NEW e \in Errors, sctx[u].alloc, ~sctx'[u].alloc,
               \A v \in Targets : v # u => sctx'[v] = sctx[v],
               report' = [report EXCEPT ![sctx[u].msg] = Append(report[sctx[u].msg], e)]
        PROVE  ReportInv'
    <3> DEFINE m == sctx[u].msg
    <3>1. m \in 1 .. calls /\ report[m] = <<>>
      BY <2>2 DEF ReportInv
    <3>2. m \in Msgs
      BY <1>0, <3>1 DEF Msgs
    <3>3. Len(report'[m]) = 1 /\ \A k \in Msgs \cup {NoMsg} : k # m => report'[k] = report[k]
      BY <1>0, <2>2, <3>1, <3>2
    <3>4. calls' = calls
      BY <1>2, WorkerFacts
    <3>5. \A t \in Targets : sctx'[t].alloc => t # u /\ sctx'[t] = sctx[t] /\ sctx[t].msg # m
                                               /\ sctx[t].msg \in Msgs
      <4>1. \A t \in Targets : sctx[t].alloc => sctx[t].msg \in Msgs
        BY <1>0 DEF ReportInv, Msgs
      <4> QED
        BY <2>2, <4>1 DEF ReportInv
    <3>6. \A k \in Msgs : k > calls => k # m
      BY <1>0, <3>1
    <3> HIDE DEF m
    <3>7. report'[NoMsg] = <<>>
      BY <1>0, <3>2, <3>3 DEF ReportInv
    <3>8. \A k \in Msgs : Len(report'[k]) <= 1 /\ (k > calls' => report'[k] = <<>>)
      <4>1. SUFFICES ASSUME NEW k \in Msgs
                     PROVE  Len(report'[k]) <= 1 /\ (k > calls' => report'[k] = <<>>)
        OBVIOUS
      <4>2. CASE k = m
        <5>1. report'[k] = report'[m] /\ ~(k > calls')
          BY <3>4, <3>6, <4>2
        <5>2. Len(report'[k]) = 1
          BY <3>3, <5>1
        <5> QED
          BY <5>1, <5>2
      <4>3. CASE k # m
        BY <3>3, <3>4, <4>3 DEF ReportInv
      <4> QED
        BY <4>2, <4>3
    <3>9. \A t \in Targets : sctx'[t].alloc => sctx'[t].msg \in 1 .. calls' /\ report'[sctx'[t].msg] = <<>>
      BY <3>3, <3>4, <3>5 DEF ReportInv
    <3> QED
      BY <3>5, <3>7, <3>8, <3>9 DEF ReportInv
  <2> QED
    BY <1>2, <2>1, <2>2, WorkerFacts
<1>3. ASSUME NEW u \in Targets, Driver(u) \/ Peer(u) \/ Timeout(u) PROVE ReportInv'
  <2>1. Keeps(sctx'[u], sctx[u])
    BY <1>3, IsrFacts DEF NoStrays
  <2>2. \A v \in Targets : v # u => sctx'[v] = sctx[v]
    BY <1>3, IsrFacts
  <2>3. report' = report /\ calls' = calls
    BY <1>3, IsrFacts
  <2> QED
    BY <2>1, <2>2, <2>3, ReportFrame DEF Keeps
<1> QED
  BY <1>1, <1>2, <1>3, <1>u DEF Next

\* When nothing late or stray comes in, sent_callback is called at most once for
\* a message, whatever else goes wrong: lost, refused and late transmissions,
\* preemption, and a second message for a context in use.
THEOREM EachIsReportedOnce == ASSUME NoStrays PROVE Spec => []ReportedOnce
<1>1. Init => ReportInv
  BY DEF Init, ReportInv
<1>2. ReportInv => ReportedOnce
  BY DEF ReportInv, ReportedOnce
<1> QED
  BY <1>1, <1>2, ReportNext, TypeCorrect, FreedContextsIdle, PTL DEF Spec

-----------------------------------------------------------------------------
(* Frames are sent in sequence *)

\* The application does not send to a peer whose context is in use; and a first
\* frame that can_send() refused is not answered all the same.
OrderedUse == "busy" \notin Faults /\ ("sendfail" \in Faults => "strayfc" \notin Faults)

\* Where the work queue's thread is in the handler of t.
Phase(t) == IF cur.pc # "idle" /\ cur.t = t THEN cur.pc ELSE "no"

\* The context c has sent the frames o, a proper beginning of its message of
\* length l, and stands before the next one; after can_send() (phase cf) the
\* sequence number lags behind, and the last frame may have been sent.
SentOk(c, o, l, p) ==
    /\ Len(o) >= 1 /\ c.off + c.rem = l
    /\ c.rem > 0 => c.off = SegOff(Len(o) + 1)
    /\ c.rem = 0 => p = "cf" /\ Len(o) = NumSegs(l)
    /\ c.sn = IF p = "cf" THEN (Len(o) - 1) % SN_MOD ELSE Len(o) % SN_MOD

OrderOk(c, o, l, p) ==
    /\ p # "no" \/ c.state \in {"SEND_FF", "WAIT_FC", "SEND_CF", "WAIT_ST"} =>
         c.msg \in Msgs /\ l > SfMax
    /\ c.state = "SEND_FF" /\ p # "ff" => o = <<>> /\ c.off = 0 /\ c.rem = l
    /\ p = "ff" => c.state \in {"SEND_FF", "ERR"}
    /\ p \in {"cf", "sem"} => c.state \in {"SEND_CF", "ERR"}
    /\ p = "ff" \/ c.state = "WAIT_FC" => SentOk(c, o, l, p) \/ (o = <<>> /\ "sendfail" \in Faults)
    /\ p \in {"cf", "sem"} \/ c.state \in {"SEND_CF", "WAIT_ST"} => SentOk(c, o, l, p)

OrderAt(t) == OrderOk(sctx[t], out[sctx[t].msg], len[sctx[t].msg], Phase(t))

\* Messages are numbered as they come, and no two contexts share one.
Numbered ==
    /\ \A t \in Targets : sctx[t].msg <= calls
    /\ \A t, u \in Targets : t # u /\ sctx[t].msg = sctx[u].msg => sctx[t].msg = NoMsg
    /\ \A m \in Msgs : m > calls => out[m] = <<>> /\ len[m] = 0

OrderInv == Numbered /\ FramesInSequence /\ \A t \in Targets : OrderAt(t)

-----------------------------------------------------------------------------
(* The segmentation *)

\* The constants of the segmentation.
LEMMA SegTypes ==
    /\ SfMax \in Nat /\ FfLen \in Nat /\ CfLen \in Nat /\ FfLen > 0 /\ CfLen > 0 /\ SfMax > FfLen
    /\ SN_MOD \in Nat /\ SN_MOD > 1 /\ BYTE \in Nat /\ BYTE > 1
  BY FrameAssumptions DEF FrameAssumptions, SfMax, FfLen, CfLen

\* A full consecutive frame leads to the next offset.
LEMMA SegNext ==
    ASSUME NEW k \in Nat, k >= 1
    PROVE  SegOff(k + 1) + CfLen = SegOff(k + 2) /\ SegOff(k + 1) \in Nat
<1>1. CfLen \in Nat /\ FfLen \in Nat
  BY SegTypes
<1>2. SegOff(k + 1) = FfLen + (k - 1) * CfLen /\ SegOff(k + 2) = FfLen + k * CfLen
  <2>1. (k + 1) - 2 = k - 1 /\ (k + 2) - 2 = k /\ k + 1 # 1 /\ k + 2 # 1
    OBVIOUS
  <2> QED
    BY <2>1 DEF SegOff
<1>3. (k - 1) * CfLen + CfLen = k * CfLen /\ (k - 1) * CfLen \in Nat
  BY <1>1
<1>4. k * CfLen \in Nat
  BY <1>1
<1> QED
  BY <1>1, <1>2, <1>3, <1>4

\* The frame that takes the rest of the message is the last one.
LEMMA SegLast ==
    ASSUME NEW k \in Nat, k >= 1, NEW l \in Nat, SegOff(k + 1) < l, l <= SegOff(k + 1) + CfLen
    PROVE  NumSegs(l) = k + 1
<1>1. CfLen \in Nat /\ FfLen \in Nat /\ CfLen > 0
  BY SegTypes
<1>2. SegOff(k + 1) = FfLen + (k - 1) * CfLen
  <2>1. (k + 1) - 2 = k - 1 /\ k + 1 # 1
    OBVIOUS
  <2> QED
    BY <2>1 DEF SegOff
<1> DEFINE x == l - FfLen
           q == k - 1
<1>3. q \in Nat /\ q * CfLen \in Nat /\ (q + 1) * CfLen = q * CfLen + CfLen
  BY <1>1
<1>4. x \in Nat /\ q * CfLen < x /\ x <= (q + 1) * CfLen
  BY <1>1, <1>2, <1>3
<1> HIDE DEF x, q
<1>5. (x + CfLen - 1) \div CfLen = q + 1
  BY <1>1, <1>3, <1>4
<1> QED
  BY <1>5 DEF NumSegs, x, q

\* Sequence numbers count modulo their width.
LEMMA SnNext ==
    ASSUME NEW k \in Nat, k >= 1
    PROVE  IncSn((k - 1) % SN_MOD) = k % SN_MOD
<1>1. SN_MOD \in Nat /\ SN_MOD > 1
  BY SegTypes
<1> DEFINE x == k - 1
           p == x \div SN_MOD
           r == x % SN_MOD
<1>2. x \in Nat /\ x + 1 = k
  OBVIOUS
<1>3. x = SN_MOD * p + r /\ p \in Nat /\ r \in 0 .. SN_MOD - 1
  BY <1>1, <1>2
<1> HIDE DEF x, p, r
<1>4. CASE r + 1 < SN_MOD
  <2>1. k = SN_MOD * p + (r + 1) /\ r + 1 \in 0 .. SN_MOD - 1
    BY <1>1, <1>2, <1>3, <1>4
  <2>2. k % SN_MOD = r + 1
    BY <1>1, <1>3, <2>1
  <2> QED
    BY <1>1, <1>3, <1>4, <2>2 DEF IncSn, r, x
<1>5. CASE r + 1 = SN_MOD
  <2>1. k = SN_MOD * (p + 1)
    BY <1>1, <1>2, <1>3, <1>5
  <2>2. k % SN_MOD = 0
    BY <1>1, <1>3, <2>1
  <2>3. r = SN_MOD - 1
    BY <1>1, <1>3, <1>5
  <2>4. IncSn(r) = 0
    BY <2>3 DEF IncSn
  <2> QED
    BY <2>2, <2>4 DEF r, x
<1> QED
  BY <1>1, <1>3, <1>4, <1>5

\* The frame send_cf builds is the next one of the segmentation, and the context
\* it leaves behind stands before the one after.
LEMMA CfIsNext ==
    ASSUME NEW c \in Ctx, NEW o \in Seq(Frame), NEW l \in Nat, NEW p \in {"no", "sem"},
           SentOk(c, o, l, p), NEW d \in Ctx, NEW f,
           d.rem = c.rem - Min2(c.rem, CfLen), d.off = c.off + Min2(c.rem, CfLen), d.sn = c.sn,
           f = [type |-> "CF", sn |-> c.sn, msg |-> c.msg, off |-> c.off,
                n |-> Min2(c.rem, CfLen), len |-> 0]
    PROVE  /\ f = Segment(c.msg, l, Len(o) + 1)
           /\ \A q \in Seq(Frame) : Len(q) = Len(o) + 1 => SentOk(d, q, l, "cf")
<1> DEFINE k == Len(o)
           n == Min2(c.rem, CfLen)
<1>1. CfLen \in Nat /\ CfLen > 0 /\ c.rem \in Nat /\ c.off \in Nat /\ k \in Nat
  BY SegTypes DEF Ctx
<1>2. k >= 1 /\ c.off + c.rem = l /\ c.rem > 0 /\ c.off = SegOff(k + 1) /\ c.sn = k % SN_MOD
  BY <1>1 DEF SentOk
<1>3. n \in Nat /\ n <= c.rem /\ n <= CfLen /\ (n = c.rem \/ n = CfLen)
  BY <1>1 DEF Min2
<1>4. f = Segment(c.msg, l, k + 1)
  <2>1. k + 1 # 1 /\ (k + 1) - 1 = k
    BY <1>1, <1>2
  <2>2. l - SegOff(k + 1) = c.rem
    BY <1>1, <1>2
  <2>3. SegLen(l, k + 1) = n
    BY <2>1, <2>2 DEF SegLen
  <2> QED
    BY <1>2, <2>1, <2>3 DEF Segment
<1>5. ASSUME NEW q \in Seq(Frame), Len(q) = k + 1 PROVE SentOk(d, q, l, "cf")
  <2>1. d.off + d.rem = l
    BY <1>1, <1>2, <1>3
  <2>2. ASSUME d.rem > 0 PROVE d.off = SegOff(Len(q) + 1)
    <3>1. n = CfLen
      BY <1>1, <1>3, <2>2
    <3>2. Len(q) + 1 = k + 2
      BY <1>1, <1>5
    <3> QED
      BY <1>1, <1>2, <3>1, <3>2, SegNext
  <2>3. ASSUME d.rem = 0 PROVE Len(q) = NumSegs(l)
    <3>1. n = c.rem
      BY <1>1, <1>3, <2>3
    <3>2. SegOff(k + 1) < l /\ l <= SegOff(k + 1) + CfLen
      BY <1>1, <1>2, <1>3, <3>1
    <3> QED
      BY <1>1, <1>2, <1>5, <3>2, SegLast
  <2>4. d.sn = (Len(q) - 1) % SN_MOD
    <3>1. (k + 1) - 1 = k
      BY <1>1
    <3> QED
      BY <1>2, <1>5, <3>1
  <2> QED
    BY <1>1, <1>5, <2>1, <2>2, <2>3, <2>4 DEF SentOk
<1> QED
  BY <1>4, <1>5

\* The first frame.
LEMMA FfIsFirst ==
    ASSUME NEW c \in Ctx, NEW l \in Nat, l > SfMax, c.off = 0, c.rem = l, NEW d \in Ctx, NEW f,
           d.rem = c.rem - Min2(FfLen, c.rem), d.off = c.off + Min2(FfLen, c.rem), d.sn = 1,
           f = [type |-> "FF", sn |-> 0, msg |-> c.msg, off |-> c.off,
                n |-> Min2(FfLen, c.rem), len |-> c.rem]
    PROVE  /\ f = Segment(c.msg, l, 1)
           /\ \A q \in Seq(Frame) : Len(q) = 1 => SentOk(d, q, l, "ff")
<1>1. CfLen \in Nat /\ FfLen \in Nat /\ SfMax \in Nat /\ SfMax > FfLen /\ SN_MOD \in Nat /\ SN_MOD > 1
  BY SegTypes
<1>2. Min2(FfLen, c.rem) = FfLen /\ SegOff(1) = 0 /\ SegLen(l, 1) = FfLen
  <2>1. SegOff(1) = 0
    BY DEF SegOff
  <2>2. l - 0 = l
    OBVIOUS
  <2> QED
    BY <1>1, <2>1, <2>2 DEF Min2, SegLen
<1>3. f = Segment(c.msg, l, 1)
  BY <1>2 DEF Segment
<1>4. SegOff(1 + 1) = FfLen
  <2>1. (1 + 1) - 2 = 0 /\ 1 + 1 # 1 /\ 0 * CfLen = 0
    BY <1>1
  <2>2. SegOff(1 + 1) = FfLen + ((1 + 1) - 2) * CfLen
    BY <2>1 DEF SegOff
  <2> QED
    BY <1>1, <2>1, <2>2
<1>5. 1 % SN_MOD = 1
  BY <1>1
<1>6. d.off = FfLen /\ d.rem = l - FfLen /\ d.rem > 0 /\ d.off + d.rem = l
  BY <1>1, <1>2
<1>7. ASSUME NEW q \in Seq(Frame), Len(q) = 1 PROVE SentOk(d, q, l, "ff")
  <2>1. Len(q) >= 1 /\ d.off + d.rem = l /\ d.rem # 0
    BY <1>1, <1>6, <1>7
  <2>2. d.off = SegOff(Len(q) + 1)
    BY <1>4, <1>6, <1>7
  <2>3. d.sn = Len(q) % SN_MOD
    BY <1>5, <1>7
  <2>4. "ff" # "cf"
    OBVIOUS
  <2> QED
    BY <2>1, <2>2, <2>3, <2>4 DEF SentOk
<1> QED
  BY <1>3, <1>7

-----------------------------------------------------------------------------
(* Steps of one context *)

\* A context at rest promises nothing.
LEMMA OrderDead ==
    ASSUME NEW c, NEW o, NEW l, c.state \in {"RESET", "WAIT_BACKLOG", "WAIT_FIN", "ERR"}
    PROVE  OrderOk(c, o, l, "no")
  BY DEF OrderOk

\* A context without a message is at rest.
LEMMA OrderNoMsg ==
    ASSUME NEW c \in Ctx, NEW o, NEW l, NEW p, OrderOk(c, o, l, p), c.msg \notin Msgs
    PROVE  p = "no" /\ c.state \in {"RESET", "WAIT_BACKLOG", "WAIT_FIN", "ERR"}
  BY DEF OrderOk, Ctx, TxState

\* What an interrupt handler may do to a context between two steps of the work
\* queue's thread, or between can_send() and what follows it.
LEMMA OrderIsr ==
    ASSUME NEW c \in Ctx, NEW o, NEW l, NEW p \in {"no", "ff", "cf", "sem"}, OrderOk(c, o, l, p),
           NEW d, Keeps(d, c),
           \/ d.state \in {c.state, "ERR"}
           \/ c.state = "WAIT_BACKLOG" /\ d.state = "WAIT_FIN"
           \/ /\ c.state = "WAIT_FC" /\ d.state = "SEND_CF"
              /\ o # <<>> \/ "sendfail" \notin Faults
    PROVE  OrderOk(d, o, l, p)
<1>0. \A q : SentOk(c, o, l, q) => SentOk(d, o, l, q)
  BY DEF SentOk, Keeps
<1>1. CASE d.state = c.state
  BY <1>0, <1>1 DEF OrderOk, Keeps
<1>2. CASE d.state = "ERR"
  BY <1>0, <1>2 DEF OrderOk, Keeps
<1>3. CASE c.state = "WAIT_BACKLOG" /\ d.state = "WAIT_FIN"
  <2>1. p = "no"
    BY <1>3 DEF OrderOk
  <2> QED
    BY <1>3, <2>1, OrderDead
<1>4. CASE c.state = "WAIT_FC" /\ d.state = "SEND_CF" /\ (o # <<>> \/ "sendfail" \notin Faults)
  <2>1. p = "no"
    BY <1>4 DEF OrderOk
  <2>2. SentOk(d, o, l, p) /\ c.msg \in Msgs /\ l > SfMax
    BY <1>0, <1>4 DEF OrderOk
  <2> QED
    BY <1>4, <2>1, <2>2 DEF OrderOk, Keeps
<1> QED
  BY <1>1, <1>2, <1>3, <1>4

\* send_ff done: the context waits for the peer.
LEMMA OrderFinishFf ==
    ASSUME NEW c \in Ctx, NEW o, NEW l, OrderOk(c, o, l, "ff"), NEW d, Keeps(d, c), d.state = "WAIT_FC"
    PROVE  OrderOk(d, o, l, "no")
<1>1. SentOk(c, o, l, "ff") => SentOk(d, o, l, "no")
  BY DEF SentOk, Keeps
<1> QED
  BY <1>1 DEF OrderOk, Keeps

\* The separation time begins.
LEMMA OrderWaitSt ==
    ASSUME NEW c \in Ctx, NEW o, NEW l, OrderOk(c, o, l, "no"), c.state = "WAIT_ST",
           NEW d, Keeps(d, c), d.state = "SEND_CF"
    PROVE  OrderOk(d, o, l, "no")
<1>1. SentOk(c, o, l, "no") => SentOk(d, o, l, "no")
  BY DEF SentOk, Keeps
<1> QED
  BY <1>1 DEF OrderOk, Keeps

\* send_cf counts the frame it sent.
LEMMA OrderCount ==
    ASSUME NEW c \in Ctx, NEW o \in Seq(Frame), NEW l \in Nat, SentOk(c, o, l, "cf"), c.rem # 0,
           NEW d \in Ctx, NEW p \in {"no", "sem"},
           d.off = c.off, d.rem = c.rem, d.sn = IncSn(c.sn)
    PROVE  SentOk(d, o, l, p)
<1>1. Len(o) \in Nat /\ Len(o) >= 1 /\ c.sn = (Len(o) - 1) % SN_MOD /\ p # "cf"
  BY DEF SentOk
<1>2. d.sn = Len(o) % SN_MOD
  BY <1>1, SnNext
<1>3. c.rem \in Nat /\ c.rem > 0 /\ d.rem > 0
  BY DEF Ctx
<1> QED
  BY <1>1, <1>2, <1>3 DEF SentOk

\* What the loop of ISOTP_TX_SEND_CF does after can_send().
LEMMA AfterCfFacts ==
    ASSUME NEW s \in Ctx
    PROVE  LET c == CountCf(s)
               d == AfterCf(c)
               stays == c.rem # 0 /\ ~(OPTS_BS # 0 /\ c.bs = 0) /\ c.stmin = 0
           IN  /\ d \in Ctx /\ d.alloc = s.alloc /\ d.msg = s.msg /\ d.off = s.off /\ d.rem = s.rem
               /\ d.sn = IncSn(s.sn) /\ d.backlog = Inc8(s.backlog)
               /\ s.rem = 0 => d.state = "WAIT_BACKLOG" /\ ~stays
               /\ s.rem # 0 /\ ~stays => d.state \in {"WAIT_FC", "WAIT_ST"}
               /\ stays => s.rem # 0 /\ d.state = s.state
<1> DEFINE c == CountCf(s)
<1>1. c \in Ctx
  BY CfHelperTypes
<1>2. /\ c.alloc = s.alloc /\ c.msg = s.msg /\ c.off = s.off /\ c.rem = s.rem /\ c.state = s.state
      /\ c.sn = IncSn(s.sn) /\ c.backlog = Inc8(s.backlog)
  BY DEF CountCf, Ctx
<1> HIDE DEF c
<1>3. Keeps(AfterCf(c), c) /\ AfterCf(c).backlog = c.backlog
  BY <1>1, KeepHelpers DEF Errors
<1>4. /\ c.rem = 0 => AfterCf(c).state = "WAIT_BACKLOG"
      /\ c.rem # 0 /\ ~(~(OPTS_BS # 0 /\ c.bs = 0) /\ c.stmin = 0)
           => AfterCf(c).state \in {"WAIT_FC", "WAIT_ST"}
      /\ c.rem # 0 /\ ~(OPTS_BS # 0 /\ c.bs = 0) /\ c.stmin = 0 => AfterCf(c).state = c.state
  BY <1>1 DEF AfterCf, Ctx
<1> QED
  BY <1>2, <1>3, <1>4 DEF Keeps, c

-----------------------------------------------------------------------------
(* Steps of the system *)

\* The thread is in at most one handler.
LEMMA PhaseFacts ==
    ASSUME TypeOK
    PROVE  /\ \A t \in Targets : Phase(t) \in {"no", "ff", "cf", "sem"}
           /\ cur.pc # "idle" => cur.t \in Targets /\ Phase(cur.t) = cur.pc
                                 /\ \A t \in Targets : t # cur.t => Phase(t) = "no"
           /\ cur = Idle => \A t \in Targets : Phase(t) = "no"
  BY CurCases DEF Phase, Idle, TypeOK

\* A step of one context, which may hand the next frame to the controller.
LEMMA OrderFrame ==
    ASSUME TypeOK, TypeOK', OrderInv, NEW u \in Targets, calls' = calls, len' = len,
           \A v \in Targets : v # u => sctx'[v] = sctx[v] /\ Phase(v)' = Phase(v),
           sctx'[u].msg = sctx[u].msg,
           \/ out' = out
           \/ LET m == sctx[u].msg IN
              /\ m \in Msgs
              /\ out' = [out EXCEPT ![m] = Append(@, Segment(m, len[m], Len(out[m]) + 1))],
           OrderAt(u)'
    PROVE  OrderInv'
<1> DEFINE m == sctx[u].msg
<1>0. /\ sctx \in [Targets -> Ctx] /\ out \in [Msgs \cup {NoMsg} -> Seq(Frame)]
      /\ \A v \in Targets : sctx[v].msg \in Msgs \cup {NoMsg}
  BY DEF TypeOK, Ctx
<1>1. \A k \in Msgs \cup {NoMsg} : k # m => out'[k] = out[k]
  BY <1>0
<1>2. ASSUME NEW v \in Targets, v # u PROVE OrderAt(v)'
  <2>1. OrderOk(sctx[v], out[sctx[v].msg], len[sctx[v].msg], Phase(v))
    BY DEF OrderInv, OrderAt
  <2>2. CASE sctx[v].msg \in Msgs
    <3>1. sctx[v].msg # m
      BY <1>2, <2>2, SendAssumptions DEF OrderInv, Numbered, NoMsg, Msgs, SendAssumptions
    <3>2. out'[sctx[v].msg] = out[sctx[v].msg]
      BY <1>1, <2>2, <3>1
    <3> QED
      BY <1>2, <2>1, <3>2 DEF OrderAt
  <2>3. CASE sctx[v].msg \notin Msgs
    <3>1. Phase(v) = "no" /\ sctx[v].state \in {"RESET", "WAIT_BACKLOG", "WAIT_FIN", "ERR"}
      BY <1>0, <2>1, <2>3, OrderNoMsg
    <3>2. Phase(v)' = "no" /\ sctx'[v].state \in {"RESET", "WAIT_BACKLOG", "WAIT_FIN", "ERR"}
      BY <1>2, <3>1
    <3> QED
      BY <3>2, OrderDead DEF OrderAt
  <2> QED
    BY <2>2, <2>3
<1>3. ASSUME NEW k \in Msgs, NEW i \in DOMAIN out'[k] PROVE out'[k][i] = Segment(k, len'[k], i)
  <2>1. CASE out' = out
    BY <2>1 DEF OrderInv, FramesInSequence
  <2>2. CASE k # m
    <3>1. out'[k] = out[k]
      BY <1>1, <2>2
    <3> QED
      BY <1>3, <3>1 DEF OrderInv, FramesInSequence
  <2>3. CASE k = m /\ out' # out
    <3> DEFINE g == Segment(m, len[m], Len(out[m]) + 1)
    <3>1. out'[k] = Append(out[m], g) /\ out[m] \in Seq(Frame)
      BY <1>0, <2>3
    <3> HIDE DEF g
    <3>2. i \in 1 .. Len(out[m]) + 1
      BY <1>3, <3>1
    <3>3. CASE i = Len(out[m]) + 1
      <4>1. out'[k][i] = g
        BY <3>1, <3>3
      <4> QED
        BY <2>3, <3>3, <4>1 DEF g
    <3>4. CASE i # Len(out[m]) + 1
      <4>1. i \in DOMAIN out[m] /\ out'[k][i] = out[m][i]
        BY <3>1, <3>2, <3>4
      <4> QED
        BY <2>3, <4>1 DEF OrderInv, FramesInSequence
    <3> QED
      BY <3>3, <3>4
  <2> QED
    BY <2>1, <2>2, <2>3
<1>4. Numbered'
  <2>1. \A v \in Targets : sctx'[v].msg = sctx[v].msg
    OBVIOUS
  <2>2. ASSUME NEW k \in Msgs, k > calls PROVE out'[k] = <<>>
    <3>1. k # m
      BY <2>2, <1>0, SendAssumptions DEF OrderInv, Numbered, TypeOK, Msgs, SendAssumptions, NoMsg
    <3> QED
      BY <1>1, <2>2, <3>1 DEF OrderInv, Numbered
  <2> QED
    BY <2>1, <2>2 DEF OrderInv, Numbered
<1> QED
  BY <1>2, <1>3, <1>4 DEF OrderInv, FramesInSequence

\* Handing over the next frame of a message.
LEMMA HandedOver ==
    ASSUME TypeOK, NEW u \in Targets, NEW f, HandToController(u, f), f.msg = sctx[u].msg,
           f = Segment(sctx[u].msg, len[sctx[u].msg], Len(out[sctx[u].msg]) + 1),
           sctx[u].msg \in Msgs
    PROVE  LET m == sctx[u].msg IN
           /\ out' = [out EXCEPT ![m] = Append(@, Segment(m, len[m], Len(out[m]) + 1))]
           /\ out'[m] = Append(out[m], f) /\ Len(out'[m]) = Len(out[m]) + 1
<1>1. out \in [Msgs \cup {NoMsg} -> Seq(Frame)]
  BY DEF TypeOK
<1>2. out' = [out EXCEPT ![sctx[u].msg] = Append(out[sctx[u].msg], f)]
  BY DEF HandToController
<1> QED
  BY <1>1, <1>2

\* A consecutive frame, in the work queue's first turn or after the semaphore.
LEMMA OrderSendCf ==
    ASSUME TypeOK, TypeOK', OrderInv, NEW u \in Targets, NEW c \in Ctx, SendCf(u, c),
           Keeps(c, sctx[u]), c.state = sctx[u].state, c.backlog = sctx[u].backlog,
           NEW p \in {"no", "sem"}, Phase(u) = p, p = "no" => c.state = "SEND_CF",
           \A v \in Targets : v # u => Phase(v) = "no",
           calls' = calls, len' = len
    PROVE  OrderInv'
<1> DEFINE m == sctx[u].msg
           n == Min2(sctx[u].rem, CfLen)
           f == [type |-> "CF", sn |-> sctx[u].sn, msg |-> m, off |-> sctx[u].off,
                 n |-> n, len |-> 0]
           d == sctx'[u]
<1>0. /\ sctx[u] \in Ctx /\ d \in Ctx /\ len \in [Msgs -> Nat]
      /\ out \in [Msgs \cup {NoMsg} -> Seq(Frame)] /\ out' \in [Msgs \cup {NoMsg} -> Seq(Frame)]
      /\ calls \in 0 .. MaxSends
  BY DEF TypeOK
<1>1. OrderOk(sctx[u], out[m], len[m], p)
  BY DEF OrderInv, OrderAt
<1>2. m \in Msgs /\ len[m] > SfMax /\ SentOk(sctx[u], out[m], len[m], p)
  BY <1>1 DEF OrderOk
<1>3. /\ \A v \in Targets : v # u => sctx'[v] = sctx[v]
      /\ d.msg = m /\ d.sn = sctx[u].sn /\ d.rem = sctx[u].rem - n /\ d.off = sctx[u].off + n
      /\ \/ HandToController(u, f) /\ cur' = [pc |-> "cf", t |-> u] /\ d.state = sctx[u].state
         \/ UNCHANGED <<mbox, out>> /\ cur' = Idle /\ d.state = "ERR"
  BY SendCfFacts
<1>4. /\ f = Segment(m, len[m], Len(out[m]) + 1)
      /\ \A q \in Seq(Frame) : Len(q) = Len(out[m]) + 1 => SentOk(d, q, len[m], "cf")
  BY <1>0, <1>2, <1>3, CfIsNext
<1>f. f.msg = m
  OBVIOUS
<1>5. CASE HandToController(u, f) /\ cur' = [pc |-> "cf", t |-> u] /\ d.state = sctx[u].state
  <2>0. HandToController(u, f)
    BY <1>5
  <2> HIDE DEF f
  <2>1. /\ out' = [out EXCEPT ![m] = Append(@, Segment(m, len[m], Len(out[m]) + 1))]
        /\ Len(out'[m]) = Len(out[m]) + 1
    BY <1>2, <1>4, <1>f, <2>0, HandedOver
  <2>2. SentOk(d, out'[m], len[m], "cf")
    BY <1>0, <1>2, <1>4, <2>1
  <2>3. d.state \in {"SEND_CF", "ERR"}
    BY <1>1, <1>5 DEF OrderOk
  <2>4. OrderOk(d, out'[m], len[m], "cf")
    BY <1>2, <1>3, <2>2, <2>3 DEF OrderOk
  <2>5. Phase(u)' = "cf" /\ \A v \in Targets : v # u => Phase(v)' = "no"
    BY <1>5 DEF Phase
  <2>6. OrderAt(u)'
    BY <1>3, <2>4, <2>5 DEF OrderAt
  <2> QED
    BY <1>2, <1>3, <2>1, <2>5, <2>6, OrderFrame
<1>6. CASE UNCHANGED <<mbox, out>> /\ cur' = Idle /\ d.state = "ERR"
  <2>1. \A v \in Targets : Phase(v)' = "no"
    BY <1>6 DEF Phase, Idle
  <2>2. OrderAt(u)'
    BY <1>6, <2>1, OrderDead DEF OrderAt
  <2> QED
    BY <1>3, <1>6, <2>1, <2>2, OrderFrame
<1> QED
  BY <1>3, <1>5, <1>6

\* The application: a new message goes to a context that is at rest.
LEMMA OrderApp ==
    ASSUME OrderedUse, TypeOK, TypeOK', FreedIsIdle, OrderInv, NEW u \in Targets, App(u)
    PROVE  OrderInv'
<1>0. /\ sctx \in [Targets -> Ctx] /\ calls \in 0 .. MaxSends /\ MaxSends \in Nat
      /\ len \in [Msgs -> Nat] /\ \A m \in Msgs : m \in Nat /\ m > 0
      /\ \A v \in Targets : sctx[v].msg \in Msgs \cup {NoMsg}
      /\ NoMsg \in Nat /\ NoMsg \notin Msgs
  <2>1. calls \in 0 .. MaxSends /\ MaxSends \in Nat /\ len \in [Msgs -> Nat]
    BY SendAssumptions DEF TypeOK, SendAssumptions
  <2>2. (\A m \in Msgs : m \in Nat /\ m > 0) /\ NoMsg \in Nat /\ NoMsg \notin Msgs
    BY <2>1 DEF Msgs, NoMsg
  <2>3. sctx \in [Targets -> Ctx] /\ \A v \in Targets : sctx[v].msg \in Msgs \cup {NoMsg}
    BY DEF TypeOK, Ctx
  <2> QED
    BY <2>1, <2>2, <2>3
<1>1. PICK l \in Lengths : SendSf(u, l) \/ SendRefused(u, l) \/ SendMulti(u, l)
  BY DEF App
<1>2. calls < MaxSends /\ calls' = calls + 1 /\ cur' = cur /\ out' = out
  BY <1>1 DEF SendSf, SendRefused, SendMulti, MayCall, hist
<1>p. \A v \in Targets : Phase(v)' = Phase(v)
  BY <1>2 DEF Phase
<1>3. CASE SendSf(u, l) \/ SendRefused(u, l)
  <2>1. sctx' = sctx /\ len' = len
    BY <1>3 DEF SendSf, SendRefused
  <2>2. \A v \in Targets : OrderAt(v)'
    BY <1>2, <1>p, <2>1 DEF OrderInv, OrderAt
  <2>3. Numbered'
    BY <1>0, <1>2, <2>1 DEF OrderInv, Numbered
  <2> QED
    BY <1>2, <2>1, <2>2, <2>3 DEF OrderInv, FramesInSequence
<1>4. CASE SendMulti(u, l)
  <2>1. ~sctx[u].alloc /\ l > SfMax
    BY <1>4 DEF SendMulti, OrderedUse
  <2>2. /\ calls + 1 \in Msgs /\ len' = [len EXCEPT ![calls + 1] = l]
        /\ \A v \in Targets : v # u => sctx'[v] = sctx[v]
        /\ sctx'[u].msg = calls + 1 /\ sctx'[u].off = 0 /\ sctx'[u].rem = l
        /\ sctx'[u].state = "SEND_FF"
    BY <1>4, <2>1, MultiFacts
  <2>3. out[calls + 1] = <<>> /\ \A v \in Targets : sctx[v].msg <= calls
    BY <1>0, <2>2 DEF OrderInv, Numbered
  <2>4. len'[calls + 1] = l /\ \A m \in Msgs : m # calls + 1 => len'[m] = len[m]
    BY <1>0, <2>2
  <2>5. Phase(u)' = "no"
    BY <1>p, <2>1 DEF FreedIsIdle, FreedIsIdleAt, Phase
  <2>6. OrderOk(sctx'[u], <<>>, l, "no")
    BY <2>1, <2>2 DEF OrderOk
  <2>7. OrderAt(u)'
    BY <1>2, <2>2, <2>3, <2>4, <2>5, <2>6 DEF OrderAt
  <2>8. ASSUME NEW v \in Targets, v # u PROVE OrderAt(v)'
    <3>1. OrderOk(sctx[v], out[sctx[v].msg], len[sctx[v].msg], Phase(v))
      BY DEF OrderInv, OrderAt
    <3>2. CASE sctx[v].msg \in Msgs
      <4>1. sctx[v].msg # calls + 1
        BY <1>0, <2>3, <3>2
      <4>2. len'[sctx[v].msg] = len[sctx[v].msg]
        BY <2>4, <3>2, <4>1
      <4> QED
        BY <1>2, <1>p, <2>2, <2>8, <3>1, <4>2 DEF OrderAt
    <3>3. CASE sctx[v].msg \notin Msgs
      <4>1. Phase(v) = "no" /\ sctx[v].state \in {"RESET", "WAIT_BACKLOG", "WAIT_FIN", "ERR"}
        BY <1>0, <3>1, <3>3, OrderNoMsg
      <4>2. Phase(v)' = "no" /\ sctx'[v].state \in {"RESET", "WAIT_BACKLOG", "WAIT_FIN", "ERR"}
        BY <1>p, <2>2, <2>8, <4>1
      <4> QED
        BY <4>2, OrderDead DEF OrderAt
    <3> QED
      BY <3>2, <3>3
  <2>9. Numbered'
    <3>1. \A t \in Targets : sctx'[t].msg <= calls'
      <4>1. \A v \in Targets : sctx[v].msg \in Nat
        BY <1>0
      <4>2. ASSUME NEW t \in Targets, t # u PROVE sctx'[t].msg <= calls'
        BY <1>0, <1>2, <2>2, <2>3, <4>1, <4>2
      <4>3. sctx'[u].msg <= calls'
        BY <1>0, <1>2, <2>2
      <4> QED
        BY <4>2, <4>3
    <3>2. ASSUME NEW t \in Targets, NEW v \in Targets, t # v, sctx'[t].msg = sctx'[v].msg
          PROVE  sctx'[t].msg = NoMsg
      <4>1. \A w \in Targets : sctx[w].msg # calls + 1
        BY <1>0, <2>3
      <4>2. t # u /\ v # u
        BY <2>2, <3>2, <4>1
      <4> QED
        BY <2>2, <3>2, <4>2 DEF OrderInv, Numbered
    <3>3. \A m \in Msgs : m > calls' => out'[m] = <<>> /\ len'[m] = 0
      BY <1>0, <1>2, <2>4 DEF OrderInv, Numbered
    <3> QED
      BY <3>1, <3>2, <3>3 DEF Numbered
  <2>10. FramesInSequence'
    <3>1. SUFFICES ASSUME NEW m \in Msgs, NEW i \in DOMAIN out'[m]
                   PROVE  out'[m][i] = Segment(m, len'[m], i)
      BY DEF FramesInSequence
    <3>2. m # calls + 1
      BY <1>2, <2>3, <3>1
    <3> QED
      BY <1>2, <2>4, <3>1, <3>2 DEF OrderInv, FramesInSequence
  <2> QED
    BY <2>7, <2>8, <2>9, <2>10 DEF OrderInv
<1> QED
  BY <1>1, <1>3, <1>4

\* The interrupt handlers.
LEMMA OrderIsrNext ==
    ASSUME OrderedUse, TypeOK, TypeOK', FreedIsIdle, OrderInv, NEW u \in Targets,
           Driver(u) \/ Peer(u) \/ Timeout(u)
    PROVE  OrderInv'
<1>1. /\ cur' = cur /\ calls' = calls /\ len' = len /\ out' = out
      /\ \A v \in Targets : v # u => sctx'[v] = sctx[v]
  BY IsrFacts
<1>2. sctx'[u].msg = sctx[u].msg
  BY IsrFacts DEF Keeps
<1>p. \A v \in Targets : Phase(v)' = Phase(v)
  BY <1>1 DEF Phase
<1>3. OrderAt(u)'
  <2>1. OrderOk(sctx[u], out[sctx[u].msg], len[sctx[u].msg], Phase(u))
    BY DEF OrderInv, OrderAt
  <2>2. Phase(u) \in {"no", "ff", "cf", "sem"} /\ sctx[u] \in Ctx
    BY PhaseFacts DEF TypeOK
  <2>3. CASE Keeps(sctx'[u], sctx[u])
    <3>1. \/ sctx'[u].state \in {sctx[u].state, "ERR"}
          \/ sctx[u].state = "WAIT_BACKLOG" /\ sctx'[u].state = "WAIT_FIN"
          \/ /\ sctx[u].state = "WAIT_FC" /\ sctx'[u].state = "SEND_CF"
             /\ out[sctx[u].msg] # <<>> \/ "sendfail" \notin Faults
      BY IsrFacts DEF PeerOwesFc, OrderedUse
    <3>2. OrderOk(sctx'[u], out[sctx[u].msg], len[sctx[u].msg], Phase(u))
      BY <2>1, <2>2, <2>3, <3>1, OrderIsr
    <3> QED
      BY <1>1, <1>2, <1>p, <3>2 DEF OrderAt
  <2>4. CASE ~sctx[u].alloc /\ sctx'[u].state = "ERR"
    <3>1. Phase(u)' = "no"
      BY <1>p, <2>4 DEF FreedIsIdle, FreedIsIdleAt, Phase
    <3> QED
      BY <2>4, <3>1, OrderDead DEF OrderAt
  <2> QED
    BY <2>3, <2>4, IsrFacts
<1> QED
  BY <1>1, <1>2, <1>3, <1>p, OrderFrame

\* What send_ff and what follows it do.
LEMMA FfFacts ==
    ASSUME TypeOK, NEW u \in Targets, WorkSendFf(u)
    PROVE  LET n == Min2(FfLen, sctx[u].rem)
               f == [type |-> "FF", sn |-> 0, msg |-> sctx[u].msg, off |-> sctx[u].off,
                     n |-> n, len |-> sctx[u].rem]
           IN
           /\ cur = Idle /\ cur' = [pc |-> "ff", t |-> u] /\ sctx[u].state = "SEND_FF"
           /\ \A v \in Targets : v # u => sctx'[v] = sctx[v]
           /\ sctx'[u].alloc = sctx[u].alloc /\ sctx'[u].msg = sctx[u].msg
           /\ sctx'[u].state = "SEND_FF" /\ sctx'[u].sn = 1
           /\ sctx'[u].rem = sctx[u].rem - n /\ sctx'[u].off = sctx[u].off + n
           /\ HandToController(u, f) \/ (UNCHANGED <<mbox, out>> /\ "sendfail" \in Faults)
<1> DEFINE n == Min2(FfLen, sctx[u].rem)
           r == sctx[u].rem - n
           o == sctx[u].off + n
           f == [type |-> "FF", sn |-> 0, msg |-> sctx[u].msg, off |-> sctx[u].off,
                 n |-> n, len |-> sctx[u].rem]
           d == [sctx[u] EXCEPT !.sn = 1, !.rem = r, !.off = o]
<1>0. sctx \in [Targets -> Ctx] /\ sctx[u] \in Ctx
  BY DEF TypeOK
<1>1. /\ sctx' = [sctx EXCEPT ![u] = d] /\ cur = Idle /\ cur' = [pc |-> "ff", t |-> u]
      /\ sctx[u].state = "SEND_FF"
  BY DEF WorkSendFf, Running
<1>2. HandToController(u, f) \/ (UNCHANGED <<mbox, out>> /\ "sendfail" \in Faults)
  <2>1. PICK r0 \in CanSendResults :
          IF r0 = "ok" THEN HandToController(u, f) ELSE UNCHANGED <<mbox, out>>
    BY DEF WorkSendFf
  <2> QED
    BY <2>1 DEF CanSendResults
<1> HIDE DEF r, o, f
<1>3. d.alloc = sctx[u].alloc /\ d.msg = sctx[u].msg /\ d.state = sctx[u].state /\ d.sn = 1
      /\ d.rem = r /\ d.off = o
  BY <1>0 DEF Ctx
<1> HIDE DEF d
<1>4. sctx'[u] = d /\ \A v \in Targets : v # u => sctx'[v] = sctx[v]
  BY <1>0, <1>1
<1> QED
  BY <1>1, <1>2, <1>3, <1>4 DEF r, o, f

\* What the state machine does after send_ff.
LEMMA FinishFfFacts ==
    ASSUME TypeOK, FinishFf
    PROVE  LET u == cur.t IN
           /\ u \in Targets /\ cur' = Idle /\ mbox' = mbox /\ out' = out
           /\ \A v \in Targets : v # u => sctx'[v] = sctx[v]
           /\ Keeps(sctx'[u], sctx[u]) /\ sctx'[u].state = "WAIT_FC"
<1>1. cur.t \in Targets /\ sctx \in [Targets -> Ctx] /\ sctx[cur.t] \in Ctx
  BY CurCases DEF FinishFf, TypeOK
<1> DEFINE d == [sctx[cur.t] EXCEPT !.timer = TRUE, !.state = "WAIT_FC"]
<1>2. sctx' = [sctx EXCEPT ![cur.t] = d] /\ cur' = Idle /\ mbox' = mbox /\ out' = out
  BY <1>1 DEF FinishFf, Ctx, hist
<1>3. Keeps(d, sctx[cur.t]) /\ d.state = "WAIT_FC"
  BY <1>1 DEF Ctx, Keeps, TxState
<1> HIDE DEF d
<1>4. sctx'[cur.t] = d /\ \A v \in Targets : v # cur.t => sctx'[v] = sctx[v]
  BY <1>1, <1>2
<1> QED
  BY <1>1, <1>2, <1>3, <1>4

\* What the loop does after send_cf.
LEMMA FinishCfFacts ==
    ASSUME TypeOK, FinishCf
    PROVE  LET u == cur.t
               s == sctx[u]
               d == sctx'[u]
           IN
           /\ u \in Targets /\ mbox' = mbox /\ out' = out
           /\ \A v \in Targets : v # u => sctx'[v] = sctx[v]
           /\ d \in Ctx /\ d.alloc = s.alloc /\ d.msg = s.msg /\ d.off = s.off /\ d.rem = s.rem
           /\ d.sn = IncSn(s.sn) /\ d.backlog = Inc8(s.backlog)
           /\ s.rem = 0 => d.state = "WAIT_BACKLOG" /\ cur' = Idle
           /\ s.rem # 0 => \/ d.state \in {"WAIT_FC", "WAIT_ST"} /\ cur' = Idle
                           \/ d.state = s.state /\ cur' = [pc |-> "sem", t |-> u]
<1>1. cur.t \in Targets /\ sctx \in [Targets -> Ctx] /\ sctx[cur.t] \in Ctx
  BY CurCases DEF FinishCf, TypeOK
<1> DEFINE s == sctx[cur.t]
           c == CountCf(s)
           d == AfterCf(c)
           stays == c.rem # 0 /\ ~(OPTS_BS # 0 /\ c.bs = 0) /\ c.stmin = 0
<1>2. /\ sctx' = [sctx EXCEPT ![cur.t] = d] /\ mbox' = mbox /\ out' = out
      /\ cur' = IF stays THEN [pc |-> "sem", t |-> cur.t] ELSE Idle
  BY DEF FinishCf, hist
<1>3. /\ d \in Ctx /\ d.alloc = s.alloc /\ d.msg = s.msg /\ d.off = s.off /\ d.rem = s.rem
      /\ d.sn = IncSn(s.sn) /\ d.backlog = Inc8(s.backlog)
      /\ s.rem = 0 => d.state = "WAIT_BACKLOG" /\ ~stays
      /\ s.rem # 0 /\ ~stays => d.state \in {"WAIT_FC", "WAIT_ST"}
      /\ stays => s.rem # 0 /\ d.state = s.state
  BY <1>1, AfterCfFacts
<1> HIDE DEF d, stays
<1>4. sctx'[cur.t] = d /\ \A v \in Targets : v # cur.t => sctx'[v] = sctx[v]
  BY <1>1, <1>2
<1> QED
  BY <1>1, <1>2, <1>3, <1>4

\* The other cases of the state machine.
LEMMA RestFacts ==
    ASSUME TypeOK, NEW u \in Targets, WorkWaitSt(u) \/ WorkFinish(u)
    PROVE  /\ cur = Idle /\ cur' = Idle /\ mbox' = mbox /\ out' = out
           /\ \A v \in Targets : v # u => sctx'[v] = sctx[v]
           /\ sctx'[u].msg = sctx[u].msg
           /\ WorkWaitSt(u) => /\ sctx[u].state = "WAIT_ST" /\ sctx'[u].state = "SEND_CF"
                               /\ Keeps(sctx'[u], sctx[u]) /\ sctx'[u].backlog = sctx[u].backlog
           /\ WorkFinish(u) => sctx'[u].state = "RESET"
<1>0. sctx \in [Targets -> Ctx] /\ sctx[u] \in Ctx
  BY DEF TypeOK
<1>1. cur = Idle /\ cur' = Idle /\ mbox' = mbox /\ out' = out
  BY DEF WorkWaitSt, WorkFinish, Running, hist
<1>2. CASE WorkWaitSt(u)
  <2> DEFINE d == [sctx[u] EXCEPT !.timer = TRUE, !.state = "SEND_CF"]
  <2>1. sctx' = [sctx EXCEPT ![u] = d] /\ sctx[u].state = "WAIT_ST"
    BY <1>0, <1>2 DEF WorkWaitSt, Running, Ctx
  <2>2. Keeps(d, sctx[u]) /\ d.state = "SEND_CF" /\ d.backlog = sctx[u].backlog
    BY <1>0 DEF Ctx, Keeps, TxState
  <2> HIDE DEF d
  <2>3. sctx'[u] = d /\ \A v \in Targets : v # u => sctx'[v] = sctx[v]
    BY <1>0, <2>1
  <2>4. ~WorkFinish(u)
    BY <2>1 DEF WorkFinish, Running
  <2> QED
    BY <1>1, <2>1, <2>2, <2>3, <2>4 DEF Keeps
<1>3. CASE WorkFinish(u)
  <2>1. sctx' = [sctx EXCEPT ![u] = Retire(sctx[u])]
    BY <1>3 DEF WorkFinish
  <2>2. Retire(sctx[u]).msg = sctx[u].msg /\ Retire(sctx[u]).state = "RESET"
    BY <1>0 DEF Retire, free_send_ctx, Ctx
  <2>3. sctx'[u] = Retire(sctx[u]) /\ \A v \in Targets : v # u => sctx'[v] = sctx[v]
    BY <1>0, <2>1
  <2>4. ~WorkWaitSt(u)
    BY <1>3 DEF WorkWaitSt, WorkFinish, Running
  <2> QED
    BY <1>1, <2>2, <2>3, <2>4
<1> QED
  BY <1>2, <1>3

\* The work queue's thread.
LEMMA OrderWorker ==
    ASSUME TypeOK, TypeOK', FreedIsIdle, OrderInv, Worker
    PROVE  OrderInv'
<1>0. /\ sctx \in [Targets -> Ctx] /\ len \in [Msgs -> Nat]
      /\ out \in [Msgs \cup {NoMsg} -> Seq(Frame)] /\ out' \in [Msgs \cup {NoMsg} -> Seq(Frame)]
      /\ sctx' \in [Targets -> Ctx]
  BY DEF TypeOK
<1>a. \A t \in Targets : OrderOk(sctx[t], out[sctx[t].msg], len[sctx[t].msg], Phase(t))
  BY DEF OrderInv, OrderAt
<1>c. calls' = calls /\ len' = len
  BY WorkerFacts
<1>i. cur' = Idle => \A v \in Targets : Phase(v)' = "no"
  BY DEF Phase, Idle
<1>1. CASE FinishFf
  <2>0. PICK u \in Targets : u = cur.t
    BY <1>1, FinishFfFacts
  <2>1. /\ u \in Targets /\ cur' = Idle /\ out' = out
        /\ \A v \in Targets : v # u => sctx'[v] = sctx[v]
        /\ Keeps(sctx'[u], sctx[u]) /\ sctx'[u].state = "WAIT_FC"
    BY <1>1, <2>0, FinishFfFacts
  <2>2. Phase(u) = "ff" /\ \A v \in Targets : v # u => Phase(v) = "no"
    BY <1>1, <2>0, PhaseFacts DEF FinishFf
  <2>3. OrderOk(sctx'[u], out[sctx[u].msg], len[sctx[u].msg], "no")
    BY <1>0, <1>a, <2>1, <2>2, OrderFinishFf
  <2>4. OrderAt(u)'
    BY <1>c, <1>i, <2>1, <2>3 DEF OrderAt, Keeps
  <2> QED
    BY <1>c, <1>i, <2>1, <2>2, <2>4, OrderFrame DEF Keeps
<1>2. CASE FinishCf
  <2>0. PICK u \in Targets : u = cur.t
    BY <1>2, FinishCfFacts
  <2> DEFINE m == sctx[u].msg
  <2>1. /\ u \in Targets /\ out' = out
        /\ \A v \in Targets : v # u => sctx'[v] = sctx[v]
        /\ sctx'[u].msg = m /\ sctx'[u].off = sctx[u].off /\ sctx'[u].rem = sctx[u].rem
        /\ sctx'[u].sn = IncSn(sctx[u].sn) /\ sctx'[u] \in Ctx
        /\ sctx[u].rem = 0 => sctx'[u].state = "WAIT_BACKLOG" /\ cur' = Idle
        /\ sctx[u].rem # 0 => \/ sctx'[u].state \in {"WAIT_FC", "WAIT_ST"} /\ cur' = Idle
                              \/ sctx'[u].state = sctx[u].state /\ cur' = [pc |-> "sem", t |-> u]
    BY <1>2, <2>0, FinishCfFacts
  <2>2. Phase(u) = "cf" /\ \A v \in Targets : v # u => Phase(v) = "no"
    BY <1>2, <2>0, PhaseFacts DEF FinishCf
  <2>3. /\ m \in Msgs /\ len[m] > SfMax /\ SentOk(sctx[u], out[m], len[m], "cf")
        /\ sctx[u].state \in {"SEND_CF", "ERR"}
    BY <1>a, <2>1, <2>2 DEF OrderOk
  <2>4. \A v \in Targets : v # u => Phase(v)' = "no"
    BY <1>i, <2>1 DEF Phase
  <2>5. CASE sctx[u].rem = 0
    BY <1>i, <2>1, <2>5, OrderDead, OrderFrame, <1>c, <2>2 DEF OrderAt
  <2>6. CASE sctx[u].rem # 0 /\ cur' = Idle /\ sctx'[u].state \in {"WAIT_FC", "WAIT_ST"}
    <3>1. SentOk(sctx'[u], out[m], len[m], "no")
      BY <1>0, <2>1, <2>3, <2>6, OrderCount
    <3>2. OrderOk(sctx'[u], out[m], len[m], "no")
      BY <2>1, <2>3, <2>6, <3>1 DEF OrderOk
    <3>3. OrderAt(u)'
      BY <1>c, <1>i, <2>1, <2>6, <3>2 DEF OrderAt
    <3> QED
      BY <1>c, <2>1, <2>2, <2>4, <3>3, OrderFrame
  <2>7. CASE sctx[u].rem # 0 /\ sctx'[u].state = sctx[u].state /\ cur' = [pc |-> "sem", t |-> u]
    <3>1. SentOk(sctx'[u], out[m], len[m], "sem")
      BY <1>0, <2>1, <2>3, <2>7, OrderCount
    <3>2. OrderOk(sctx'[u], out[m], len[m], "sem")
      BY <2>1, <2>3, <2>7, <3>1 DEF OrderOk
    <3>3. Phase(u)' = "sem"
      BY <2>7 DEF Phase
    <3>4. OrderAt(u)'
      BY <1>c, <2>1, <3>2, <3>3 DEF OrderAt
    <3> QED
      BY <1>c, <2>1, <2>2, <2>4, <3>4, OrderFrame
  <2> QED
    BY <2>1, <2>5, <2>6, <2>7
<1>3. CASE TakeSem
  <2> DEFINE u == cur.t
             c == [sctx[u] EXCEPT !.sem = 0]
  <2>1. Phase(u) = "sem" /\ u \in Targets /\ \A v \in Targets : v # u => Phase(v) = "no"
    BY <1>3, PhaseFacts DEF TakeSem
  <2>2. sctx[u] \in Ctx
    BY <1>0, <2>1
  <2>3. c \in Ctx /\ Keeps(c, sctx[u]) /\ c.state = sctx[u].state /\ c.backlog = sctx[u].backlog
    BY <2>2 DEF Ctx, Keeps
  <2>4. SendCf(u, c)
    BY <1>3 DEF TakeSem
  <2> HIDE DEF c
  <2>5. "sem" \in {"no", "sem"} /\ "sem" # "no"
    OBVIOUS
  <2> QED
    BY <1>c, <2>1, <2>3, <2>4, <2>5, OrderSendCf
<1>4. ASSUME NEW u \in Targets, Work(u) PROVE OrderInv'
  <2>0. cur = Idle /\ (\A v \in Targets : Phase(v) = "no") /\ sctx[u] \in Ctx
    <3>1. cur = Idle
      BY <1>4 DEF Work, WorkSendFf, WorkSendCf, WorkWaitSt, WorkFinish, WorkNothing, Running
    <3> QED
      BY <1>0, <3>1, PhaseFacts
  <2>1. CASE WorkSendFf(u)
    <3> DEFINE m == sctx[u].msg
               n == Min2(FfLen, sctx[u].rem)
               f == [type |-> "FF", sn |-> 0, msg |-> sctx[u].msg, off |-> sctx[u].off,
                     n |-> n, len |-> sctx[u].rem]
               d == sctx'[u]
    <3>1. /\ cur' = [pc |-> "ff", t |-> u] /\ sctx[u].state = "SEND_FF"
          /\ \A v \in Targets : v # u => sctx'[v] = sctx[v]
          /\ d.msg = m /\ d.state = "SEND_FF" /\ d.sn = 1 /\ d \in Ctx
          /\ d.rem = sctx[u].rem - n /\ d.off = sctx[u].off + n
          /\ HandToController(u, f) \/ (UNCHANGED <<mbox, out>> /\ "sendfail" \in Faults)
      BY <1>0, <2>1, FfFacts
    <3>2. /\ m \in Msgs /\ len[m] > SfMax /\ out[m] = <<>> /\ sctx[u].off = 0
          /\ sctx[u].rem = len[m] /\ len[m] \in Nat
      BY <1>0, <1>a, <2>0, <3>1 DEF OrderOk
    <3>3. /\ f = Segment(m, len[m], 1)
          /\ \A q \in Seq(Frame) : Len(q) = 1 => SentOk(d, q, len[m], "ff")
      BY <2>0, <3>1, <3>2, FfIsFirst
    <3>4. Phase(u)' = "ff" /\ \A v \in Targets : v # u => Phase(v)' = "no"
      BY <3>1 DEF Phase
    <3>f. f.msg = m
      OBVIOUS
    <3> HIDE DEF f
    <3>5. CASE HandToController(u, f)
      <4>1. Len(out[m]) + 1 = 1
        BY <3>2
      <4>2. f = Segment(m, len[m], Len(out[m]) + 1)
        BY <3>3, <4>1
      <4>3. /\ out' = [out EXCEPT ![m] = Append(@, Segment(m, len[m], Len(out[m]) + 1))]
            /\ Len(out'[m]) = Len(out[m]) + 1
        BY <3>2, <3>5, <3>f, <4>2, HandedOver
      <4>4. SentOk(d, out'[m], len[m], "ff")
        BY <1>0, <3>2, <3>3, <4>1, <4>3
      <4>5. OrderOk(d, out'[m], len[m], "ff")
        BY <3>1, <3>2, <4>4 DEF OrderOk
      <4>6. OrderAt(u)'
        BY <1>c, <3>1, <3>4, <4>5 DEF OrderAt
      <4> QED
        BY <1>c, <2>0, <3>1, <3>2, <3>4, <4>3, <4>6, OrderFrame
    <3>6. CASE UNCHANGED <<mbox, out>> /\ "sendfail" \in Faults
      <4>1. OrderOk(d, out[m], len[m], "ff")
        BY <3>1, <3>2, <3>6 DEF OrderOk
      <4>2. OrderAt(u)'
        BY <1>c, <3>1, <3>4, <3>6, <4>1 DEF OrderAt
      <4> QED
        BY <1>c, <2>0, <3>1, <3>4, <3>6, <4>2, OrderFrame
    <3> QED
      BY <3>1, <3>5, <3>6
  <2>2. CASE WorkSendCf(u)
    <3> DEFINE c == [sctx[u] EXCEPT !.timer = FALSE]
    <3>1. c \in Ctx /\ Keeps(c, sctx[u]) /\ c.state = sctx[u].state /\ c.backlog = sctx[u].backlog
      BY <2>0 DEF Ctx, Keeps
    <3>2. SendCf(u, c) /\ sctx[u].state = "SEND_CF"
      BY <2>2 DEF WorkSendCf, Running
    <3> HIDE DEF c
    <3> QED
      BY <1>c, <2>0, <3>1, <3>2, OrderSendCf
  <2>3. CASE WorkWaitSt(u) \/ WorkFinish(u)
    <3>1. /\ cur' = Idle /\ out' = out /\ sctx'[u].msg = sctx[u].msg
          /\ \A v \in Targets : v # u => sctx'[v] = sctx[v]
      BY <2>3, RestFacts
    <3>2. OrderAt(u)'
      <4>1. CASE WorkWaitSt(u)
        <5>1. sctx[u].state = "WAIT_ST" /\ sctx'[u].state = "SEND_CF" /\ Keeps(sctx'[u], sctx[u])
          BY <4>1, RestFacts
        <5>2. OrderOk(sctx'[u], out[sctx[u].msg], len[sctx[u].msg], "no")
          BY <1>0, <1>a, <2>0, <5>1, OrderWaitSt
        <5> QED
          BY <1>c, <1>i, <3>1, <5>2 DEF OrderAt
      <4>2. CASE WorkFinish(u)
        <5>1. sctx'[u].state = "RESET"
          BY <4>2, RestFacts
        <5> QED
          BY <1>i, <3>1, <5>1, OrderDead DEF OrderAt
      <4> QED
        BY <2>3, <4>1, <4>2
    <3> QED
      BY <1>c, <1>i, <2>0, <3>1, <3>2, OrderFrame
  <2>4. CASE WorkNothing(u)
    <3>1. sctx' = sctx /\ cur' = cur /\ out' = out
      BY <2>4 DEF WorkNothing, hist
    <3>2. \A v \in Targets : Phase(v)' = Phase(v)
      BY <3>1 DEF Phase
    <3>3. OrderAt(u)'
      BY <1>a, <1>c, <3>1, <3>2 DEF OrderAt
    <3> QED
      BY <1>c, <3>1, <3>2, <3>3, OrderFrame
  <2> QED
    BY <1>4, <2>1, <2>2, <2>3, <2>4 DEF Work
<1> QED
  BY <1>1, <1>2, <1>3, <1>4 DEF Worker

\* The invariant is inductive.
LEMMA OrderNext ==
    ASSUME OrderedUse
    PROVE  TypeOK /\ TypeOK' /\ FreedIsIdle /\ OrderInv /\ [Next]_vars => OrderInv'
<1> SUFFICES ASSUME TypeOK, TypeOK', FreedIsIdle, OrderInv, [Next]_vars PROVE OrderInv'
  OBVIOUS
<1>1. CASE UNCHANGED vars
  <2>1. sctx' = sctx /\ cur' = cur /\ out' = out /\ len' = len /\ calls' = calls
    BY <1>1 DEF vars
  <2>2. \A v \in Targets : Phase(v)' = Phase(v)
    BY <2>1 DEF Phase
  <2> QED
    BY <2>1, <2>2 DEF OrderInv, OrderAt, Numbered, FramesInSequence
<1> QED
  BY <1>1, OrderApp, OrderWorker, OrderIsrNext DEF Next

\* The invariant holds initially, under OrderedUse.
LEMMA OrderInvariant == ASSUME OrderedUse PROVE Spec => []OrderInv
<1>1. Init => OrderInv
  <2> SUFFICES ASSUME Init PROVE OrderInv
    OBVIOUS
  <2>1. \A t \in Targets : sctx[t].state = "RESET" /\ sctx[t].msg = NoMsg /\ Phase(t) = "no"
    BY DEF Init, Phase, Idle
  <2>2. \A m \in Msgs : out[m] = <<>> /\ len[m] = 0
    BY DEF Init
  <2>3. Numbered
    BY <2>1, <2>2 DEF Numbered, NoMsg, Init
  <2>4. FramesInSequence
    BY <2>2 DEF FramesInSequence
  <2> QED
    BY <2>1, <2>3, <2>4, OrderDead DEF OrderInv, OrderAt
<1> QED
  BY <1>1, OrderNext, TypeCorrect, FreedContextsIdle, PTL DEF Spec

\* The frames of a message handed to the controller are its segmentation, in
\* order and without gap, under every fault but two: an application that sends to
\* a peer whose context is in use, and a stray flow-control frame that lets the
\* sender go on although can_send() refused its first frame (whose result
\* send_state_machine ignores).
THEOREM FramesAreInSequence == ASSUME OrderedUse PROVE Spec => []FramesInSequence
<1>1. OrderInv => FramesInSequence
  BY DEF OrderInv
<1> QED
  BY <1>1, OrderInvariant, PTL

-----------------------------------------------------------------------------
(* OK means transmitted *)

\* A context in ISOTP_TX_ERR has an error to report.
GoodErr(c) == c.state = "ERR" => c.error # "OK"
ErrInv == \A t \in Targets : GoodErr(sctx[t])

\* The helpers, and a flow-control frame, leave a good error.
LEMMA ErrHelpers ==
    ASSUME NEW c \in Ctx, GoodErr(c)
    PROVE  /\ \A e \in Errors \ {"OK"} : GoodErr(send_report_error(c, e))
           /\ GoodErr(TxCallback(c)) /\ GoodErr(AfterCf(CountCf(c))) /\ GoodErr(Retire(c))
           /\ GoodErr([c EXCEPT !.timer = FALSE]) /\ GoodErr([c EXCEPT !.sem = 0])
           /\ GoodErr(NewSendCtx(c))
<1>1. ASSUME NEW e \in Errors \ {"OK"} PROVE GoodErr(send_report_error(c, e))
  BY <1>1 DEF GoodErr, send_report_error, Ctx
<1>2. GoodErr(TxCallback(c))
  BY DEF GoodErr, TxCallback, Ctx
<1>3. GoodErr(AfterCf(CountCf(c)))
  <2> DEFINE b == CountCf(c)
  <2>1. b \in Ctx /\ b.state = c.state /\ b.error = c.error
    BY CfHelperTypes DEF CountCf, Ctx
  <2> HIDE DEF b
  <2>2. GoodErr(AfterCf(b))
    BY <2>1 DEF GoodErr, AfterCf, Ctx
  <2> QED
    BY <2>2 DEF b
<1>4. GoodErr(Retire(c))
  BY DEF GoodErr, Retire, free_send_ctx, Ctx
<1>5. GoodErr([c EXCEPT !.timer = FALSE]) /\ GoodErr([c EXCEPT !.sem = 0])
  BY DEF GoodErr, Ctx
<1>6. GoodErr(NewSendCtx(c))
  BY DEF GoodErr, NewSendCtx, Ctx
<1> QED
  BY <1>1, <1>2, <1>3, <1>4, <1>5, <1>6

\* So does a flow-control frame; outside ISOTP_TX_WAIT_FC it leaves backlog alone.
LEMMA ErrFc ==
    ASSUME NEW c \in Ctx, GoodErr(c), NEW fc \in FC
    PROVE  GoodErr(send_can_rx(c, fc)) /\ (c.state # "WAIT_FC" => send_can_rx(c, fc).backlog = c.backlog)
<1> DEFINE b == [c EXCEPT !.timer = FALSE]
<1>0. b \in Ctx /\ b.state = c.state /\ GoodErr(b)
  BY ErrHelpers DEF Ctx
<1>e. {"UNEXP_PDU", "WFT_OVRN", "BUFFER_OVERFLW", "INVALID_FS"} \subseteq Errors \ {"OK"}
  BY DEF Errors
<1> HIDE DEF b
<1>1. CASE c.state # "WAIT_FC"
  <2>1. send_can_rx(c, fc) = send_report_error(c, "UNEXP_PDU")
    BY <1>1 DEF send_can_rx
  <2>2. send_report_error(c, "UNEXP_PDU").backlog = c.backlog
    BY DEF send_report_error, Ctx
  <2> QED
    BY <1>e, <2>1, <2>2, ErrHelpers
<1>2. CASE c.state = "WAIT_FC"
  <2>1. send_can_rx(c, fc) = send_process_fc(b, fc)
    BY <1>2 DEF send_can_rx, b
  <2>2. CASE fc.fs = "CTS"
    <3>1. send_process_fc(b, fc).state = "SEND_CF"
      BY <1>0, <2>2 DEF send_process_fc, Ctx
    <3> QED
      BY <1>2, <2>1, <3>1 DEF GoodErr
  <2>3. CASE fc.fs = "WAIT"
    <3>1. send_process_fc(b, fc) = OnWait(b)
      BY <2>3 DEF send_process_fc
    <3>2. GoodErr(OnWait(b))
      BY <1>0, <1>2 DEF OnWait, send_report_error, GoodErr, Ctx
    <3> QED
      BY <1>2, <2>1, <3>1, <3>2
  <2>4. CASE fc.fs \notin {"CTS", "WAIT"}
    <3>1. \E e \in {"BUFFER_OVERFLW", "INVALID_FS"} : send_process_fc(b, fc) = send_report_error(b, e)
      BY <2>4 DEF send_process_fc
    <3> QED
      BY <1>0, <1>2, <1>e, <2>1, <3>1, ErrHelpers
  <2> QED
    BY <2>2, <2>3, <2>4
<1> QED
  BY <1>1, <1>2

\* send_cf leaves a good error.
LEMMA ErrSendCf ==
    ASSUME TypeOK, ErrInv, NEW u \in Targets, NEW c \in Ctx, GoodErr(c), SendCf(u, c)
    PROVE  ErrInv'
<1> DEFINE n == Min2(c.rem, CfLen)
           r == c.rem - n
           o == c.off + n
           d == [c EXCEPT !.rem = r, !.off = o]
<1>1. \/ sctx' = [sctx EXCEPT ![u] = d]
      \/ \E e \in Errors \ {"OK"} : sctx' = [sctx EXCEPT ![u] = send_report_error(d, e)]
  BY DEF SendCf, Errors
<1> HIDE DEF r, o
<1>2. GoodErr(d) /\ \A e \in Errors \ {"OK"} : GoodErr(send_report_error(d, e))
  BY DEF GoodErr, send_report_error, Ctx
<1> HIDE DEF d
<1>3. sctx \in [Targets -> Ctx]
  BY DEF TypeOK
<1> QED
  BY <1>1, <1>2, <1>3 DEF ErrInv

\* Every step leaves a good error: the only errors noted are the code's failures.
LEMMA ErrNext == TypeOK /\ ErrInv /\ [Next]_vars => ErrInv'
<1> SUFFICES ASSUME TypeOK, ErrInv, [Next]_vars PROVE ErrInv'
  OBVIOUS
<1>0. sctx \in [Targets -> Ctx]
  BY DEF TypeOK
<1>s. ASSUME NEW u \in Targets, NEW d, sctx' = [sctx EXCEPT ![u] = d], GoodErr(d) PROVE ErrInv'
  BY <1>0, <1>s DEF ErrInv
<1>u. CASE sctx' = sctx
  BY <1>u DEF ErrInv
<1>1. ASSUME NEW u \in Targets, App(u) PROVE ErrInv'
  <2>1. PICK l \in Lengths : SendSf(u, l) \/ SendRefused(u, l) \/ SendMulti(u, l)
    BY <1>1 DEF App
  <2>2. CASE SendMulti(u, l)
    <3> DEFINE c == get_send_ctx(u)
               k == calls + 1
               d == [c EXCEPT !.msg = k, !.off = 0, !.rem = l]
    <3>1. sctx' = [sctx EXCEPT ![u] = d]
      BY <2>2 DEF SendMulti
    <3>2. c \in Ctx /\ GoodErr(c)
      BY <1>0, CtxHelperTypes, ErrHelpers DEF get_send_ctx, Errors, ErrInv
    <3> HIDE DEF c, k
    <3>3. GoodErr(d)
      BY <3>2 DEF GoodErr, Ctx
    <3> HIDE DEF d
    <3> QED
      BY <1>s, <3>1, <3>3
  <2> QED
    BY <1>u, <2>1, <2>2 DEF SendSf, SendRefused
<1>2. CASE FinishFf
  <2>1. cur.t \in Targets /\ sctx[cur.t] \in Ctx
    BY <1>0, <1>2, CurCases DEF FinishFf, TypeOK
  <2> DEFINE d == [sctx[cur.t] EXCEPT !.timer = TRUE, !.state = "WAIT_FC"]
  <2>2. sctx' = [sctx EXCEPT ![cur.t] = d]
    BY <1>0, <1>2, <2>1 DEF FinishFf, Ctx
  <2>3. GoodErr(d)
    BY <2>1 DEF GoodErr, Ctx
  <2> HIDE DEF d
  <2> QED
    BY <1>s, <2>1, <2>2, <2>3
<1>3. CASE FinishCf
  <2>1. cur.t \in Targets /\ sctx[cur.t] \in Ctx
    BY <1>0, <1>3, CurCases DEF FinishCf, TypeOK
  <2>2. sctx' = [sctx EXCEPT ![cur.t] = AfterCf(CountCf(sctx[cur.t]))]
    BY <1>3 DEF FinishCf
  <2>3. GoodErr(AfterCf(CountCf(sctx[cur.t])))
    BY <2>1, ErrHelpers DEF ErrInv
  <2> QED
    BY <1>s, <2>1, <2>2, <2>3
<1>4. CASE TakeSem
  <2>1. cur.t \in Targets /\ sctx[cur.t] \in Ctx
    BY <1>0, <1>4, CurCases DEF TakeSem, TypeOK
  <2> DEFINE c == [sctx[cur.t] EXCEPT !.sem = 0]
  <2>2. c \in Ctx /\ GoodErr(c)
    <3>1. c \in Ctx
      BY <2>1 DEF Ctx
    <3>2. GoodErr(c)
      BY <2>1, ErrHelpers DEF ErrInv
    <3> QED
      BY <3>1, <3>2
  <2>3. SendCf(cur.t, c)
    BY <1>4 DEF TakeSem
  <2> HIDE DEF c
  <2> QED
    BY <2>1, <2>2, <2>3, ErrSendCf
<1>5. ASSUME NEW u \in Targets, Work(u) PROVE ErrInv'
  <2>0. sctx[u] \in Ctx /\ GoodErr(sctx[u])
    BY <1>0 DEF ErrInv
  <2>1. CASE WorkSendFf(u)
    <3> DEFINE r == sctx[u].rem - Min2(FfLen, sctx[u].rem)
               o == sctx[u].off + Min2(FfLen, sctx[u].rem)
               d == [sctx[u] EXCEPT !.sn = 1, !.rem = r, !.off = o]
    <3>1. sctx' = [sctx EXCEPT ![u] = d]
      BY <2>1 DEF WorkSendFf
    <3> HIDE DEF r, o
    <3>2. GoodErr(d)
      BY <2>0 DEF GoodErr, Ctx
    <3> HIDE DEF d
    <3> QED
      BY <1>s, <3>1, <3>2
  <2>2. CASE WorkSendCf(u)
    <3> DEFINE c == [sctx[u] EXCEPT !.timer = FALSE]
    <3>1. c \in Ctx
      BY <2>0 DEF Ctx
    <3>2. GoodErr(c)
      BY <2>0, ErrHelpers
    <3>3. SendCf(u, c)
      BY <2>2 DEF WorkSendCf
    <3> HIDE DEF c
    <3> QED
      BY <3>1, <3>2, <3>3, ErrSendCf
  <2>3. CASE WorkWaitSt(u)
    <3> DEFINE d == [sctx[u] EXCEPT !.timer = TRUE, !.state = "SEND_CF"]
    <3>1. sctx' = [sctx EXCEPT ![u] = d]
      BY <1>0, <2>0, <2>3 DEF WorkWaitSt, Ctx
    <3>2. GoodErr(d)
      BY <2>0 DEF GoodErr, Ctx
    <3> HIDE DEF d
    <3> QED
      BY <1>s, <3>1, <3>2
  <2>4. CASE WorkFinish(u)
    <3>1. sctx' = [sctx EXCEPT ![u] = Retire(sctx[u])]
      BY <2>4 DEF WorkFinish
    <3> QED
      BY <1>s, <2>0, <3>1, ErrHelpers
  <2>5. CASE WorkNothing(u)
    BY <1>u, <2>5 DEF WorkNothing
  <2> QED
    BY <1>5, <2>1, <2>2, <2>3, <2>4, <2>5 DEF Work
<1>6. ASSUME NEW u \in Targets, Driver(u) PROVE ErrInv'
  <2>1. sctx' = [sctx EXCEPT ![u] = TxCallback(sctx[u])]
    BY <1>6 DEF Driver, TxDone
  <2> QED
    BY <1>0, <1>s, <2>1, ErrHelpers DEF ErrInv
<1>7. ASSUME NEW u \in Targets, Peer(u) PROVE ErrInv'
  <2>1. PICK fc \in FC : FcRx(u, fc)
    BY <1>7 DEF Peer
  <2>2. sctx' = [sctx EXCEPT ![u] = send_can_rx(get_send_ctx(u), fc)]
    BY <2>1 DEF FcRx, HandleFc
  <2>3. get_send_ctx(u) \in Ctx /\ GoodErr(get_send_ctx(u))
    BY <1>0, CtxHelperTypes, ErrHelpers DEF get_send_ctx, Errors, ErrInv
  <2> QED
    BY <1>s, <2>2, <2>3, ErrFc
<1>8. ASSUME NEW u \in Targets, Timeout(u) PROVE ErrInv'
  <2> DEFINE c == [sctx[u] EXCEPT !.timer = FALSE]
  <2>1. sctx' = [sctx EXCEPT ![u] = IF c.state # "SEND_CF" THEN send_report_error(c, "TIMEOUT_BS") ELSE c]
    BY <1>8 DEF Timeout
  <2>2. c \in Ctx
    BY <1>0 DEF Ctx
  <2>3. GoodErr(c)
    BY <1>0, ErrHelpers DEF ErrInv
  <2> HIDE DEF c
  <2>4. GoodErr(send_report_error(c, "TIMEOUT_BS"))
    BY <2>2, <2>3, ErrHelpers DEF Errors
  <2> QED
    BY <1>s, <2>1, <2>3, <2>4
<1> QED
  BY <1>1, <1>2, <1>3, <1>4, <1>5, <1>6, <1>7, <1>8, <1>u DEF Next, Worker, vars

\* An error is never reported as ISOTP_N_OK.
LEMMA ErrInvariant == Spec => []ErrInv
<1>1. Init => ErrInv
  BY DEF Init, ErrInv, GoodErr
<1> QED
  BY <1>1, ErrNext, TypeCorrect, PTL DEF Spec

-----------------------------------------------------------------------------
(* Frames in the controller *)

MsgsIn(q) == {q[i].msg : i \in DOMAIN q}

\* In the mailboxes q, frames of earlier messages come before those of c, and
\* with the a frames already transmitted the latter are the frames o sent.
Split(c, o, q, a) ==
    \E j \in 0 .. Len(q) :
        /\ \A i \in 1 .. j : q[i].msg # c.msg
        /\ \A i \in j + 1 .. Len(q) : q[i].msg = c.msg
        /\ a + Len(q) - j = Len(o)

\* The context may be sending, or waits for its last frames to leave.
Streams(c, p) == c.state \in {"SEND_CF", "WAIT_ST", "WAIT_BACKLOG"} \/ p \in {"cf", "sem"}

\* backlog counts the frames in the controller, modulo its width; send_cf counts
\* a frame only after can_send() returned.
Counted(c, q, p) ==
    /\ p = "cf" => Inc8(c.backlog) = Len(q) % BYTE
    /\ p # "cf" => c.backlog = Len(q) % BYTE

OkOk(c, o, l, q, a, p) ==
    /\ c.msg \in Msgs => Split(c, o, q, a)
    /\ Streams(c, p) => MsgsIn(q) \subseteq {c.msg} /\ Counted(c, q, p)
    /\ c.state \in {"WAIT_BACKLOG", "WAIT_FIN"} => c.msg \in Msgs /\ Len(o) = NumSegs(l)
    /\ c.state = "WAIT_FIN" => q = <<>>

OkAt(t) == OkOk(sctx[t], out[sctx[t].msg], len[sctx[t].msg], mbox[t], acked[sctx[t].msg], Phase(t))

\* No frame is in the controller of another peer, and none is of a message to come.
Apart ==
    /\ \A t \in Targets : MsgsIn(mbox[t]) \subseteq 1 .. calls
    /\ \A t, u \in Targets : t # u /\ sctx[t].msg \in Msgs => sctx[t].msg \notin MsgsIn(mbox[u])
    /\ \A m \in Msgs : m > calls => acked[m] = 0 /\ report[m] = <<>>

\* A message reported as sent is done with: transmitted, and out of all hands.
Done(m) == len[m] > 0 /\ \E i \in DOMAIN report[m] : report[m][i] = "OK"
DoneAt(m) ==
    /\ acked[m] = NumSegs(len[m])
    /\ \A u \in Targets : /\ m \notin MsgsIn(mbox[u])
                          /\ sctx[u].msg = m => sctx[u].state \in {"RESET", "ERR"} /\ Phase(u) = "no"

OkInv == (\A t \in Targets : OkAt(t)) /\ Apart /\ \A m \in Msgs : Done(m) => DoneAt(m)

-----------------------------------------------------------------------------

\* The messages in longer and shorter mailboxes.
LEMMA InMailboxes ==
    ASSUME NEW q \in Seq(Frame), NEW f \in Frame
    PROVE  /\ MsgsIn(Append(q, f)) \subseteq MsgsIn(q) \cup {f.msg}
           /\ q # <<>> => MsgsIn(Tail(q)) \subseteq MsgsIn(q) /\ Head(q).msg \in MsgsIn(q)
<1>1. MsgsIn(Append(q, f)) \subseteq MsgsIn(q) \cup {f.msg}
  <2>1. SUFFICES ASSUME NEW i \in DOMAIN Append(q, f)
                 PROVE  Append(q, f)[i].msg \in MsgsIn(q) \cup {f.msg}
    BY DEF MsgsIn
  <2>2. i \in 1 .. Len(q) + 1
    BY <2>1
  <2>3. CASE i = Len(q) + 1
    BY <2>3
  <2>4. CASE i # Len(q) + 1
    <3>1. i \in DOMAIN q /\ Append(q, f)[i] = q[i]
      BY <2>2, <2>4
    <3> QED
      BY <3>1 DEF MsgsIn
  <2> QED
    BY <2>3, <2>4
<1>2. ASSUME q # <<>> PROVE MsgsIn(Tail(q)) \subseteq MsgsIn(q) /\ Head(q).msg \in MsgsIn(q)
  <2>1. 1 \in DOMAIN q /\ Head(q) = q[1]
    BY <1>2
  <2>2. ASSUME NEW i \in DOMAIN Tail(q) PROVE Tail(q)[i].msg \in MsgsIn(q)
    <3>1. i + 1 \in DOMAIN q /\ Tail(q)[i] = q[i + 1]
      BY <1>2, <2>2
    <3> QED
      BY <3>1 DEF MsgsIn
  <2>3. MsgsIn(Tail(q)) \subseteq MsgsIn(q)
    BY <2>2 DEF MsgsIn
  <2> QED
    BY <2>1, <2>3 DEF MsgsIn
<1> QED
  BY <1>1, <1>2

\* One more frame handed over.
LEMMA SplitAppend ==
    ASSUME NEW c \in Ctx, NEW d, d.msg = c.msg, NEW o \in Seq(Frame), NEW q \in Seq(Frame),
           NEW f \in Frame, f.msg = c.msg, NEW a \in Nat, Split(c, o, q, a),
           NEW o2 \in Seq(Frame), Len(o2) = Len(o) + 1
    PROVE  Split(d, o2, Append(q, f), a)
<1>1. PICK j \in 0 .. Len(q) :
        /\ \A i \in 1 .. j : q[i].msg # c.msg
        /\ \A i \in j + 1 .. Len(q) : q[i].msg = c.msg
        /\ a + Len(q) - j = Len(o)
  BY DEF Split
<1> DEFINE p == Append(q, f)
<1>2. Len(q) \in Nat /\ Len(o) \in Nat /\ Len(p) = Len(q) + 1 /\ j \in 0 .. Len(p)
  OBVIOUS
<1>3. ASSUME NEW i \in 1 .. j PROVE p[i].msg # d.msg
  <2>1. i \in 1 .. Len(q)
    BY <1>2, <1>3
  <2>2. p[i] = q[i]
    BY <2>1
  <2> QED
    BY <1>1, <1>3, <2>2
<1>4. ASSUME NEW i \in j + 1 .. Len(p) PROVE p[i].msg = d.msg
  <2>1. CASE i = Len(q) + 1
    <3>1. p[i] = f
      BY <2>1
    <3> QED
      BY <3>1
  <2>2. CASE i # Len(q) + 1
    <3>1. i \in 1 .. Len(q) /\ i \in j + 1 .. Len(q)
      BY <1>2, <1>4, <2>2
    <3>2. p[i] = q[i]
      BY <3>1
    <3> QED
      BY <1>1, <3>1, <3>2
  <2> QED
    BY <2>1, <2>2
<1>5. a + Len(p) - j = Len(o2)
  <2>1. a + Len(q) - j = Len(o)
    BY <1>1
  <2>2. Len(p) = Len(q) + 1 /\ Len(q) \in Nat /\ j \in Nat /\ Len(o) \in Nat
    BY <1>2
  <2> HIDE DEF p
  <2> QED
    BY <2>1, <2>2
<1> HIDE DEF p
<1>6. Split(d, o2, p, a)
  BY <1>2, <1>3, <1>4, <1>5 DEF Split
<1> QED
  BY <1>6 DEF p

\* The oldest frame transmitted.
LEMMA SplitTail ==
    ASSUME NEW c \in Ctx, NEW d, d.msg = c.msg, NEW o \in Seq(Frame), NEW q \in Seq(Frame),
           q # <<>>, NEW a \in Nat, Split(c, o, q, a)
    PROVE  /\ Head(q).msg = c.msg => Split(d, o, Tail(q), a + 1)
           /\ Head(q).msg # c.msg => Split(d, o, Tail(q), a)
<1>1. PICK j \in 0 .. Len(q) :
        /\ \A i \in 1 .. j : q[i].msg # c.msg
        /\ \A i \in j + 1 .. Len(q) : q[i].msg = c.msg
        /\ a + Len(q) - j = Len(o)
  BY DEF Split
<1> DEFINE p == Tail(q)
<1>2. /\ Len(q) \in Nat /\ Len(q) >= 1 /\ Len(o) \in Nat /\ Len(p) = Len(q) - 1 /\ Head(q) = q[1]
      /\ \A i \in 1 .. Len(p) : p[i] = q[i + 1]
  OBVIOUS
<1> HIDE DEF p
<1>3. CASE j = 0
  <2>1. Head(q).msg = c.msg
    BY <1>1, <1>2, <1>3
  <2>2. ASSUME NEW i \in 1 .. Len(p) PROVE p[i].msg = d.msg
    <3>1. p[i] = q[i + 1] /\ i + 1 \in j + 1 .. Len(q)
      BY <1>2, <1>3, <2>2
    <3> QED
      BY <1>1, <3>1
  <2>3. (a + 1) + Len(p) - 0 = Len(o)
    <3>1. a + Len(q) - 0 = Len(o)
      BY <1>1, <1>3
    <3>2. Len(q) \in Nat /\ Len(o) \in Nat /\ Len(p) = Len(q) - 1
      BY <1>2
    <3> QED
      BY <3>1, <3>2
  <2>4. \A i \in 1 .. 0 : p[i].msg # d.msg
    OBVIOUS
  <2>5. 0 \in 0 .. Len(p) /\ 0 + 1 = 1
    BY <1>2
  <2>6. Split(d, o, p, a + 1)
    BY <2>2, <2>3, <2>4, <2>5 DEF Split
  <2> QED
    BY <2>1, <2>6 DEF p
<1>4. CASE j # 0
  <2> DEFINE k == j - 1
  <2>0. k \in 0 .. Len(p) /\ k + 1 = j
    BY <1>2, <1>4
  <2>1. Head(q).msg # c.msg
    BY <1>1, <1>2, <1>4
  <2>2. ASSUME NEW i \in 1 .. k PROVE p[i].msg # d.msg
    <3>1. p[i] = q[i + 1] /\ i + 1 \in 1 .. j
      BY <1>2, <2>0, <2>2
    <3> QED
      BY <1>1, <3>1
  <2>3. ASSUME NEW i \in k + 1 .. Len(p) PROVE p[i].msg = d.msg
    <3>1. p[i] = q[i + 1] /\ i + 1 \in j + 1 .. Len(q)
      BY <1>2, <2>0, <2>3
    <3> QED
      BY <1>1, <3>1
  <2>4. a + Len(p) - k = Len(o)
    BY <1>1, <1>2, <2>0
  <2> HIDE DEF k
  <2>5. Split(d, o, p, a)
    BY <2>0, <2>2, <2>3, <2>4 DEF Split
  <2> QED
    BY <2>1, <2>5 DEF p
<1> QED
  BY <1>3, <1>4

\* A new message: every frame in the mailboxes is an older one.
LEMMA SplitNew ==
    ASSUME NEW d, NEW q \in Seq(Frame), d.msg \notin MsgsIn(q)
    PROVE  Split(d, <<>>, q, 0)
<1>1. \A i \in 1 .. Len(q) : q[i].msg # d.msg
  BY DEF MsgsIn
<1>2. Len(q) \in 0 .. Len(q) /\ 0 + Len(q) - Len(q) = Len(<<>>)
  OBVIOUS
<1>3. \A i \in Len(q) + 1 .. Len(q) : q[i].msg = d.msg
  OBVIOUS
<1> QED
  BY <1>1, <1>2, <1>3 DEF Split

\* Mailboxes with frames of this message only.
LEMMA SplitPure ==
    ASSUME NEW c \in Ctx, NEW o \in Seq(Frame), NEW q \in Seq(Frame), NEW a \in Nat,
           Split(c, o, q, a), MsgsIn(q) \subseteq {c.msg}
    PROVE  a + Len(q) = Len(o)
<1>1. PICK j \in 0 .. Len(q) : (\A i \in 1 .. j : q[i].msg # c.msg) /\ a + Len(q) - j = Len(o)
  BY DEF Split
<1>2. j = 0
  <2>1. SUFFICES ASSUME j # 0 PROVE FALSE
    OBVIOUS
  <2>2. 1 \in 1 .. j /\ 1 \in DOMAIN q
    BY <2>1
  <2>3. q[1].msg \in MsgsIn(q)
    BY <2>2 DEF MsgsIn
  <2> QED
    BY <1>1, <2>2, <2>3
<1> QED
  BY <1>1, <1>2

\* The backlog counter, modulo its width.
LEMMA BacklogMod ==
    ASSUME NEW n \in Nat
    PROVE  Inc8(n % BYTE) = (n + 1) % BYTE /\ (n > 0 => Dec8(n % BYTE) = (n - 1) % BYTE)
<1>1. BYTE \in Nat /\ BYTE > 1
  BY SegTypes
<1>2. ASSUME NEW x \in Nat PROVE Inc8(x % BYTE) = (x + 1) % BYTE
  <2> DEFINE p == x \div BYTE
             r == x % BYTE
  <2>1. x = BYTE * p + r /\ p \in Nat /\ r \in 0 .. BYTE - 1
    BY <1>1
  <2> HIDE DEF p, r
  <2>2. CASE r + 1 < BYTE
    <3>1. x + 1 = BYTE * p + (r + 1) /\ r + 1 \in 0 .. BYTE - 1
      BY <1>1, <2>1, <2>2
    <3>2. (x + 1) % BYTE = r + 1
      BY <1>1, <2>1, <3>1
    <3> QED
      BY <1>1, <2>1, <2>2, <3>2 DEF Inc8, r
  <2>3. CASE r + 1 = BYTE
    <3>1. x + 1 = BYTE * (p + 1)
      BY <1>1, <2>1, <2>3
    <3>2. (x + 1) % BYTE = 0
      BY <1>1, <2>1, <3>1
    <3>3. r = BYTE - 1
      BY <1>1, <2>1, <2>3
    <3>4. Inc8(r) = 0
      BY <3>3 DEF Inc8
    <3> QED
      BY <3>2, <3>4 DEF r
  <2> QED
    BY <1>1, <2>1, <2>2, <2>3
<1>3. ASSUME n > 0 PROVE Dec8(n % BYTE) = (n - 1) % BYTE
  <2> DEFINE y == (n - 1) % BYTE
  <2>1. n - 1 \in Nat /\ (n - 1) + 1 = n
    BY <1>3
  <2>2. Inc8(y) = n % BYTE
    BY <1>2, <2>1
  <2>3. y \in 0 .. BYTE - 1
    BY <1>1, <2>1
  <2> HIDE DEF y
  <2>4. Dec8(Inc8(y)) = y
    BY <1>1, <2>3 DEF Dec8, Inc8
  <2> QED
    BY <2>2, <2>4 DEF y
<1> QED
  BY <1>2, <1>3

\* backlog++ and backlog-- undo each other, also where they wrap around.
LEMMA BacklogInverse ==
    ASSUME NEW b \in Bytes
    PROVE  Inc8(Dec8(b)) = b /\ Dec8(Inc8(b)) = b /\ Dec8(b) \in Bytes /\ (Dec8(b) = 0 => b = 1)
<1>1. BYTE \in Nat /\ BYTE > 1
  BY SegTypes
<1> QED
  BY <1>1 DEF Bytes, Inc8, Dec8

-----------------------------------------------------------------------------
(* Steps of one context *)

\* A sequence without elements is empty.
LEMMA EmptySeq == ASSUME NEW s \in Seq(Frame), Len(s) = 0 PROVE s = <<>>
  OBVIOUS

\* A context without a message sends nothing.
LEMMA OkNoMsg ==
    ASSUME NEW c, NEW o, NEW l, NEW q, NEW a, NEW p, OkOk(c, o, l, q, a, p), c.msg \notin Msgs,
           NEW o2, NEW l2, NEW a2
    PROVE  OkOk(c, o2, l2, q, a2, p)
  BY DEF OkOk

\* A step that hands over and receives nothing.
LEMMA OkSame ==
    ASSUME NEW c, NEW o, NEW l, NEW q, NEW a, NEW p, OkOk(c, o, l, q, a, p),
           NEW d, d.msg = c.msg, NEW p2,
           Streams(d, p2) => Streams(c, p) /\ d.backlog = c.backlog /\ (p = "cf" <=> p2 = "cf"),
           d.state \in {"WAIT_BACKLOG", "WAIT_FIN"} => d.state = c.state
    PROVE  OkOk(d, o, l, q, a, p2)
<1>1. c.msg \in Msgs /\ Split(c, o, q, a) => Split(d, o, q, a)
  BY DEF Split
<1>2. Streams(d, p2) => MsgsIn(q) \subseteq {d.msg} /\ Counted(d, q, p2)
  BY DEF OkOk, Counted
<1> QED
  BY <1>1, <1>2 DEF OkOk

\* Clear to send: the peer has every frame sent so far.
LEMMA OkCts ==
    ASSUME NEW c, NEW o, NEW l, NEW a, OkOk(c, o, l, <<>>, a, "no"),
           NEW d, d.msg = c.msg, d.state = "SEND_CF", d.backlog = 0
    PROVE  OkOk(d, o, l, <<>>, a, "no")
<1>1. Split(c, o, <<>>, a) => Split(d, o, <<>>, a)
  BY DEF Split
<1>2. Len(<<>>) = 0 /\ 0 % BYTE = 0
  BY SegTypes
<1>3. Counted(d, <<>>, "no") /\ MsgsIn(<<>>) \subseteq {d.msg}
  BY <1>2 DEF Counted, MsgsIn
<1> QED
  BY <1>1, <1>3 DEF OkOk

\* A frame handed to the controller: the first one, or a consecutive one.
LEMMA OkSent ==
    ASSUME NEW c \in Ctx, NEW o \in Seq(Frame), NEW l, NEW q \in Seq(Frame), NEW a \in Nat, NEW p,
           OkOk(c, o, l, q, a, p), p \in {"no", "sem"},
           NEW d, d.msg = c.msg, d.backlog = c.backlog, d.state \in {"SEND_FF", "SEND_CF", "ERR"},
           NEW f \in Frame, f.msg = c.msg, NEW o2 \in Seq(Frame), Len(o2) = Len(o) + 1,
           NEW p2 \in {"ff", "cf"}, p2 = "ff" => d.state = "SEND_FF", p2 = "cf" => Streams(c, p)
    PROVE  OkOk(d, o2, l, Append(q, f), a, p2)
<1>1. c.msg \in Msgs => Split(d, o2, Append(q, f), a)
  BY SplitAppend DEF OkOk
<1>2. CASE p2 = "ff"
  <2>1. ~Streams(d, p2)
    BY <1>2 DEF Streams
  <2> QED
    BY <1>1, <2>1 DEF OkOk
<1>3. CASE p2 = "cf"
  <2>1. MsgsIn(Append(q, f)) \subseteq {d.msg}
    <3>1. MsgsIn(q) \subseteq {c.msg}
      BY <1>3 DEF OkOk
    <3> QED
      BY <3>1, InMailboxes
  <2>2. c.backlog = Len(q) % BYTE
    BY <1>3 DEF OkOk, Counted
  <2>3. Len(q) \in Nat /\ Len(Append(q, f)) = Len(q) + 1
    OBVIOUS
  <2>4. Inc8(d.backlog) = Len(Append(q, f)) % BYTE
    BY <2>2, <2>3, BacklogMod
  <2>5. Counted(d, Append(q, f), p2)
    BY <1>3, <2>4 DEF Counted
  <2> QED
    BY <1>1, <2>1, <2>5 DEF OkOk
<1> QED
  BY <1>2, <1>3

\* send_cf counts its frame.
LEMMA OkCount ==
    ASSUME NEW c \in Ctx, NEW o \in Seq(Frame), NEW l \in Nat, NEW q, NEW a,
           OkOk(c, o, l, q, a, "cf"), SentOk(c, o, l, "cf"), c.msg \in Msgs,
           NEW d, d.msg = c.msg, d.backlog = Inc8(c.backlog), NEW p2 \in {"no", "sem"},
           d.state # "WAIT_FIN", d.state = "WAIT_BACKLOG" => c.rem = 0
    PROVE  OkOk(d, o, l, q, a, p2)
<1>1. Split(d, o, q, a)
  BY DEF OkOk, Split
<1>2. MsgsIn(q) \subseteq {d.msg} /\ Counted(d, q, p2)
  BY DEF OkOk, Counted, Streams
<1>3. d.state = "WAIT_BACKLOG" => Len(o) = NumSegs(l)
  BY DEF SentOk
<1> QED
  BY <1>1, <1>2, <1>3 DEF OkOk

\* A frame transmitted.
LEMMA OkTx ==
    ASSUME NEW c \in Ctx, NEW o \in Seq(Frame), NEW l, NEW q \in Seq(Frame), q # <<>>,
           NEW a \in Nat, NEW p \in {"no", "ff", "cf", "sem"}, OkOk(c, o, l, q, a, p),
           c.state = "WAIT_BACKLOG" => p = "no" /\ Len(q) <= BYTE,
           NEW d, d.msg = c.msg, d.backlog = Dec8(c.backlog),
           \/ d.state = c.state
           \/ c.state = "WAIT_BACKLOG" /\ Dec8(c.backlog) = 0 /\ d.state = "WAIT_FIN",
           NEW a2, a2 = IF Head(q).msg = c.msg THEN a + 1 ELSE a
    PROVE  OkOk(d, o, l, Tail(q), a2, p)
<1>0. Len(q) \in Nat /\ Len(q) > 0 /\ Len(Tail(q)) = Len(q) - 1 /\ c.backlog \in Bytes
  BY DEF Ctx
<1>b. BYTE \in Nat /\ BYTE > 1
  BY SegTypes
<1>1. c.msg \in Msgs => Split(d, o, Tail(q), a2)
  BY SplitTail DEF OkOk
<1>2. MsgsIn(Tail(q)) \subseteq MsgsIn(q)
  <2>1. Head(q) \in Frame
    OBVIOUS
  <2> QED
    BY <2>1, InMailboxes
<1>3. ASSUME Streams(d, p) PROVE MsgsIn(Tail(q)) \subseteq {d.msg} /\ Counted(d, Tail(q), p)
  <2>1. Streams(c, p)
    BY <1>3 DEF Streams
  <2>2. MsgsIn(q) \subseteq {c.msg} /\ Counted(c, q, p)
    BY <2>1 DEF OkOk
  <2>3. CASE p = "cf"
    <3>1. Inc8(c.backlog) = Len(q) % BYTE
      BY <2>2, <2>3 DEF Counted
    <3>2. Dec8(Inc8(c.backlog)) = (Len(q) - 1) % BYTE
      BY <1>0, <3>1, BacklogMod
    <3>3. Inc8(d.backlog) = Len(Tail(q)) % BYTE
      BY <1>0, <3>2, BacklogInverse
    <3> QED
      BY <1>2, <2>2, <2>3, <3>3 DEF Counted
  <2>4. CASE p # "cf"
    <3>1. c.backlog = Len(q) % BYTE
      BY <2>2, <2>4 DEF Counted
    <3>2. d.backlog = Len(Tail(q)) % BYTE
      BY <1>0, <3>1, BacklogMod
    <3> QED
      BY <1>2, <2>2, <2>4, <3>2 DEF Counted
  <2> QED
    BY <2>3, <2>4
<1>4. ASSUME d.state = "WAIT_FIN" PROVE Tail(q) = <<>>
  <2>1. CASE c.state = "WAIT_FIN"
    BY <2>1 DEF OkOk
  <2>2. CASE c.state = "WAIT_BACKLOG" /\ Dec8(c.backlog) = 0
    <3>1. Streams(c, p) /\ p # "cf" /\ Len(q) <= BYTE
      BY <2>2 DEF Streams
    <3>2. c.backlog = Len(q) % BYTE
      BY <3>1 DEF OkOk, Counted
    <3>3. Len(q) % BYTE = 1
      BY <1>0, <2>2, <3>2, BacklogInverse
    <3>4. Len(q) # BYTE
      <4>1. BYTE % BYTE = 0
        BY <1>b
      <4> QED
        BY <3>3, <4>1
    <3>5. Len(q) % BYTE = Len(q)
      <4>1. ASSUME NEW n \in Nat, NEW k \in Nat, n <= k, n # k PROVE n % k = n
        <5>1. n < k
          BY <4>1
        <5> QED
          BY <5>1
      <4>2. Len(q) <= BYTE
        BY <3>1
      <4>3. Len(q) \in Nat
        BY <1>0
      <4> QED
        BY <1>b, <3>4, <4>1, <4>2, <4>3
    <3>6. Len(Tail(q)) = 0
      BY <1>0, <3>3, <3>5
    <3>7. Tail(q) \in Seq(Frame)
      OBVIOUS
    <3> QED
      BY <3>6, <3>7, EmptySeq
  <2> QED
    BY <1>4, <2>1, <2>2
<1>5. d.state \in {"WAIT_BACKLOG", "WAIT_FIN"} => d.msg \in Msgs /\ Len(o) = NumSegs(l)
  BY DEF OkOk
<1> QED
  BY <1>1, <1>3, <1>4, <1>5 DEF OkOk

-----------------------------------------------------------------------------
(* Steps of the system *)

\* The context is at rest, or about to report an error.
Quiet(t) == sctx[t].state \in {"RESET", "ERR"} /\ Phase(t) = "no"

\* A step of one context: only one that is not quiet hands frames over, and a
\* result ISOTP_N_OK is reported for a message that is done with.
LEMMA OkFrame ==
    ASSUME TypeOK, TypeOK', OrderInv, OkInv, NEW u \in Targets, calls' = calls, len' = len,
           \A v \in Targets : v # u => sctx'[v] = sctx[v] /\ Phase(v)' = Phase(v) /\ mbox'[v] = mbox[v],
           sctx'[u].msg = sctx[u].msg,
           \A k \in Msgs : k # sctx[u].msg => out'[k] = out[k],
           \A k \in Msgs : k \notin MsgsIn(mbox[u]) => acked'[k] = acked[k],
           MsgsIn(mbox'[u]) \subseteq
              MsgsIn(mbox[u]) \cup (IF Quiet(u) THEN {} ELSE {sctx[u].msg} \cap Msgs),
           Quiet(u) => Quiet(u)',
           \/ report' = report
           \/ \E e \in Errors : /\ report' = [report EXCEPT ![sctx[u].msg] = Append(@, e)]
                                /\ e = "OK" => DoneAt(sctx[u].msg)',
           OkAt(u)'
    PROVE  OkInv'
<1> DEFINE m == sctx[u].msg
<1>0. /\ sctx \in [Targets -> Ctx] /\ report \in [Msgs \cup {NoMsg} -> Seq(Errors)]
      /\ \A v \in Targets : sctx[v].msg \in Msgs \cup {NoMsg}
  BY DEF TypeOK, Ctx
<1>n. calls \in Nat /\ (\A k \in Msgs : k \in Nat /\ k > 0) /\ NoMsg \notin Msgs
  BY SendAssumptions DEF TypeOK, SendAssumptions, Msgs, NoMsg
<1>a. (\A t \in Targets : sctx[t].msg <= calls)
      /\ \A t, v \in Targets : t # v /\ sctx[t].msg \in Msgs => sctx[t].msg # sctx[v].msg
  BY <1>n DEF OrderInv, Numbered
<1>1. ASSUME NEW v \in Targets, v # u PROVE OkAt(v)'
  <2>1. OkOk(sctx[v], out[sctx[v].msg], len[sctx[v].msg], mbox[v], acked[sctx[v].msg], Phase(v))
    BY DEF OkInv, OkAt
  <2>2. CASE sctx[v].msg \in Msgs
    <3>1. sctx[v].msg # m /\ sctx[v].msg \notin MsgsIn(mbox[u])
      BY <1>1, <1>a, <2>2 DEF OkInv, Apart
    <3>2. out'[sctx[v].msg] = out[sctx[v].msg] /\ acked'[sctx[v].msg] = acked[sctx[v].msg]
      BY <2>2, <3>1
    <3> QED
      BY <1>1, <2>1, <3>2 DEF OkAt
  <2>3. CASE sctx[v].msg \notin Msgs
    <3>1. OkOk(sctx[v], out'[sctx[v].msg], len[sctx[v].msg], mbox[v], acked'[sctx[v].msg], Phase(v))
      BY <2>1, <2>3, OkNoMsg
    <3> QED
      BY <1>1, <3>1 DEF OkAt
  <2> QED
    BY <2>2, <2>3
<1>2. Apart'
  <2>1. ASSUME NEW t \in Targets PROVE MsgsIn(mbox'[t]) \subseteq 1 .. calls
    <3>1. {m} \cap Msgs \subseteq 1 .. calls
      BY <1>a, <1>n
    <3> QED
      BY <3>1 DEF OkInv, Apart
  <2>2. ASSUME NEW t \in Targets, NEW v \in Targets, t # v, sctx'[t].msg \in Msgs
        PROVE  sctx'[t].msg \notin MsgsIn(mbox'[v])
    <3>1. sctx'[t].msg = sctx[t].msg /\ sctx[t].msg # sctx[v].msg /\ sctx[t].msg \notin MsgsIn(mbox[v])
      BY <1>a, <2>2 DEF OkInv, Apart
    <3> QED
      BY <3>1
  <2>3. ASSUME NEW k \in Msgs, k > calls PROVE acked'[k] = 0 /\ report'[k] = <<>>
    <3>1. k # m
      BY <1>a, <1>n, <2>3
    <3>2. k \notin MsgsIn(mbox[u])
      BY <1>n, <2>3 DEF OkInv, Apart
    <3>3. report'[k] = report[k]
      BY <1>0, <3>1
    <3> QED
      BY <2>3, <3>2, <3>3 DEF OkInv, Apart
  <2> QED
    BY <2>1, <2>2, <2>3 DEF Apart
<1>3. ASSUME NEW k \in Msgs, Done(k)' PROVE DoneAt(k)'
  <2>1. CASE Done(k)
    <3>1. DoneAt(k)
      BY <2>1 DEF OkInv
    <3>2. acked'[k] = acked[k]
      BY <3>1 DEF DoneAt
    <3>3. ASSUME NEW v \in Targets, v # u
          PROVE  /\ k \notin MsgsIn(mbox'[v])
                 /\ sctx'[v].msg = k => sctx'[v].state \in {"RESET", "ERR"} /\ Phase(v)' = "no"
      BY <3>1, <3>3 DEF DoneAt
    <3>4. sctx[u].msg = k => Quiet(u)
      BY <3>1 DEF DoneAt, Quiet
    <3>5. k \notin MsgsIn(mbox'[u])
      BY <3>1, <3>4 DEF DoneAt
    <3>6. sctx'[u].msg = k => sctx'[u].state \in {"RESET", "ERR"} /\ Phase(u)' = "no"
      BY <3>4 DEF Quiet
    <3>7. acked'[k] = NumSegs(len'[k])
      BY <3>1, <3>2 DEF DoneAt
    <3> QED
      BY <3>3, <3>5, <3>6, <3>7 DEF DoneAt
  <2>2. CASE ~Done(k)
    <3>1. report' # report
      BY <1>3, <2>2 DEF Done
    <3>2. PICK e \in Errors : /\ report' = [report EXCEPT ![m] = Append(report[m], e)]
                              /\ e = "OK" => DoneAt(m)'
      BY <3>1
    <3>3. k = m
      <4>1. k # m => report'[k] = report[k]
        BY <1>0, <3>2
      <4> QED
        BY <1>3, <2>2, <4>1 DEF Done
    <3>4. report[m] \in Seq(Errors) /\ report'[m] = Append(report[m], e)
      BY <1>0, <3>2
    <3>5. PICK i \in DOMAIN report'[m] : report'[m][i] = "OK"
      BY <1>3, <3>3 DEF Done
    <3>6. i = Len(report[m]) + 1
      <4>1. SUFFICES ASSUME i # Len(report[m]) + 1 PROVE FALSE
        OBVIOUS
      <4>2. i \in DOMAIN report[m] /\ report'[m][i] = report[m][i]
        BY <3>4, <3>5, <4>1
      <4> QED
        BY <1>3, <2>2, <3>3, <3>5, <4>2 DEF Done
    <3>7. e = "OK"
      BY <3>4, <3>5, <3>6
    <3> HIDE DEF m
    <3> QED
      BY <3>2, <3>3, <3>7 DEF m
  <2> QED
    BY <2>1, <2>2
<1> QED
  BY <1>1, <1>2, <1>3 DEF OkInv

\* What handing over a frame does.
LEMMA HandFacts ==
    ASSUME TypeOK, TypeOK', NEW u \in Targets, NEW f, HandToController(u, f), f.msg = sctx[u].msg
    PROVE  LET m == sctx[u].msg IN
           /\ f \in Frame /\ mbox'[u] = Append(mbox[u], f)
           /\ \A v \in Targets : v # u => mbox'[v] = mbox[v]
           /\ out'[m] \in Seq(Frame) /\ Len(out'[m]) = Len(out[m]) + 1
           /\ \A k \in Msgs : k # m => out'[k] = out[k]
           /\ MsgsIn(mbox'[u]) \subseteq MsgsIn(mbox[u]) \cup {m}
<1> DEFINE m == sctx[u].msg
<1>1. /\ mbox \in [Targets -> Seq(Frame)] /\ mbox' \in [Targets -> Seq(Frame)]
      /\ out \in [Msgs \cup {NoMsg} -> Seq(Frame)] /\ out' \in [Msgs \cup {NoMsg} -> Seq(Frame)]
      /\ m \in Msgs \cup {NoMsg}
  BY DEF TypeOK, Ctx
<1>2. mbox' = [mbox EXCEPT ![u] = Append(mbox[u], f)] /\ out' = [out EXCEPT ![m] = Append(out[m], f)]
  BY DEF HandToController
<1>3. mbox'[u] = Append(mbox[u], f) /\ out'[m] = Append(out[m], f)
  BY <1>1, <1>2
<1>4. f \in Frame
  <2>1. Append(mbox[u], f) \in Seq(Frame) /\ mbox[u] \in Seq(Frame)
    BY <1>1, <1>3
  <2>2. Len(mbox[u]) + 1 \in DOMAIN Append(mbox[u], f) /\ Append(mbox[u], f)[Len(mbox[u]) + 1] = f
    BY <2>1
  <2> QED
    BY <2>1, <2>2
<1>5. MsgsIn(mbox'[u]) \subseteq MsgsIn(mbox[u]) \cup {m}
  BY <1>1, <1>3, <1>4, InMailboxes
<1>6. Len(out'[m]) = Len(out[m]) + 1
  BY <1>1, <1>3, <1>4
<1> QED
  BY <1>1, <1>2, <1>3, <1>4, <1>5, <1>6

\* A consecutive frame.
LEMMA OkSendCf ==
    ASSUME TypeOK, TypeOK', OrderInv, OkInv, NEW u \in Targets, NEW c \in Ctx, SendCf(u, c),
           Keeps(c, sctx[u]), c.state = sctx[u].state, c.backlog = sctx[u].backlog,
           NEW p \in {"no", "sem"}, Phase(u) = p, p = "no" => c.state = "SEND_CF",
           \A v \in Targets : v # u => Phase(v) = "no",
           calls' = calls, len' = len, acked' = acked, report' = report
    PROVE  OkInv'
<1> DEFINE m == sctx[u].msg
           n == Min2(sctx[u].rem, CfLen)
           f == [type |-> "CF", sn |-> sctx[u].sn, msg |-> m, off |-> sctx[u].off,
                 n |-> n, len |-> 0]
           d == sctx'[u]
<1>0. /\ sctx[u] \in Ctx /\ out[m] \in Seq(Frame) /\ mbox[u] \in Seq(Frame) /\ acked[m] \in Nat
      /\ out \in [Msgs \cup {NoMsg} -> Seq(Frame)]
  BY DEF TypeOK, Ctx
<1>1. OrderOk(sctx[u], out[m], len[m], p) /\ OkOk(sctx[u], out[m], len[m], mbox[u], acked[m], p)
  BY DEF OrderInv, OrderAt, OkInv, OkAt
<1>2. m \in Msgs /\ sctx[u].state \in {"SEND_CF", "ERR"}
  BY <1>1 DEF OrderOk
<1>3. /\ \A v \in Targets : v # u => sctx'[v] = sctx[v]
      /\ d.msg = m /\ d.backlog = sctx[u].backlog
      /\ \/ HandToController(u, f) /\ cur' = [pc |-> "cf", t |-> u] /\ d.state = sctx[u].state
         \/ UNCHANGED <<mbox, out>> /\ cur' = Idle /\ d.state = "ERR"
  BY SendCfFacts
<1>4. Streams(sctx[u], p) /\ ~Quiet(u)
  BY DEF Streams, Quiet
<1>f. f.msg = m
  OBVIOUS
<1> HIDE DEF f
<1>5. CASE HandToController(u, f) /\ cur' = [pc |-> "cf", t |-> u] /\ d.state = sctx[u].state
  <2>1. /\ f \in Frame /\ mbox'[u] = Append(mbox[u], f)
        /\ \A v \in Targets : v # u => mbox'[v] = mbox[v]
        /\ out'[m] \in Seq(Frame) /\ Len(out'[m]) = Len(out[m]) + 1
        /\ \A k \in Msgs : k # m => out'[k] = out[k]
        /\ MsgsIn(mbox'[u]) \subseteq MsgsIn(mbox[u]) \cup {m}
    BY <1>5, <1>f, HandFacts
  <2>2. OkOk(d, out'[m], len[m], Append(mbox[u], f), acked[m], "cf")
    <3>1. d.state \in {"SEND_FF", "SEND_CF", "ERR"}
      BY <1>2, <1>5
    <3> HIDE DEF d
    <3> QED
      BY <1>0, <1>1, <1>3, <1>4, <1>f, <2>1, <3>1, OkSent
  <2>3. Phase(u)' = "cf" /\ \A v \in Targets : v # u => Phase(v)' = "no"
    BY <1>5 DEF Phase
  <2>4. OkAt(u)'
    BY <1>3, <2>1, <2>2, <2>3 DEF OkAt
  <2>5. MsgsIn(mbox'[u]) \subseteq
              MsgsIn(mbox[u]) \cup (IF Quiet(u) THEN {} ELSE {sctx[u].msg} \cap Msgs)
    BY <1>2, <1>4, <2>1
  <2> QED
    BY <1>3, <1>4, <2>1, <2>3, <2>4, <2>5, OkFrame
<1>6. CASE UNCHANGED <<mbox, out>> /\ cur' = Idle /\ d.state = "ERR"
  <2>1. \A v \in Targets : Phase(v)' = "no"
    BY <1>6 DEF Phase, Idle
  <2>2. ~Streams(d, "no")
    BY <1>6 DEF Streams
  <2>3. OkOk(d, out[m], len[m], mbox[u], acked[m], "no")
    BY <1>1, <1>3, <1>6, <2>2, OkSame
  <2>4. OkAt(u)'
    BY <1>3, <1>6, <2>1, <2>3 DEF OkAt
  <2>5. MsgsIn(mbox'[u]) \subseteq
              MsgsIn(mbox[u]) \cup (IF Quiet(u) THEN {} ELSE {sctx[u].msg} \cap Msgs)
    BY <1>6
  <2> QED
    BY <1>3, <1>4, <1>6, <2>1, <2>4, <2>5, OkFrame
<1> QED
  BY <1>3, <1>5, <1>6

\* The controller and the peers behave, and the application waits for its turn.
CleanUse == Faults \cap {"busy", "txerr", "strayfc"} = {}

\* When the last frame is handed over, backlog can count what is in the controller.
BacklogFits == \A t \in Targets : sctx[t].state = "WAIT_BACKLOG" => Len(mbox[t]) <= BYTE

\* What the interrupt handlers do to the mailboxes and the backlog.
LEMMA IsrBacklog ==
    ASSUME CleanUse, TypeOK, FreedIsIdle, NEW u \in Targets, Driver(u) \/ Peer(u) \/ Timeout(u)
    PROVE  \/ /\ Driver(u) /\ mbox[u] # <<>> /\ mbox' = [mbox EXCEPT ![u] = Tail(mbox[u])]
              /\ acked' = [acked EXCEPT ![Head(mbox[u]).msg] = acked[Head(mbox[u]).msg] + 1]
              /\ sctx'[u].backlog = Dec8(sctx[u].backlog) /\ sctx'[u].msg = sctx[u].msg
              /\ \/ sctx'[u].state = sctx[u].state
                 \/ /\ sctx[u].state = "WAIT_BACKLOG" /\ Dec8(sctx[u].backlog) = 0
                    /\ sctx'[u].state = "WAIT_FIN"
           \/ /\ mbox' = mbox /\ acked' = acked
              /\ \/ /\ sctx'[u].backlog = sctx[u].backlog
                    /\ sctx'[u].state \in {sctx[u].state, "ERR"}
                 \/ sctx[u].state = "WAIT_FC" /\ sctx'[u].state \in {"WAIT_FC", "ERR"}
                 \/ /\ sctx[u].state = "WAIT_FC" /\ sctx'[u].state = "SEND_CF"
                    /\ sctx'[u].backlog = 0 /\ mbox[u] = <<>>
                 \/ sctx[u].state = "RESET" /\ sctx'[u].state = "ERR" /\ Phase(u) = "no"
<1>0. sctx \in [Targets -> Ctx] /\ sctx[u] \in Ctx
  BY DEF TypeOK
<1>1. CASE Driver(u)
  <2>1. PICK ok \in BOOLEAN : TxDone(u, ok)
    BY <1>1 DEF Driver
  <2>2. ok
    BY <2>1 DEF TxDone, CleanUse
  <2>3. /\ mbox[u] # <<>> /\ mbox' = [mbox EXCEPT ![u] = Tail(mbox[u])]
        /\ acked' = [acked EXCEPT ![Head(mbox[u]).msg] = acked[Head(mbox[u]).msg] + 1]
    BY <2>1, <2>2 DEF TxDone
  <2>4. sctx' = [sctx EXCEPT ![u] = TxCallback(sctx[u])]
    BY <2>1 DEF TxDone
  <2>5. sctx'[u] = TxCallback(sctx[u])
    BY <1>0, <2>4
  <2>6. /\ Keeps(TxCallback(sctx[u]), sctx[u]) /\ TxCallback(sctx[u]).backlog = Dec8(sctx[u].backlog)
        /\ \/ TxCallback(sctx[u]).state = sctx[u].state
           \/ sctx[u].state = "WAIT_BACKLOG" /\ Dec8(sctx[u].backlog) = 0
              /\ TxCallback(sctx[u]).state = "WAIT_FIN"
    BY <1>0, KeepHelpers DEF Errors
  <2> QED
    BY <1>1, <2>3, <2>5, <2>6 DEF Keeps
<1>2. CASE Timeout(u)
  <2> DEFINE c == [sctx[u] EXCEPT !.timer = FALSE]
             d == IF c.state # "SEND_CF" THEN send_report_error(c, "TIMEOUT_BS") ELSE c
  <2>1. sctx' = [sctx EXCEPT ![u] = d] /\ mbox' = mbox /\ acked' = acked
    BY <1>2 DEF Timeout, hist
  <2>2. d.backlog = sctx[u].backlog /\ d.state \in {sctx[u].state, "ERR"}
    BY <1>0 DEF send_report_error, Ctx
  <2> HIDE DEF d
  <2>3. sctx'[u] = d
    BY <1>0, <2>1
  <2> QED
    BY <2>1, <2>2, <2>3
<1>3. CASE Peer(u)
  <2>0. mbox' = mbox /\ acked' = acked
    BY <1>3 DEF Peer, FcRx, HandleFc
  <2>1. PICK fc \in FC : FcRx(u, fc)
    BY <1>3 DEF Peer
  <2>2. sctx' = [sctx EXCEPT ![u] = send_can_rx(get_send_ctx(u), fc)]
    BY <2>1 DEF FcRx, HandleFc
  <2>3. sctx'[u] = send_can_rx(get_send_ctx(u), fc)
    BY <1>0, <2>2
  <2>4. CASE sctx[u].alloc
    <3>1. get_send_ctx(u) = sctx[u]
      BY <2>4 DEF get_send_ctx
    <3>2. PeerOwesFc(u)
      BY <2>1, <2>4 DEF FcRx, FcMayArrive, CleanUse
    <3>3. \/ sctx'[u].state = "ERR"
          \/ sctx[u].state = "WAIT_FC" /\ sctx'[u].state = "WAIT_FC"
          \/ sctx[u].state = "WAIT_FC" /\ sctx'[u].state = "SEND_CF" /\ sctx'[u].backlog = 0
      BY <1>0, <2>3, <3>1, KeepFc
    <3>4. sctx[u].state # "WAIT_FC" => sctx'[u].backlog = sctx[u].backlog
      <4>1. SUFFICES ASSUME sctx[u].state # "WAIT_FC" PROVE sctx'[u].backlog = sctx[u].backlog
        OBVIOUS
      <4>2. sctx'[u] = send_report_error(sctx[u], "UNEXP_PDU")
        BY <2>3, <3>1, <4>1 DEF send_can_rx
      <4> QED
        BY <1>0, <4>2 DEF send_report_error, Ctx
    <3> QED
      BY <2>0, <3>2, <3>3, <3>4 DEF PeerOwesFc
  <2>5. CASE ~sctx[u].alloc
    <3>1. sctx[u].state = "RESET" /\ Phase(u) = "no"
      BY <2>5 DEF FreedIsIdle, FreedIsIdleAt, Phase
    <3>2. sctx'[u].state = "ERR"
      <4>1. get_send_ctx(u) \in Ctx /\ get_send_ctx(u).state = "SEND_FF"
        <5>1. get_send_ctx(u) = NewSendCtx(sctx[u])
          BY <2>5 DEF get_send_ctx
        <5>2. NewSendCtx(sctx[u]) \in Ctx /\ NewSendCtx(sctx[u]).state = "SEND_FF"
          BY <1>0, CtxHelperTypes, FlowHelpers DEF Errors
        <5> QED
          BY <5>1, <5>2
      <4> QED
        BY <2>3, <4>1, KeepFc
    <3> QED
      BY <2>0, <3>1, <3>2
  <2> QED
    BY <2>4, <2>5
<1> QED
  BY <1>1, <1>2, <1>3

\* The interrupt handlers.
LEMMA OkIsr ==
    ASSUME CleanUse, TypeOK, TypeOK', FreedIsIdle, OrderInv, BacklogFits, OkInv, NEW u \in Targets,
           Driver(u) \/ Peer(u) \/ Timeout(u)
    PROVE  OkInv'
<1> DEFINE m == sctx[u].msg
           p == Phase(u)
<1>0. /\ sctx[u] \in Ctx /\ out[m] \in Seq(Frame) /\ mbox \in [Targets -> Seq(Frame)]
      /\ mbox[u] \in Seq(Frame) /\ acked[m] \in Nat /\ acked \in [Msgs \cup {NoMsg} -> Nat]
      /\ m \in Msgs \cup {NoMsg}
  BY DEF TypeOK, Ctx
<1>1. /\ cur' = cur /\ calls' = calls /\ len' = len /\ report' = report /\ out' = out
      /\ \A v \in Targets : v # u => sctx'[v] = sctx[v]
  BY IsrFacts
<1>2. sctx'[u].msg = m
  BY IsrFacts DEF Keeps
<1>p. (\A v \in Targets : Phase(v)' = Phase(v)) /\ p \in {"no", "ff", "cf", "sem"}
  BY <1>1, PhaseFacts DEF Phase
<1>3. OrderOk(sctx[u], out[m], len[m], p) /\ OkOk(sctx[u], out[m], len[m], mbox[u], acked[m], p)
  BY DEF OrderInv, OrderAt, OkInv, OkAt
<1>4. sctx[u].state \in {"WAIT_BACKLOG", "WAIT_FC"} => p = "no"
  BY <1>3, <1>p DEF OrderOk
<1>5. CASE /\ mbox[u] # <<>> /\ mbox' = [mbox EXCEPT ![u] = Tail(mbox[u])]
           /\ acked' = [acked EXCEPT ![Head(mbox[u]).msg] = acked[Head(mbox[u]).msg] + 1]
           /\ sctx'[u].backlog = Dec8(sctx[u].backlog)
           /\ \/ sctx'[u].state = sctx[u].state
              \/ /\ sctx[u].state = "WAIT_BACKLOG" /\ Dec8(sctx[u].backlog) = 0
                 /\ sctx'[u].state = "WAIT_FIN"
  <2>1. Head(mbox[u]) \in Frame /\ Head(mbox[u]).msg \in Msgs \cup {NoMsg}
    <3>1. Head(mbox[u]) \in Frame
      BY <1>0, <1>5
    <3> QED
      BY <3>1 DEF Frame
  <2>2. MsgsIn(Tail(mbox[u])) \subseteq MsgsIn(mbox[u]) /\ Head(mbox[u]).msg \in MsgsIn(mbox[u])
    BY <1>0, <1>5, <2>1, InMailboxes
  <2>3. mbox'[u] = Tail(mbox[u]) /\ \A v \in Targets : v # u => mbox'[v] = mbox[v]
    BY <1>0, <1>5
  <2>4. acked'[m] = IF Head(mbox[u]).msg = m THEN acked[m] + 1 ELSE acked[m]
    BY <1>0, <1>5, <2>1
  <2>5. \A k \in Msgs : k \notin MsgsIn(mbox[u]) => acked'[k] = acked[k]
    BY <1>0, <1>5, <2>2
  <2>6. OkOk(sctx'[u], out[m], len[m], Tail(mbox[u]), acked'[m], p)
    <3>1. sctx[u].state = "WAIT_BACKLOG" => p = "no" /\ Len(mbox[u]) <= BYTE
      BY <1>4 DEF BacklogFits
    <3> QED
      BY <1>0, <1>2, <1>3, <1>5, <1>p, <2>4, <3>1, OkTx
  <2>7. OkAt(u)'
    BY <1>1, <1>2, <1>p, <2>3, <2>6 DEF OkAt
  <2>8. Quiet(u) => Quiet(u)'
    BY <1>5, <1>p DEF Quiet
  <2>9. MsgsIn(mbox'[u]) \subseteq
              MsgsIn(mbox[u]) \cup (IF Quiet(u) THEN {} ELSE {sctx[u].msg} \cap Msgs)
    BY <2>2, <2>3
  <2> QED
    BY <1>1, <1>2, <1>p, <2>3, <2>5, <2>7, <2>8, <2>9, OkFrame
<1>6. CASE /\ mbox' = mbox /\ acked' = acked
           /\ \/ /\ sctx'[u].backlog = sctx[u].backlog
                 /\ sctx'[u].state \in {sctx[u].state, "ERR"}
              \/ sctx[u].state = "WAIT_FC" /\ sctx'[u].state \in {"WAIT_FC", "ERR"}
              \/ /\ sctx[u].state = "WAIT_FC" /\ sctx'[u].state = "SEND_CF"
                 /\ sctx'[u].backlog = 0 /\ mbox[u] = <<>>
              \/ sctx[u].state = "RESET" /\ sctx'[u].state = "ERR" /\ Phase(u) = "no"
  <2>1. OkOk(sctx'[u], out[m], len[m], mbox[u], acked[m], p)
    <3>1. CASE sctx'[u].backlog = sctx[u].backlog /\ sctx'[u].state \in {sctx[u].state, "ERR"}
      <4>1. Streams(sctx'[u], p) => Streams(sctx[u], p)
        BY <3>1 DEF Streams
      <4> QED
        BY <1>2, <1>3, <3>1, <4>1, OkSame
    <3>2. CASE sctx[u].state = "WAIT_FC" /\ sctx'[u].state \in {"WAIT_FC", "ERR"}
      <4>1. ~Streams(sctx'[u], p)
        BY <1>4, <3>2 DEF Streams
      <4> QED
        BY <1>2, <1>3, <3>2, <4>1, OkSame
    <3>3. CASE /\ sctx[u].state = "WAIT_FC" /\ sctx'[u].state = "SEND_CF"
               /\ sctx'[u].backlog = 0 /\ mbox[u] = <<>>
      BY <1>2, <1>3, <1>4, <3>3, OkCts
    <3>4. CASE sctx[u].state = "RESET" /\ sctx'[u].state = "ERR" /\ Phase(u) = "no"
      <4>1. ~Streams(sctx'[u], p)
        BY <3>4 DEF Streams
      <4> QED
        BY <1>2, <1>3, <3>4, <4>1, OkSame
    <3> QED
      BY <1>6, <3>1, <3>2, <3>3, <3>4
  <2>2. OkAt(u)'
    BY <1>1, <1>2, <1>6, <1>p, <2>1 DEF OkAt
  <2>3. Quiet(u) => Quiet(u)'
    BY <1>6, <1>p DEF Quiet
  <2>4. MsgsIn(mbox'[u]) \subseteq
              MsgsIn(mbox[u]) \cup (IF Quiet(u) THEN {} ELSE {sctx[u].msg} \cap Msgs)
    BY <1>6
  <2> QED
    BY <1>1, <1>2, <1>6, <1>p, <2>2, <2>3, <2>4, OkFrame
<1> QED
  BY <1>5, <1>6, IsrBacklog

\* The application.
LEMMA OkApp ==
    ASSUME CleanUse, TypeOK, TypeOK', FreedIsIdle, OrderInv, OkInv, NEW u \in Targets, App(u)
    PROVE  OkInv'
<1>0. /\ sctx \in [Targets -> Ctx] /\ report \in [Msgs \cup {NoMsg} -> Seq(Errors)]
      /\ len \in [Msgs -> Nat] /\ mbox \in [Targets -> Seq(Frame)]
      /\ \A v \in Targets : sctx[v].msg \in Msgs \cup {NoMsg}
  BY DEF TypeOK, Ctx
<1>n. /\ calls \in Nat /\ MaxSends \in Nat /\ Msgs = 1 .. MaxSends /\ NoMsg \in Nat /\ NoMsg \notin Msgs
      /\ \A k \in Msgs : k \in Nat /\ k > 0
  BY SendAssumptions DEF TypeOK, SendAssumptions, Msgs, NoMsg
<1>1. PICK l \in Lengths : SendSf(u, l) \/ SendRefused(u, l) \/ SendMulti(u, l)
  BY DEF App
<1>2. /\ calls < MaxSends /\ calls' = calls + 1 /\ cur' = cur /\ out' = out /\ mbox' = mbox
      /\ acked' = acked
  BY <1>1 DEF SendSf, SendRefused, SendMulti, MayCall, hist
<1>3. calls + 1 \in Msgs /\ \A k \in Msgs : k > calls' => k > calls /\ k # calls + 1
  BY <1>2, <1>n
<1>4. \A v \in Targets : sctx[v].msg <= calls /\ sctx[v].msg # calls + 1
  <2>1. \A v \in Targets : sctx[v].msg <= calls /\ sctx[v].msg \in Nat
    BY <1>0, <1>n DEF OrderInv, Numbered
  <2> QED
    BY <1>n, <2>1
<1>5. len[calls + 1] = 0 /\ out[calls + 1] = <<>> /\ acked[calls + 1] = 0 /\ report[calls + 1] = <<>>
  <2>1. calls + 1 > calls
    BY <1>n
  <2> QED
    BY <1>3, <2>1 DEF OrderInv, Numbered, OkInv, Apart
<1>6. \A v \in Targets : MsgsIn(mbox[v]) \subseteq 1 .. calls' /\ calls + 1 \notin MsgsIn(mbox[v])
  <2>1. 1 .. calls \subseteq 1 .. calls' /\ calls + 1 \notin 1 .. calls
    BY <1>2, <1>n
  <2> QED
    BY <2>1 DEF OkInv, Apart
<1>p. \A v \in Targets : Phase(v)' = Phase(v)
  BY <1>2 DEF Phase
<1>7. CASE SendSf(u, l) \/ SendRefused(u, l)
  <2>1. sctx' = sctx /\ len' = len
    BY <1>7 DEF SendSf, SendRefused
  <2>2. \A k \in Msgs : k # calls + 1 => report'[k] = report[k]
    BY <1>0, <1>7 DEF SendSf, SendRefused
  <2>3. \A v \in Targets : OkAt(v)'
    BY <1>2, <1>p, <2>1 DEF OkInv, OkAt
  <2>4. Apart'
    BY <1>2, <1>3, <1>6, <2>1, <2>2 DEF OkInv, Apart
  <2>5. ASSUME NEW k \in Msgs, Done(k)' PROVE DoneAt(k)'
    <3>1. k # calls + 1
      BY <1>5, <2>1, <2>5 DEF Done
    <3>2. Done(k)
      BY <2>1, <2>2, <2>5, <3>1 DEF Done
    <3> QED
      BY <1>2, <1>p, <2>1, <3>2 DEF OkInv, DoneAt
  <2> QED
    BY <2>3, <2>4, <2>5 DEF OkInv
<1>8. CASE SendMulti(u, l)
  <2>1. ~sctx[u].alloc /\ report' = report
    BY <1>8 DEF SendMulti, CleanUse
  <2>2. /\ len' = [len EXCEPT ![calls + 1] = l]
        /\ \A v \in Targets : v # u => sctx'[v] = sctx[v]
        /\ sctx'[u].msg = calls + 1 /\ sctx'[u].state = "SEND_FF"
    BY <1>8, <2>1, MultiFacts
  <2>3. \A k \in Msgs : k # calls + 1 => len'[k] = len[k]
    BY <1>0, <2>2
  <2>4. Phase(u)' = "no"
    BY <1>p, <2>1 DEF FreedIsIdle, FreedIsIdleAt, Phase
  <2>5. OkAt(u)'
    <3>1. Split(sctx'[u], <<>>, mbox[u], 0)
      BY <1>0, <1>6, <2>2, SplitNew
    <3>2. ~Streams(sctx'[u], "no")
      BY <2>2 DEF Streams
    <3>3. \A k : OkOk(sctx'[u], <<>>, k, mbox[u], 0, "no")
      BY <2>2, <3>1, <3>2 DEF OkOk
    <3> QED
      BY <1>2, <1>5, <2>2, <2>4, <3>3 DEF OkAt
  <2>6. ASSUME NEW v \in Targets, v # u PROVE OkAt(v)'
    <3>1. OkOk(sctx[v], out[sctx[v].msg], len[sctx[v].msg], mbox[v], acked[sctx[v].msg], Phase(v))
      BY DEF OkInv, OkAt
    <3>2. CASE sctx[v].msg \in Msgs
      <4>1. len'[sctx[v].msg] = len[sctx[v].msg]
        BY <1>4, <2>3, <3>2
      <4> QED
        BY <1>2, <1>p, <2>2, <2>6, <3>1, <4>1 DEF OkAt
    <3>3. CASE sctx[v].msg \notin Msgs
      <4>1. OkOk(sctx[v], out[sctx[v].msg], len'[sctx[v].msg], mbox[v], acked[sctx[v].msg], Phase(v))
        BY <3>1, <3>3, OkNoMsg
      <4> QED
        BY <1>2, <1>p, <2>2, <2>6, <4>1 DEF OkAt
    <3> QED
      BY <3>2, <3>3
  <2>7. Apart'
    <3>1. ASSUME NEW t \in Targets, NEW v \in Targets, t # v, sctx'[t].msg \in Msgs
          PROVE  sctx'[t].msg \notin MsgsIn(mbox'[v])
      <4>1. CASE t = u
        BY <1>2, <1>6, <2>2, <4>1
      <4>2. CASE t # u
        BY <1>2, <2>2, <3>1, <4>2 DEF OkInv, Apart
      <4> QED
        BY <4>1, <4>2
    <3> QED
      BY <1>2, <1>3, <1>6, <2>1, <3>1 DEF OkInv, Apart
  <2>8. ASSUME NEW k \in Msgs, Done(k)' PROVE DoneAt(k)'
    <3>1. k # calls + 1
      BY <1>5, <2>1, <2>8 DEF Done
    <3>2. Done(k)
      BY <2>1, <2>3, <2>8, <3>1 DEF Done
    <3>3. DoneAt(k)
      BY <3>2 DEF OkInv
    <3>4. ASSUME NEW v \in Targets
          PROVE  /\ k \notin MsgsIn(mbox'[v])
                 /\ sctx'[v].msg = k => sctx'[v].state \in {"RESET", "ERR"} /\ Phase(v)' = "no"
      <4>1. CASE v = u
        BY <1>2, <2>2, <3>1, <3>3, <4>1 DEF DoneAt
      <4>2. CASE v # u
        BY <1>2, <1>p, <2>2, <3>3, <4>2 DEF DoneAt
      <4> QED
        BY <4>1, <4>2
    <3>5. acked'[k] = NumSegs(len'[k])
      BY <1>2, <2>3, <3>1, <3>3 DEF DoneAt
    <3> QED
      BY <3>4, <3>5 DEF DoneAt
  <2> QED
    BY <2>5, <2>6, <2>7, <2>8 DEF OkInv
<1> QED
  BY <1>1, <1>7, <1>8

\* The work queue's thread.
LEMMA OkWorker ==
    ASSUME TypeOK, TypeOK', FreedIsIdle, OrderInv, ErrInv, OkInv, Worker
    PROVE  OkInv'
<1>0. /\ sctx \in [Targets -> Ctx] /\ len \in [Msgs -> Nat] /\ mbox \in [Targets -> Seq(Frame)]
      /\ out \in [Msgs \cup {NoMsg} -> Seq(Frame)] /\ acked \in [Msgs \cup {NoMsg} -> Nat]
      /\ \A t \in Targets : sctx[t].msg \in Msgs \cup {NoMsg}
  BY DEF TypeOK, Ctx
<1>a. /\ \A t \in Targets : OrderOk(sctx[t], out[sctx[t].msg], len[sctx[t].msg], Phase(t))
      /\ \A t \in Targets : OkOk(sctx[t], out[sctx[t].msg], len[sctx[t].msg], mbox[t],
                                 acked[sctx[t].msg], Phase(t))
  BY DEF OrderInv, OrderAt, OkInv, OkAt
<1>c. calls' = calls /\ len' = len /\ acked' = acked
  BY WorkerFacts DEF Worker, FinishFf, FinishCf, TakeSem, Work, WorkSendFf, WorkSendCf, WorkWaitSt,
                     WorkFinish, WorkNothing, hist
<1>i. cur' = Idle => \A v \in Targets : Phase(v)' = "no"
  BY DEF Phase, Idle
<1>1. CASE FinishFf
  <2>0. PICK u \in Targets : u = cur.t
    BY <1>1, FinishFfFacts
  <2>1. /\ cur' = Idle /\ out' = out /\ mbox' = mbox /\ report' = report
        /\ \A v \in Targets : v # u => sctx'[v] = sctx[v]
        /\ sctx'[u].msg = sctx[u].msg /\ sctx'[u].state = "WAIT_FC"
    BY <1>1, <2>0, FinishFfFacts DEF Keeps, FinishFf
  <2>2. Phase(u) = "ff" /\ \A v \in Targets : v # u => Phase(v) = "no"
    BY <1>1, <2>0, PhaseFacts DEF FinishFf
  <2>3. ~Streams(sctx'[u], "no") /\ ~Quiet(u)
    BY <2>1, <2>2 DEF Streams, Quiet
  <2>4. OkOk(sctx'[u], out[sctx[u].msg], len[sctx[u].msg], mbox[u], acked[sctx[u].msg], "no")
    BY <1>a, <2>1, <2>3, OkSame
  <2>5. OkAt(u)'
    BY <1>c, <1>i, <2>1, <2>4 DEF OkAt
  <2> QED
    BY <1>c, <1>i, <2>1, <2>2, <2>3, <2>5, OkFrame
<1>2. CASE FinishCf
  <2>0. PICK u \in Targets : u = cur.t
    BY <1>2, FinishCfFacts
  <2> DEFINE m == sctx[u].msg
  <2>1. /\ out' = out /\ mbox' = mbox /\ report' = report
        /\ \A v \in Targets : v # u => sctx'[v] = sctx[v]
        /\ sctx'[u].msg = m /\ sctx'[u].backlog = Inc8(sctx[u].backlog)
        /\ sctx[u].rem = 0 => sctx'[u].state = "WAIT_BACKLOG" /\ cur' = Idle
        /\ sctx[u].rem # 0 => \/ sctx'[u].state \in {"WAIT_FC", "WAIT_ST"} /\ cur' = Idle
                              \/ sctx'[u].state = sctx[u].state /\ cur' = [pc |-> "sem", t |-> u]
    BY <1>2, <2>0, FinishCfFacts DEF FinishCf
  <2>2. Phase(u) = "cf" /\ \A v \in Targets : v # u => Phase(v) = "no"
    BY <1>2, <2>0, PhaseFacts DEF FinishCf
  <2>3. /\ m \in Msgs /\ SentOk(sctx[u], out[m], len[m], "cf") /\ sctx[u].state \in {"SEND_CF", "ERR"}
        /\ OkOk(sctx[u], out[m], len[m], mbox[u], acked[m], "cf")
    BY <1>a, <2>2 DEF OrderOk
  <2>4. PICK p2 \in {"no", "sem"} :
          Phase(u)' = p2 /\ \A v \in Targets : v # u => Phase(v)' = "no"
    <3>1. CASE cur' = Idle
      BY <1>i, <3>1
    <3>2. CASE cur' = [pc |-> "sem", t |-> u]
      BY <3>2 DEF Phase
    <3> QED
      BY <2>1, <3>1, <3>2
  <2>5. sctx'[u].state # "WAIT_FIN" /\ (sctx'[u].state = "WAIT_BACKLOG" => sctx[u].rem = 0)
    BY <2>1, <2>3
  <2>6. sctx[u] \in Ctx /\ out[m] \in Seq(Frame) /\ len[m] \in Nat
    BY <1>0, <2>3
  <2>7. OkOk(sctx'[u], out[m], len[m], mbox[u], acked[m], p2)
    BY <2>1, <2>3, <2>5, <2>6, OkCount
  <2>8. OkAt(u)'
    BY <1>c, <2>1, <2>4, <2>7 DEF OkAt
  <2>9. ~Quiet(u)
    BY <2>2 DEF Quiet
  <2> QED
    BY <1>c, <2>1, <2>2, <2>4, <2>8, <2>9, OkFrame
<1>3. CASE TakeSem
  <2> DEFINE u == cur.t
             c == [sctx[u] EXCEPT !.sem = 0]
  <2>1. Phase(u) = "sem" /\ u \in Targets /\ \A v \in Targets : v # u => Phase(v) = "no"
    BY <1>3, PhaseFacts DEF TakeSem
  <2>2. sctx[u] \in Ctx
    BY <1>0, <2>1
  <2>3. c \in Ctx /\ Keeps(c, sctx[u]) /\ c.state = sctx[u].state /\ c.backlog = sctx[u].backlog
    BY <2>2 DEF Ctx, Keeps
  <2>4. SendCf(u, c) /\ report' = report
    BY <1>3 DEF TakeSem
  <2> HIDE DEF c
  <2>5. "sem" \in {"no", "sem"} /\ "sem" # "no"
    OBVIOUS
  <2> QED
    BY <1>c, <2>1, <2>3, <2>4, <2>5, OkSendCf
<1>4. ASSUME NEW u \in Targets, Work(u) PROVE OkInv'
  <2> DEFINE m == sctx[u].msg
  <2>0. /\ cur = Idle /\ (\A v \in Targets : Phase(v) = "no") /\ sctx[u] \in Ctx
        /\ out[m] \in Seq(Frame) /\ mbox[u] \in Seq(Frame) /\ acked[m] \in Nat
    <3>1. cur = Idle
      BY <1>4 DEF Work, WorkSendFf, WorkSendCf, WorkWaitSt, WorkFinish, WorkNothing, Running
    <3> QED
      BY <1>0, <3>1, PhaseFacts
  <2>1. CASE WorkSendFf(u)
    <3> DEFINE n == Min2(FfLen, sctx[u].rem)
               f == [type |-> "FF", sn |-> 0, msg |-> sctx[u].msg, off |-> sctx[u].off,
                     n |-> n, len |-> sctx[u].rem]
               d == sctx'[u]
    <3>1. /\ cur' = [pc |-> "ff", t |-> u] /\ sctx[u].state = "SEND_FF"
          /\ \A v \in Targets : v # u => sctx'[v] = sctx[v]
          /\ d.msg = m /\ d.state = "SEND_FF"
          /\ HandToController(u, f) \/ UNCHANGED <<mbox, out>>
      BY <2>1, FfFacts
    <3>b. report' = report /\ d.backlog = sctx[u].backlog
      <4> DEFINE r == sctx[u].rem - n
                 o == sctx[u].off + n
                 b == [sctx[u] EXCEPT !.sn = 1, !.rem = r, !.off = o]
      <4>1. sctx' = [sctx EXCEPT ![u] = b] /\ report' = report
        BY <2>1 DEF WorkSendFf
      <4> HIDE DEF r, o
      <4>2. b.backlog = sctx[u].backlog
        BY <2>0 DEF Ctx
      <4> HIDE DEF b
      <4> QED
        BY <1>0, <4>1, <4>2
    <3>2. m \in Msgs
      BY <1>a, <2>0, <3>1 DEF OrderOk
    <3>3. OkOk(sctx[u], out[m], len[m], mbox[u], acked[m], "no")
      BY <1>a, <2>0
    <3>4. Phase(u)' = "ff" /\ (\A v \in Targets : v # u => Phase(v)' = "no") /\ ~Quiet(u)
      BY <3>1 DEF Phase, Quiet
    <3>f. f.msg = m
      OBVIOUS
    <3> HIDE DEF f
    <3>5. CASE HandToController(u, f)
      <4>1. /\ f \in Frame /\ mbox'[u] = Append(mbox[u], f)
            /\ \A v \in Targets : v # u => mbox'[v] = mbox[v]
            /\ out'[m] \in Seq(Frame) /\ Len(out'[m]) = Len(out[m]) + 1
            /\ \A k \in Msgs : k # m => out'[k] = out[k]
            /\ MsgsIn(mbox'[u]) \subseteq MsgsIn(mbox[u]) \cup {m}
        BY <3>5, <3>f, HandFacts
      <4>2. OkOk(d, out'[m], len[m], Append(mbox[u], f), acked[m], "ff")
        <5>1. "ff" \in {"ff", "cf"} /\ "ff" # "cf" /\ "no" \in {"no", "sem"}
          OBVIOUS
        <5> HIDE DEF d
        <5> QED
          BY <2>0, <3>1, <3>3, <3>b, <3>f, <4>1, <5>1, OkSent
      <4>3. OkAt(u)'
        BY <1>c, <3>1, <3>4, <4>1, <4>2 DEF OkAt
      <4>4. MsgsIn(mbox'[u]) \subseteq
              MsgsIn(mbox[u]) \cup (IF Quiet(u) THEN {} ELSE {sctx[u].msg} \cap Msgs)
        BY <3>2, <3>4, <4>1
      <4> QED
        BY <1>c, <2>0, <3>1, <3>4, <3>b, <4>1, <4>3, <4>4, OkFrame
    <3>6. CASE UNCHANGED <<mbox, out>>
      <4>1. ~Streams(d, "ff")
        BY <3>1 DEF Streams
      <4>2. OkOk(d, out[m], len[m], mbox[u], acked[m], "ff")
        BY <3>1, <3>3, <4>1, OkSame
      <4>3. OkAt(u)'
        BY <1>c, <3>1, <3>4, <3>6, <4>2 DEF OkAt
      <4> QED
        BY <1>c, <2>0, <3>1, <3>4, <3>6, <3>b, <4>3, OkFrame
    <3> QED
      BY <3>1, <3>5, <3>6
  <2>2. CASE WorkSendCf(u)
    <3> DEFINE c == [sctx[u] EXCEPT !.timer = FALSE]
    <3>1. c \in Ctx /\ Keeps(c, sctx[u]) /\ c.state = sctx[u].state /\ c.backlog = sctx[u].backlog
      BY <2>0 DEF Ctx, Keeps
    <3>2. SendCf(u, c) /\ sctx[u].state = "SEND_CF" /\ report' = report
      BY <2>2 DEF WorkSendCf, Running
    <3> HIDE DEF c
    <3> QED
      BY <1>c, <2>0, <3>1, <3>2, OkSendCf
  <2>3. CASE WorkWaitSt(u)
    <3>1. /\ cur' = Idle /\ out' = out /\ mbox' = mbox /\ report' = report
          /\ \A v \in Targets : v # u => sctx'[v] = sctx[v]
          /\ sctx'[u].msg = m /\ sctx'[u].backlog = sctx[u].backlog
          /\ sctx[u].state = "WAIT_ST" /\ sctx'[u].state = "SEND_CF"
      BY <2>3, RestFacts DEF WorkWaitSt
    <3>2. Streams(sctx[u], "no") /\ ~Quiet(u)
      BY <3>1 DEF Streams, Quiet
    <3>3. OkOk(sctx[u], out[m], len[m], mbox[u], acked[m], "no")
      BY <1>a, <2>0
    <3>4. OkOk(sctx'[u], out[m], len[m], mbox[u], acked[m], "no")
      BY <3>1, <3>2, <3>3, OkSame
    <3>5. OkAt(u)'
      BY <1>c, <1>i, <3>1, <3>4 DEF OkAt
    <3> QED
      BY <1>c, <1>i, <2>0, <3>1, <3>2, <3>5, OkFrame
  <2>4. CASE WorkFinish(u)
    <3>1. /\ cur' = Idle /\ out' = out /\ mbox' = mbox
          /\ \A v \in Targets : v # u => sctx'[v] = sctx[v]
          /\ sctx'[u].msg = m /\ sctx'[u].state = "RESET"
      BY <2>4, RestFacts
    <3>2. Phase(u)' = "no" /\ ~Streams(sctx'[u], "no")
      BY <1>i, <3>1 DEF Streams
    <3>3. OkOk(sctx[u], out[m], len[m], mbox[u], acked[m], "no")
      BY <1>a, <2>0
    <3>4. OkOk(sctx'[u], out[m], len[m], mbox[u], acked[m], "no")
      BY <3>1, <3>2, <3>3, OkSame
    <3>5. OkAt(u)'
      BY <1>c, <3>1, <3>2, <3>4 DEF OkAt
    <3>6. Quiet(u)'
      BY <3>1, <3>2 DEF Quiet
    <3> DEFINE e == IF sctx[u].state = "ERR" THEN sctx[u].error ELSE "OK"
    <3>7. report' = [report EXCEPT ![m] = Append(report[m], e)] /\ sctx[u].state \in {"ERR", "WAIT_FIN"}
      BY <2>4 DEF WorkFinish, Running
    <3>8. e \in Errors
      BY <2>0 DEF Ctx, Errors
    <3>9. ASSUME e = "OK" PROVE DoneAt(m)'
      <4>1. sctx[u].state = "WAIT_FIN"
        BY <3>7, <3>9 DEF ErrInv, GoodErr
      <4>2. m \in Msgs /\ Len(out[m]) = NumSegs(len[m]) /\ mbox[u] = <<>> /\ Split(sctx[u], out[m], mbox[u], acked[m])
        BY <3>3, <4>1 DEF OkOk
      <4>3. MsgsIn(mbox[u]) = {}
        BY <4>2 DEF MsgsIn
      <4>4. acked[m] + Len(mbox[u]) = Len(out[m])
        BY <2>0, <4>2, <4>3, SplitPure
      <4>5. acked[m] = NumSegs(len[m])
        <5>1. Len(mbox[u]) = 0
          BY <4>2
        <5>2. acked[m] = Len(out[m])
          BY <2>0, <4>4, <5>1
        <5> QED
          BY <4>2, <5>2
      <4>6. ASSUME NEW v \in Targets
            PROVE  /\ m \notin MsgsIn(mbox'[v])
                   /\ sctx'[v].msg = m => sctx'[v].state \in {"RESET", "ERR"} /\ Phase(v)' = "no"
        <5>1. CASE v = u
          BY <3>1, <3>2, <4>3, <5>1
        <5>2. CASE v # u
          <6>1. m \notin MsgsIn(mbox[v])
            BY <4>2, <5>2 DEF OkInv, Apart
          <6>2. sctx[v].msg # m
            <7>1. m # NoMsg
              BY <4>2, SendAssumptions DEF Msgs, NoMsg, SendAssumptions
            <7> QED
              BY <5>2, <7>1 DEF OrderInv, Numbered
          <6> QED
            BY <3>1, <5>2, <6>1, <6>2
        <5> QED
          BY <5>1, <5>2
      <4>7. acked'[m] = NumSegs(len'[m])
        BY <1>c, <4>5
      <4>8. m' = m
        BY <3>1
      <4> HIDE DEF m
      <4> QED
        BY <4>6, <4>7, <4>8 DEF DoneAt
    <3> HIDE DEF e
    <3>10. \E x \in Errors : /\ report' = [report EXCEPT ![sctx[u].msg] = Append(@, x)]
                             /\ x = "OK" => DoneAt(sctx[u].msg)'
      BY <3>7, <3>8, <3>9
    <3> QED
      BY <1>c, <1>i, <2>0, <3>1, <3>5, <3>6, <3>10, OkFrame
  <2>5. CASE WorkNothing(u)
    <3>1. sctx' = sctx /\ cur' = cur /\ out' = out /\ mbox' = mbox /\ report' = report
      BY <2>5 DEF WorkNothing, hist
    <3>2. \A v \in Targets : Phase(v)' = Phase(v)
      BY <3>1 DEF Phase
    <3>3. OkAt(u)' /\ (Quiet(u) => Quiet(u)')
      BY <1>a, <1>c, <3>1, <3>2 DEF OkAt, Quiet
    <3> QED
      BY <1>c, <3>1, <3>2, <3>3, OkFrame
  <2> QED
    BY <1>4, <2>1, <2>2, <2>3, <2>4, <2>5 DEF Work
<1> QED
  BY <1>1, <1>2, <1>3, <1>4 DEF Worker

\* The invariant is inductive as long as backlog can count.
LEMMA OkNext ==
    ASSUME CleanUse
    PROVE  TypeOK /\ TypeOK' /\ FreedIsIdle /\ OrderInv /\ ErrInv /\ BacklogFits /\ OkInv /\ [Next]_vars
             => OkInv'
<1> SUFFICES ASSUME TypeOK, TypeOK', FreedIsIdle, OrderInv, ErrInv, BacklogFits, OkInv, [Next]_vars
             PROVE  OkInv'
  OBVIOUS
<1>1. CASE UNCHANGED vars
  <2>1. /\ sctx' = sctx /\ cur' = cur /\ out' = out /\ len' = len /\ calls' = calls
        /\ mbox' = mbox /\ acked' = acked /\ report' = report
    BY <1>1 DEF vars
  <2>2. \A v \in Targets : Phase(v)' = Phase(v)
    BY <2>1 DEF Phase
  <2> QED
    BY <2>1, <2>2 DEF OkInv, OkAt, Apart, Done, DoneAt
<1> QED
  BY <1>1, OkApp, OkWorker, OkIsr DEF Next

\* It holds initially, and says what the property does.
LEMMA OkInit == TypeOK /\ Init => OkInv
<1> SUFFICES ASSUME TypeOK, Init PROVE OkInv
  OBVIOUS
<1>1. \A t \in Targets : /\ sctx[t].state = "RESET" /\ sctx[t].msg = NoMsg /\ Phase(t) = "no"
                         /\ mbox[t] = <<>>
  BY DEF Init, Phase, Idle
<1>2. (\A m \in Msgs : acked[m] = 0 /\ report[m] = <<>>) /\ \A t \in Targets : MsgsIn(mbox[t]) = {}
  BY <1>1 DEF Init, MsgsIn
<1>3. NoMsg \notin Msgs
  BY DEF NoMsg, Msgs
<1>4. \A t \in Targets : ~Streams(sctx[t], "no")
  BY <1>1 DEF Streams
<1>5. \A t \in Targets : OkAt(t)
  BY <1>1, <1>3, <1>4 DEF OkAt, OkOk
<1>6. Apart
  BY <1>1, <1>2, <1>3 DEF Apart
<1>7. \A m \in Msgs : ~Done(m)
  BY <1>2 DEF Done
<1> QED
  BY <1>5, <1>6, <1>7 DEF OkInv

\* The invariant contains the property.
LEMMA OkImplies == OkInv => OkMeansTransmitted
  BY DEF OkInv, Done, DoneAt, OkMeansTransmitted

\* CleanUse leaves the frames in sequence.
LEMMA CleanIsOrdered == CleanUse => OrderedUse
  BY DEF CleanUse, OrderedUse

-----------------------------------------------------------------------------
(* The pace of the frames *)

\* The context is queued on the work queue.
Queued(t) == \E i \in DOMAIN wq : wq[i] = t

\* While c sends, a frame leaves the controller before the next but one is handed
\* over: in the loop the semaphore sees to it, with a separation time the callback
\* that queues the state machine.
PaceOk(c, q, p, w) ==
    /\ p \in {"cf", "sem"} => Len(q) <= 2 /\ (c.sem = 1 => Len(q) <= 1) /\ c.timer = FALSE
    /\ p = "sem" => c.stmin = 0
    /\ (p = "cf" /\ c.stmin # 0) \/ c.state = "WAIT_ST" => Len(q) <= 1 /\ (w => Len(q) = 0)
    /\ c.state = "SEND_CF" /\ p = "no" => Len(q) = 0
    /\ c.state = "WAIT_BACKLOG" => Len(q) <= 2

Distinct(q) == \A i, j \in DOMAIN q : q[i] = q[j] => i = j
PaceInv == Distinct(wq) /\ \A t \in Targets : PaceOk(sctx[t], mbox[t], Phase(t), Queued(t))

\* Queueing u leaves the others where they are ...
LEMMA SubmitQueued ==
    ASSUME NEW u \in Targets, wq \in Seq(Targets), Distinct(wq), wq' = Submit(wq, u)
    PROVE  Distinct(wq') /\ \A v \in Targets : v # u => Queued(v)' = Queued(v)
<1>1. CASE \E i \in DOMAIN wq : wq[i] = u
  BY <1>1 DEF Submit, Distinct, Queued
<1>2. CASE ~\E i \in DOMAIN wq : wq[i] = u
  <2>1. wq' = Append(wq, u)
    BY <1>2 DEF Submit
  <2>2. /\ DOMAIN wq = 1 .. Len(wq) /\ Len(wq) \in Nat /\ DOMAIN wq' = 1 .. Len(wq) + 1
        /\ \A i \in DOMAIN wq : wq'[i] = wq[i]
        /\ wq'[Len(wq) + 1] = u
    BY <2>1
  <2>3. \A i \in DOMAIN wq' : i \in DOMAIN wq \/ i = Len(wq) + 1
    BY <2>2
  <2>4. \A i \in DOMAIN wq : i \in DOMAIN wq' /\ wq[i] # u
    BY <1>2, <2>2
  <2>5. Distinct(wq')
    BY <2>2, <2>3, <2>4 DEF Distinct
  <2>6. ASSUME NEW v \in Targets, v # u PROVE Queued(v)' = Queued(v)
    BY <2>2, <2>3, <2>4, <2>6 DEF Queued
  <2> QED
    BY <2>5, <2>6
<1> QED
  BY <1>1, <1>2

\* ... and so does running its handler.
LEMMA RunQueued ==
    ASSUME NEW u \in Targets, wq \in Seq(Targets), Distinct(wq), wq # <<>>, u = Head(wq), wq' = Tail(wq)
    PROVE  Distinct(wq') /\ Queued(u) /\ ~Queued(u)' /\ \A v \in Targets : v # u => Queued(v)' = Queued(v)
<1>1. /\ DOMAIN wq = 1 .. Len(wq) /\ Len(wq) \in Nat /\ Len(wq) >= 1 /\ wq[1] = u
      /\ DOMAIN wq' = 1 .. Len(wq) - 1
  OBVIOUS
<1>2. \A i \in 1 .. Len(wq) - 1 : i + 1 \in 1 .. Len(wq) /\ wq'[i] = wq[i + 1]
  BY <1>1
<1>3. \A i \in 1 .. Len(wq) : i = 1 \/ (i - 1 \in 1 .. Len(wq) - 1 /\ wq'[i - 1] = wq[i])
  BY <1>1, <1>2
<1>4. Distinct(wq')
  <2>1. SUFFICES ASSUME NEW i \in 1 .. Len(wq) - 1, NEW j \in 1 .. Len(wq) - 1, wq'[i] = wq'[j]
                 PROVE  i = j
    BY <1>1 DEF Distinct
  <2>2. wq[i + 1] = wq[j + 1] /\ i + 1 \in DOMAIN wq /\ j + 1 \in DOMAIN wq
    BY <1>1, <1>2, <2>1
  <2>3. i + 1 = j + 1
    BY <2>2 DEF Distinct
  <2> QED
    BY <1>1, <2>3
<1>5. \A i \in 1 .. Len(wq) - 1 : wq'[i] # u
  <2>1. SUFFICES ASSUME NEW i \in 1 .. Len(wq) - 1, wq[i + 1] = wq[1] PROVE FALSE
    BY <1>1, <1>2
  <2>2. i + 1 = 1
    BY <1>1, <1>2, <2>1 DEF Distinct
  <2> QED
    BY <1>1, <2>2
<1>6. Queued(u) /\ ~Queued(u)'
  BY <1>1, <1>5 DEF Queued
<1>7. ASSUME NEW v \in Targets, v # u PROVE Queued(v)' = Queued(v)
  <2>1. Queued(v)' => Queued(v)
    BY <1>1, <1>2 DEF Queued
  <2>2. Queued(v) => Queued(v)'
    BY <1>1, <1>3, <1>7 DEF Queued
  <2> QED
    BY <2>1, <2>2 DEF Queued
<1> QED
  BY <1>4, <1>6, <1>7

\* A step of one context.
LEMMA PaceFrame ==
    ASSUME PaceInv, NEW u \in Targets, Distinct(wq'),
           \A v \in Targets : v # u => /\ sctx'[v] = sctx[v] /\ mbox'[v] = mbox[v]
                                       /\ Phase(v)' = Phase(v) /\ Queued(v)' = Queued(v),
           PaceOk(sctx'[u], mbox'[u], Phase(u)', Queued(u)')
    PROVE  PaceInv'
<1>1. ASSUME NEW v \in Targets PROVE PaceOk(sctx'[v], mbox'[v], Phase(v)', Queued(v)')
  <2>1. CASE v = u
    BY <2>1
  <2>2. CASE v # u
    <3>1. PaceOk(sctx[v], mbox[v], Phase(v), Queued(v))
      BY DEF PaceInv
    <3> QED
      BY <2>2, <3>1
  <2> QED
    BY <2>1, <2>2
<1> QED
  BY <1>1 DEF PaceInv

\* Contexts that do not send keep no pace.
LEMMA PaceIdle ==
    ASSUME NEW c, NEW q, NEW p, NEW w, p \in {"no", "ff"},
           c.state \notin {"SEND_CF", "WAIT_ST", "WAIT_BACKLOG"}
    PROVE  PaceOk(c, q, p, w)
  BY DEF PaceOk

\* The interrupt handlers keep the pace.
LEMMA PaceIsr ==
    ASSUME CleanUse, TypeOK, FreedIsIdle, OrderInv, PaceInv, NEW u \in Targets,
           Driver(u) \/ Peer(u) \/ Timeout(u)
    PROVE  PaceInv'
<1> DEFINE c == sctx[u]
           d == sctx'[u]
           p == Phase(u)
<1>0. /\ sctx \in [Targets -> Ctx] /\ c \in Ctx /\ mbox \in [Targets -> Seq(Frame)]
      /\ mbox[u] \in Seq(Frame) /\ wq \in Seq(Targets) /\ p \in {"no", "ff", "cf", "sem"}
  BY PhaseFacts DEF TypeOK
<1>1. cur' = cur /\ \A v \in Targets : v # u => sctx'[v] = sctx[v]
  BY IsrFacts
<1>2. \A v \in Targets : Phase(v)' = Phase(v)
  BY <1>1 DEF Phase
<1>3. PaceOk(c, mbox[u], p, Queued(u)) /\ Distinct(wq)
  BY DEF PaceInv
<1>4. /\ p = "ff" => c.state \in {"SEND_FF", "ERR"}
      /\ p \in {"cf", "sem"} => c.state \in {"SEND_CF", "ERR"}
  BY DEF OrderInv, OrderAt, OrderOk
<1>5. CASE Driver(u)
  <2>1. PICK ok \in BOOLEAN : TxDone(u, ok)
    BY <1>5 DEF Driver
  <2>2. /\ mbox[u] # <<>> /\ mbox' = [mbox EXCEPT ![u] = Tail(mbox[u])]
        /\ sctx' = [sctx EXCEPT ![u] = TxCallback(c)]
        /\ wq' = Submit(wq, u) \/ wq' = wq
    BY <2>1 DEF TxDone
  <2>3. d = TxCallback(c) /\ mbox'[u] = Tail(mbox[u]) /\ \A v \in Targets : v # u => mbox'[v] = mbox[v]
    BY <1>0, <2>2
  <2>4. Len(mbox[u]) \in Nat /\ Len(mbox[u]) > 0 /\ Len(mbox'[u]) = Len(mbox[u]) - 1
    BY <1>0, <2>2, <2>3
  <2>5. d.timer = c.timer /\ d.stmin = c.stmin /\ d.state \in {c.state, "WAIT_FIN"}
    BY <1>0, <2>3 DEF TxCallback, Ctx
  <2>6. PaceOk(d, mbox'[u], p, Queued(u)')
    <3>1. p \in {"cf", "sem"} => Len(mbox'[u]) <= 1 /\ c.timer = FALSE
      BY <1>3, <2>4 DEF PaceOk
    <3>2. p = "sem" => d.stmin = 0
      BY <1>3, <2>5 DEF PaceOk
    <3>a. (p = "cf" /\ c.stmin # 0) \/ c.state = "WAIT_ST" => Len(mbox[u]) <= 1
      BY <1>3 DEF PaceOk
    <3>3. (p = "cf" /\ d.stmin # 0) \/ d.state = "WAIT_ST" => Len(mbox'[u]) = 0
      <4>1. SUFFICES ASSUME (p = "cf" /\ d.stmin # 0) \/ d.state = "WAIT_ST" PROVE Len(mbox'[u]) = 0
        OBVIOUS
      <4>2. (p = "cf" /\ c.stmin # 0) \/ c.state = "WAIT_ST"
        BY <2>5, <4>1
      <4>3. Len(mbox[u]) = 1
        <5>1. Len(mbox[u]) <= 1
          BY <3>a, <4>2
        <5>2. \A k \in Nat : k > 0 /\ k <= 1 => k = 1
          OBVIOUS
        <5> QED
          BY <2>4, <5>1, <5>2, Zenon
      <4> QED
        BY <2>4, <4>3
    <3>4. ~(d.state = "SEND_CF" /\ p = "no")
      BY <1>3, <2>4, <2>5 DEF PaceOk
    <3>5. d.state = "WAIT_BACKLOG" => Len(mbox'[u]) <= 2
      BY <1>3, <2>4, <2>5 DEF PaceOk
    <3>6. Len(mbox'[u]) \in Nat
      BY <2>4
    <3> QED
      BY <2>5, <3>1, <3>2, <3>3, <3>4, <3>5, <3>6 DEF PaceOk
  <2>7. Distinct(wq') /\ \A v \in Targets : v # u => Queued(v)' = Queued(v)
    <3>1. CASE wq' = wq
      BY <1>3, <3>1 DEF Queued
    <3>2. CASE wq' = Submit(wq, u)
      BY <1>0, <1>3, <3>2, SubmitQueued
    <3> QED
      BY <2>2, <3>1, <3>2
  <2> QED
    BY <1>1, <1>2, <2>3, <2>6, <2>7, PaceFrame
<1>6. ASSUME wq' = Submit(wq, u), mbox' = mbox, PaceOk(d, mbox[u], p, Queued(u)') PROVE PaceInv'
  <2>1. Distinct(wq') /\ \A v \in Targets : v # u => Queued(v)' = Queued(v)
    BY <1>0, <1>3, <1>6, SubmitQueued
  <2> QED
    BY <1>1, <1>2, <1>6, <2>1, PaceFrame
<1>7. CASE Timeout(u)
  <2> DEFINE b == [c EXCEPT !.timer = FALSE]
  <2>1. /\ wq' = Submit(wq, u) /\ mbox' = mbox /\ c.timer
        /\ sctx' = [sctx EXCEPT ![u] = IF b.state # "SEND_CF" THEN send_report_error(b, "TIMEOUT_BS") ELSE b]
    BY <1>7 DEF Timeout, hist
  <2>2. p \in {"no", "ff"}
    BY <1>0, <1>3, <2>1 DEF PaceOk
  <2>3. d = IF b.state # "SEND_CF" THEN send_report_error(b, "TIMEOUT_BS") ELSE b
    BY <1>0, <2>1
  <2>4. d.state = "ERR" \/ (d.state = "SEND_CF" /\ c.state = "SEND_CF")
    BY <1>0, <2>3 DEF send_report_error, Ctx
  <2>5. PaceOk(d, mbox[u], p, Queued(u)')
    BY <1>3, <1>4, <2>2, <2>4 DEF PaceOk
  <2> QED
    BY <1>6, <2>1, <2>5
<1>8. CASE Peer(u)
  <2>1. PICK fc \in FC : FcRx(u, fc)
    BY <1>8 DEF Peer
  <2>2. /\ wq' = Submit(wq, u) /\ mbox' = mbox
        /\ sctx' = [sctx EXCEPT ![u] = send_can_rx(get_send_ctx(u), fc)]
    BY <2>1 DEF FcRx, HandleFc
  <2>3. d = send_can_rx(get_send_ctx(u), fc)
    BY <1>0, <2>2
  <2>4. CASE c.alloc
    <3>1. PeerOwesFc(u) /\ get_send_ctx(u) = c
      BY <2>1, <2>4 DEF FcRx, FcMayArrive, CleanUse, get_send_ctx
    <3>2. Len(mbox[u]) = 0
      BY <3>1 DEF PeerOwesFc
    <3>3. p \in {"cf", "sem"} => d.timer = c.timer /\ d.stmin = c.stmin
      <4>1. SUFFICES ASSUME p \in {"cf", "sem"} PROVE d.timer = c.timer /\ d.stmin = c.stmin
        OBVIOUS
      <4>2. d = send_report_error(c, "UNEXP_PDU")
        BY <1>4, <2>3, <3>1, <4>1 DEF send_can_rx
      <4> QED
        BY <1>0, <4>2 DEF send_report_error, Ctx
    <3>4. PaceOk(d, mbox[u], p, Queued(u)')
      BY <1>3, <3>2, <3>3 DEF PaceOk
    <3> QED
      BY <1>6, <2>2, <3>4
  <2>5. CASE ~c.alloc
    <3>1. c.state = "RESET"
      BY <2>5 DEF FreedIsIdle, FreedIsIdleAt
    <3>2. p = "no"
      BY <1>0, <1>4, <3>1
    <3>3. d.state = "ERR"
      <4>1. get_send_ctx(u) = NewSendCtx(c)
        BY <2>5 DEF get_send_ctx
      <4>2. NewSendCtx(c) \in Ctx /\ NewSendCtx(c).state = "SEND_FF"
        BY <1>0, CtxHelperTypes, FlowHelpers DEF Errors
      <4> QED
        BY <2>3, <4>1, <4>2, KeepFc
    <3>4. PaceOk(d, mbox[u], p, Queued(u)')
      BY <3>2, <3>3, PaceIdle
    <3> QED
      BY <1>6, <2>2, <3>4
  <2> QED
    BY <2>4, <2>5
<1> QED
  BY <1>5, <1>7, <1>8

\* send_cf hands over at most one frame, or gives up.
LEMMA PaceSendCf ==
    ASSUME TypeOK, PaceInv, NEW u \in Targets, NEW c \in Ctx, SendCf(u, c),
           c.timer = FALSE, c.state \in {"SEND_CF", "ERR"}, Distinct(wq'),
           \A v \in Targets : v # u => Phase(v) = "no" /\ Queued(v)' = Queued(v),
           Len(mbox[u]) <= 1, c.sem = 1 => Len(mbox[u]) = 0,
           c.stmin # 0 => Len(mbox[u]) = 0 /\ ~Queued(u)'
    PROVE  PaceInv'
<1> DEFINE n == Min2(c.rem, CfLen)
           r == c.rem - n
           o == c.off + n
           f == [type |-> "CF", sn |-> c.sn, msg |-> c.msg, off |-> c.off, n |-> n, len |-> 0]
           b == [c EXCEPT !.rem = r, !.off = o]
           d == sctx'[u]
<1>0. /\ sctx \in [Targets -> Ctx] /\ mbox \in [Targets -> Seq(Frame)] /\ mbox[u] \in Seq(Frame)
      /\ c.sem \in {0, 1}
  BY DEF TypeOK, Ctx
<1>1. \/ /\ HandToController(u, f) /\ cur' = [pc |-> "cf", t |-> u] /\ sctx' = [sctx EXCEPT ![u] = b]
      \/ /\ UNCHANGED <<mbox, out>> /\ cur' = Idle
         /\ \E e \in Errors : sctx' = [sctx EXCEPT ![u] = send_report_error(b, e)]
  BY DEF SendCf, Errors
<1> HIDE DEF r, o, n
<1>2. b.sem = c.sem /\ b.stmin = c.stmin /\ b.timer = FALSE /\ b.state = c.state
  BY DEF Ctx
<1> HIDE DEF b, f
<1>3. CASE HandToController(u, f) /\ cur' = [pc |-> "cf", t |-> u] /\ sctx' = [sctx EXCEPT ![u] = b]
  <2>1. d = b /\ \A v \in Targets : v # u => sctx'[v] = sctx[v]
    BY <1>0, <1>3
  <2>2. mbox'[u] = Append(mbox[u], f) /\ \A v \in Targets : v # u => mbox'[v] = mbox[v]
    BY <1>0, <1>3 DEF HandToController
  <2>3. Len(mbox'[u]) = Len(mbox[u]) + 1 /\ Len(mbox[u]) \in Nat
    BY <1>0, <2>2
  <2>4. Phase(u)' = "cf" /\ \A v \in Targets : v # u => Phase(v)' = Phase(v)
    BY <1>3 DEF Phase
  <2>5. Len(mbox'[u]) <= 2 /\ (c.sem = 1 => Len(mbox'[u]) <= 1)
    BY <2>3
  <2>6. d.stmin # 0 => Len(mbox'[u]) <= 1 /\ ~Queued(u)'
    <3>1. SUFFICES ASSUME d.stmin # 0 PROVE Len(mbox'[u]) <= 1 /\ ~Queued(u)'
      OBVIOUS
    <3>2. Len(mbox[u]) = 0 /\ ~Queued(u)'
      BY <1>2, <2>1, <3>1
    <3> QED
      BY <2>3, <3>2
  <2>7. PaceOk(d, mbox'[u], "cf", Queued(u)')
    BY <1>2, <2>1, <2>5, <2>6 DEF PaceOk
  <2> QED
    BY <2>1, <2>2, <2>4, <2>7, PaceFrame
<1>4. CASE /\ UNCHANGED <<mbox, out>> /\ cur' = Idle
           /\ \E e \in Errors : sctx' = [sctx EXCEPT ![u] = send_report_error(b, e)]
  <2>1. PICK e \in Errors : sctx' = [sctx EXCEPT ![u] = send_report_error(b, e)]
    BY <1>4
  <2>2. d = send_report_error(b, e) /\ \A v \in Targets : v # u => sctx'[v] = sctx[v]
    BY <1>0, <2>1
  <2>3. d.state = "ERR"
    BY <2>2 DEF send_report_error, b, Ctx
  <2>4. \A v \in Targets : Phase(v)' = "no"
    BY <1>4 DEF Phase, Idle
  <2>5. PaceOk(d, mbox'[u], Phase(u)', Queued(u)')
    BY <2>3, <2>4, PaceIdle
  <2> QED
    BY <1>4, <2>2, <2>4, <2>5, PaceFrame
<1> QED
  BY <1>1, <1>3, <1>4

\* The application.
LEMMA PaceApp ==
    ASSUME CleanUse, TypeOK, FreedIsIdle, OrderInv, PaceInv, NEW u \in Targets, App(u)
    PROVE  PaceInv'
<1>1. PICK l \in Lengths : SendSf(u, l) \/ SendRefused(u, l) \/ SendMulti(u, l)
  BY DEF App
<1>2. CASE SendSf(u, l) \/ SendRefused(u, l)
  <2>1. sctx' = sctx /\ wq' = wq /\ cur' = cur /\ mbox' = mbox
    BY <1>2 DEF SendSf, SendRefused, hist
  <2> QED
    BY <2>1 DEF PaceInv, Phase, Queued
<1>3. CASE SendMulti(u, l)
  <2>1. mbox' = mbox /\ cur' = cur /\ wq' = Submit(wq, u) /\ ~sctx[u].alloc
    BY <1>3 DEF SendMulti, CleanUse
  <2>2. sctx'[u].state = "SEND_FF" /\ \A v \in Targets : v # u => sctx'[v] = sctx[v]
    BY <1>3, <2>1, MultiFacts
  <2>3. \A v \in Targets : Phase(v)' = Phase(v)
    BY <2>1 DEF Phase
  <2>4. sctx[u].state = "RESET"
    BY <2>1 DEF FreedIsIdle, FreedIsIdleAt
  <2>5. Phase(u) = "no"
    <3>1. Phase(u) \in {"no", "ff", "cf", "sem"}
      BY PhaseFacts
    <3>2. /\ Phase(u) = "ff" => sctx[u].state \in {"SEND_FF", "ERR"}
          /\ Phase(u) \in {"cf", "sem"} => sctx[u].state \in {"SEND_CF", "ERR"}
      BY DEF OrderInv, OrderAt, OrderOk
    <3> QED
      BY <2>4, <3>1, <3>2
  <2>6. PaceOk(sctx'[u], mbox'[u], Phase(u)', Queued(u)')
    BY <2>2, <2>3, <2>5, PaceIdle
  <2>7. Distinct(wq') /\ \A v \in Targets : v # u => Queued(v)' = Queued(v)
    <3>1. wq \in Seq(Targets) /\ Distinct(wq)
      BY DEF TypeOK, PaceInv
    <3> QED
      BY <2>1, <3>1, SubmitQueued
  <2> QED
    BY <2>1, <2>2, <2>3, <2>6, <2>7, PaceFrame
<1> QED
  BY <1>1, <1>2, <1>3

\* The loop of ISOTP_TX_SEND_CF.
LEMMA PaceLoop ==
    ASSUME TypeOK, OrderInv, PaceInv, FinishCf \/ TakeSem
    PROVE  PaceInv'
<1>u. PICK u \in Targets : u = cur.t
  BY PhaseFacts DEF FinishCf, TakeSem
<1> DEFINE c == sctx[u]
           d == sctx'[u]
<1>0. /\ u \in Targets /\ cur.pc \in {"cf", "sem"} /\ Phase(u) = cur.pc
      /\ \A v \in Targets : v # u => Phase(v) = "no"
  BY <1>u, PhaseFacts DEF FinishCf, TakeSem
<1>1. /\ sctx \in [Targets -> Ctx] /\ c \in Ctx /\ mbox \in [Targets -> Seq(Frame)]
      /\ mbox[u] \in Seq(Frame)
  BY <1>0 DEF TypeOK
<1>2. PaceOk(c, mbox[u], cur.pc, Queued(u)) /\ Distinct(wq)
  BY <1>0 DEF PaceInv
<1>3. c.state \in {"SEND_CF", "ERR"}
  BY <1>0 DEF OrderInv, OrderAt, OrderOk
<1>4. wq' = wq
  BY DEF FinishCf, TakeSem
<1>5. Distinct(wq') /\ \A v \in Targets : Queued(v)' = Queued(v)
  BY <1>2, <1>4 DEF Queued
<1>6. /\ Len(mbox[u]) <= 2 /\ (c.sem = 1 => Len(mbox[u]) <= 1) /\ c.timer = FALSE
      /\ cur.pc = "sem" => c.stmin = 0
      /\ cur.pc = "cf" /\ c.stmin # 0 => Len(mbox[u]) <= 1 /\ (Queued(u) => Len(mbox[u]) = 0)
  BY <1>0, <1>2 DEF PaceOk
<1>7. CASE FinishCf
  <2>1. /\ mbox' = mbox /\ \A v \in Targets : v # u => sctx'[v] = sctx[v]
        /\ c.rem = 0 => d.state = "WAIT_BACKLOG" /\ cur' = Idle
        /\ c.rem # 0 => \/ d.state \in {"WAIT_FC", "WAIT_ST"} /\ cur' = Idle
                        \/ d.state = c.state /\ cur' = [pc |-> "sem", t |-> u]
    BY <1>u, <1>7, FinishCfFacts
  <2>2. d = AfterCf(CountCf(c)) /\ cur.pc = "cf"
        /\ cur' = IF CountCf(c).rem # 0 /\ ~(OPTS_BS # 0 /\ CountCf(c).bs = 0) /\ CountCf(c).stmin = 0
                  THEN [pc |-> "sem", t |-> u] ELSE Idle
    BY <1>u, <1>0, <1>1, <1>7 DEF FinishCf
  <2>3. /\ CountCf(c).rem = c.rem /\ CountCf(c).stmin = c.stmin /\ CountCf(c).sem = c.sem
        /\ CountCf(c).timer = c.timer /\ CountCf(c).state = c.state /\ CountCf(c) \in Ctx
    BY <1>1, CfHelperTypes DEF CountCf, Ctx
  <2>4. \A v \in Targets : v # u => Phase(v)' = Phase(v)
    <3>1. cur' = Idle \/ cur' = [pc |-> "sem", t |-> u]
      BY <2>2
    <3> QED
      BY <1>0, <3>1 DEF Phase, Idle
  <2>5. CASE cur' = Idle
    <3>1. Phase(u)' = "no"
      BY <2>5 DEF Phase, Idle
    <3>2. d.state = "WAIT_ST" => Len(mbox[u]) <= 1 /\ (Queued(u) => Len(mbox[u]) = 0)
      <4>1. SUFFICES ASSUME d.state = "WAIT_ST" PROVE c.stmin # 0
        BY <1>6, <2>2
      <4>2. AfterCf(CountCf(c)).state = "WAIT_ST" => CountCf(c).stmin # 0
        BY <1>3, <2>3 DEF AfterCf, Ctx
      <4> QED
        BY <2>2, <2>3, <4>1, <4>2
    <3>3. d.state \in {"WAIT_BACKLOG", "WAIT_FC", "WAIT_ST"}
      BY <2>1, <2>5 DEF Idle
    <3>4. PaceOk(d, mbox[u], "no", Queued(u))
      BY <1>6, <3>2, <3>3 DEF PaceOk
    <3>7. PaceOk(sctx'[u], mbox'[u], Phase(u)', Queued(u)')
      BY <1>0, <1>5, <2>1, <3>1, <3>4
    <3>8. \A v \in Targets : v # u => /\ sctx'[v] = sctx[v] /\ mbox'[v] = mbox[v]
                                       /\ Phase(v)' = Phase(v) /\ Queued(v)' = Queued(v)
      BY <1>5, <2>1, <2>4
    <3> QED
      BY <1>0, <1>5, <3>7, <3>8, PaceFrame
  <2>6. CASE cur' = [pc |-> "sem", t |-> u]
    <3>1. Phase(u)' = "sem"
      BY <2>6 DEF Phase
    <3>2. CountCf(c).rem # 0 /\ ~(OPTS_BS # 0 /\ CountCf(c).bs = 0) /\ CountCf(c).stmin = 0
      BY <2>2, <2>6 DEF Idle
    <3>3. d = CountCf(c)
      BY <2>2, <3>2 DEF AfterCf
    <3>4. d.sem = c.sem /\ d.timer = FALSE /\ d.state \in {"SEND_CF", "ERR"} /\ d.stmin = 0
      BY <1>3, <1>6, <2>3, <3>2, <3>3
    <3>5. PaceOk(d, mbox[u], "sem", Queued(u))
      BY <1>6, <3>4 DEF PaceOk
    <3>7. PaceOk(sctx'[u], mbox'[u], Phase(u)', Queued(u)')
      BY <1>0, <1>5, <2>1, <3>1, <3>5
    <3>8. \A v \in Targets : v # u => /\ sctx'[v] = sctx[v] /\ mbox'[v] = mbox[v]
                                       /\ Phase(v)' = Phase(v) /\ Queued(v)' = Queued(v)
      BY <1>5, <2>1, <2>4
    <3> QED
      BY <1>0, <1>5, <3>7, <3>8, PaceFrame
  <2> QED
    BY <2>2, <2>5, <2>6
<1>8. CASE TakeSem
  <2> DEFINE b == [c EXCEPT !.sem = 0]
  <2>1. SendCf(u, b) /\ cur.pc = "sem" /\ c.sem = 1
    BY <1>u, <1>8 DEF TakeSem
  <2>2. b \in Ctx /\ b.timer = FALSE /\ b.state = c.state /\ b.sem = 0 /\ b.stmin = 0
    BY <1>1, <1>6, <2>1 DEF Ctx
  <2>3. Len(mbox[u]) <= 1
    BY <1>6, <2>1
  <2>4. /\ b.sem = 1 => Len(mbox[u]) = 0
        /\ b.stmin # 0 => Len(mbox[u]) = 0 /\ ~Queued(u)'
    BY <2>2
  <2>5. b.state \in {"SEND_CF", "ERR"}
    BY <1>3, <2>2
  <2> HIDE DEF b
  <2> QED
    BY <1>0, <1>5, <2>1, <2>2, <2>3, <2>4, <2>5, PaceSendCf
<1> QED
  BY <1>7, <1>8

\* The thread of the work queue takes an item.
LEMMA PaceWork ==
    ASSUME TypeOK, OrderInv, PaceInv, NEW u \in Targets, Work(u)
    PROVE  PaceInv'
<1> DEFINE c == sctx[u]
<1>1. /\ sctx \in [Targets -> Ctx] /\ c \in Ctx /\ mbox \in [Targets -> Seq(Frame)]
      /\ mbox[u] \in Seq(Frame) /\ wq \in Seq(Targets)
  BY DEF TypeOK
<1>2. cur = Idle /\ wq # <<>> /\ u = Head(wq) /\ wq' = Tail(wq)
  BY DEF Work, WorkSendFf, WorkSendCf, WorkWaitSt, WorkFinish, WorkNothing, Running
<1>3. /\ \A v \in Targets : Phase(v) = "no"
      /\ PaceOk(c, mbox[u], "no", Queued(u)) /\ Distinct(wq)
  BY <1>2, PhaseFacts DEF PaceInv
<1>4. /\ Distinct(wq') /\ Queued(u) /\ ~Queued(u)'
      /\ \A v \in Targets : v # u => Queued(v)' = Queued(v)
  BY <1>1, <1>2, <1>3, RunQueued
<1>5. CASE WorkSendFf(u)
  <2> DEFINE m == sctx[u].msg
             n == Min2(FfLen, sctx[u].rem)
             f == [type |-> "FF", sn |-> 0, msg |-> sctx[u].msg, off |-> sctx[u].off,
                   n |-> n, len |-> sctx[u].rem]
  <2>1. /\ cur' = [pc |-> "ff", t |-> u] /\ sctx'[u].state = "SEND_FF"
        /\ \A v \in Targets : v # u => sctx'[v] = sctx[v]
        /\ HandToController(u, f) \/ mbox' = mbox
    BY <1>5, FfFacts
  <2>2. \A v \in Targets : v # u => mbox'[v] = mbox[v]
    BY <1>1, <2>1 DEF HandToController
  <2>3. Phase(u)' = "ff" /\ \A v \in Targets : v # u => Phase(v)' = Phase(v)
    BY <1>3, <2>1 DEF Phase
  <2>4. PaceOk(sctx'[u], mbox'[u], Phase(u)', Queued(u)')
    BY <2>1, <2>3, PaceIdle
  <2> QED
    BY <1>4, <2>1, <2>2, <2>3, <2>4, PaceFrame
<1>6. CASE WorkSendCf(u)
  <2> DEFINE b == [c EXCEPT !.timer = FALSE]
  <2>1. SendCf(u, b) /\ c.state = "SEND_CF"
    BY <1>6 DEF WorkSendCf, Running
  <2>2. b \in Ctx /\ b.timer = FALSE /\ b.state = "SEND_CF"
    BY <1>1, <2>1 DEF Ctx
  <2>3. Len(mbox[u]) = 0
    BY <1>3, <2>1 DEF PaceOk
  <2>4. Len(mbox[u]) <= 1
    BY <2>3
  <2>5. /\ b.sem = 1 => Len(mbox[u]) = 0
        /\ b.stmin # 0 => Len(mbox[u]) = 0 /\ ~Queued(u)'
    BY <1>4, <2>3
  <2>6. b.state \in {"SEND_CF", "ERR"}
    BY <2>2
  <2>7. \A v \in Targets : v # u => Phase(v) = "no" /\ Queued(v)' = Queued(v)
    BY <1>3, <1>4
  <2> HIDE DEF b
  <2> QED
    BY <1>4, <2>1, <2>2, <2>4, <2>5, <2>6, <2>7, PaceSendCf
<1>7. CASE WorkWaitSt(u) \/ WorkFinish(u)
  <2>1. /\ cur' = Idle /\ mbox' = mbox /\ \A v \in Targets : v # u => sctx'[v] = sctx[v]
        /\ WorkWaitSt(u) => c.state = "WAIT_ST" /\ sctx'[u].state = "SEND_CF"
        /\ WorkFinish(u) => sctx'[u].state = "RESET"
    BY <1>7, RestFacts
  <2>2. \A v \in Targets : Phase(v)' = "no"
    BY <2>1 DEF Phase, Idle
  <2>3. PaceOk(sctx'[u], mbox[u], "no", Queued(u)')
    <3>1. CASE WorkFinish(u)
      BY <2>1, <3>1, PaceIdle
    <3>2. CASE WorkWaitSt(u)
      <4>1. Len(mbox[u]) = 0
        BY <1>3, <1>4, <2>1, <3>2 DEF PaceOk
      <4> QED
        BY <2>1, <3>2, <4>1 DEF PaceOk
    <3> QED
      BY <1>7, <3>1, <3>2
  <2> QED
    BY <1>3, <1>4, <2>1, <2>2, <2>3, PaceFrame
<1>8. CASE WorkNothing(u)
  <2>1. sctx' = sctx /\ cur' = cur /\ mbox' = mbox
    BY <1>8 DEF WorkNothing, hist
  <2>2. c.state \in {"RESET", "WAIT_FC", "WAIT_BACKLOG"}
    BY <1>8 DEF WorkNothing, Running
  <2>3. \A v \in Targets : Phase(v)' = Phase(v)
    BY <2>1 DEF Phase
  <2>4. PaceOk(c, mbox[u], "no", Queued(u)')
    BY <1>3, <2>2 DEF PaceOk
  <2> QED
    BY <1>3, <1>4, <2>1, <2>3, <2>4, PaceFrame
<1> QED
  BY <1>5, <1>6, <1>7, <1>8 DEF Work

\* Every step keeps the pace.
LEMMA PaceInvariant == ASSUME CleanUse PROVE Spec => []PaceInv
<1>1. OrderedUse
  BY CleanIsOrdered
<1>2. Spec => []OrderInv
  BY <1>1, OrderInvariant
<1>3. Init => PaceInv
  <2> SUFFICES ASSUME Init PROVE PaceInv
    OBVIOUS
  <2>1. \A t \in Targets : sctx[t].state = "RESET" /\ Phase(t) = "no"
    BY DEF Init, Phase, Idle
  <2>2. Distinct(wq)
    BY DEF Init, Distinct
  <2> QED
    BY <2>1, <2>2, PaceIdle DEF PaceInv
<1>4. TypeOK /\ FreedIsIdle /\ OrderInv /\ PaceInv /\ [Next]_vars => PaceInv'
  <2> SUFFICES ASSUME TypeOK, FreedIsIdle, OrderInv, PaceInv, [Next]_vars PROVE PaceInv'
    OBVIOUS
  <2>1. CASE UNCHANGED vars
    BY <2>1 DEF PaceInv, Phase, Queued, vars
  <2>2. CASE Worker
    <3>1. CASE FinishFf
      <4>u. PICK u \in Targets : u = cur.t
        BY <3>1, FinishFfFacts
      <4>1. /\ u \in Targets /\ cur' = Idle /\ mbox' = mbox /\ sctx'[u].state = "WAIT_FC"
            /\ \A v \in Targets : v # u => sctx'[v] = sctx[v]
        BY <4>u, <3>1, FinishFfFacts
      <4>2. wq' = wq /\ cur.pc = "ff"
        BY <3>1 DEF FinishFf
      <4>3. (\A v \in Targets : v # u => Phase(v)' = Phase(v)) /\ Phase(u)' = "no"
        BY <4>u, <4>1 DEF Phase, Idle
      <4>4. Distinct(wq') /\ \A v \in Targets : Queued(v)' = Queued(v)
        BY <4>2 DEF PaceInv, Queued
      <4>5. PaceOk(sctx'[u], mbox'[u], Phase(u)', Queued(u)')
        BY <4>1, <4>3, PaceIdle
      <4>6. \A v \in Targets : v # u => /\ sctx'[v] = sctx[v] /\ mbox'[v] = mbox[v]
                                         /\ Phase(v)' = Phase(v) /\ Queued(v)' = Queued(v)
        BY <4>1, <4>3, <4>4
      <4> QED
        BY <4>1, <4>4, <4>5, <4>6, PaceFrame
    <3>2. CASE FinishCf \/ TakeSem
      BY <3>2, PaceLoop
    <3>3. CASE \E t \in Targets : Work(t)
      BY <3>3, PaceWork
    <3> QED
      BY <2>2, <3>1, <3>2, <3>3 DEF Worker
  <2> QED
    BY <2>1, <2>2, PaceApp, PaceIsr DEF Next
<1> QED
  BY <1>2, <1>3, <1>4, TypeCorrect, FreedContextsIdle, PTL DEF Spec

\* So backlog can always count what is in the controller.
LEMMA PaceFits == TypeOK /\ PaceInv => BacklogFits
<1> SUFFICES ASSUME TypeOK, PaceInv, NEW t \in Targets, sctx[t].state = "WAIT_BACKLOG"
             PROVE  Len(mbox[t]) <= BYTE
  BY DEF BacklogFits
<1>1. Len(mbox[t]) <= 2
  BY DEF PaceInv, PaceOk
<1>2. BYTE \in Nat /\ BYTE > 1
  BY SegTypes
<1>3. Len(mbox[t]) \in Nat
  BY DEF TypeOK
<1> QED
  BY <1>1, <1>2, <1>3

\* sent_callback(ISOTP_N_OK) means that every frame of the message was
\* transmitted, under preemption, refused and slow transmissions and late
\* flow-control frames, for messages of any length: the 8-bit backlog counter does
\* not wrap unnoticed.
THEOREM OkIsTransmitted == ASSUME CleanUse PROVE Spec => []OkMeansTransmitted
<1>1. OrderedUse
  BY CleanIsOrdered
<1>2. Spec => []OrderInv
  BY <1>1, OrderInvariant
<1>3. Spec => []BacklogFits
  BY PaceInvariant, PaceFits, TypeCorrect, PTL
<1> QED
  BY <1>2, <1>3, OkInit, OkNext, OkImplies, TypeCorrect, FreedContextsIdle, ErrInvariant, PTL DEF Spec
=============================================================================
