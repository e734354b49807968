----------------------------- MODULE IsoTpSend -----------------------------
(***************************************************************************)
(* The sending half of the ISO-TP implementation in                        *)
(* subsys/canbus/isotp_fast/isotp_fast.c: the send contexts taken from     *)
(* isotp_send_ctx_slab, the state machine that the system work queue runs  *)
(* (send_state_machine), and the three interrupt-level handlers that race  *)
(* with it: the CAN transmit callback, the flow-control frames passed on   *)
(* by can_rx_callback, and the context's k_timer.                          *)
(*                                                                         *)
(* A context's memory outlives its allocation, as in the slab: a freed     *)
(* context keeps its fields, and a new allocation only overwrites the ones *)
(* get_send_ctx assigns.                                                   *)
(***************************************************************************)
EXTENDS IsoTpFrames, Sequences, FiniteSets

CONSTANTS
    Targets,       \* the CAN addresses messages are sent to
    Lengths,       \* the message lengths the application uses, in bytes
    MaxSends,      \* bound: calls of isotp_fast_send
    MaxStrays,     \* bound: reports of one message before strays stop
    MAX_LEN,       \* ISOTP_FAST_MAX_LEN
    TX_BUF_COUNT,  \* CONFIG_ISOTP_FAST_TX_BUF_COUNT, blocks of the slab
    OPTS_BS,       \* opts->bs of the bound context
    OPTS_STMIN,    \* opts->stmin of the bound context
    FcBS, FcStmin, \* the block sizes and STmin values peers put in a CTS
    WFTMAX,        \* CONFIG_ISOTP_WFTMAX
    NoInit,        \* what an uninitialised uint8_t of the slab may hold
    Faults         \* which of AllFaults the environment commits

\* preempt:  an interrupt is served between can_send() and the statements
\*           after it in the work handler
\* txerr:    the controller reports a transmission as failed
\* sendfail: can_send() returns an error
\* slowtx:   a frame is still unsent when the 1 s FC timeout expires
\* latefc:   a peer's FC arrives after the sender gave up on it
\* strayfc:  an FC arrives that nothing on the wire asked for
\* busy:     the application sends to a peer whose context is in use
AllFaults == {"preempt", "txerr", "sendfail", "slowtx", "latefc", "strayfc",
              "busy"}

ASSUME SendAssumptions ==
    /\ MaxSends \in Nat /\ MaxStrays \in Nat /\ MAX_LEN \in Nat /\ WFTMAX \in Nat
    /\ TX_BUF_COUNT \in Nat
    /\ Lengths \subseteq Nat
    /\ OPTS_BS \in Bytes /\ OPTS_STMIN \in Bytes
    /\ FcBS \subseteq Bytes /\ FcStmin \subseteq Bytes
    /\ NoInit \subseteq Bytes /\ NoInit # {}
    /\ Faults \subseteq AllFaults

VARIABLES
    sctx,    \* the send context (slab block) of every target
    wq,      \* k_work items queued on the system work queue, in order
    cur,     \* what the work queue's thread is doing
    mbox,    \* frames in the CAN controller, not yet transmitted
    calls,   \* calls of isotp_fast_send so far; a message is its number
    len,     \* length of every message accepted for segmented sending
    report,  \* results passed to sent_callback, per message (cb_arg)
    out,     \* history: frames of each message handed to the controller
    acked,   \* history: frames of each message transmitted without error
    window,  \* history: CFs the peer still accepts before its next FC
    waits    \* history: WAIT frames received for the current message

hist    == <<out, acked, window, waits>>
appVars == <<calls, len>>
vars    == <<sctx, wq, cur, mbox, calls, len, report, out, acked, window, waits>>

-----------------------------------------------------------------------------
(* Data *)

Msgs    == 1 .. MaxSends
NoMsg   == 0                       \* cb_arg of a block never used to send
TxState == {"RESET", "SEND_FF", "SEND_CF", "WAIT_FC", "WAIT_ST",
            "WAIT_BACKLOG", "WAIT_FIN", "ERR"}
Errors  == {"OK", "TIMEOUT_A", "TIMEOUT_BS", "WFT_OVRN", "UNEXP_PDU",
            "BUFFER_OVERFLW", "INVALID_FS", "ERROR"}
Unlimited == MAX_LEN + 1           \* a window no message can exhaust

Frame == [type : {"FF", "CF"}, sn : 0 .. SN_MOD - 1, msg : Msgs \cup {NoMsg},
          off : Nat, n : Nat, len : Nat]

Ctx == [alloc : BOOLEAN, state : TxState, error : Errors,
        msg : Msgs \cup {NoMsg}, off : Nat, rem : Nat, sn : 0 .. SN_MOD - 1,
        bs : Bytes, stmin : Bytes, backlog : Bytes, wft : Bytes,
        sem : {0, 1}, timer : BOOLEAN]

Idle == [pc |-> "idle"]
Cur  == [pc : {"idle"}] \cup [pc : {"ff", "cf", "sem"}, t : Targets]

FC == [fs : {"CTS"}, bs : FcBS, stmin : FcStmin] \cup [fs : {"WAIT", "OVFLW", "BAD"}]

-----------------------------------------------------------------------------
(* The kernel and the CAN driver, as the code uses them *)

\* k_work_submit: an item already queued is not queued twice
Submit(q, t) == IF \E i \in DOMAIN q : q[i] = t THEN q ELSE Append(q, t)

\* Interrupt handlers run while the work queue's thread is idle or blocked, and
\* under "preempt" at any moment.
IsrAllowed == cur.pc \in {"idle", "sem"} \/ "preempt" \in Faults

CanSendResults == {"ok"} \cup (IF "sendfail" \in Faults THEN {"EAGAIN", "EIO"} ELSE {})

-----------------------------------------------------------------------------
(* Contexts *)

Allocated == {t \in Targets : sctx[t].alloc}

\* get_send_ctx on a free block: wft and backlog are not assigned.
NewSendCtx(c) ==
    [c EXCEPT !.alloc = TRUE, !.bs = OPTS_BS, !.stmin = OPTS_STMIN,
              !.state = "SEND_FF", !.error = "OK", !.sem = 0, !.timer = FALSE]

get_send_ctx(t) == IF sctx[t].alloc THEN sctx[t] ELSE NewSendCtx(sctx[t])

\* The slab is exhausted and t has no context yet: ISOTP_NO_CTX_LEFT.
NoCtxLeft(t) == ~sctx[t].alloc /\ Cardinality(Allocated) >= TX_BUF_COUNT

\* Mutant: the context goes back to the slab with its timer running.
free_send_ctx_TimerLeft(c) == [c EXCEPT !.alloc = FALSE]

free_send_ctx(c) == [c EXCEPT !.timer = FALSE, !.alloc = FALSE]

send_report_error(c, e) == [c EXCEPT !.state = "ERR", !.error = e]

-----------------------------------------------------------------------------
(* isotp_fast_send *)

MayCall == calls < MaxSends /\ cur.pc \in {"idle", "sem"}

\* A message that fits one frame is sent synchronously: can_send() without a
\* callback returns once the frame is on the wire.
SendSf(t, l) ==
    /\ MayCall /\ l <= SfMax
    /\ calls' = calls + 1
    /\ \E r \in CanSendResults :
         report' = [report EXCEPT ![calls + 1] =
                       Append(@, IF r = "ok" THEN "OK" ELSE "ERROR")]
    /\ UNCHANGED <<sctx, wq, cur, mbox, len, hist>>

\* Refused: longer than ISOTP_FAST_MAX_LEN, or no context left.
SendRefused(t, l) ==
    /\ MayCall /\ l > SfMax
    /\ l > MAX_LEN \/ NoCtxLeft(t)
    /\ calls' = calls + 1
    /\ UNCHANGED <<sctx, wq, cur, mbox, len, report, hist>>

\* Accepted: the context takes the message and the state machine is queued.
\* There is no check that the context found is not already sending.
SendMulti(t, l) ==
    /\ MayCall /\ l > SfMax /\ l <= MAX_LEN /\ ~NoCtxLeft(t)
    /\ sctx[t].alloc => "busy" \in Faults
    /\ calls' = calls + 1
    /\ len' = [len EXCEPT ![calls + 1] = l]
    /\ sctx' = [sctx EXCEPT ![t] = [get_send_ctx(t) EXCEPT
                    !.msg = calls + 1, !.off = 0, !.rem = l]]
    /\ wq' = Submit(wq, t)
    /\ window' = [window EXCEPT ![t] = IF sctx[t].alloc THEN @ ELSE 0]
    /\ waits' = [waits EXCEPT ![t] = 0]
    /\ UNCHANGED <<cur, mbox, report, out, acked>>

-----------------------------------------------------------------------------
(* send_state_machine, run by the work queue *)

Running(t, st) == /\ cur = Idle /\ wq # <<>> /\ t = Head(wq)
                  /\ sctx[t].state \in st
                  /\ wq' = Tail(wq)

HandToController(t, f) ==
    /\ mbox' = [mbox EXCEPT ![t] = Append(@, f)]
    /\ out' = [out EXCEPT ![f.msg] = Append(@, f)]

\* ISOTP_TX_SEND_FF: send_ff(), whose result is ignored.
WorkSendFf(t) ==
    /\ Running(t, {"SEND_FF"})
    /\ LET c == sctx[t]
           n == Min2(FfLen, c.rem)
           f == [type |-> "FF", sn |-> 0, msg |-> c.msg, off |-> c.off,
                 n |-> n, len |-> c.rem]
       IN  /\ sctx' = [sctx EXCEPT ![t] = [c EXCEPT !.sn = 1, !.rem = @ - n,
                                                    !.off = @ + n]]
           /\ \E r \in CanSendResults :
                IF r = "ok" THEN HandToController(t, f) ELSE UNCHANGED <<mbox, out>>
    /\ cur' = [pc |-> "ff", t |-> t]
    /\ UNCHANGED <<appVars, report, acked, window, waits>>

FinishFf ==
    /\ cur.pc = "ff"
    /\ sctx' = [sctx EXCEPT ![cur.t].timer = TRUE, ![cur.t].state = "WAIT_FC"]
    /\ cur' = Idle
    /\ UNCHANGED <<wq, mbox, appVars, report, hist>>

\* send_cf() up to and including can_send(), and what the loop of
\* ISOTP_TX_SEND_CF does when it fails: the error is noted, but the state
\* machine is not queued again.
SendCf(t, c) ==
    LET n == Min2(c.rem, CfLen)
        f == [type |-> "CF", sn |-> c.sn, msg |-> c.msg, off |-> c.off,
              n |-> n, len |-> 0]
        d == [c EXCEPT !.rem = @ - n, !.off = @ + n]
    IN  \E r \in CanSendResults :
          IF r = "ok"
          THEN /\ HandToController(t, f)
               /\ window' = [window EXCEPT ![t] = @ - 1]
               /\ sctx' = [sctx EXCEPT ![t] = d]
               /\ cur' = [pc |-> "cf", t |-> t]
          ELSE /\ sctx' = [sctx EXCEPT ![t] = send_report_error(d,
                              IF r = "EAGAIN" THEN "TIMEOUT_A" ELSE "ERROR")]
               /\ cur' = Idle
               /\ UNCHANGED <<mbox, out, window>>

WorkSendCf(t) ==
    /\ Running(t, {"SEND_CF"})
    /\ SendCf(t, [sctx[t] EXCEPT !.timer = FALSE])
    /\ UNCHANGED <<appVars, report, acked, waits>>

\* The counters send_cf() updates after can_send() returned.
CountCf(c) == [c EXCEPT !.sn = IncSn(@), !.bs = Dec8(@), !.backlog = Inc8(@)]

\* Mutant: the end of a block is not noticed.
AfterCf_NoBlockEnd(c) ==
    IF c.rem = 0 THEN [c EXCEPT !.state = "WAIT_BACKLOG"]
    ELSE IF c.stmin # 0 THEN [c EXCEPT !.state = "WAIT_ST"] ELSE c

\* Mutant: the block ends one frame early.
AfterCf_EarlyBlockEnd(c) ==
    IF c.rem = 0 THEN [c EXCEPT !.state = "WAIT_BACKLOG"]
    ELSE IF OPTS_BS # 0 /\ c.bs <= 1
         THEN [c EXCEPT !.timer = TRUE, !.state = "WAIT_FC"]
    ELSE IF c.stmin # 0 THEN [c EXCEPT !.state = "WAIT_ST"] ELSE c

\* Mutant: the message is finished before its frames have left the controller.
AfterCf_NoBacklogWait(c) ==
    IF c.rem = 0 THEN [c EXCEPT !.state = "WAIT_FIN"]
    ELSE IF OPTS_BS # 0 /\ c.bs = 0
         THEN [c EXCEPT !.timer = TRUE, !.state = "WAIT_FC"]
    ELSE IF c.stmin # 0 THEN [c EXCEPT !.state = "WAIT_ST"] ELSE c

\* The rest of the loop body: all sent, end of block, or separation time;
\* otherwise the loop blocks the work queue until the frame is transmitted.
AfterCf(c) ==
    IF c.rem = 0 THEN [c EXCEPT !.state = "WAIT_BACKLOG"]
    ELSE IF OPTS_BS # 0 /\ c.bs = 0
         THEN [c EXCEPT !.timer = TRUE, !.state = "WAIT_FC"]
    ELSE IF c.stmin # 0 THEN [c EXCEPT !.state = "WAIT_ST"]
    ELSE c

FinishCf ==
    /\ cur.pc = "cf"
    /\ LET c == CountCf(sctx[cur.t])
           stays == c.rem # 0 /\ ~(OPTS_BS # 0 /\ c.bs = 0) /\ c.stmin = 0
       IN  /\ sctx' = [sctx EXCEPT ![cur.t] = AfterCf(c)]
           /\ cur' = IF stays THEN [pc |-> "sem", t |-> cur.t] ELSE Idle
    /\ UNCHANGED <<wq, mbox, appVars, report, hist>>

\* k_sem_take(&sctx->sem, K_FOREVER) succeeds and the loop goes round, whatever
\* has become of the context's state meanwhile.
TakeSem ==
    /\ cur.pc = "sem" /\ sctx[cur.t].sem = 1
    /\ SendCf(cur.t, [sctx[cur.t] EXCEPT !.sem = 0])
    /\ UNCHANGED <<wq, appVars, report, acked, waits>>

WorkWaitSt(t) ==
    /\ Running(t, {"WAIT_ST"})
    /\ sctx' = [sctx EXCEPT ![t].timer = TRUE, ![t].state = "SEND_CF"]
    /\ UNCHANGED <<cur, mbox, appVars, report, hist>>

Retire(c) == free_send_ctx([c EXCEPT !.state = "RESET"])

\* ISOTP_TX_ERR and ISOTP_TX_WAIT_FIN: tell the application, free the context.
WorkFinish(t) ==
    /\ Running(t, {"ERR", "WAIT_FIN"})
    /\ LET c == sctx[t] IN
         /\ report' = [report EXCEPT ![c.msg] =
                Append(@, IF c.state = "ERR" THEN c.error ELSE "OK")]
         /\ sctx' = [sctx EXCEPT ![t] = Retire(c)]
    /\ UNCHANGED <<cur, mbox, appVars, hist>>

WorkNothing(t) ==
    /\ Running(t, {"RESET", "WAIT_FC", "WAIT_BACKLOG"})
    /\ UNCHANGED <<sctx, cur, mbox, appVars, report, hist>>

-----------------------------------------------------------------------------
(* Interrupt handlers *)

\* send_can_tx_callback: its error argument is not looked at.
TxCallback(c) ==
    LET d == [c EXCEPT !.backlog = Dec8(@), !.sem = 1]
    IN  IF d.state = "WAIT_BACKLOG" /\ d.backlog = 0
        THEN [d EXCEPT !.state = "WAIT_FIN"] ELSE d

\* Mutant: the callback of the last frame does not queue the work item.
TxSubmits_NeverAtEnd(c) == c.state # "WAIT_BACKLOG"

\* Whether the callback queues the state machine: not while frames of a fully
\* handed over message are outstanding.
TxSubmits(c) == ~(c.state = "WAIT_BACKLOG" /\ Dec8(c.backlog) > 0)

TxDone(t, ok) ==
    /\ IsrAllowed /\ mbox[t] # <<>>
    /\ ok \/ "txerr" \in Faults
    /\ mbox' = [mbox EXCEPT ![t] = Tail(@)]
    /\ acked' = [acked EXCEPT ![Head(mbox[t]).msg] = IF ok THEN @ + 1 ELSE @]
    /\ sctx' = [sctx EXCEPT ![t] = TxCallback(@)]
    /\ wq' = IF TxSubmits(sctx[t]) THEN Submit(wq, t) ELSE wq
    /\ UNCHANGED <<cur, appVars, report, out, window, waits>>

\* send_process_fc
OnWait(c) ==
    LET d == [c EXCEPT !.timer = TRUE]
        e == IF c.wft >= WFTMAX THEN send_report_error(d, "WFT_OVRN") ELSE d
    IN  [e EXCEPT !.wft = Inc8(@)]

send_process_fc(c, fc) ==
    CASE fc.fs = "CTS"   -> [c EXCEPT !.state = "SEND_CF", !.wft = 0, !.backlog = 0,
                                      !.sem = 0, !.bs = fc.bs, !.stmin = fc.stmin]
      [] fc.fs = "WAIT"  -> OnWait(c)
      [] fc.fs = "OVFLW" -> send_report_error(c, "BUFFER_OVERFLW")
      [] OTHER           -> send_report_error(c, "INVALID_FS")

\* send_can_rx
send_can_rx(c, fc) ==
    IF c.state = "WAIT_FC" THEN send_process_fc([c EXCEPT !.timer = FALSE], fc)
                           ELSE send_report_error(c, "UNEXP_PDU")

\* When an FC may come in: the peer owes one once the first frame or the last
\* frame of a block is on the wire.
PeerOwesFc(t) == /\ sctx[t].alloc /\ mbox[t] = <<>> /\ window[t] = 0
                 /\ out[sctx[t].msg] # <<>> /\ sctx[t].rem > 0
FcMayArrive(t) == \/ PeerOwesFc(t)
                  \/ /\ Len(report[sctx[t].msg]) <= MaxStrays
                     /\ \/ /\ "latefc" \in Faults
                           /\ ~sctx[t].alloc /\ sctx[t].error = "TIMEOUT_BS"
                        \/ "strayfc" \in Faults

\* can_rx_callback on a flow-control frame: a context is created if t has none.
HandleFc(t, fc) ==
    /\ IsrAllowed /\ ~NoCtxLeft(t)
    /\ LET c == get_send_ctx(t) IN
         /\ sctx' = [sctx EXCEPT ![t] = send_can_rx(c, fc)]
         /\ window' = IF c.state = "WAIT_FC" /\ fc.fs = "CTS"
                      THEN [window EXCEPT ![t] = IF fc.bs = 0 THEN Unlimited ELSE fc.bs]
                      ELSE window
         /\ waits' = [waits EXCEPT ![t] =
                         IF c.state = "WAIT_FC" /\ fc.fs = "WAIT" THEN @ + 1 ELSE @]
    /\ wq' = Submit(wq, t)
    /\ UNCHANGED <<cur, mbox, appVars, report, out, acked>>

FcRx(t, fc) == FcMayArrive(t) /\ HandleFc(t, fc)

\* send_timeout_handler: the FC timeout, or the separation time in SEND_CF.
Timeout(t) ==
    /\ IsrAllowed /\ sctx[t].timer
    /\ sctx[t].state = "WAIT_FC" => mbox[t] = <<>> \/ "slowtx" \in Faults
    /\ LET c == [sctx[t] EXCEPT !.timer = FALSE] IN
         sctx' = [sctx EXCEPT ![t] = IF c.state # "SEND_CF"
                                     THEN send_report_error(c, "TIMEOUT_BS") ELSE c]
    /\ wq' = Submit(wq, t)
    /\ UNCHANGED <<cur, mbox, appVars, report, hist>>

-----------------------------------------------------------------------------

Init ==
    /\ \E g \in NoInit :
         sctx = [t \in Targets |->
            [alloc |-> FALSE, state |-> "RESET", error |-> "OK", msg |-> NoMsg,
             off |-> 0, rem |-> 0, sn |-> 0, bs |-> 0, stmin |-> 0,
             backlog |-> g, wft |-> g, sem |-> 0, timer |-> FALSE]]
    /\ wq = <<>> /\ cur = Idle
    /\ mbox = [t \in Targets |-> <<>>]
    /\ calls = 0 /\ len = [m \in Msgs |-> 0]
    /\ report = [m \in Msgs \cup {NoMsg} |-> <<>>]
    /\ out = [m \in Msgs \cup {NoMsg} |-> <<>>]
    /\ acked = [m \in Msgs \cup {NoMsg} |-> 0]
    /\ window = [t \in Targets |-> 0] /\ waits = [t \in Targets |-> 0]

App(t)    == \E l \in Lengths : SendSf(t, l) \/ SendRefused(t, l) \/ SendMulti(t, l)
Work(t)   == \/ WorkSendFf(t) \/ WorkSendCf(t) \/ WorkWaitSt(t)
             \/ WorkFinish(t) \/ WorkNothing(t)
Worker    == FinishFf \/ FinishCf \/ TakeSem \/ \E t \in Targets : Work(t)
Driver(t) == \E ok \in BOOLEAN : TxDone(t, ok)
Peer(t)   == \E fc \in FC : FcRx(t, fc)

Next == \/ Worker
        \/ \E t \in Targets : App(t) \/ Driver(t) \/ Peer(t) \/ Timeout(t)

Spec == Init /\ [][Next]_vars

\* The work queue's thread, the controller and the kernel's timers make
\* progress; neither the application nor a peer is obliged to do anything.
Fairness == /\ WF_vars(Worker)
            /\ \A t \in Targets : WF_vars(Driver(t)) /\ WF_vars(Timeout(t))
FairSpec == Spec /\ Fairness

-----------------------------------------------------------------------------
(* Properties *)

\* Every field of every context stays within the width the code gives it.
TypeOK ==
    /\ sctx \in [Targets -> Ctx]
    /\ wq \in Seq(Targets)
    /\ cur \in Cur
    /\ mbox \in [Targets -> Seq(Frame)]
    /\ calls \in 0 .. MaxSends
    /\ len \in [Msgs -> Nat]
    /\ report \in [Msgs \cup {NoMsg} -> Seq(Errors)]
    /\ out \in [Msgs \cup {NoMsg} -> Seq(Frame)]
    /\ acked \in [Msgs \cup {NoMsg} -> Nat]
    /\ window \in [Targets -> Int]
    /\ waits \in [Targets -> Nat]

\* The frames of a message handed to the controller (send_ff, send_cf) are, in
\* order and without gap, the frames of its segmentation: right offsets, lengths
\* and sequence numbers.
FramesInSequence ==
    \A m \in Msgs : \A i \in DOMAIN out[m] : out[m][i] = Segment(m, len[m], i)

\* No consecutive frame is sent beyond the block size of the peer's last CTS:
\* send_cf never runs with the peer's window closed.
FlowControlRespected == \A t \in Targets : window[t] >= 0

\* The sender waits for a flow-control frame only when the peer owes it one:
\* otherwise a healthy transfer would die of ISOTP_N_TIMEOUT_BS.
WaitsOnlyForOwedFc ==
    \A t \in Targets : sctx[t].alloc /\ sctx[t].state = "WAIT_FC" => window[t] = 0

\* A context given back to the slab is at rest, under every fault: its timer is
\* stopped, its state is RESET, so that a late transmit callback or a second run
\* of its work item does nothing, and the work queue is not inside its handler.
FreedIsIdleAt(t) ==
    ~sctx[t].alloc => /\ sctx[t].state = "RESET" /\ ~sctx[t].timer
                      /\ cur.pc = "idle" \/ cur.t # t
FreedIsIdle == \A t \in Targets : FreedIsIdleAt(t)

\* Why the flow-control properties above hold: the context's bs mirrors the peer's window
\* wherever the state machine may send, except between can_send() and bs--, and
\* whatever frames, timeouts and errors come in meanwhile.
At(p, t) == cur.pc = p /\ cur.t = t
MirrorsWindow(t) == window[t] = sctx[t].bs /\ sctx[t].bs > 0
FlowInvAt(t) ==
    /\ window[t] >= 0
    /\ sctx[t].state \in {"SEND_FF", "WAIT_FC"} => window[t] = 0
    /\ sctx[t].state \in {"SEND_CF", "WAIT_ST"} /\ ~At("cf", t) => MirrorsWindow(t)
    /\ At("ff", t)  => sctx[t].state \in {"SEND_FF", "ERR"} /\ window[t] = 0
    /\ At("cf", t)  => sctx[t].state \in {"SEND_CF", "ERR"} /\ window[t] = sctx[t].bs - 1
    /\ At("sem", t) => sctx[t].state \in {"SEND_CF", "ERR"} /\ MirrorsWindow(t)
FlowInv == \A t \in Targets : FlowInvAt(t)

\* sent_callback is called at most once for a message, and never with the
\* argument of no message.
ReportedOnce ==
    /\ report[NoMsg] = <<>>
    /\ \A m \in Msgs : Len(report[m]) <= 1

\* sent_callback(ISOTP_N_OK) for a segmented message means that each of its
\* frames was transmitted.
OkMeansTransmitted ==
    \A m \in Msgs : len[m] > 0 /\ (\E i \in DOMAIN report[m] : report[m][i] = "OK")
                    => acked[m] = NumSegs(len[m])

\* A transfer is given up for too many WAIT frames only if the peer sent more
\* than CONFIG_ISOTP_WFTMAX of them for this message.
WaitLimitIsPerMessage ==
    \A t \in Targets : sctx[t].alloc /\ sctx[t].error = "WFT_OVRN" => waits[t] > WFTMAX

\* sent_callback is called for every message accepted for segmented sending.
EverySendReported ==
    \A m \in Msgs : len[m] > 0 ~> report[m] # <<>>
=============================================================================
