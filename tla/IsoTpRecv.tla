----------------------------- MODULE IsoTpRecv -----------------------------
(***************************************************************************)
(* The receiving half of subsys/canbus/isotp_fast/isotp_fast.c, in the     *)
(* build without receive queues (the one ThingSet uses): the receive       *)
(* contexts of isotp_recv_ctx_slab, the chains of isotp_rx_pool buffers    *)
(* they collect, the frames handled in the CAN interrupt (get_recv_ctx,    *)
(* process_ff_sf, process_cf), and receive_state_machine on the system     *)
(* work queue.  The peers that send to it are part of the environment.     *)
(*                                                                         *)
(* The slab's free list is modelled by its links, because the error path   *)
(* gives a context back twice.  The list goes wrong when a block that is   *)
(* in use is handed out again: rx.aliased records it and the model stops,  *)
(* what follows is memory corruption.                                      *)
(***************************************************************************)
EXTENDS IsoTpFrames, Sequences, FiniteSets

CONSTANTS
    Peers,             \* the nodes that send to this one
    Lengths,           \* the lengths of their messages
    MaxMsgs,           \* bound: messages per peer
    RX_BUF_COUNT,      \* CONFIG_ISOTP_FAST_RX_BUF_COUNT, blocks of the slab
    MAX_PACKET_COUNT,  \* CONFIG_ISOTP_FAST_RX_MAX_PACKET_COUNT
    WFTMAX,            \* CONFIG_ISOTP_WFTMAX
    MaxErrors,         \* bound: error callbacks per peer
    Envs               \* the environments to consider: see Env

\* preempt: an interrupt is served between can_send() of a flow-control frame
\*          and the statements after it
\* loss:    a frame, of the peer or to it, is lost
\* b2b:     a peer starts a message while its previous one is being processed
\* abort:   a peer gives a message up and starts another
\* fcfail:  can_send() of a flow-control frame returns an error
\* fctxerr: the controller reports the transmission of an FC as failed
\* slow:    the 1 s CF timeout expires although the peer is still sending, or
\*          the work queue is that late
AllRxFaults == {"preempt", "loss", "b2b", "abort", "fcfail", "fctxerr", "slow"}

\* What is fixed for a behaviour: the peers that send, how many messages each and
\* of which lengths, the faults that may happen, and opts->bs of the bound context.
Env == [peers : SUBSET Peers, msgs : 0 .. MaxMsgs, lens : SUBSET Lengths,
        faults : SUBSET AllRxFaults, bs : Bytes]

ASSUME RecvAssumptions ==
    /\ MaxMsgs \in Nat /\ MaxErrors \in Nat /\ WFTMAX \in Nat
    /\ RX_BUF_COUNT \in Nat \ {0} /\ MAX_PACKET_COUNT \in Nat
    /\ Lengths \subseteq Nat \ {0}
    /\ Envs \subseteq Env

VARIABLES
    env,    \* one of Envs
    rx,     \* contexts, their list and the slab; FC frames in the controller;
            \* what the application was told
    wq,     \* k_work items queued on the system work queue, in order
    cur,    \* what the work queue's thread is doing
    peer    \* the senders

vars == <<env, rx, wq, cur, peer>>

Faults  == env.faults
RxBs    == env.bs

Nil    == 0
Blocks == 1 .. RX_BUF_COUNT
Pool   == RX_BUF_COUNT * MAX_PACKET_COUNT   \* buffers of isotp_rx_pool

RxState == {"WAIT_FF_SF", "PROCESS_SF", "PROCESS_FF", "TRY_ALLOC", "SEND_FC",
            "WAIT_CF", "SEND_WAIT", "ERR", "RECYCLE", "UNBOUND"}
RxError == {"OK", "TIMEOUT_A", "TIMEOUT_CR", "UNEXP_PDU", "WRONG_SN",
            "BUFFER_OVERFLW", "ERROR"}
WFT_FIRST == BYTE - 1

Piece == [msg : Nat, off : Nat, n : Nat]
Freed == <<[msg |-> 0, off |-> 0, n |-> 0]>>  \* a buffer after net_buf_unref

\* A context: bufs counts the buffers of its chain (0: buffer->ref is 0), data
\* is what has been added to them.
Ctx == [addr : Peers \cup {Nil}, state : RxState, error : RxError, rem : Nat,
        sn : 0 .. SN_MOD - 1, bs : Bytes, wft : Bytes, timer : BOOLEAN,
        bufs : Nat, data : Seq(Piece)]

Fc == [ctx : Blocks, to : Peers, fs : {"CTS", "WAIT", "OVFLW"}]

Idle == [pc |-> "idle"]
Cur  == [pc : {"idle"}] \cup [pc : {"fc"}, b : Blocks, to : {"WAIT_CF", "TRY_ALLOC"}]

Submit(q, b) == IF \E i \in DOMAIN q : q[i] = b THEN q ELSE Append(q, b)
Usable       == ~rx.aliased
IsrAllowed   == Usable /\ (cur = Idle \/ "preempt" \in Faults)
CtxOf(p)     == {b \in rx.list : rx.ctx[b].addr = p}

-----------------------------------------------------------------------------
(* Contexts and buffers *)

BufsOf(S, B) ==
    LET f[n \in 0 .. RX_BUF_COUNT] ==
            IF n = 0 THEN 0 ELSE f[n - 1] + (IF n \in B THEN S.ctx[n].bufs ELSE 0)
    IN  f[RX_BUF_COUNT]
NoNetBufLeft == BufsOf(rx, Blocks) >= Pool

\* Mutant: the block is not given back to the slab.
free_recv_ctx_Leaks(S, b) ==
    [S EXCEPT !.ctx[b].timer = FALSE, !.list = @ \ {b}, !.ctx[b].bufs = 0]

\* free_recv_ctx: stop the timer, unlink the context, release its buffers if
\* they still are its own, and push the block on the slab's free list.
free_recv_ctx(S, b) ==
    [S EXCEPT !.ctx[b].timer = FALSE, !.list = @ \ {b}, !.ctx[b].bufs = 0,
              !.link[b] = S.head, !.head = b]

\* get_recv_ctx for a peer without context, when there is a block and a buffer:
\* bs, wft, rem and sn keep what the block's last use left in them.
NewRecvCtx(S, p) ==
    LET b == S.head IN
    [S EXCEPT !.head = S.link[b], !.list = @ \cup {b}, !.aliased = b \in S.list,
              !.ctx[b] = [@ EXCEPT !.addr = p, !.state = "WAIT_FF_SF", !.error = "OK",
                                   !.timer = FALSE, !.bufs = 1, !.data = <<>>]]

-----------------------------------------------------------------------------
(* The CAN interrupt: a frame f of peer p *)

Report(c, e) == [c EXCEPT !.state = "ERR", !.error = e]
Add(c, f, n) == [c EXCEPT !.data = Append(@, [msg |-> f.msg, off |-> f.off, n |-> n]),
                          !.rem = @ - n]

\* process_ff_sf: a consecutive frame is ignored here.
process_ff_sf(c, f) ==
    CASE f.type = "FF" -> Add([c EXCEPT !.rem = f.len, !.state = "PROCESS_FF", !.sn = 1],
                              f, FfLen)
      [] f.type = "SF" -> Add([c EXCEPT !.rem = f.len, !.state = "PROCESS_SF"], f, f.n)
      [] OTHER         -> c

\* Mutant: the timer is stopped and not started again.
CfTimer_Stopped(c) == [c EXCEPT !.timer = FALSE]
\* process_cf restarts the reception timer.
CfTimer(c) == [c EXCEPT !.timer = TRUE]

\* Mutant: the sequence number is not compared.
SnMatches_Always(c, f) == TRUE
\* The frame is the next one of the message.
SnMatches(c, f) == f.sn = c.sn

\* Mutant: the block ends one frame early.
CfAdded_ShortBlock(c) ==
    IF c.rem = 0 THEN [c EXCEPT !.state = "RECYCLE"]
    ELSE IF RxBs # 0 /\ c.bs = 2 THEN [c EXCEPT !.bs = RxBs, !.state = "TRY_ALLOC"]
    ELSE IF RxBs # 0 THEN [c EXCEPT !.bs = Dec8(@)]
    ELSE c

\* The end of process_cf: message complete, block complete, or neither.
CfAdded(c) ==
    IF c.rem = 0 THEN [c EXCEPT !.state = "RECYCLE"]
    ELSE IF RxBs # 0 /\ c.bs = 1 THEN [c EXCEPT !.bs = RxBs, !.state = "TRY_ALLOC"]
    ELSE IF RxBs # 0 THEN [c EXCEPT !.bs = Dec8(@)]
    ELSE c

\* process_cf: the timer is restarted before the sequence number is looked at.
process_cf(c, f) ==
    LET d == CfTimer([c EXCEPT !.sn = IncSn(@)]) IN
    IF f.type # "CF" THEN Report(c, "UNEXP_PDU")
    ELSE IF ~SnMatches(c, f) THEN Report(d, "WRONG_SN")
    ELSE CfAdded(Add(d, f, Min2(d.rem, f.n)))

\* receive_can_rx; in any other state the frame is dropped.
receive_can_rx(c, f) ==
    CASE c.state = "WAIT_FF_SF" -> process_ff_sf(c, f)
      [] c.state = "WAIT_CF"    -> process_cf(c, f)
      [] OTHER                  -> c

\* The work item is queued unless more consecutive frames are expected.
Handle(S, b, f) ==
    LET c == receive_can_rx(S.ctx[b], f) IN
    /\ rx' = [S EXCEPT !.ctx[b] = c]
    /\ wq' = IF S.ctx[b].state = "WAIT_CF" /\ c.state = "WAIT_CF" THEN wq
             ELSE Submit(wq, b)

\* can_rx_callback on a data frame.  A peer that has a context gets a buffer for
\* every frame, used or not; the context dies if there is none.
FrameRx(p, f) ==
    \/ \E b \in CtxOf(p) :
         IF NoNetBufLeft
         THEN rx' = free_recv_ctx(rx, b) /\ wq' = wq
         ELSE Handle([rx EXCEPT !.ctx[b].bufs = @ + 1], b, f)
    \/ /\ CtxOf(p) = {}
       /\ IF rx.head = Nil \/ NoNetBufLeft THEN UNCHANGED <<rx, wq>>
          ELSE Handle(NewRecvCtx(rx, p), rx.head, f)

-----------------------------------------------------------------------------
(* receive_state_machine *)

Running(b, st) == /\ Usable /\ cur = Idle /\ wq # <<>> /\ b = Head(wq)
                  /\ rx.ctx[b].state \in st
                  /\ wq' = Tail(wq)

\* recv_callback and the end of the reception.  A buffer that has been released
\* already is passed to the callback all the same.
Recycle(S, b) ==
    LET c == S.ctx[b]
        T == [S EXCEPT !.got[c.addr] = Append(@, IF c.bufs > 0 THEN c.data ELSE Freed),
                       !.ctx[b].state = "UNBOUND"]
    IN  free_recv_ctx(T, b)

\* ISOTP_RX_STATE_ERR falls through to ISOTP_RX_STATE_RECYCLE.
ErrorEnd(S, b) ==
    LET T == [S EXCEPT !.errs[S.ctx[b].addr] = Append(@, S.ctx[b].error),
                       !.ctx[b].timer = FALSE]
    IN  Recycle(free_recv_ctx(T, b), b)

\* receive_send_fc: if can_send() fails the state machine is run recursively.
receive_send_fc(S, b, fs, ok) ==
    IF ok THEN [S EXCEPT !.fc = Append(@, [ctx |-> b, to |-> S.ctx[b].addr, fs |-> fs])]
    ELSE ErrorEnd([S EXCEPT !.ctx[b] = Report(@, "TIMEOUT_A")], b)

CanSendResults == {TRUE} \cup (IF "fcfail" \in Faults THEN {FALSE} ELSE {})

\* The error path sends a flow-control frame of its own after an overflow; a
\* failure of it ends the reception once more, before the path goes on.
ErrorPath(S, b, ok) ==
    LET T == [S EXCEPT !.errs[S.ctx[b].addr] = Append(@, S.ctx[b].error),
                       !.ctx[b].timer = FALSE]
        U == IF S.ctx[b].error = "BUFFER_OVERFLW" THEN receive_send_fc(T, b, "OVFLW", ok)
                                                  ELSE T
    IN  Recycle(free_recv_ctx(U, b), b)

WorkSf(b) ==
    /\ Running(b, {"PROCESS_SF"})
    /\ rx' = Recycle([rx EXCEPT !.ctx[b].rem = 0], b)
    /\ UNCHANGED <<env, cur, peer>>

TooLong(c) == RxBs = 0 /\ c.rem > MAX_PACKET_COUNT * CfLen

WorkFfTooLong(b) ==
    /\ Running(b, {"PROCESS_FF"}) /\ TooLong(rx.ctx[b])
    /\ \E ok \in CanSendResults :
         rx' = ErrorPath([rx EXCEPT !.ctx[b] = Report(@, "BUFFER_OVERFLW")], b, ok)
    /\ UNCHANGED <<env, cur, peer>>

\* From the states that lead to a CTS, up to and including can_send().
SendCts(S, b) ==
    /\ \E ok \in CanSendResults :
         rx' = receive_send_fc([S EXCEPT !.ctx[b].timer = FALSE,
                                         !.ctx[b].state = "SEND_FC"], b, "CTS", ok)
    /\ cur' = [pc |-> "fc", b |-> b, to |-> "WAIT_CF"]

WorkFf(b) ==
    /\ Running(b, {"PROCESS_FF"}) /\ ~TooLong(rx.ctx[b])
    /\ SendCts([rx EXCEPT !.ctx[b].bs = IF RxBs # 0 THEN RxBs ELSE @,
                          !.ctx[b].wft = WFT_FIRST], b)
    /\ UNCHANGED <<env, peer>>

WorkTryAlloc(b) ==
    /\ Running(b, {"TRY_ALLOC", "SEND_FC"})
    /\ SendCts(rx, b)
    /\ UNCHANGED <<env, peer>>

\* ISOTP_RX_STATE_SEND_WAIT: reached when the timer fires before the work queue
\* has taken the context out of ISOTP_RX_STATE_TRY_ALLOC.
WorkSendWait(b) ==
    /\ Running(b, {"SEND_WAIT"})
    /\ LET S == [rx EXCEPT !.ctx[b].wft = Inc8(@)] IN
       \E ok \in CanSendResults :
         IF S.ctx[b].wft < WFTMAX
         THEN /\ rx' = receive_send_fc(S, b, "WAIT", ok)
              /\ cur' = [pc |-> "fc", b |-> b, to |-> "TRY_ALLOC"]
         ELSE /\ rx' = ErrorPath([S EXCEPT !.ctx[b] = Report(@, "BUFFER_OVERFLW")], b, ok)
              /\ cur' = cur
    /\ UNCHANGED <<env, peer>>

\* After can_send(): the timer is started and the state set whatever happened
\* to the context meanwhile.
FinishFc ==
    /\ Usable /\ cur.pc = "fc"
    /\ rx' = [rx EXCEPT !.ctx[cur.b].timer = TRUE, !.ctx[cur.b].state = cur.to]
    /\ cur' = Idle
    /\ UNCHANGED <<env, wq, peer>>

WorkErr(b) ==
    /\ Running(b, {"ERR"})
    /\ \E ok \in CanSendResults : rx' = ErrorPath(rx, b, ok)
    /\ UNCHANGED <<env, cur, peer>>

WorkRecycle(b) ==
    /\ Running(b, {"RECYCLE"})
    /\ rx' = Recycle(rx, b)
    /\ UNCHANGED <<env, cur, peer>>

WorkNothing(b) ==
    /\ Running(b, {"WAIT_FF_SF", "WAIT_CF", "UNBOUND"})
    /\ UNCHANGED <<env, rx, cur, peer>>

-----------------------------------------------------------------------------
(* The environment: peers that follow ISO 15765-2, and the bus *)

NumFrames(l) == IF l <= SfMax THEN 1 ELSE NumSegs(l)
FrameOf(m, l, i) ==
    IF l <= SfMax THEN [type |-> "SF", sn |-> 0, msg |-> m, off |-> 0, n |-> l, len |-> l]
    ELSE Segment(m, l, i)
Sending(p)     == peer[p].i <= NumFrames(peer[p].len)
FcPending(p)   == \E k \in DOMAIN rx.fc : rx.fc[k].to = p

Arrives(p, f) == \/ FrameRx(p, f)
                 \/ "loss" \in Faults /\ UNCHANGED <<rx, wq>>

\* No flow-control frame is under way to p, nor about to be: what a peer that
\* gives up has waited for in vain.
Settled(p) ==
    /\ cur = Idle /\ ~FcPending(p)
    /\ \A b \in CtxOf(p) : (\E i \in DOMAIN wq : wq[i] = b)
          => rx.ctx[b].state \notin {"PROCESS_FF", "TRY_ALLOC", "SEND_FC", "SEND_WAIT"}

PeerStart(p, l) ==
    /\ IsrAllowed /\ p \in env.peers /\ l \in env.lens /\ peer[p].msg < env.msgs
    /\ \/ ~Sending(p)
       \/ "abort" \in Faults /\ Settled(p)
    /\ CtxOf(p) = {} \/ "b2b" \in Faults \/ "abort" \in Faults
    /\ peer' = [peer EXCEPT ![p] = [msg |-> @.msg + 1, len |-> l, i |-> 2, open |-> 0]]
    /\ Arrives(p, FrameOf(peer[p].msg + 1, l, 1))
    /\ UNCHANGED <<env, cur>>

PeerCf(p) ==
    /\ IsrAllowed /\ Sending(p) /\ peer[p].open > 0
    /\ peer' = [peer EXCEPT ![p].i = @ + 1, ![p].open = @ - 1]
    /\ Arrives(p, FrameOf(peer[p].msg, peer[p].len, peer[p].i))
    /\ UNCHANGED <<env, cur>>

\* A flow-control frame reaches its peer, which gives up on one it does not expect.
OnFc(q, fs) ==
    IF fs = "OVFLW" \/ (q.i <= NumFrames(q.len) /\ q.open > 0)
    THEN [q EXCEPT !.i = NumFrames(q.len) + 1, !.open = 0]
    ELSE IF fs = "CTS" /\ q.i <= NumFrames(q.len)
         THEN [q EXCEPT !.open = IF RxBs = 0 THEN NumFrames(q.len) ELSE RxBs]
    ELSE q

FcTx ==
    /\ IsrAllowed /\ rx.fc # <<>>
    /\ rx' = [rx EXCEPT !.fc = Tail(@)]
    /\ LET f == Head(rx.fc) IN
       \/ peer' = [peer EXCEPT ![f.to] = OnFc(@, f.fs)]
       \/ "loss" \in Faults /\ peer' = peer
    /\ UNCHANGED <<env, wq, cur>>

\* receive_can_tx with an error: the context may not be the frame's any more.
FcTxError ==
    /\ "fctxerr" \in Faults /\ IsrAllowed /\ rx.fc # <<>>
    /\ LET b == Head(rx.fc).ctx IN
         /\ rx' = [rx EXCEPT !.fc = Tail(@), !.ctx[b] = Report(@, "ERROR")]
         /\ wq' = Submit(wq, b)
    /\ UNCHANGED <<env, cur, peer>>

\* The CF timeout is long compared with everything else, unless "slow".
Overdue(b) ==
    LET p == rx.ctx[b].addr IN
    \/ "slow" \in Faults
    \/ /\ cur = Idle /\ \A i \in DOMAIN wq : wq[i] # b
       /\ ~FcPending(p) /\ ~(Sending(p) /\ peer[p].open > 0)

\* receive_timeout_handler
Timeout(b) ==
    /\ IsrAllowed /\ rx.ctx[b].timer /\ Overdue(b)
    /\ Len(rx.errs[rx.ctx[b].addr]) < MaxErrors
    /\ LET c == [rx.ctx[b] EXCEPT !.timer = FALSE] IN
         rx' = [rx EXCEPT !.ctx[b] =
                    CASE c.state = "WAIT_CF"   -> Report(c, "TIMEOUT_CR")
                      [] c.state = "TRY_ALLOC" -> [c EXCEPT !.state = "SEND_WAIT"]
                      [] OTHER                 -> c]
    /\ wq' = Submit(wq, b)
    /\ UNCHANGED <<env, cur, peer>>

-----------------------------------------------------------------------------

Init ==
    /\ env \in Envs
    /\ rx = [ctx  |-> [b \in Blocks |->
                [addr |-> Nil, state |-> "UNBOUND", error |-> "OK", rem |-> 0, sn |-> 0,
                 bs |-> 0, wft |-> 0, timer |-> FALSE, bufs |-> 0, data |-> <<>>]],
             list |-> {}, head |-> 1,
             link |-> [b \in Blocks |-> IF b = RX_BUF_COUNT THEN Nil ELSE b + 1],
             aliased |-> FALSE, fc |-> <<>>,
             got  |-> [p \in Peers |-> <<>>], errs |-> [p \in Peers |-> <<>>]]
    /\ wq = <<>> /\ cur = Idle
    /\ peer = [p \in Peers |-> [msg |-> 0, len |-> 0, i |-> 2, open |-> 0]]

Work(b) == \/ WorkSf(b) \/ WorkFfTooLong(b) \/ WorkFf(b) \/ WorkTryAlloc(b)
           \/ WorkSendWait(b) \/ WorkErr(b) \/ WorkRecycle(b) \/ WorkNothing(b)
Worker  == FinishFc \/ \E b \in Blocks : Work(b)
Send(p) == PeerCf(p) \/ \E l \in Lengths : PeerStart(p, l)

Next == \/ Worker \/ FcTx \/ FcTxError
        \/ \E p \in Peers : Send(p)
        \/ \E b \in Blocks : Timeout(b)

Spec == Init /\ [][Next]_vars

\* The work queue, the controller and the timers make progress, and a peer that
\* may send goes on sending (a frame that never comes is a lost frame).
Fairness == /\ WF_vars(Worker) /\ WF_vars(FcTx)
            /\ \A p \in Peers : WF_vars(PeerCf(p))
            /\ \A b \in Blocks : WF_vars(Timeout(b))
FairSpec == Spec /\ Fairness

-----------------------------------------------------------------------------
(* Properties *)

\* Every field stays within the width the code gives it.
TypeOK ==
    /\ env \in Env
    /\ rx \in [ctx : [Blocks -> Ctx], list : SUBSET Blocks, head : Blocks \cup {Nil},
               link : [Blocks -> Blocks \cup {Nil}], aliased : BOOLEAN, fc : Seq(Fc),
               got : [Peers -> Seq(Seq(Piece))], errs : [Peers -> Seq(RxError)]]
    /\ wq \in Seq(Blocks) /\ cur \in Cur
    /\ peer \in [Peers -> [msg : 0 .. MaxMsgs, len : Lengths \cup {0}, i : Nat, open : Nat]]

PiecesOf(m, l) == [i \in 1 .. NumFrames(l) |->
    LET f == FrameOf(m, l, i) IN [msg |-> f.msg, off |-> f.off, n |-> f.n]]

\* Whatever is lost, given up or late: data that recv_callback is given is one
\* whole message of that peer, never a part or a mixture; messages are delivered
\* in the order they were sent and none twice.
DeliveredWhole ==
    \A p \in Peers : \A k \in DOMAIN rx.got[p] :
        rx.got[p][k] # Freed =>
            /\ \E m \in 1 .. peer[p].msg, l \in Lengths : rx.got[p][k] = PiecesOf(m, l)
            /\ \A j \in 1 .. k - 1 :
                  rx.got[p][j] # Freed => rx.got[p][j][1].msg < rx.got[p][k][1].msg

\* No block is lost, free twice, or free and in use: the blocks
\* not in the context list form the slab's free list.
SlabConserved ==
    LET F == Blocks \ rx.list IN
    \E s \in [1 .. Cardinality(F) -> F] :
        /\ \A i, j \in DOMAIN s : i # j => s[i] # s[j]
        /\ rx.head = IF F = {} THEN Nil ELSE s[1]
        /\ \A i \in DOMAIN s : rx.link[s[i]] = IF i = Cardinality(F) THEN Nil ELSE s[i + 1]

\* A context that is not in use holds no buffer of the pool.
BuffersReturned == \A b \in Blocks \ rx.list : rx.ctx[b].bufs = 0

\* What a reception takes from the slab and the pool it gives back, once, whatever
\* is lost or late, until an error has been reported (the error path gives a
\* context back twice): with more peers than contexts the next message still
\* finds both.
ResourcesConserved ==
    Faults \cap {"preempt", "b2b", "abort"} = {} /\ (\A p \in Peers : rx.errs[p] = <<>>)
        => SlabConserved /\ BuffersReturned

\* The messages p has started that were not given to recv_callback.
Undelivered(p) == 1 .. peer[p].msg \ {rx.got[p][k][1].msg : k \in DOMAIN rx.got[p]}

\* Without faults, and with no more peers than contexts, every message is given
\* to recv_callback: again and again nothing that was started is outstanding.
EveryMessageDelivered ==
    Faults = {} /\ Cardinality(env.peers) <= RX_BUF_COUNT
        ~> \A p \in Peers : Undelivered(p) = {}

\* A message that arrives whole is delivered, or its loss is reported to the
\* application through recv_error_callback.
EveryMessageAccounted ==
    \A p \in Peers : Undelivered(p) # {} ~> Undelivered(p) = {} \/ rx.errs[p] # <<>>

\* A reception that has begun ends, whatever is lost, given up or fails on the
\* bus: it is delivered, or the error is reported, and its context is free for
\* the next message.
EveryReceptionEnds ==
    (/\ Faults \subseteq {"loss", "abort", "fctxerr", "b2b"}
     /\ \E b \in rx.list : rx.ctx[b].state # "WAIT_FF_SF") ~> rx.list = {}

\* recv_callback is never given a buffer whose message was not received.
OnlyReceivedIsDelivered ==
    \A p \in Peers : \A k \in DOMAIN rx.got[p] : rx.got[p][k] # Freed

\* Receptions from two peers, no more than RX_BUF_COUNT of them, never share a
\* context.
ReceptionsSeparate == ~rx.aliased
=============================================================================
