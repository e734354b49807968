----------------------------- MODULE CanReqResp -----------------------------
(***************************************************************************)
(* Requests and responses over CAN (src/src/can.c) on one node, and the    *)
(* buffer it shares with all other users of the SDK (src/src/sdk.c).       *)
(*                                                                         *)
(* Actors: application threads that call thingset_can_send with a callback *)
(* (one per request of Requests); the system work queue, on which ISO-TP   *)
(* calls thingset_can_reqresp_recv_callback and, for messages of several   *)
(* frames, thingset_can_reqresp_sent_callback; the timer interrupt; and a  *)
(* thread that publishes a report from the shared buffer.                  *)
(*                                                                         *)
(* The callback of a request is called first and the slot it occupies is   *)
(* reset afterwards, store by store, so the reset is two steps that        *)
(* another thread or the timer can get in front of: `fin` holds the thread *)
(* that is in the middle of it.  ISO-TP is modelled by what it promises:   *)
(* a message of one frame is sent and reported before isotp_fast_send      *)
(* returns, a longer one is reported later from the work queue.            *)
(***************************************************************************)
EXTENDS Integers, Sequences, FiniteSets

CONSTANTS
    AllRequests, \* requests of this node, each made by a thread of its own
    AllIncoming, \* requests that the peers send to this node
    Peers,       \* the other nodes
    MaxReports,  \* bound: reports published meanwhile
    Envs         \* the uses and environments of the node to consider: see Env

\* What is fixed for a behaviour.
Env == [asks : UNION {[R -> Peers] : R \in SUBSET AllRequests},  \* who is asked
        incoming : SUBSET AllIncoming,
        sizes : SUBSET {"short", "long"},  \* messages of one frame or of several
        timeouts : BOOLEAN,   \* requests are made with a timeout other than K_FOREVER
        errors : BOOLEAN]     \* isotp_fast_send and transfers may fail

None  == "none"
SysWq == "sysworkq"

ASSUME ReqRespAssumptions ==
    /\ Envs \subseteq Env
    /\ MaxReports \in Nat
    /\ None \notin AllRequests /\ SysWq \notin AllRequests

VARIABLES
    env,      \* one of Envs
    rr,       \* struct thingset_can_request_response: callback, can_id, timer, sem
    lock,     \* the shared buffer's semaphore
    app,      \* per request: where its thread is
    wq,       \* the system work queue: what it is doing, and for which message
    fin,      \* per thread: how far it is in resetting rr ("none": not at all)
    inbox,    \* messages received by ISO-TP, their work pending
    out,      \* messages of several frames on their way out
    report,   \* the publishing thread
    calls,    \* history: calls of each request's callback
    crashed,  \* history: a NULL callback was called (the fault handler is not modelled)
    users,    \* history: who is working in the shared buffer
    handled   \* history: messages the work queue is done with

vars == <<env, rr, lock, app, wq, fin, inbox, out, report, calls, crashed, users, handled>>

Requests   == DOMAIN env.asks
Incoming   == env.incoming
Sizes      == env.sizes
Timeouts   == env.timeouts
SendErrors == env.errors

Threads == AllRequests \cup {SysWq}

Results == IF SendErrors THEN {"sent", "error"} ELSE {"sent"}

Init ==
    /\ env \in Envs
    /\ rr = [callback |-> None, can_id |-> None, timer |-> FALSE, sem |-> 1]
    /\ lock = 1
    /\ app = [r \in AllRequests |-> "idle"]
    /\ wq = [pc |-> "idle", msg |-> None]
    /\ fin = [t \in Threads |-> [at |-> None, give |-> FALSE]]
    /\ inbox = {}
    /\ out = {}
    /\ report = [pc |-> "idle", count |-> 0]
    /\ calls = [r \in AllRequests |-> <<>>]
    /\ crashed = FALSE
    /\ users = {}
    /\ handled = {}

Response(r) == [from |-> env.asks[r], id |-> r]
Arriving == {Response(r) : r \in Requests} \cup {[from |-> p, id |-> i] : p \in Peers, i \in Incoming}

-----------------------------------------------------------------------------
(* The slot of the request in progress.                                    *)

\* A call of the registered callback with a result or the id of a message.
Call(result) == calls' = [calls EXCEPT ![rr.callback] = Append(@, result)]

\* Mutant: the reset leaves the callback registered.
ResetFields_KeepsCallback(t) ==
    /\ fin[t].at = "fields"
    /\ fin' = [fin EXCEPT ![t].at = "timer"]
    /\ UNCHANGED <<env, rr, lock, app, wq, inbox, out, report, calls, crashed, users, handled>>

\* thingset_can_reset_request_response: the fields, then the timer and the slot.
ResetFields(t) ==
    /\ fin[t].at = "fields"
    /\ rr' = [rr EXCEPT !.callback = None, !.can_id = None]
    /\ fin' = [fin EXCEPT ![t].at = "timer"]
    /\ UNCHANGED <<env, lock, app, wq, inbox, out, report, calls, crashed, users, handled>>

ResetTimer(t) ==
    /\ fin[t].at = "timer"
    /\ rr' = [rr EXCEPT !.timer = FALSE, !.sem = 1]
    /\ lock' = IF fin[t].give THEN 1 ELSE lock
    /\ fin' = [fin EXCEPT ![t] = [at |-> None, give |-> FALSE]]
    /\ UNCHANGED <<env, app, wq, inbox, out, report, calls, crashed, users, handled>>

\* thingset_can_reqresp_sent_callback in thread t: the registered callback gets
\* the result, whichever message it belongs to; without one, or after success,
\* the shared buffer is released.
thingset_can_reqresp_sent_callback(t, result) ==
    IF rr.callback # None
      THEN /\ Call(result)
           /\ fin' = [fin EXCEPT ![t] = [at |-> "fields", give |-> result = "sent"]]
           /\ UNCHANGED lock
      ELSE /\ lock' = 1
           /\ UNCHANGED <<calls, fin>>

\* thingset_can_reqresp_timeout_handler, in interrupt context.
TimerExpires ==
    /\ rr.timer
    /\ IF rr.callback = None
         THEN crashed' = TRUE /\ UNCHANGED calls
         ELSE Call("timeout") /\ UNCHANGED crashed
    /\ rr' = [callback |-> None, can_id |-> None, timer |-> FALSE, sem |-> 1]
    /\ UNCHANGED <<env, lock, app, wq, fin, inbox, out, report, users, handled>>

-----------------------------------------------------------------------------
(* thingset_can_send_inst in an application thread.                        *)

\* Mutant: the timer is not started.
TakeSlot_NoTimer(r) ==
    /\ r \in Requests /\ app[r] = "idle"
    /\ rr.sem = 1
    /\ rr' = [callback |-> r, can_id |-> env.asks[r], timer |-> FALSE, sem |-> 0]
    /\ app' = [app EXCEPT ![r] = "send"]
    /\ UNCHANGED <<env, lock, wq, fin, inbox, out, report, calls, crashed, users, handled>>

\* The slot is taken and filled.
TakeSlot(r) ==
    /\ r \in Requests /\ app[r] = "idle"
    /\ rr.sem = 1
    /\ rr' = [callback |-> r, can_id |-> env.asks[r], timer |-> Timeouts, sem |-> 0]
    /\ app' = [app EXCEPT ![r] = "send"]
    /\ UNCHANGED <<env, lock, wq, fin, inbox, out, report, calls, crashed, users, handled>>

\* The slot did not become free in time: -ETIMEDOUT, the callback is not used.
NoSlot(r) ==
    /\ Timeouts
    /\ r \in Requests /\ app[r] = "idle"
    /\ rr.sem = 0
    /\ app' = [app EXCEPT ![r] = "refused"]
    /\ UNCHANGED <<env, rr, lock, wq, fin, inbox, out, report, calls, crashed, users, handled>>

\* One frame: handed to the driver here ...
SendShort(r) ==
    /\ app[r] = "send"
    /\ "short" \in Sizes
    /\ \E result \in Results : app' = [app EXCEPT ![r] = result]
    /\ UNCHANGED <<env, rr, lock, wq, fin, inbox, out, report, calls, crashed, users, handled>>

\* ... and reported in the same thread.
SentShort(r) ==
    /\ app[r] \in Results
    /\ thingset_can_reqresp_sent_callback(r, app[r])
    /\ app' = [app EXCEPT ![r] = IF @ = "sent" THEN "asked" ELSE "done"]
    /\ UNCHANGED <<env, rr, wq, inbox, out, report, crashed, users, handled>>

\* Several frames: left to ISO-TP, unless it has no context for the transfer.
SendLong(r) ==
    /\ app[r] = "send"
    /\ "long" \in Sizes
    /\ \/ out' = out \cup {[id |-> r, response |-> FALSE]}
       \/ SendErrors /\ UNCHANGED out
    /\ app' = [app EXCEPT ![r] = "done"]
    /\ UNCHANGED <<env, rr, lock, wq, fin, inbox, report, calls, crashed, users, handled>>

-----------------------------------------------------------------------------
(* The system work queue: one item at a time.                              *)

WqFree == wq.pc = "idle" /\ fin[SysWq].at = None

\* A transfer of several frames has ended.
TransferEnds ==
    \E x \in out : \E result \in Results :
      /\ WqFree
      /\ out' = out \ {x}
      /\ thingset_can_reqresp_sent_callback(SysWq, result)
      /\ users' = IF x.response THEN users \ {"response"} ELSE users
      /\ app' = IF ~x.response /\ result = "sent" THEN [app EXCEPT ![x.id] = "asked"] ELSE app
      /\ UNCHANGED <<env, rr, wq, inbox, report, crashed, handled>>

\* A message from the node a request is pending for is its response.
IsResponse(m) == rr.callback # None /\ rr.can_id = m.from

\* thingset_can_reqresp_recv_callback, first branch.
ReceiveResponse ==
    \E m \in inbox :
      /\ WqFree
      /\ IsResponse(m)
      /\ Call(m.id)
      /\ fin' = [fin EXCEPT ![SysWq] = [at |-> "fields", give |-> FALSE]]
      /\ inbox' = inbox \ {m}
      /\ handled' = handled \cup {m.id}
      /\ UNCHANGED <<env, rr, lock, app, wq, out, report, crashed, users>>

\* Second branch, up to k_sem_take(&sbuf->lock, K_FOREVER).
ReceiveRequest ==
    \E m \in inbox :
      /\ WqFree
      /\ ~IsResponse(m)
      /\ wq' = [pc |-> "take", msg |-> m.id]
      /\ inbox' = inbox \ {m}
      /\ UNCHANGED <<env, rr, lock, app, fin, out, report, calls, crashed, users, handled>>

TakeBuffer ==
    /\ wq.pc = "take"
    /\ lock = 1
    /\ lock' = 0
    /\ users' = users \cup {"response"}
    /\ wq' = [wq EXCEPT !.pc = "process"]
    /\ UNCHANGED <<env, rr, app, fin, inbox, out, report, calls, crashed, handled>>

WqDone(pc) ==
    /\ wq' = [wq EXCEPT !.pc = pc]
    /\ handled' = handled \cup {wq.msg}

\* Mutant: the buffer is kept when there is no response.
NoResponse_Keeps ==
    /\ wq.pc = "process"
    /\ users' = users \ {"response"}
    /\ WqDone("idle")
    /\ UNCHANGED <<env, rr, lock, app, fin, inbox, out, report, calls, crashed>>

\* thingset_process_message wrote no response.
NoResponse ==
    /\ wq.pc = "process"
    /\ lock' = 1
    /\ users' = users \ {"response"}
    /\ WqDone("idle")
    /\ UNCHANGED <<env, rr, app, fin, inbox, out, report, calls, crashed>>

\* A response of one frame; when can_send fails the buffer is released again
\* after isotp_fast_send has returned.
RespondShort ==
    /\ wq.pc = "process"
    /\ "short" \in Sizes
    /\ \E result \in Results :
         /\ thingset_can_reqresp_sent_callback(SysWq, result)
         /\ WqDone(IF result = "sent" THEN "idle" ELSE "give")
    /\ users' = users \ {"response"}
    /\ UNCHANGED <<env, rr, app, inbox, out, report, crashed>>

GiveBuffer ==
    /\ wq.pc = "give"
    /\ fin[SysWq].at = None
    /\ lock' = 1
    /\ wq' = [wq EXCEPT !.pc = "idle"]
    /\ UNCHANGED <<env, rr, app, fin, inbox, out, report, calls, crashed, users, handled>>

\* Mutant: the buffer is released as soon as the transfer has been started.
RespondLong_GivesEarly ==
    /\ wq.pc = "process"
    /\ "long" \in Sizes
    /\ out' = out \cup {[id |-> wq.msg, response |-> TRUE]}
    /\ lock' = 1
    /\ WqDone("idle")
    /\ UNCHANGED <<env, rr, app, fin, inbox, report, calls, crashed, users>>

\* A response of several frames keeps the buffer until it has been sent.
RespondLong ==
    /\ wq.pc = "process"
    /\ "long" \in Sizes
    /\ \/ /\ out' = out \cup {[id |-> wq.msg, response |-> TRUE]}
          /\ UNCHANGED <<lock, users>>
       \/ /\ SendErrors
          /\ lock' = 1
          /\ users' = users \ {"response"}
          /\ UNCHANGED out
    /\ WqDone("idle")
    /\ UNCHANGED <<env, rr, app, fin, inbox, report, calls, crashed>>

-----------------------------------------------------------------------------
(* The other users of the node: peers and the publishing thread.           *)

\* A peer answers a request it has got, or sends one of its own; each once.
Known(m) == wq.msg = m.id \/ m.id \in handled \/ \E x \in inbox : x.id = m.id
MessageArrives ==
    \E m \in Arriving :
      /\ ~Known(m)
      /\ m.id \in Requests => app[m.id] \in {"sent", "asked"}
      /\ inbox' = inbox \cup {m}
      /\ UNCHANGED <<env, rr, lock, app, wq, fin, out, report, calls, crashed, users, handled>>

\* thingset_can_send_report_inst: the buffer is held from here ...
ReportTakes ==
    /\ report.pc = "idle"
    /\ report.count < MaxReports
    /\ lock = 1
    /\ lock' = 0
    /\ users' = users \cup {"report"}
    /\ report' = [pc |-> "send", count |-> report.count + 1]
    /\ UNCHANGED <<env, rr, app, wq, fin, inbox, out, calls, crashed, handled>>

\* ... to here.
ReportGives ==
    /\ report.pc = "send"
    /\ lock' = 1
    /\ users' = users \ {"report"}
    /\ report' = [report EXCEPT !.pc = "idle"]
    /\ UNCHANGED <<env, rr, app, wq, fin, inbox, out, calls, crashed, handled>>

Reset(t) == ResetFields(t) \/ ResetTimer(t)

Send(r) == SendShort(r) \/ SentShort(r) \/ SendLong(r)

WorkQueue ==
    \/ TransferEnds \/ ReceiveResponse \/ ReceiveRequest \/ TakeBuffer
    \/ NoResponse \/ RespondShort \/ GiveBuffer \/ RespondLong

Next ==
    \/ \E r \in AllRequests : TakeSlot(r) \/ NoSlot(r) \/ Send(r)
    \/ \E t \in Threads : Reset(t)
    \/ TimerExpires \/ WorkQueue \/ MessageArrives \/ ReportTakes \/ ReportGives

Spec == Init /\ [][Next]_vars

\* Every thread that can run does; a timer that is not stopped expires.
FairSpec ==
    /\ Spec
    /\ \A r \in AllRequests : WF_vars(Send(r))
    /\ \A t \in Threads : WF_vars(Reset(t))
    /\ WF_vars(TimerExpires)
    /\ WF_vars(WorkQueue)
    /\ WF_vars(ReportGives)
    /\ SF_vars(TakeBuffer)   \* k_sem_give hands the semaphore to the waiter

-----------------------------------------------------------------------------
(* Properties.                                                             *)

\* The slot and the semaphores of slot and buffer stay in range.
TypeOK ==
    /\ rr.callback \in Requests \cup {None} /\ rr.can_id \in Peers \cup {None}
    /\ rr.sem \in 0..1 /\ lock \in 0..1
    /\ \A t \in Threads : fin[t].at \in {None, "fields", "timer"}
    /\ \A m \in inbox : m.from \in Peers

\* A node that makes no requests of its own only answers them and publishes.
ServerOnly == Requests = {}

\* The shared buffer has one user at a time: no report is written over a response
\* that is still being sent, nor the other way round.
BufferShared == Cardinality(users) <= 1

\* It has on a node that only answers requests, if nothing fails to be sent.
BufferExclusive == ServerOnly /\ ~SendErrors => BufferShared

\* On such a node the shared buffer is locked only while somebody works in it or
\* is about to give it back, whatever fails.
BufferNotLeaked ==
    ServerOnly /\ lock = 0 => \/ users # {}
                              \/ wq.pc = "give"
                              \/ \E t \in Threads : fin[t].give

\* The lock of the shared buffer, which responses and reports take in one thread and
\* give in another, is worth its name: one user, and none forgotten.
BufferLockSound == BufferExclusive /\ BufferNotLeaked

\* Of one request the application hears once: a result, a response or a time-out.
HeardOnce == \A r \in Requests : Len(calls[r]) <= 1

\* It does for requests of several frames without a time-out, which only the work
\* queue calls back for: the next request gets the slot when this one is through.
CalledOnce ==
    ~Timeouts /\ Sizes = {"long"} => HeardOnce /\ (rr.callback # None => rr.sem = 0)

\* No callback is called after the slot has been reset.
NoNullCall == ~crashed

\* A response that was received has reached the callback of its request.
ResponseReachesCallback ==
    \A r \in Requests : r \in handled => \E i \in DOMAIN calls[r] : calls[r][i] = r

\* The callback of a request gets the response to that request only.
OwnResponse ==
    \A r \in Requests : \A i \in DOMAIN calls[r] :
      calls[r][i] \in {r, "sent", "error", "timeout"}

\* Whoever made a request is called back, whatever happens to it.
CalledBack(r) == (app[r] = "send") ~> (calls[r] # <<>>)

\* One that has a time-out and the slot to itself is.
EveryRequestCalledBack ==
    \A r \in AllRequests :
      (Timeouts /\ Requests = {r} /\ app[r] = "send") ~> (calls[r] # <<>>)

\* Every message received is processed.
MessageHandled(i) == (\E m \in inbox : m.id = i) ~> (i \in handled)

\* It is on a node that only answers requests, with responses of one frame.
EveryMessageHandled ==
    \A i \in AllIncoming :
      (ServerOnly /\ Sizes = {"short"} /\ \E m \in inbox : m.id = i) ~> (i \in handled)

\* Every request is called back, and every message processed, on any node.
EveryCallback == \A r \in AllRequests : CalledBack(r)
EveryMessage  == \A i \in AllIncoming : MessageHandled(i)
=============================================================================
