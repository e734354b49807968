------------------------------ MODULE SdkCore ------------------------------
(***************************************************************************)
(* What the interfaces of one node share: the shared buffer with its lock  *)
(* and the work queue thingset_workq of src/sdk.c, the regular reports and *)
(* the control reports of src/can.c that run on that queue.  The modules   *)
(* Serial, Bluetooth, Websocket, Lorawan and Dfu extend this one; SdkNode  *)
(* composes them.                                                          *)
(*                                                                         *)
(* A semaphore that is taken with K_FOREVER is a guard; what is done with  *)
(* the shared buffer is a job <<channel, data>>, and buf is the job whose  *)
(* data the buffer holds.                                                  *)
(***************************************************************************)
EXTENDS Integers, Sequences, SequencesExt

CONSTANTS
    Envs,           \* the nodes to consider: sets of the features below
    NItems          \* data items of CONFIG_THINGSET_CAN_CONTROL_SUBSET

VARIABLES
    env,            \* one of Envs: what the node is built and surrounded with
    lock,           \* sbuf.lock: the thread that holds it, or Free
    buf,            \* sbuf.data
    wq,             \* work items queued on thingset_workq, in order
    timers,         \* delayable work items whose delay is running
    cur             \* what the thread of thingset_workq is doing

coreVars == <<lock, buf, wq, timers, cur>>

On(f)     == f \in env
Free      == "free"
Workq     == "workq"
Nothing   == <<"none", <<>>>>
Idle      == [work |-> "none", pc |-> "idle", job |-> Nothing, i |-> 0]

-----------------------------------------------------------------------------

\* thingset_sdk_reschedule_work with K_NO_WAIT, on a queue q: an item that is
\* queued stays where it is.
Rescheduled(q, w) == IF Contains(q, w) THEN q ELSE Append(q, w)

\* The thread takes the item w from the queue.
Starts(w) == cur = Idle /\ wq # <<>> /\ Head(wq) = w /\ wq' = Tail(wq)

Running(w, pc) == cur.work = w /\ cur.pc = pc

\* Mutant: the buffer is used without waiting for it.
LockFree_NotAwaited == TRUE
\* k_sem_take(&sbuf->lock, K_FOREVER) returns.
LockFree == lock = Free

\* Thread t takes the buffer and fills it.
TakeAndFill(t, job) == LockFree /\ lock' = t /\ buf' = job
Give == lock' = Free

\* A delay is over.
Expire(w) ==
    /\ w \in timers
    /\ timers' = timers \ {w}
    /\ wq' = Rescheduled(wq, w)
    /\ UNCHANGED <<env, lock, buf, cur>>

\* The handler of work item w returns; a periodic one starts its delay again.
Returns(again) == /\ cur' = Idle
                  /\ timers' = IF again THEN timers \cup {cur.work} ELSE timers

-----------------------------------------------------------------------------
(* Regular reports of the interfaces: "serrep", "btrep", "wsrep", "canrep" *)

\* The handler goes on to take the buffer if live_reporting_enable is set (clients
\* may change it at any time) and `ready`, or does nothing until the next period.
ReportBegin(w, ready) ==
    /\ Starts(w)
    /\ \/ /\ ready
          /\ cur' = [Idle EXCEPT !.work = w, !.pc = "fill", !.job = <<w, <<>>>>]
          /\ timers' = timers
       \/ cur' = cur /\ timers' = timers \cup {w}
    /\ UNCHANGED <<env, lock, buf>>

\* What a job on the work queue does with the buffer, up to sending it.
Fill(w) ==
    /\ Running(w, "fill") /\ TakeAndFill(Workq, cur.job)
    /\ cur' = [cur EXCEPT !.pc = "send"]
    /\ UNCHANGED <<env, wq, timers>>

\* Mutant: the lock is not given back after sending.
ReportSend_KeepsLock(w) ==
    /\ Running(w, "send") /\ Returns(TRUE)
    /\ UNCHANGED <<env, lock, buf, wq>>
ReportSend(w) ==
    /\ Running(w, "send") /\ Give /\ Returns(TRUE)
    /\ UNCHANGED <<env, buf, wq>>

-----------------------------------------------------------------------------
(* thingset_can_control_reporting_handler: "canctl" *)

\* The loop over the items begins unless control_enable is reset.
ControlBegin ==
    /\ Starts("canctl")
    /\ \/ /\ cur' = [Idle EXCEPT !.work = "canctl", !.pc = "fill", !.i = 1,
                                 !.job = <<"canctl", <<1>>>>]
          /\ timers' = timers
       \/ cur' = cur /\ timers' = timers \cup {"canctl"}
    /\ UNCHANGED <<env, lock, buf>>

\* The value is copied to the frame and the buffer given back before can_send,
\* whose result is ignored; then comes the next item, or control_enable was reset
\* or there is none.
ControlCopy ==
    /\ Running("canctl", "send") /\ Give
    /\ \/ /\ cur.i < NItems
          /\ cur' = [cur EXCEPT !.pc = "fill", !.i = @ + 1, !.job = <<"canctl", <<cur.i + 1>>>>]
          /\ timers' = timers
       \/ Returns(TRUE)
    /\ UNCHANGED <<env, buf, wq>>

-----------------------------------------------------------------------------

\* thingset_can_live_reporting_handler; what thingset_can_send_report_inst does
\* while it holds the buffer is the subject of CanReport.
LiveReport == ReportBegin("canrep", TRUE) \/ Fill("canrep") \/ ReportSend("canrep")

CanWork == ControlBegin \/ Fill("canctl") \/ ControlCopy \/ LiveReport

-----------------------------------------------------------------------------

\* thingset_sdk_init, and what the interfaces queue as they are initialised.
Report(w, f) == IF On(f) /\ On("reports") THEN <<w>> ELSE <<>>
BootQueue    == Report("serrep", "serial") \o Report("btrep", "bt") \o Report("wsrep", "ws")
                \o Report("canrep", "can") \o (IF On("can") THEN <<"canctl">> ELSE <<>>)
                \o (IF On("bt") THEN <<"btadv">> ELSE <<>>)
BootTimers   == IF On("lora") THEN {"save"} ELSE {}

CoreInit == /\ lock = Free /\ buf = Nothing /\ cur = Idle
            /\ wq = BootQueue /\ timers = BootTimers

\* The node restarts.
CoreReboot == /\ lock' = Free /\ buf' = Nothing /\ cur' = Idle
              /\ wq' = BootQueue /\ timers' = BootTimers
=============================================================================
