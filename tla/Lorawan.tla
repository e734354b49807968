------------------------------ MODULE Lorawan ------------------------------
(***************************************************************************)
(* The LoRaWAN interface, src/lorawan.c: joining the network with a device *)
(* nonce that must be new, and storing the nonce that was used.  The       *)
(* network remembers the largest nonce it has seen and ignores a join      *)
(* request that does not exceed it.  Storing is the work item of           *)
(* src/storage_common.c; how it writes is the subject of Storage.          *)
(***************************************************************************)
EXTENDS SdkCore

CONSTANT MaxMishaps  \* bound: mishaps between two completed saves

VARIABLE lw     \* [pc, nonce, increased: the thread's variables; stored: in the
                \*  EEPROM; seen: by the network; mishaps: since it was last
                \*  joined with its nonce stored]

LoraAt(pc) == On("lora") /\ lw.pc = pc
Unlucky    == lw.mishaps < MaxMishaps
Mishap(r)  == [r EXCEPT !.mishaps = @ + 1]
NonceNew   == lw.nonce > lw.seen

\* lorawan_thread up to the loop: the stored nonce is increased.
LoraStart ==
    /\ LoraAt("start")
    /\ lw' = [lw EXCEPT !.nonce = @ + 1, !.increased = FALSE, !.pc = "join"]
    /\ UNCHANGED <<env, coreVars>>

\* Mutant: the nonce is not increased after a time-out.
TimedOut_SameNonce(r) == r
\* lorawan_join returned -ETIMEDOUT: try the next nonce, once.
TimedOut(r) == IF r.increased THEN r
               ELSE [r EXCEPT !.nonce = @ + 1, !.increased = TRUE]

\* lorawan_join fails: the network ignores the nonce, the request or the answer is
\* lost, or the stack returns another error.
JoinFails ==
    /\ LoraAt("join")
    /\ \/ ~NonceNew /\ lw' = TimedOut(lw)
       \/ Unlucky /\ lw' = TimedOut(Mishap(lw))
       \/ Unlucky /\ NonceNew /\ lw' = TimedOut([Mishap(lw) EXCEPT !.seen = lw.nonce])
       \/ Unlucky /\ lw' = Mishap(lw)
    /\ UNCHANGED <<env, coreVars>>

\* lorawan_join succeeds; thingset_storage_save_queued(true).
JoinOk ==
    /\ LoraAt("join") /\ NonceNew
    /\ lw' = [lw EXCEPT !.seen = lw.nonce, !.pc = "joined"]
    /\ wq' = Rescheduled(wq, "save") /\ timers' = timers \ {"save"}
    /\ UNCHANGED <<env, lock, buf, cur>>

\* thingset_storage_save_handler: export to the shared buffer and write.
SaveBegin ==
    /\ Starts("save")
    /\ cur' = [Idle EXCEPT !.work = "save", !.pc = "fill", !.job = <<"save", <<>>>>]
    /\ UNCHANGED <<env, lock, buf, timers, lw>>

SaveFill ==
    /\ Running("save", "fill") /\ TakeAndFill(Workq, <<"save", <<lw.nonce>>>>)
    /\ cur' = [cur EXCEPT !.pc = "send", !.job = <<"save", <<lw.nonce>>>>]
    /\ UNCHANGED <<env, wq, timers, lw>>

SaveWrite ==
    /\ Running("save", "send") /\ Give /\ Returns(TRUE)
    /\ \/ lw' = [lw EXCEPT !.stored = buf[2][1],
                   !.mishaps = IF LoraAt("joined") /\ buf[2][1] >= lw.seen THEN 0 ELSE @]
       \/ lw' = lw   \* the write fails
    /\ UNCHANGED <<env, buf, wq>>

\* The node restarts and loads what is stored.
LoraReboot ==
    lw' = [lw EXCEPT !.pc = "start", !.nonce = lw.stored, !.increased = FALSE,
                     !.mishaps = IF lw.stored < lw.seen THEN @ + 1 ELSE @]

LoraInit == lw = [pc |-> "start", nonce |-> 0, increased |-> FALSE, stored |-> 0,
                  seen |-> 0, mishaps |-> 0]

LoraThread == LoraStart \/ JoinFails \/ JoinOk
LoraWork   == SaveBegin \/ SaveFill \/ SaveWrite

-----------------------------------------------------------------------------
(* Properties *)

\* A node that met at most one mishap since its nonce was last stored (a join
\* request or its answer lost, a restart before the nonce was stored, with the
\* joining thread or the save at any point) joins the network.
LoraJoins == On("lora") ~> lw.pc = "joined" \/ lw.mishaps > 1
=============================================================================
