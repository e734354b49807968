------------------------------ MODULE SdkNode ------------------------------
(***************************************************************************)
(* One node with its interfaces: Serial, Bluetooth, Websocket, Lorawan and *)
(* Dfu share the buffer and the work queue of SdkCore.  A step of one of   *)
(* them leaves the state of the others alone; a restart of the node, after *)
(* xBoot or because the power failed, resets all that is not stored.       *)
(***************************************************************************)
EXTENDS Serial, Bluetooth, Websocket, Lorawan, Dfu

CONSTANT MaxReboots     \* bound: restarts

VARIABLE reboots

vars == <<env, coreVars, ser, ble, ws, lw, dfu, reboots>>

-----------------------------------------------------------------------------

Init == /\ env \in Envs /\ CoreInit
        /\ SerialInit /\ BtInit /\ WsInit /\ LoraInit /\ DfuInit
        /\ reboots = 0

SerialStep(A) == A /\ UNCHANGED <<ble, ws, lw, dfu, reboots>>
BtStep(A)     == A /\ UNCHANGED <<ser, ws, lw, dfu, reboots>>
WsOnly(A)     == A /\ UNCHANGED <<ser, ble, lw, dfu, reboots>>
LoraStep(A)   == A /\ UNCHANGED <<ser, ble, ws, dfu, reboots>>
DfuStep(A)    == A /\ UNCHANGED <<ser, ble, ws, lw, reboots>>
CoreStep(A)   == A /\ UNCHANGED <<ser, ble, ws, lw, dfu, reboots>>

\* The thread of thingset_workq.
WorkThread ==
    \/ SerialStep(SerialWork) \/ BtStep(BtWork) \/ WsOnly(WsReport) \/ LoraStep(LoraWork)
    \/ CoreStep(CanWork)

\* reboot_work on the system work queue, or the power fails.
Reboot ==
    /\ dfu.reboot \/ (On("power") /\ reboots < MaxReboots)
    /\ reboots' = IF dfu.reboot THEN reboots ELSE reboots + 1
    /\ On("lora") => Unlucky
    /\ CoreReboot /\ SerialReboot /\ BtReboot /\ WsReboot /\ LoraReboot /\ DfuReboot
    /\ UNCHANGED env

Next == \/ WorkThread
        \/ SerialStep(SerialRx)
        \/ BtStep(BtConnect \/ thingset_bluetooth_ccc_change \/ BtDisconnect \/ BtRx)
        \/ WsOnly(WsNext \/ WsStall \/ WsReportStall)
        \/ LoraStep(LoraThread)
        \/ DfuStep(DfuNext)
        \/ \E w \in timers : CoreStep(Expire(w))
        \/ Reboot

Spec == Init /\ [][Next]_vars

\* The threads run and the host sends its requests; no fault has to happen.
Fairness == /\ WF_vars(WorkThread) /\ WF_vars(SerialStep(SerialRx))
            /\ WF_vars(WsOnly(WsNext /\ ws'.faults = ws.faults))
            /\ WF_vars(LoraStep(LoraThread /\ lw'.mishaps = lw.mishaps))
FairSpec == Spec /\ Fairness

-----------------------------------------------------------------------------
(* Properties *)

\* Between the moment it fills the shared buffer and the moment it has sent it, a
\* thread finds in it what it put there: an answer, report, control value or
\* stored record is never that of another interface.
BufferOwn ==
    /\ cur.pc \in {"send", "packet", "sent", "stalled"} => buf = cur.job
    /\ ws.pc \in {"send", "stalled"} => buf = <<"ws", <<ws.msgs>>>>
=============================================================================
