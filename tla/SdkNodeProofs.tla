--------------------------- MODULE SdkNodeProofs ---------------------------
(***************************************************************************)
(* Theorems about SdkNode, for every set of features, every host, phone,   *)
(* server and network, and every number of faults and restarts: the shared *)
(* buffer, firmware updates, the serial interface, the packetizer and the  *)
(* Bluetooth interface.                                                    *)
(***************************************************************************)
EXTENDS SdkNode, WellFoundedInduction, SequenceTheorems, TLAPS

-----------------------------------------------------------------------------
(* The shared buffer *)

\* Where the thread of the work queue, and that of the WebSocket, is when it holds
\* the buffer.
WorkqHolds == cur.pc \in {"send", "packet", "sent", "stalled"}
WsHolds    == ws.pc \in {"send", "stalled"}

\* The records keep their fields.
ShapeInv ==
    /\ cur = [work |-> cur.work, pc |-> cur.pc, job |-> cur.job, i |-> cur.i]
    /\ ws = [pc |-> ws.pc, sock |-> ws.sock, websock |-> ws.websock, open |-> ws.open,
             heap |-> ws.heap, faults |-> ws.faults, msgs |-> ws.msgs]

\* A thread holds the lock exactly where it uses the buffer, so that two of them
\* never do at once.
LockInv ==
    /\ lock = Workq <=> WorkqHolds
    /\ lock = WsThread <=> WsHolds

BufferInv == ShapeInv /\ LockInv /\ BufferOwn

\* What a step of the work queue's thread may do with the buffer: nothing, take and
\* fill it, go on using it, give it back.
CurShape == cur = [work |-> cur.work, pc |-> cur.pc, job |-> cur.job, i |-> cur.i]
WorkqStep ==
    /\ ws' = ws /\ CurShape'
    /\ \/ ~WorkqHolds /\ ~WorkqHolds' /\ lock' = lock /\ buf' = buf
       \/ lock = Free /\ lock' = Workq /\ buf' = cur'.job /\ WorkqHolds'
       \/ WorkqHolds /\ WorkqHolds' /\ cur'.job = cur.job /\ lock' = lock /\ buf' = buf
       \/ WorkqHolds /\ ~WorkqHolds' /\ lock' = Free /\ buf' = buf

\* The same for the thread of the WebSocket.
WsShape == ws = [pc |-> ws.pc, sock |-> ws.sock, websock |-> ws.websock, open |-> ws.open,
                 heap |-> ws.heap, faults |-> ws.faults, msgs |-> ws.msgs]
WsThreadStep ==
    /\ cur' = cur /\ WsShape'
    /\ \/ ~WsHolds /\ ~WsHolds' /\ lock' = lock /\ buf' = buf
       \/ lock = Free /\ lock' = WsThread /\ buf' = <<"ws", <<ws'.msgs>>>> /\ WsHolds'
       \/ WsHolds /\ WsHolds' /\ ws'.msgs = ws.msgs /\ lock' = lock /\ buf' = buf
       \/ WsHolds /\ ~WsHolds' /\ lock' = Free /\ buf' = buf

\* Whatever the two threads do in this way, and whatever leaves buffer and threads
\* alone, preserves the invariant.
LEMMA WorkqStepKeeps == ASSUME BufferInv, WorkqStep PROVE BufferInv'
<1> USE DEF Workq, WsThread, Free
<1>1. ShapeInv'
  BY DEF BufferInv, ShapeInv, WorkqStep, CurShape
<1>2. WsHolds' <=> WsHolds
  BY DEF WorkqStep, WsHolds
<1>3. LockInv'
  BY <1>2 DEF BufferInv, LockInv, WorkqStep
<1>4. BufferOwn'
  BY <1>2, <1>3 DEF BufferInv, LockInv, BufferOwn, WorkqStep, WorkqHolds, WsHolds
<1> QED
  BY <1>1, <1>3, <1>4 DEF BufferInv

\* A step of the WebSocket thread keeps the invariant.
LEMMA WsStepKeeps == ASSUME BufferInv, WsThreadStep PROVE BufferInv'
<1> USE DEF Workq, WsThread, Free
<1>1. ShapeInv'
  BY DEF BufferInv, ShapeInv, WsThreadStep, WsShape
<1>2. WorkqHolds' <=> WorkqHolds
  BY DEF WsThreadStep, WorkqHolds
<1>3. LockInv'
  BY <1>2 DEF BufferInv, LockInv, WsThreadStep
<1>4. BufferOwn'
  BY <1>2, <1>3 DEF BufferInv, LockInv, BufferOwn, WsThreadStep, WorkqHolds, WsHolds
<1> QED
  BY <1>1, <1>3, <1>4 DEF BufferInv

\* So does a step that leaves the lock, the buffer and both threads alone.
LEMMA OthersKeep ==
    ASSUME BufferInv, lock' = lock, buf' = buf, cur' = cur, ws' = ws
    PROVE  BufferInv'
  BY DEF BufferInv, ShapeInv, LockInv, BufferOwn, WorkqHolds, WsHolds, Workq, WsThread

\* The handlers on the work queue.
LEMMA CoreActions ==
    ASSUME BufferInv, ws' = ws
    PROVE  /\ \A w, ready : ReportBegin(w, ready) => WorkqStep
           /\ \A w : Fill(w) \/ ReportSend(w) => WorkqStep
           /\ ControlBegin \/ ControlCopy => WorkqStep
<1> USE DEF WorkqStep, WorkqHolds, CurShape, BufferInv, ShapeInv
<1>1. ASSUME NEW w, NEW ready, ReportBegin(w, ready) PROVE WorkqStep
  BY <1>1 DEF ReportBegin, Starts, Idle
<1>2. ASSUME NEW w, Fill(w) PROVE WorkqStep
  BY <1>2 DEF Fill, Running, TakeAndFill, LockFree
<1>3. ASSUME NEW w, ReportSend(w) PROVE WorkqStep
  BY <1>3 DEF ReportSend, Running, Give, Returns, Idle
<1>4. ASSUME ControlBegin PROVE WorkqStep
  BY <1>4 DEF ControlBegin, Starts, Idle
<1>5. ASSUME ControlCopy PROVE WorkqStep
  <2>1. PICK i, job : cur' = [cur EXCEPT !.pc = "fill", !.i = i, !.job = job] \/ cur' = Idle
    BY <1>5 DEF ControlCopy, Returns
  <2>2. cur.pc = "send" /\ lock' = Free /\ buf' = buf
    BY <1>5 DEF ControlCopy, Running, Give
  <2>3. CASE cur' = [cur EXCEPT !.pc = "fill", !.i = i, !.job = job]
    BY <2>2, <2>3, <1>5 DEF ControlCopy
  <2>4. CASE cur' = Idle
    BY <2>2, <2>4 DEF Idle
  <2> QED
    BY <2>1, <2>3, <2>4
<1> QED
  BY <1>1, <1>2, <1>3, <1>4, <1>5

\* The serial interface's handlers run on the work queue; its interrupt does not
\* touch the shared buffer.
LEMMA SerialActions ==
    ASSUME BufferInv, ws' = ws
    PROVE  /\ SerialWork => WorkqStep
           /\ SerialRx => lock' = lock /\ buf' = buf /\ cur' = cur
<1> USE DEF WorkqStep, WorkqHolds, CurShape, BufferInv, ShapeInv
<1>1. ASSUME SerialProcess PROVE WorkqStep
  <2>1. PICK pc, job : cur' = [Idle EXCEPT !.work = "serproc", !.pc = pc, !.job = job]
                       /\ pc \in {"out", "fill"}
    BY <1>1 DEF SerialProcess
  <2> QED
    BY <1>1, <2>1 DEF SerialProcess, Starts, Idle
<1>2. ASSUME SerialFill PROVE WorkqStep
  BY <1>2, CoreActions DEF SerialFill
<1>3. ASSUME SerialSend PROVE WorkqStep
  BY <1>3 DEF SerialSend, Running, Give
<1>4. ASSUME SerialOut PROVE WorkqStep
  BY <1>4 DEF SerialOut, Running, Returns, Idle
<1>5. ASSUME SerialReport PROVE WorkqStep
  BY <1>5, CoreActions DEF SerialReport
<1>6. ASSUME SerialRx PROVE lock' = lock /\ buf' = buf /\ cur' = cur
  BY <1>6 DEF SerialRx
<1> QED
  BY <1>1, <1>2, <1>3, <1>4, <1>5, <1>6 DEF SerialWork

\* Nor do the Bluetooth stack's callbacks.
LEMMA BtActions ==
    ASSUME BufferInv, ws' = ws
    PROVE  /\ BtWork => WorkqStep
           /\ BtConnect \/ thingset_bluetooth_ccc_change \/ BtDisconnect \/ BtRx
                => lock' = lock /\ buf' = buf /\ cur' = cur
<1> USE DEF WorkqStep, WorkqHolds, CurShape, BufferInv, ShapeInv
<1>1. ASSUME Advertise PROVE WorkqStep
  BY <1>1 DEF Advertise, Starts, Idle
<1>2. ASSUME BtProcess PROVE WorkqStep
  <2>1. PICK pc, job : cur' = [Idle EXCEPT !.work = "btproc", !.job = job, !.pc = pc]
                       /\ pc \in {"out", "fill"}
    BY <1>2 DEF BtProcess
  <2> QED
    BY <1>2, <2>1 DEF BtProcess, Starts, Idle
<1>3. ASSUME BtFill PROVE WorkqStep
  BY <1>3, CoreActions DEF BtFill
<1>4. ASSUME BtSent \/ BtReportSent PROVE WorkqStep
  BY <1>4 DEF BtSent, BtReportSent, Running, Give, Returns, Idle
<1>5. ASSUME BtOut PROVE WorkqStep
  BY <1>5 DEF BtOut, Running, Returns, Idle
<1>6. ASSUME BtReport PROVE WorkqStep
  BY <1>6, CoreActions DEF BtReport
<1>7. ASSUME NEW w, BtSendBegin(w) PROVE WorkqStep
  <2>1. PICK pc \in {"packet", "sent"} : cur' = [cur EXCEPT !.pc = pc, !.i = 0]
    BY <1>7 DEF BtSendBegin
  <2> QED
    BY <1>7, <2>1 DEF BtSendBegin, Running
<1>8. ASSUME NEW w, BtPacket(w) PROVE WorkqStep
  <2>1. PICK i : cur' = [cur EXCEPT !.pc = "sent"] \/ cur' = [cur EXCEPT !.i = i]
    BY <1>8 DEF BtPacket
  <2>2. cur.pc = "packet" /\ lock' = lock /\ buf' = buf
    BY <1>8 DEF BtPacket, Running
  <2> QED
    BY <2>1, <2>2
<1>9. ASSUME BtConnect \/ thingset_bluetooth_ccc_change \/ BtDisconnect \/ BtRx
      PROVE  lock' = lock /\ buf' = buf /\ cur' = cur
  BY <1>9 DEF BtConnect, thingset_bluetooth_ccc_change, BtDisconnect, BtRx, coreVars
<1> QED
  BY <1>1, <1>2, <1>3, <1>4, <1>5, <1>6, <1>7, <1>8, <1>9 DEF BtWork

\* Nor does the LoRaWAN thread.
LEMMA LoraActions ==
    ASSUME BufferInv, ws' = ws
    PROVE  /\ LoraWork => WorkqStep
           /\ LoraThread => lock' = lock /\ buf' = buf /\ cur' = cur
<1> USE DEF WorkqStep, WorkqHolds, CurShape, BufferInv, ShapeInv
<1>1. ASSUME SaveBegin PROVE WorkqStep
  BY <1>1 DEF SaveBegin, Starts, Idle
<1>2. ASSUME SaveFill PROVE WorkqStep
  BY <1>2 DEF SaveFill, Running, TakeAndFill, LockFree
<1>3. ASSUME SaveWrite PROVE WorkqStep
  BY <1>3 DEF SaveWrite, Running, Give, Returns, Idle
<1>4. ASSUME LoraThread PROVE lock' = lock /\ buf' = buf /\ cur' = cur
  BY <1>4 DEF LoraThread, LoraStart, JoinFails, JoinOk, coreVars
<1> QED
  BY <1>1, <1>2, <1>3, <1>4 DEF LoraWork

\* The thread of the WebSocket, and its report on the work queue.
LEMMA WsActions ==
    ASSUME BufferInv
    PROVE  /\ WsReport \/ WsReportStall => WorkqStep
           /\ WsNext \/ WsStall => WsThreadStep
<1> USE DEF BufferInv, ShapeInv
<1>1. ASSUME WsReport PROVE WorkqStep
  BY <1>1, CoreActions DEF WsReport
<1>2. ASSUME WsReportStall PROVE WorkqStep
  BY <1>2 DEF WsReportStall, Running, WorkqStep, WorkqHolds, CurShape
<1>3. ASSUME WsFill PROVE WsThreadStep
  BY <1>3 DEF WsFill, At, TakeAndFill, LockFree, WsThreadStep, WsHolds, WsShape
<1>4. ASSUME WsSend \/ WsStall PROVE WsThreadStep
  BY <1>4 DEF WsSend, WsStall, At, Give, WsThreadStep, WsHolds, WsShape
<1>5. ASSUME ~WsHolds, ws'.pc \notin {"send", "stalled"}, WsShape', WsStep PROVE WsThreadStep
  BY <1>5 DEF WsStep, WsThreadStep, WsHolds
<1>6. ASSUME Sleep \/ Connect PROVE WsThreadStep
  BY <1>5, <1>6 DEF Sleep, Connect, At, WsHolds, WsShape, ConnectFail, Failed
<1>7. ASSUME Resolve PROVE WsThreadStep
  BY <1>5, <1>7 DEF Resolve, At, WsHolds, WsShape, Failed
<1>8. ASSUME OpenSocket PROVE WsThreadStep
  BY <1>5, <1>8 DEF OpenSocket, At, WsHolds, WsShape, Failed
<1>9. ASSUME Upgrade PROVE WsThreadStep
  BY <1>5, <1>9 DEF Upgrade, At, WsHolds, WsShape, Failed, UpgradeFail
<1>10. ASSUME Recv PROVE WsThreadStep
  BY <1>5, <1>10 DEF Recv, At, WsHolds, WsShape, Failed, WsClosed
<1> QED
  BY <1>1, <1>2, <1>3, <1>4, <1>6, <1>7, <1>8, <1>9, <1>10 DEF WsNext

\* The node starts, or starts again, with the buffer free.
LEMMA BufferInvInit == Init => BufferInv
  BY DEF Init, CoreInit, WsInit, Idle, Nothing, Free, Workq, WsThread,
         BufferInv, ShapeInv, LockInv, BufferOwn, WorkqHolds, WsHolds

\* A reset frees the buffer.
LEMMA BufferInvReboot == ASSUME BufferInv, Reboot PROVE BufferInv'
  BY DEF Reboot, CoreReboot, WsReboot, Idle, Nothing, Free, Workq, WsThread,
         BufferInv, ShapeInv, LockInv, BufferOwn, WorkqHolds, WsHolds

\* The invariant is inductive.
LEMMA BufferInvNext == BufferInv /\ [Next]_vars => BufferInv'
<1> SUFFICES ASSUME BufferInv, [Next]_vars PROVE BufferInv'
  OBVIOUS
<1>1. CASE WorkThread
  <2>1. CASE SerialStep(SerialWork)
    BY <2>1, SerialActions, WorkqStepKeeps DEF SerialStep
  <2>2. CASE BtStep(BtWork)
    BY <2>2, BtActions, WorkqStepKeeps DEF BtStep
  <2>3. CASE WsOnly(WsReport)
    BY <2>3, WsActions, WorkqStepKeeps DEF WsOnly
  <2>4. CASE LoraStep(LoraWork)
    BY <2>4, LoraActions, WorkqStepKeeps DEF LoraStep
  <2>5. CASE CoreStep(CanWork)
    BY <2>5, CoreActions, WorkqStepKeeps DEF CoreStep, CanWork, LiveReport
  <2> QED
    BY <1>1, <2>1, <2>2, <2>3, <2>4, <2>5 DEF WorkThread
<1>2. CASE SerialStep(SerialRx)
  BY <1>2, SerialActions, OthersKeep DEF SerialStep
<1>3. CASE BtStep(BtConnect \/ thingset_bluetooth_ccc_change \/ BtDisconnect \/ BtRx)
  BY <1>3, BtActions, OthersKeep DEF BtStep
<1>4. CASE WsOnly(WsNext \/ WsStall \/ WsReportStall)
  BY <1>4, WsActions, WorkqStepKeeps, WsStepKeeps DEF WsOnly
<1>5. CASE LoraStep(LoraThread)
  BY <1>5, LoraActions, OthersKeep DEF LoraStep
<1>6. CASE DfuStep(DfuNext)
  BY <1>6, OthersKeep DEF DfuStep, DfuNext, thingset_dfu_init, thingset_dfu_write,
                          thingset_dfu_boot, coreVars
<1>7. ASSUME NEW w \in timers, CoreStep(Expire(w)) PROVE BufferInv'
  BY <1>7, OthersKeep DEF CoreStep, Expire
<1>8. CASE Reboot
  BY <1>8, BufferInvReboot
<1>9. CASE UNCHANGED vars
  BY <1>9, OthersKeep DEF vars, coreVars
<1> QED
  BY <1>1, <1>2, <1>3, <1>4, <1>5, <1>6, <1>7, <1>8, <1>9 DEF Next

\* What a thread has put into the shared buffer stays there until it has sent it:
\* see BufferOwn.
THEOREM BufferIsOwned == Spec => []BufferOwn
<1>1. BufferInv => BufferOwn
  BY DEF BufferInv
<1> QED
  BY <1>1, BufferInvInit, BufferInvNext, PTL DEF Spec

-----------------------------------------------------------------------------
(* Firmware updates *)

Piece    == Clients \X (1 .. NChunks)
DfuState == [init : BOOLEAN, buf : Seq(Piece), slot : Seq(Piece), reboot : BOOLEAN,
             upgrade : Seq(Piece), next : [Clients -> 0 .. NChunks + 2], faults : Nat,
             cut : BOOLEAN]

\* s holds the pieces of client c that follow the first n, in order.
Pieces(s, c, n) == \A i \in 1 .. Len(s) : s[i] = <<c, n + i>>

\* Slot and buffer hold the pieces of client c up to the one before piece n.
Before(slot, buffer, c, n) ==
    Len(slot) + Len(buffer) + 1 = n /\ Pieces(slot, c, 0) /\ Pieces(buffer, c, Len(slot))

\* Without the faults that UpgradeWhole excepts, the node has what the client has
\* sent since its xInit, unless dfu_initialized is reset; it is not when the client
\* is about to call xBoot.
SentInv(d) ==
    \A c \in Active : /\ d.init /\ d.next[c] \in 1 .. NChunks + 1 => Before(d.slot, d.buf, c, d.next[c])
                      /\ d.next[c] = NChunks + 1 => d.init \/ d.cut
UpgradeInv(d) == d.cut \/ d.upgrade = NoUpgrade \/ \E c \in Clients : d.upgrade = Image(c)
Covered == ~On("rivals") /\ ~On("resend") /\ ~On("flushfail")
DfuInv == dfu \in DfuState /\ (Covered => SentInv(dfu) /\ UpgradeInv(dfu))

\* Only one client is active unless there are rivals.
LEMMA OneClient ==
    ASSUME Covered
    PROVE  Active \subseteq Clients /\ \A c, e \in Active : c = e
  BY DfuAssumptions DEF DfuAssumptions, Covered, Active

\* Consecutive pieces of one image, one sequence after the other.
LEMMA PiecesConcat ==
    ASSUME NEW c \in Clients, NEW n \in Nat, NEW s \in Seq(Piece), NEW t \in Seq(Piece),
           Pieces(s, c, n), Pieces(t, c, n + Len(s))
    PROVE  /\ s \o t \in Seq(Piece) /\ Len(s \o t) = Len(s) + Len(t)
           /\ Pieces(s \o t, c, n)
<1>1. /\ s \o t \in Seq(Piece) /\ Len(s \o t) = Len(s) + Len(t)
      /\ \A i \in 1 .. Len(s) + Len(t) : (s \o t)[i] = IF i <= Len(s) THEN s[i] ELSE t[i - Len(s)]
  BY ConcatProperties
<1>2. ASSUME NEW i \in 1 .. Len(s) + Len(t) PROVE (s \o t)[i] = <<c, n + i>>
  <2>0. Len(s) \in Nat /\ Len(t) \in Nat
    OBVIOUS
  <2>1. CASE i <= Len(s)
    BY <1>1, <2>0, <2>1 DEF Pieces
  <2>2. CASE ~(i <= Len(s))
    <3>1. i - Len(s) \in 1 .. Len(t) /\ (n + Len(s)) + (i - Len(s)) = n + i
      BY <2>0, <2>2
    <3>2. t[i - Len(s)] = <<c, n + i>>
      BY <3>1 DEF Pieces
    <3> QED
      BY <1>1, <2>2, <3>2
  <2> QED
    BY <2>1, <2>2
<1> QED
  BY <1>1, <1>2 DEF Pieces

\* flash_img keeps the order of the pieces, whether it writes a block or not ...
LEMMA PieceAppended ==
    ASSUME NEW c \in Clients, NEW n \in 1 .. NChunks, NEW slot \in Seq(Piece),
           NEW buffer \in Seq(Piece), Before(slot, buffer, c, n),
           NEW b, b = buffer \o <<<<c, n>>>>
    PROVE  Before(slot, b, c, n + 1) /\ Before(slot \o b, <<>>, c, n + 1)
<1> USE DfuAssumptions DEF DfuAssumptions
<1> DEFINE x == <<<<c, n>>>>
<1>1. x \in Seq(Piece) /\ Len(x) = 1 /\ x[1] = <<c, n>>
  BY DEF Piece
<1>2. n \in Nat /\ Len(slot) \in Nat /\ Len(buffer) \in Nat /\ Len(slot) + Len(buffer) + 1 = n
  BY DEF Before
<1> HIDE DEF x
<1>3. Pieces(x, c, Len(slot) + Len(buffer))
  BY <1>1, <1>2 DEF Pieces
<1>4. b \in Seq(Piece) /\ Len(b) = Len(buffer) + 1 /\ Pieces(b, c, Len(slot))
  <2>1. Pieces(buffer, c, Len(slot)) /\ b = buffer \o x
    BY DEF Before, x
  <2>2. buffer \o x \in Seq(Piece) /\ Len(buffer \o x) = Len(buffer) + Len(x)
        /\ Pieces(buffer \o x, c, Len(slot))
    BY <1>1, <1>2, <1>3, <2>1, PiecesConcat
  <2> QED
    BY <1>1, <2>1, <2>2
<1>5. Len(slot \o b) = Len(slot) + Len(b) /\ Pieces(slot \o b, c, 0)
  <2>1. Pieces(slot, c, 0) /\ 0 + Len(slot) = Len(slot)
    BY <1>2 DEF Before
  <2> QED
    BY <1>2, <1>4, <2>1, PiecesConcat DEF Pieces
<1>6. Before(slot, b, c, n + 1)
  BY <1>2, <1>4 DEF Before
<1>7. Before(slot \o b, <<>>, c, n + 1)
  <2>1. Len(<<>>) = 0 /\ Pieces(<<>>, c, Len(slot \o b))
    BY DEF Pieces
  <2>2. Len(slot \o b) + Len(<<>>) + 1 = n + 1
    BY <1>2, <1>4, <1>5, <2>1
  <2> QED
    BY <1>5, <2>1, <2>2 DEF Before
<1> QED
  BY <1>6, <1>7

\* ... and when it is flushed the slot holds them all.
LEMMA PiecesWhole ==
    ASSUME NEW c \in Clients, NEW slot \in Seq(Piece), NEW buffer \in Seq(Piece),
           Before(slot, buffer, c, NChunks + 1)
    PROVE  slot \o (buffer \o <<>>) = Image(c)
<1> USE DfuAssumptions DEF DfuAssumptions
<1> DEFINE sb == slot \o buffer
<1>1. buffer \o <<>> = buffer
  BY ConcatEmptySeq
<1>2. Len(slot) \in Nat /\ Len(buffer) \in Nat /\ Len(slot) + Len(buffer) = NChunks
  BY DEF Before
<1>3. sb \in Seq(Piece) /\ Len(sb) = NChunks /\ Pieces(sb, c, 0)
  <2>1. Pieces(slot, c, 0) /\ Pieces(buffer, c, Len(slot)) /\ 0 + Len(slot) = Len(slot)
    BY <1>2 DEF Before
  <2> QED
    BY <1>2, <2>1, PiecesConcat DEF Pieces
<1> HIDE DEF sb
<1>4. sb = [i \in 1 .. NChunks |-> sb[i]]
  BY <1>3
<1>5. \A i \in 1 .. NChunks : sb[i] = <<c, i>>
  BY <1>3 DEF Pieces
<1>6. sb = Image(c)
  BY <1>4, <1>5 DEF Image
<1> QED
  BY <1>1, <1>6 DEF sb

\* With one client, what it has sent is all that matters.
LEMMA SentByOne ==
    ASSUME Covered, NEW c \in Active, NEW d,
           d.init /\ d.next[c] \in 1 .. NChunks + 1 => Before(d.slot, d.buf, c, d.next[c]),
           d.next[c] = NChunks + 1 => d.init \/ d.cut
    PROVE  SentInv(d)
  BY OneClient DEF SentInv

\* flash_img yields a state of the update, and changes nothing but slot and buffer.
LEMMA BufferedType ==
    ASSUME NEW d \in DfuState, NEW data \in Seq(Piece), NEW flush \in BOOLEAN,
           NEW e, e = Buffered(d, data, flush)
    PROVE  /\ e \in DfuState /\ e.next = d.next /\ e.init = d.init /\ e.cut = d.cut
           /\ e.upgrade = d.upgrade
<1> DEFINE b == d.buf \o data
           sb == d.slot \o b
<1>1. d.slot \in Seq(Piece) /\ d.buf \in Seq(Piece) /\ <<>> \in Seq(Piece)
  BY DEF DfuState
<1>2. b \in Seq(Piece) /\ sb \in Seq(Piece)
  BY <1>1, ConcatProperties
<1>3. e = [d EXCEPT !.slot = sb, !.buf = <<>>] \/ e = [d EXCEPT !.buf = b]
  BY DEF Buffered
<1> HIDE DEF b, sb
<1> QED
  BY <1>1, <1>2, <1>3 DEF DfuState

\* Taking in piece n, as the client that has sent the ones before.
LEMMA BufferedSent ==
    ASSUME NEW d \in DfuState, NEW c \in Clients, NEW n \in 1 .. NChunks,
           Before(d.slot, d.buf, c, n), NEW e, e = Buffered(d, <<<<c, n>>>>, FALSE)
    PROVE  Before(e.slot, e.buf, c, n + 1)
<1> DEFINE b == d.buf \o <<<<c, n>>>>
<1>1. d.slot \in Seq(Piece) /\ d.buf \in Seq(Piece)
  BY DEF DfuState
<1>2. Before(d.slot, b, c, n + 1) /\ Before(d.slot \o b, <<>>, c, n + 1)
  BY <1>1, PieceAppended
<1>3. e = [d EXCEPT !.slot = @ \o b, !.buf = <<>>] \/ e = [d EXCEPT !.buf = b]
  BY DEF Buffered
<1> HIDE DEF b
<1>4. (e.slot = d.slot \o b /\ e.buf = <<>>) \/ (e.slot = d.slot /\ e.buf = b)
  BY <1>3 DEF DfuState
<1> QED
  BY <1>2, <1>4

\* Counting a fault changes nothing else.
LEMMA DfuFaultType ==
    ASSUME NEW d \in DfuState
    PROVE  /\ DfuFault(d) \in DfuState /\ DfuFault(d).next = d.next /\ DfuFault(d).cut = d.cut
           /\ DfuFault(d).upgrade = d.upgrade
<1>1. d.faults + 1 \in Nat
  BY DEF DfuState
<1>2. \A f \in Nat : LET e == [d EXCEPT !.faults = f] IN
         e \in DfuState /\ e.next = d.next /\ e.cut = d.cut /\ e.upgrade = d.upgrade
  BY DEF DfuState
<1> QED
  BY <1>1, <1>2 DEF DfuFault

\* A client that gets an error starts over; the node has no part in it.
LEMMA FreshType ==
    ASSUME NEW d \in DfuState, NEW c \in Clients, NEW e,
           e = Fresh(d, c) \/ e = Fresh(DfuFault(d), c)
    PROVE  e \in DfuState /\ e.next[c] = 0 /\ e.cut = d.cut /\ e.upgrade = d.upgrade
<1> USE DfuAssumptions DEF DfuAssumptions
<1>1. PICK f \in Nat : e = [d EXCEPT !.faults = f, !.next = [d.next EXCEPT ![c] = 0]]
  <2>1. d.faults + 1 \in Nat /\ d.faults \in Nat /\ d = [d EXCEPT !.faults = d.faults]
    BY DEF DfuState
  <2> QED
    BY <2>1 DEF Fresh, DfuFault, DfuState
<1>2. [d.next EXCEPT ![c] = 0] \in [Clients -> 0 .. NChunks + 2] /\ [d.next EXCEPT ![c] = 0][c] = 0
  BY DEF DfuState
<1> QED
  BY <1>1, <1>2 DEF DfuState

\* xInit preserves the invariant: nothing has been sent.
LEMMA DfuInitKeeps ==
    ASSUME DfuInv, NEW c \in Clients, thingset_dfu_init(c), env' = env
    PROVE  DfuInv'
<1> USE DfuAssumptions DEF DfuAssumptions
<1>0. dfu \in DfuState /\ c \in Active
  BY DEF DfuInv, thingset_dfu_init, Sends
<1>1. CASE dfu' = ImgInit([dfu EXCEPT !.next[c] = 1])
  <2>1. dfu' = [dfu EXCEPT !.next = [dfu.next EXCEPT ![c] = 1], !.init = TRUE, !.buf = <<>>, !.slot = <<>>]
    BY <1>0, <1>1 DEF ImgInit, DfuState
  <2>2. [dfu.next EXCEPT ![c] = 1] \in [Clients -> 0 .. NChunks + 2] /\ <<>> \in Seq(Piece)
    BY <1>0 DEF DfuState
  <2>3. /\ dfu' \in DfuState /\ dfu'.next[c] = 1 /\ dfu'.slot = <<>> /\ dfu'.buf = <<>>
        /\ dfu'.init = TRUE /\ dfu'.cut = dfu.cut /\ dfu'.upgrade = dfu.upgrade
    BY <1>0, <2>1, <2>2 DEF DfuState
  <2>4. Before(<<>>, <<>>, c, 1)
    BY DEF Before, Pieces
  <2>5. Covered => SentInv(dfu')
    BY <1>0, <2>3, <2>4, SentByOne
  <2> QED
    BY <2>3, <2>5 DEF DfuInv, Covered, On, SentInv, UpgradeInv, Active
<1>2. CASE dfu' = Fresh(DfuFault(dfu), c)
  <2>1. /\ dfu' \in DfuState /\ dfu'.next[c] = 0
        /\ dfu'.cut = dfu.cut /\ dfu'.upgrade = dfu.upgrade
    BY <1>0, <1>2, FreshType
  <2>2. Covered => SentInv(dfu')
    BY <1>0, <2>1, SentByOne
  <2> QED
    BY <2>1, <2>2 DEF DfuInv, Covered, On, SentInv, UpgradeInv, Active
<1> QED
  BY <1>1, <1>2 DEF thingset_dfu_init

\* xWrite does: the piece is the next one, or the client starts over.
LEMMA DfuWriteKeeps ==
    ASSUME DfuInv, NEW c \in Clients, thingset_dfu_write(c), env' = env
    PROVE  DfuInv'
<1> USE DfuAssumptions DEF DfuAssumptions
<1>0. PICK n \in 1 .. NChunks :
         /\ Sends(c, n)
         /\ \/ dfu' = Fresh(dfu, c) \/ dfu' = Fresh(DfuFault(dfu), c)
            \/ dfu.init /\ dfu' = Buffered([dfu EXCEPT !.next[c] = n + 1], <<<<c, n>>>>, FALSE)
            \/ On("resend") /\ dfu' = Buffered(DfuFault(dfu), <<<<c, n>>>>, FALSE)
  BY DEF thingset_dfu_write, WriteAllowed, MayFail
<1>1. dfu \in DfuState /\ c \in Active /\ dfu.next[c] = n /\ <<<<c, n>>>> \in Seq(Piece)
  BY <1>0 DEF DfuInv, Sends, Piece
<1>2. CASE dfu' = Fresh(dfu, c) \/ dfu' = Fresh(DfuFault(dfu), c)
  <2>1. dfu' \in DfuState /\ dfu'.next[c] = 0 /\ dfu'.cut = dfu.cut /\ dfu'.upgrade = dfu.upgrade
    BY <1>1, <1>2, FreshType
  <2>2. Covered => SentInv(dfu')
    BY <1>1, <2>1, SentByOne
  <2> QED
    BY <2>1, <2>2 DEF DfuInv, Covered, On, SentInv, UpgradeInv, Active
<1>3. CASE dfu.init /\ dfu' = Buffered([dfu EXCEPT !.next[c] = n + 1], <<<<c, n>>>>, FALSE)
  <2> DEFINE d == [dfu EXCEPT !.next[c] = n + 1]
  <2>1. /\ d \in DfuState /\ d.next[c] = n + 1 /\ d.init = dfu.init /\ d.cut = dfu.cut
        /\ d.upgrade = dfu.upgrade /\ d.slot = dfu.slot /\ d.buf = dfu.buf
    <3>1. [dfu.next EXCEPT ![c] = n + 1] \in [Clients -> 0 .. NChunks + 2]
      BY <1>1 DEF DfuState
    <3>2. d = [dfu EXCEPT !.next = [dfu.next EXCEPT ![c] = n + 1]]
      BY <1>1 DEF DfuState
    <3> QED
      BY <1>1, <3>1, <3>2 DEF DfuState
  <2> HIDE DEF d
  <2>2. dfu' = Buffered(d, <<<<c, n>>>>, FALSE)
    BY <1>3 DEF d
  <2>3. /\ dfu' \in DfuState /\ dfu'.next = d.next /\ dfu'.init = d.init /\ dfu'.cut = d.cut
        /\ dfu'.upgrade = d.upgrade
    BY <1>1, <2>1, <2>2, BufferedType
  <2>4. Covered => SentInv(dfu')
    <3> SUFFICES ASSUME Covered PROVE SentInv(dfu')
      OBVIOUS
    <3>1. Before(d.slot, d.buf, c, n)
      BY <1>1, <1>3, <2>1 DEF DfuInv, SentInv
    <3>2. Before(dfu'.slot, dfu'.buf, c, n + 1)
      BY <1>1, <2>1, <2>2, <3>1, BufferedSent
    <3> QED
      BY <1>1, <1>3, <2>1, <2>3, <3>2, SentByOne
  <2> QED
    BY <2>1, <2>3, <2>4 DEF DfuInv, Covered, On, SentInv, UpgradeInv, Active
<1>4. CASE On("resend") /\ dfu' = Buffered(DfuFault(dfu), <<<<c, n>>>>, FALSE)
  <2>1. DfuFault(dfu) \in DfuState
    BY <1>1, DfuFaultType
  <2>2. dfu' \in DfuState
    BY <1>1, <1>4, <2>1, BufferedType
  <2> QED
    BY <1>4, <2>2 DEF DfuInv, Covered, On
<1> QED
  BY <1>0, <1>2, <1>3, <1>4

\* xBoot does: the upgrade that it requests is for the whole image.
LEMMA DfuBootKeeps ==
    ASSUME DfuInv, NEW c \in Clients, thingset_dfu_boot(c), env' = env
    PROVE  DfuInv'
<1> USE DfuAssumptions DEF DfuAssumptions
<1>0. dfu \in DfuState /\ c \in Active /\ dfu.next[c] = NChunks + 1 /\ <<>> \in Seq(Piece)
  BY DEF DfuInv, thingset_dfu_boot, Sends
<1>1. PICK d \in Flushed :
         \/ dfu' = [d EXCEPT !.next[c] = NChunks + 2, !.upgrade = d.slot, !.reboot = TRUE]
         \/ dfu' = Fresh(DfuFault(d), c)
  BY DEF thingset_dfu_boot
<1>2. d \in DfuState /\ d.next = dfu.next /\ d.cut = dfu.cut /\ d.upgrade = dfu.upgrade
  <2>1. CASE d = IF dfu.init THEN Buffered(dfu, <<>>, TRUE) ELSE dfu
    <3>1. CASE dfu.init
      <4>1. d = Buffered(dfu, <<>>, TRUE)
        BY <2>1, <3>1
      <4> QED
        BY <1>0, <4>1, BufferedType
    <3>2. CASE ~dfu.init
      BY <1>0, <2>1, <3>2
    <3> QED
      BY <3>1, <3>2
  <2>2. CASE d = DfuFault([dfu EXCEPT !.buf = <<>>])
    <3> DEFINE e == [dfu EXCEPT !.buf = <<>>]
    <3>1. e \in DfuState /\ e.next = dfu.next /\ e.cut = dfu.cut /\ e.upgrade = dfu.upgrade
      BY <1>0 DEF DfuState
    <3> QED
      BY <2>2, <3>1, DfuFaultType
  <2> QED
    BY <2>1, <2>2 DEF Flushed
<1>3. Covered => d.cut \/ d.slot = Image(c)
  <2> SUFFICES ASSUME Covered, ~dfu.cut PROVE d.slot = Image(c)
    BY <1>2
  <2>1. dfu.init /\ Before(dfu.slot, dfu.buf, c, NChunks + 1)
    BY <1>0 DEF DfuInv, SentInv
  <2>2. d = Buffered(dfu, <<>>, TRUE)
    BY <2>1 DEF Flushed, Covered, MayFail
  <2>3. dfu.slot \in Seq(Piece) /\ dfu.buf \in Seq(Piece)
    BY <1>0 DEF DfuState
  <2>4. d.slot = dfu.slot \o (dfu.buf \o <<>>)
    BY <1>0, <2>2 DEF Buffered, DfuState
  <2> QED
    BY <2>1, <2>3, <2>4, PiecesWhole
<1>4. CASE dfu' = [d EXCEPT !.next[c] = NChunks + 2, !.upgrade = d.slot, !.reboot = TRUE]
  <2>1. dfu' = [d EXCEPT !.next = [d.next EXCEPT ![c] = NChunks + 2], !.upgrade = d.slot, !.reboot = TRUE]
    BY <1>2, <1>4 DEF DfuState
  <2>2. [d.next EXCEPT ![c] = NChunks + 2] \in [Clients -> 0 .. NChunks + 2] /\ d.slot \in Seq(Piece)
    BY <1>2 DEF DfuState
  <2>3. dfu' \in DfuState /\ dfu'.next[c] = NChunks + 2 /\ dfu'.upgrade = d.slot /\ dfu'.cut = d.cut
    BY <1>2, <2>1, <2>2 DEF DfuState
  <2>4. Covered => SentInv(dfu') /\ UpgradeInv(dfu')
    BY <1>0, <1>3, <2>3, SentByOne DEF UpgradeInv
  <2> QED
    BY <2>3, <2>4 DEF DfuInv, Covered, On, SentInv, UpgradeInv, Active
<1>5. CASE dfu' = Fresh(DfuFault(d), c)
  <2>1. dfu' \in DfuState /\ dfu'.next[c] = 0 /\ dfu'.cut = d.cut /\ dfu'.upgrade = d.upgrade
    BY <1>2, <1>5, FreshType
  <2>2. Covered => SentInv(dfu')
    BY <1>0, <2>1, SentByOne
  <2> QED
    BY <1>2, <2>1, <2>2 DEF DfuInv, Covered, On, SentInv, UpgradeInv, Active
<1> QED
  BY <1>1, <1>4, <1>5

\* A restart does: dfu_initialized is reset, and whoever was about to call xBoot is
\* noted.
LEMMA DfuRebootKeeps ==
    ASSUME DfuInv, DfuReboot, env' = env
    PROVE  DfuInv'
<1>0. dfu \in DfuState
  BY DEF DfuInv
<1>1. PICK cut \in BOOLEAN :
         /\ dfu' = [dfu EXCEPT !.init = FALSE, !.buf = <<>>, !.reboot = FALSE, !.cut = cut]
         /\ cut = (dfu.cut \/ \E c \in Active : dfu.next[c] = NChunks + 1)
  BY <1>0 DEF DfuReboot, DfuState
<1>a. <<>> \in Seq(Piece)
  OBVIOUS
<1>2. /\ dfu' \in DfuState /\ dfu'.init = FALSE /\ dfu'.next = dfu.next /\ dfu'.cut = cut
      /\ dfu'.upgrade = dfu.upgrade
  BY <1>0, <1>1, <1>a DEF DfuState
<1>3. SentInv(dfu')
  BY <1>1, <1>2 DEF SentInv
<1>4. UpgradeInv(dfu) => UpgradeInv(dfu')
  BY <1>1, <1>2 DEF UpgradeInv
<1> QED
  BY <1>2, <1>3, <1>4 DEF DfuInv, Covered, On, SentInv, UpgradeInv, Active

\* The invariant holds at the start and is preserved by every step of the node.
LEMMA DfuInvInit == Init => DfuInv
<1> SUFFICES ASSUME Init PROVE DfuInv
  OBVIOUS
<1> USE DfuAssumptions DEF DfuAssumptions
<1>1. dfu = [init |-> FALSE, buf |-> <<>>, slot |-> <<>>, reboot |-> FALSE,
             upgrade |-> NoUpgrade, next |-> [c \in Clients |-> 0], faults |-> 0, cut |-> FALSE]
  BY DEF Init, DfuInit
<1>2. <<>> \in Seq(Piece) /\ [c \in Clients |-> 0] \in [Clients -> 0 .. NChunks + 2] /\ 0 \in Nat
  OBVIOUS
<1>3. dfu \in DfuState
  BY <1>1, <1>2 DEF DfuState, NoUpgrade
<1>4. Covered => SentInv(dfu)
  BY <1>1, OneClient DEF SentInv
<1> QED
  BY <1>1, <1>3, <1>4 DEF DfuInv, UpgradeInv

\* Which hazards the run is about never changes.
LEMMA EnvFixed == ASSUME [Next]_vars PROVE env' = env
<1> USE DEF Starts, Running, coreVars
<1>1. CASE WorkThread
  <2>1. CASE SerialStep(SerialWork)
    BY <2>1 DEF SerialStep, SerialWork, SerialProcess, SerialFill, SerialSend, SerialOut,
                SerialReport, ReportBegin, Fill, ReportSend
  <2>2. CASE BtStep(BtWork)
    BY <2>2 DEF BtStep, BtWork, Advertise, BtProcess, BtFill, BtSent, BtOut, BtReport,
                BtReportSent, BtSendBegin, BtPacket, ReportBegin, Fill
  <2>3. CASE WsOnly(WsReport) \/ LoraStep(LoraWork)
    BY <2>3 DEF WsOnly, WsReport, LoraStep, LoraWork, SaveBegin, SaveFill, SaveWrite,
                ReportBegin, Fill, ReportSend
  <2>4. CASE CoreStep(CanWork)
    BY <2>4 DEF CoreStep, CanWork, LiveReport, ControlBegin, ControlCopy, ReportBegin, Fill,
                ReportSend
  <2> QED
    BY <1>1, <2>1, <2>2, <2>3, <2>4 DEF WorkThread
<1>2. CASE SerialStep(SerialRx) \/ \E w \in timers : CoreStep(Expire(w))
  BY <1>2 DEF SerialStep, SerialRx, CoreStep, Expire
<1>3. CASE BtStep(BtConnect \/ thingset_bluetooth_ccc_change \/ BtDisconnect \/ BtRx)
  BY <1>3 DEF BtStep, BtConnect, thingset_bluetooth_ccc_change, BtDisconnect, BtRx
<1>4. CASE WsOnly(WsNext \/ WsStall \/ WsReportStall)
  BY <1>4 DEF WsOnly, WsNext, WsStall, WsReportStall, WsStep, Resolve, OpenSocket, Connect,
              Sleep, Upgrade, Recv, WsFill, WsSend
<1>5. CASE LoraStep(LoraThread)
  BY <1>5 DEF LoraStep, LoraThread, LoraStart, JoinFails, JoinOk
<1>6. CASE DfuStep(DfuNext)
  BY <1>6 DEF DfuStep, DfuNext, thingset_dfu_init, thingset_dfu_write, thingset_dfu_boot
<1>7. CASE Reboot \/ UNCHANGED vars
  BY <1>7 DEF Reboot, vars
<1> QED
  BY <1>1, <1>2, <1>3, <1>4, <1>5, <1>6, <1>7 DEF Next

\* The invariant is inductive.
LEMMA DfuInvNext == DfuInv /\ [Next]_vars => DfuInv'
<1> SUFFICES ASSUME DfuInv, [Next]_vars PROVE DfuInv'
  OBVIOUS
<1>0. env' = env
  BY EnvFixed
<1>1. CASE DfuStep(DfuNext)
  BY <1>0, <1>1, DfuInitKeeps, DfuWriteKeeps, DfuBootKeeps DEF DfuStep, DfuNext
<1>2. CASE Reboot
  BY <1>0, <1>2, DfuRebootKeeps DEF Reboot
<1>3. ASSUME dfu' = dfu PROVE DfuInv'
  BY <1>0, <1>3 DEF DfuInv, Covered, On, SentInv, UpgradeInv, Active
<1>4. CASE WorkThread
  BY <1>3, <1>4 DEF WorkThread, SerialStep, BtStep, WsOnly, LoraStep, CoreStep
<1>5. CASE \/ SerialStep(SerialRx)
           \/ BtStep(BtConnect \/ thingset_bluetooth_ccc_change \/ BtDisconnect \/ BtRx)
           \/ WsOnly(WsNext \/ WsStall \/ WsReportStall)
           \/ LoraStep(LoraThread)
           \/ \E w \in timers : CoreStep(Expire(w))
           \/ UNCHANGED vars
  BY <1>3, <1>5 DEF SerialStep, BtStep, WsOnly, LoraStep, CoreStep, vars
<1> QED
  BY <1>1, <1>2, <1>4, <1>5 DEF Next

\* An upgrade is requested for one client's whole image: see UpgradeWhole.
THEOREM UpgradesWhole == Spec => []UpgradeWhole
<1>1. DfuInv => UpgradeWhole
  BY DEF DfuInv, UpgradeWhole, UpgradeInv, Covered
<1> QED
  BY <1>1, DfuInvInit, DfuInvNext, PTL DEF Spec


-----------------------------------------------------------------------------
(* The work queue *)

\* What is queued on thingset_workq: what follows an event, and what may be queued by
\* a delay.
Handlers  == {"serproc", "btproc", "btadv"}
Delayable == {"serrep", "btrep", "wsrep", "canrep", "canctl", "save"}
Items     == Delayable \cup Handlers
QueueShape == /\ CurShape /\ cur.work \in Items \cup {"none"}
              /\ wq \in Seq(Items) /\ timers \subseteq Delayable

\* rx_buf is with the work item exactly once: queued, or running.
QueueInv ==
    /\ CurShape /\ cur.work \in Items \cup {"none"}
    /\ wq \in Seq(Items) /\ timers \subseteq Delayable
    /\ \A i, j \in 1 .. Len(wq) : wq[i] = "serproc" /\ wq[j] = "serproc" => i = j
    /\ Contains(wq, "serproc") => ser.held /\ cur.work # "serproc"
    /\ cur.work = "serproc" => ser.held

-----------------------------------------------------------------------------
(* The characters *)

Chars == ({0} \cup DOMAIN Lines) \X Nat

\* Text(l) is what rx_buf holds of line l when its end arrives: Typed(l, k) what it
\* holds after the first k characters.
TextLen(l)    == Lines[l] + (IF On("crc") THEN 1 ELSE 0)
TextChar(l, i) == IF i <= Lines[l] THEN <<l, i>> ELSE IF i = TextLen(l) THEN Crc(l) ELSE CR
Typed(l, k)  ==
    IF l % 2 = 1 THEN [i \in 1 .. k |-> TextChar(l, i)]
    ELSE IF k = 1 THEN <<Junk>> ELSE [i \in 1 .. k - 2 |-> TextChar(l, i)]
Text(l)      == [i \in 1 .. TextLen(l) |-> TextChar(l, i)]

SerState == [rx : Seq(Chars), held : BOOLEAN, discard : BOOLEAN, got : Seq(Seq(Chars)),
             line : 1 .. Len(Lines) + 1, at : Nat \ {0}, noise : {0, 1}, open : BOOLEAN,
             before : BOOLEAN, due : SUBSET DOMAIN Lines]

\* A line that has been received is what the host sent, and so is what has arrived
\* of the next one unless something of it was dropped.
LineInv ==
    SerialFaultless =>
        /\ ~ser.held /\ ~ser.discard /\ ser.line <= Len(Lines)
              => ser.rx = Typed(ser.line, ser.at - 1)
        /\ ser.held => \E l \in DOMAIN Lines : ser.rx = Text(l)
        /\ ser.held /\ ~ser.discard => ser.at = 1

\* Nothing of a line is dropped whose characters all arrive while rx_buf is free,
\* after the end of the line before did.
OpenInv == SerialFaultless /\ ser.open /\ ser.before => ~ser.discard

\* What is processed is what rx_buf holds ...
JobInv ==
    cur.work = "serproc" =>
        /\ cur.pc = "fill" => Accepted(ser.rx) = <<cur.job[2]>>
        /\ cur.pc # "fill" /\ Accepted(ser.rx) # <<>> => Contains(ser.got, Accepted(ser.rx)[1])

SerInv ==
    /\ ser \in SerState
    /\ ser.line <= Len(Lines) => ser.at \in 1 .. Len(Sent(ser.line))
    /\ ser.line > Len(Lines) => ser.at = 1
    /\ LineInv /\ OpenInv /\ JobInv /\ SerialLinesWhole /\ SerialRecovers
    /\ env \in Envs

SerialInv == QueueInv /\ SerInv

-----------------------------------------------------------------------------
(* Queueing *)

Once(u, q) == \A i, j \in 1 .. Len(q) : q[i] = u /\ q[j] = u => i = j

\* An item that is taken from the queue is no longer in it, if it was there once.
LEMMA OnceTail ==
    ASSUME NEW u, NEW q \in Seq(Items), Once(u, q), q # <<>>
    PROVE  /\ Tail(q) \in Seq(Items) /\ Once(u, Tail(q))
           /\ Contains(Tail(q), u) => Contains(q, u) /\ Head(q) # u
           /\ Head(q) \in Items /\ Contains(q, Head(q))
<1>1. /\ Tail(q) \in Seq(Items) /\ Len(Tail(q)) = Len(q) - 1 /\ Len(q) \in Nat \ {0}
      /\ \A i \in 1 .. Len(q) - 1 : Tail(q)[i] = q[i + 1]
      /\ Head(q) = q[1] /\ q[1] \in Items
  OBVIOUS
<1>2. Once(u, Tail(q))
  <2> SUFFICES ASSUME NEW i \in 1 .. Len(q) - 1, NEW j \in 1 .. Len(q) - 1,
                      Tail(q)[i] = u, Tail(q)[j] = u
               PROVE  i = j
    BY <1>1 DEF Once
  <2>1. i + 1 \in 1 .. Len(q) /\ j + 1 \in 1 .. Len(q)
        /\ q[i + 1] = u /\ q[j + 1] = u
    BY <1>1
  <2>2. i + 1 = j + 1
    BY <2>1 DEF Once
  <2> QED
    BY <2>2
<1>3. ASSUME Contains(Tail(q), u)
      PROVE  Contains(q, u) /\ Head(q) # u
  <2>1. PICK i \in 1 .. Len(q) - 1 : Tail(q)[i] = u
    BY <1>1, <1>3 DEF Contains
  <2>2. i + 1 \in 1 .. Len(q) /\ q[i + 1] = u /\ 1 \in 1 .. Len(q) /\ i + 1 # 1
    BY <1>1, <2>1
  <2>3. q[1] # u
    BY <2>2 DEF Once
  <2> QED
    BY <1>1, <2>2, <2>3 DEF Contains
<1>4. Contains(q, Head(q))
  BY <1>1 DEF Contains
<1> QED
  BY <1>1, <1>2, <1>3, <1>4

\* An item that is queued is in the queue once.
LEMMA OnceRescheduled ==
    ASSUME NEW u, NEW q \in Seq(Items), Once(u, q), NEW w \in Items
    PROVE  /\ Rescheduled(q, w) \in Seq(Items) /\ Once(u, Rescheduled(q, w))
           /\ Contains(Rescheduled(q, w), u) => Contains(q, u) \/ w = u
<1>1. CASE Contains(q, w)
  BY <1>1 DEF Rescheduled
<1>2. CASE ~Contains(q, w)
  <2> DEFINE r == Append(q, w)
  <2>1. /\ r \in Seq(Items) /\ Len(r) = Len(q) + 1 /\ Len(q) \in Nat
        /\ \A i \in 1 .. Len(q) : r[i] = q[i]
        /\ r[Len(q) + 1] = w
    OBVIOUS
  <2>2. Rescheduled(q, w) = r
    BY <1>2 DEF Rescheduled
  <2> HIDE DEF r
  <2>3. \A i \in 1 .. Len(q) : q[i] # w
    BY <1>2 DEF Contains
  <2>4. Once(u, r)
    <3> SUFFICES ASSUME NEW i \in 1 .. Len(q) + 1, NEW j \in 1 .. Len(q) + 1,
                        r[i] = u, r[j] = u
                 PROVE  i = j
      BY <2>1 DEF Once
    <3>1. CASE i <= Len(q) /\ j <= Len(q)
      BY <2>1, <3>1 DEF Once
    <3>2. CASE i = Len(q) + 1 \/ j = Len(q) + 1
      BY <2>1, <2>3, <3>2
    <3> QED
      BY <2>1, <3>1, <3>2
  <2>5. Contains(r, u) => Contains(q, u) \/ w = u
    BY <2>1 DEF Contains
  <2> QED
    BY <2>1, <2>2, <2>4, <2>5
<1> QED
  BY <1>1, <1>2

\* What the queue may become without the item u.
QueueMove(u) ==
    \/ wq' = wq
    \/ wq # <<>> /\ Head(wq) # u /\ wq' = Tail(wq)
    \/ \E w \in Items \ {u} : wq' = Rescheduled(wq, w)

\* A step of anything but the item u: it queues and starts other items.
OtherStep(u) ==
    /\ env' = env
    /\ QueueMove(u)
    /\ timers' \subseteq timers \cup Delayable
    /\ \/ cur' = cur
       \/ /\ cur.work # u /\ CurShape'
          /\ cur'.work \in (Items \cup {"none"}) \ {u}

\* Such a step leaves the receive buffer with whoever has it.
LEMMA QueueMoves ==
    ASSUME NEW u, wq \in Seq(Items), Once(u, wq), QueueMove(u)
    PROVE  /\ wq' \in Seq(Items) /\ Once(u, wq')
           /\ Contains(wq', u) => Contains(wq, u)
<1>1. CASE wq' = wq
  BY <1>1
<1>2. CASE wq # <<>> /\ Head(wq) # u /\ wq' = Tail(wq)
  BY <1>2, OnceTail
<1>3. ASSUME NEW w \in Items \ {u}, wq' = Rescheduled(wq, w)
      PROVE  /\ wq' \in Seq(Items) /\ Once(u, wq')
             /\ Contains(wq', u) => Contains(wq, u)
  BY <1>3, OnceRescheduled
<1> QED
  BY <1>1, <1>2, <1>3 DEF QueueMove

\* Nor does it disturb the queue.
LEMMA ShapeKept ==
    ASSUME NEW u, QueueShape, Once(u, wq), OtherStep(u)
    PROVE  /\ QueueShape' /\ Once(u, wq') /\ (Contains(wq', u) => Contains(wq, u))
           /\ cur'.work = u => cur' = cur
<1>1. wq' \in Seq(Items) /\ Once(u, wq') /\ (Contains(wq', u) => Contains(wq, u))
  BY QueueMoves DEF QueueShape, OtherStep
<1>2. timers' \subseteq Delayable
  BY DEF QueueShape, OtherStep
<1>3. CASE cur' = cur
  BY <1>1, <1>2, <1>3 DEF QueueShape, CurShape
<1>4. CASE cur.work # u /\ CurShape' /\ cur'.work \in (Items \cup {"none"}) \ {u}
  BY <1>1, <1>2, <1>4 DEF QueueShape
<1> QED
  BY <1>3, <1>4 DEF OtherStep

\* The other interfaces keep the invariant.
LEMMA OthersKeepSerial == ASSUME SerialInv, ser' = ser, OtherStep("serproc") PROVE SerialInv'
<1>1. QueueInv'
  <2>1. QueueShape /\ Once("serproc", wq)
    BY DEF SerialInv, QueueInv, QueueShape, Once
  <2>2. /\ QueueShape' /\ Once("serproc", wq') /\ (Contains(wq', "serproc") => Contains(wq, "serproc"))
        /\ cur'.work = "serproc" => cur' = cur
    BY <2>1, ShapeKept
  <2> QED
    BY <2>2 DEF SerialInv, QueueInv, QueueShape, Once
<1>2. JobInv'
  <2>1. CASE cur' = cur
    BY <2>1 DEF SerialInv, SerInv, OtherStep, JobInv, Accepted, On, HasCrc, CrcMatches, Payload, Lines
  <2>2. CASE cur'.work # "serproc"
    BY <2>2 DEF JobInv
  <2> QED
    BY <2>1, <2>2 DEF OtherStep
<1>3. SerInv'
  <2> USE DEF SerialInv, SerInv, OtherStep
  <2>1. ser' \in SerState'
    BY DEF SerState, Chars, Lines, On
  <2>2. Lines' = Lines /\ (\A l : Sent(l)' = Sent(l)) /\ (\A l : Payload(l)' = Payload(l))
    BY DEF Lines, On, Sent, Payload, Crc
  <2>3. SerialFaultless' = SerialFaultless
    BY DEF SerialFaultless, On
  <2>4. LineInv'
    BY <2>2, <2>3 DEF LineInv, Typed, Text, TextLen, TextChar, On, Lines, Crc
  <2>5. OpenInv' /\ SerialLinesWhole' /\ SerialRecovers'
    BY <2>2, <2>3 DEF OpenInv, SerialLinesWhole, SerialRecovers, On
  <2>6. /\ ser.line <= Len(Lines) => ser.at \in 1 .. Len(Sent(ser.line))
        /\ ser.line > Len(Lines) => ser.at = 1
    OBVIOUS
  <2>7. /\ ser'.line <= Len(Lines') => ser'.at \in 1 .. Len(Sent(ser.line)')
        /\ ser'.line > Len(Lines') => ser'.at = 1
    BY <2>2, <2>6
  <2> QED
    BY <1>2, <2>1, <2>4, <2>5, <2>7
<1> QED
  BY <1>1, <1>3 DEF SerialInv

-----------------------------------------------------------------------------
(* The other interfaces *)

\* The handler of another item than u goes on, or returns.
LEMMA OtherHandler ==
    ASSUME NEW u, QueueShape, env' = env, QueueMove(u),
           cur.work # u, timers' \subseteq timers \cup Delayable,
           CurShape', cur'.work \in (Items \cup {"none"}) \ {u}
    PROVE  OtherStep(u)
  BY DEF OtherStep

\* An item is taken from the queue, or stays, or is put into it.
LEMMA Queueing ==
    ASSUME NEW u
    PROVE  /\ \A w : Starts(w) /\ w # u => QueueMove(u) /\ cur = Idle
           /\ wq' = wq => QueueMove(u)
           /\ \A w \in Items \ {u} : wq' = Rescheduled(wq, w) => QueueMove(u)
  BY DEF Starts, QueueMove

\* The periodic reports and the controls.
LEMMA CoreQueues ==
    ASSUME QueueShape, NEW u \in Handlers
    PROVE  /\ \A w \in Delayable : \A ready : ReportBegin(w, ready) => OtherStep(u)
           /\ \A w \in Delayable : Fill(w) \/ ReportSend(w) \/ Expire(w) => OtherStep(u)
           /\ ControlBegin \/ ControlCopy => OtherStep(u)
<1>0. /\ u \notin Delayable /\ "canctl" \in Delayable /\ CurShape /\ timers \subseteq Delayable
      /\ Delayable \subseteq Items \ {u} /\ u # "none" /\ "none" \notin Delayable
  BY DEF Delayable, Handlers, Items, QueueShape
<1>1. ASSUME NEW w \in Delayable, NEW ready, ReportBegin(w, ready) PROVE OtherStep(u)
  <2>1. QueueMove(u) /\ cur = Idle /\ env' = env
    BY <1>0, <1>1, Queueing DEF ReportBegin
  <2>2. timers' \subseteq timers \cup Delayable
    BY <1>1 DEF ReportBegin
  <2>3. cur' = cur \/ (CurShape' /\ cur'.work = w)
    BY <1>1 DEF ReportBegin, Idle, CurShape
  <2>4. cur.work = "none"
    BY <2>1 DEF Idle
  <2> QED
    BY <1>0, <2>1, <2>2, <2>3, <2>4 DEF OtherStep
<1>2. ASSUME NEW w \in Delayable, Fill(w) PROVE OtherStep(u)
  <2>1. QueueMove(u) /\ cur.work = w /\ env' = env /\ timers' = timers
    BY <1>2, Queueing DEF Fill, Running
  <2>2. CurShape' /\ cur'.work = w
    BY <1>0, <1>2, <2>1 DEF Fill, CurShape
  <2> QED
    BY <1>0, <2>1, <2>2 DEF OtherStep
<1>3. ASSUME NEW w \in Delayable, ReportSend(w) PROVE OtherStep(u)
  <2>1. QueueMove(u) /\ cur.work = w /\ env' = env /\ timers' = timers \cup {w} /\ cur' = Idle
    BY <1>3, Queueing DEF ReportSend, Running, Returns
  <2>2. CurShape' /\ cur'.work = "none"
    BY <2>1 DEF Idle, CurShape
  <2> QED
    BY <1>0, <2>1, <2>2 DEF OtherStep
<1>4. ASSUME NEW w \in Delayable, Expire(w) PROVE OtherStep(u)
  BY <1>0, <1>4, Queueing DEF Expire, OtherStep
<1>5. ASSUME ControlBegin PROVE OtherStep(u)
  <2>1. QueueMove(u) /\ cur = Idle /\ env' = env
    BY <1>0, <1>5, Queueing DEF ControlBegin
  <2>2. timers' \subseteq timers \cup Delayable
    BY <1>0, <1>5 DEF ControlBegin
  <2>3. cur' = cur \/ (CurShape' /\ cur'.work = "canctl")
    BY <1>5 DEF ControlBegin, Idle, CurShape
  <2>4. cur.work = "none"
    BY <2>1 DEF Idle
  <2> QED
    BY <1>0, <2>1, <2>2, <2>3, <2>4 DEF OtherStep
<1>6. ASSUME ControlCopy PROVE OtherStep(u)
  <2>1. QueueMove(u) /\ cur.work = "canctl" /\ env' = env
    BY <1>6, Queueing DEF ControlCopy, Running
  <2>2. timers' \subseteq timers \cup Delayable
    BY <1>0, <1>6, <2>1 DEF ControlCopy, Returns
  <2>3. CurShape' /\ cur'.work \in {"canctl", "none"}
    <3>1. PICK i, job : cur' = [cur EXCEPT !.pc = "fill", !.i = i, !.job = job] \/ cur' = Idle
      BY <1>6 DEF ControlCopy, Returns
    <3>2. CASE cur' = [cur EXCEPT !.pc = "fill", !.i = i, !.job = job]
      BY <1>0, <2>1, <3>2 DEF CurShape
    <3>3. CASE cur' = Idle
      BY <3>3 DEF Idle, CurShape
    <3> QED
      BY <3>1, <3>2, <3>3
  <2> QED
    BY <1>0, <2>1, <2>2, <2>3 DEF OtherStep
<1> QED
  BY <1>1, <1>2, <1>3, <1>4, <1>5, <1>6

\* Bluetooth: the handlers of its events change what is queued of their own.
LEMMA BtQueues ==
    ASSUME QueueShape, NEW u \in Handlers
    PROVE  /\ BtReport \/ BtReportSent \/ BtSendBegin("btrep") \/ BtPacket("btrep") => OtherStep(u)
           /\ BtConnect \/ thingset_bluetooth_ccc_change => OtherStep(u)
           /\ u # "btadv" => (Advertise \/ BtDisconnect => OtherStep(u))
           /\ u # "btproc" => (BtProcess \/ BtFill \/ BtSendBegin("btproc") \/ BtPacket("btproc")
                                 \/ BtSent \/ BtOut \/ BtRx => OtherStep(u))
<1>0. /\ u \notin Delayable /\ "btrep" \in Delayable /\ u # "btrep" /\ "btrep" \in Items
      /\ CurShape /\ timers \subseteq Delayable
      /\ u # "none" /\ {"btproc", "btadv"} \subseteq Items
  BY DEF Delayable, Handlers, Items, QueueShape
<1>1. ASSUME Advertise, u # "btadv" PROVE OtherStep(u)
  <2>1. QueueMove(u) /\ cur' = cur /\ env' = env /\ timers' = timers
    BY <1>1, Queueing DEF Advertise
  <2> QED
    BY <2>1 DEF OtherStep
<1>2. ASSUME BtProcess, u # "btproc" PROVE OtherStep(u)
  <2>1. PICK pc, job : cur' = [Idle EXCEPT !.work = "btproc", !.job = job, !.pc = pc]
    BY <1>2 DEF BtProcess
  <2>2. QueueMove(u) /\ cur = Idle /\ env' = env /\ timers' = timers
    BY <1>2, Queueing DEF BtProcess
  <2>3. CurShape' /\ cur'.work = "btproc" /\ cur.work = "none"
    BY <2>1, <2>2 DEF Idle, CurShape
  <2> QED
    BY <1>0, <1>2, <2>2, <2>3 DEF OtherStep
<1>3. ASSUME BtFill, u # "btproc" PROVE OtherStep(u)
  <2>1. QueueMove(u) /\ cur.work = "btproc" /\ env' = env /\ timers' = timers
    BY <1>3, Queueing DEF BtFill, Fill, Running
  <2>2. CurShape' /\ cur'.work = "btproc"
    BY <1>0, <1>3, <2>1 DEF BtFill, Fill, CurShape
  <2> QED
    BY <1>0, <1>3, <2>1, <2>2 DEF OtherStep
<1>4. ASSUME BtSent, u # "btproc" PROVE OtherStep(u)
  <2>1. QueueMove(u) /\ cur.work = "btproc" /\ env' = env /\ timers' = timers
    BY <1>4, Queueing DEF BtSent, Running
  <2>2. CurShape' /\ cur'.work = "btproc"
    BY <1>0, <1>4, <2>1 DEF BtSent, CurShape
  <2> QED
    BY <1>0, <1>4, <2>1, <2>2 DEF OtherStep
<1>5. ASSUME BtReportSent PROVE OtherStep(u)
  <2>1. QueueMove(u) /\ cur.work = "btrep" /\ env' = env /\ timers' = timers \cup {"btrep"} /\ cur' = Idle
    BY <1>5, Queueing DEF BtReportSent, Running, Returns
  <2>2. CurShape' /\ cur'.work = "none"
    BY <2>1 DEF Idle, CurShape
  <2> QED
    BY <1>0, <2>1, <2>2 DEF OtherStep
<1>6. ASSUME BtOut, u # "btproc" PROVE OtherStep(u)
  <2>1. QueueMove(u) /\ cur.work = "btproc" /\ env' = env /\ timers' = timers /\ cur' = Idle
    BY <1>6, Queueing DEF BtOut, Running, Returns
  <2>2. CurShape' /\ cur'.work = "none"
    BY <2>1 DEF Idle, CurShape
  <2> QED
    BY <1>0, <1>6, <2>1, <2>2 DEF OtherStep
<1>7. ASSUME BtReport PROVE OtherStep(u)
  BY <1>0, <1>7, CoreQueues DEF BtReport
<1>8. ASSUME NEW w \in {"btproc", "btrep"}, BtSendBegin(w), w # u PROVE OtherStep(u)
  <2>1. PICK pc : cur' = [cur EXCEPT !.pc = pc, !.i = 0]
    BY <1>8 DEF BtSendBegin
  <2>2. QueueMove(u) /\ cur.work = w /\ env' = env /\ timers' = timers
    BY <1>8, Queueing DEF BtSendBegin, Running
  <2>3. CurShape' /\ cur'.work = w
    BY <1>0, <2>1, <2>2 DEF CurShape
  <2> QED
    BY <1>0, <1>8, <2>2, <2>3 DEF OtherStep, QueueShape
<1>9. ASSUME NEW w \in {"btproc", "btrep"}, BtPacket(w), w # u PROVE OtherStep(u)
  <2>1. PICK i : cur' = [cur EXCEPT !.pc = "sent"] \/ cur' = [cur EXCEPT !.i = i]
    BY <1>9 DEF BtPacket
  <2>2. QueueMove(u) /\ cur.work = w /\ env' = env /\ timers' = timers
    BY <1>9, Queueing DEF BtPacket, Running
  <2>3. CurShape' /\ cur'.work = w
    BY <1>0, <2>1, <2>2 DEF CurShape
  <2> QED
    BY <1>0, <1>9, <2>2, <2>3 DEF OtherStep, QueueShape
<1>10. ASSUME BtConnect \/ thingset_bluetooth_ccc_change PROVE OtherStep(u)
  BY <1>10, Queueing DEF BtConnect, thingset_bluetooth_ccc_change, coreVars, OtherStep
<1>11. ASSUME BtDisconnect, u # "btadv" PROVE OtherStep(u)
  BY <1>0, <1>11, Queueing DEF BtDisconnect, OtherStep
<1>12. ASSUME BtRx, u # "btproc" PROVE OtherStep(u)
  <2>1. /\ env' = env /\ cur' = cur /\ timers' = timers
        /\ wq' = wq \/ wq' = Rescheduled(wq, "btproc")
    BY <1>12 DEF BtRx
  <2> QED
    BY <1>0, <1>12, <2>1, Queueing DEF OtherStep
<1> QED
  BY <1>0, <1>1, <1>2, <1>3, <1>4, <1>5, <1>6, <1>7, <1>8, <1>9, <1>10, <1>11, <1>12

\* Nothing of it concerns the serial interface.
LEMMA BtQueuesSerial ==
    ASSUME QueueShape
    PROVE  BtWork \/ BtConnect \/ thingset_bluetooth_ccc_change \/ BtDisconnect \/ BtRx
             => OtherStep("serproc")
<1>1. "serproc" \in Handlers /\ "serproc" # "btadv" /\ "serproc" # "btproc"
  BY DEF Handlers
<1> QED
  BY <1>1, BtQueues DEF BtWork

\* LoRaWAN.
LEMMA LoraQueues ==
    ASSUME QueueShape, NEW u \in Handlers
    PROVE  LoraWork \/ LoraThread => OtherStep(u)
<1>0. /\ u \notin Delayable /\ "save" \in Delayable /\ CurShape /\ timers \subseteq Delayable
      /\ Delayable \subseteq Items \ {u} /\ u # "none" /\ "none" \notin Delayable
  BY DEF Delayable, Handlers, Items, QueueShape
<1>1. ASSUME SaveBegin PROVE OtherStep(u)
  <2>1. QueueMove(u) /\ cur = Idle /\ env' = env
    BY <1>0, <1>1, Queueing DEF SaveBegin
  <2>2. timers' \subseteq timers \cup Delayable
    BY <1>0, <1>1 DEF SaveBegin
  <2>3. cur' = cur \/ (CurShape' /\ cur'.work = "save")
    BY <1>1 DEF SaveBegin, Idle, CurShape
  <2>4. cur.work = "none"
    BY <2>1 DEF Idle
  <2> QED
    BY <1>0, <2>1, <2>2, <2>3, <2>4 DEF OtherStep
<1>2. ASSUME SaveFill PROVE OtherStep(u)
  <2>1. QueueMove(u) /\ cur.work = "save" /\ env' = env /\ timers' = timers
    BY <1>2, Queueing DEF SaveFill, Running
  <2>2. CurShape' /\ cur'.work = "save"
    BY <1>0, <1>2, <2>1 DEF SaveFill, CurShape
  <2> QED
    BY <1>0, <2>1, <2>2 DEF OtherStep
<1>3. ASSUME SaveWrite PROVE OtherStep(u)
  <2>1. QueueMove(u) /\ cur.work = "save" /\ env' = env /\ timers' \subseteq timers \cup {"save"} /\ cur' = Idle
    BY <1>3, Queueing DEF SaveWrite, Running, Returns
  <2>2. CurShape' /\ cur'.work = "none"
    BY <2>1 DEF Idle, CurShape
  <2> QED
    BY <1>0, <2>1, <2>2 DEF OtherStep
<1>4. ASSUME LoraThread PROVE OtherStep(u)
  <2>1. /\ env' = env /\ cur' = cur /\ timers' \subseteq timers
        /\ wq' = wq \/ wq' = Rescheduled(wq, "save")
    BY <1>4 DEF LoraThread, LoraStart, JoinFails, JoinOk, coreVars
  <2> QED
    BY <1>0, <2>1, Queueing DEF OtherStep
<1> QED
  BY <1>1, <1>2, <1>3, <1>4 DEF LoraWork

\* The WebSocket, and firmware updates.
LEMMA WsDfuActions ==
    ASSUME QueueShape, NEW u \in Handlers
    PROVE  WsReport \/ WsReportStall \/ WsNext \/ WsStall \/ DfuNext => OtherStep(u)
<1>0. "wsrep" \in Delayable /\ CurShape /\ u # "wsrep" /\ "wsrep" \in Items
  BY DEF Delayable, Handlers, Items, QueueShape
<1>1. ASSUME WsReport PROVE OtherStep(u)
  BY <1>0, <1>1, CoreQueues DEF WsReport
<1>2. ASSUME WsReportStall PROVE OtherStep(u)
  <2>1. QueueMove(u) /\ cur.work = "wsrep" /\ env' = env /\ timers' = timers
    BY <1>2, Queueing DEF WsReportStall, Running
  <2>2. CurShape' /\ cur'.work = "wsrep"
    BY <1>0, <1>2, <2>1 DEF WsReportStall, CurShape
  <2> QED
    BY <1>0, <2>1, <2>2 DEF OtherStep
<1>3. ASSUME WsNext \/ WsStall PROVE OtherStep(u)
  <2>1. UNCHANGED <<env, wq, timers, cur>>
    BY <1>3 DEF WsNext, WsStall, Resolve, OpenSocket, Connect, Sleep, Upgrade, Recv, WsFill,
                WsSend, WsStep
  <2> QED
    BY <2>1 DEF OtherStep, QueueMove
<1>4. ASSUME DfuNext PROVE OtherStep(u)
  BY <1>4 DEF DfuNext, thingset_dfu_init, thingset_dfu_write, thingset_dfu_boot, coreVars,
              OtherStep, QueueMove
<1> QED
  BY <1>1, <1>2, <1>3, <1>4

\* The serial interface queues and runs its own handler only.
LEMMA SerialQueues ==
    ASSUME QueueShape, NEW u \in Handlers, u # "serproc"
    PROVE  SerialWork \/ SerialRx => OtherStep(u)
<1>0. /\ "serrep" \in Delayable /\ CurShape /\ timers \subseteq Delayable
      /\ "serproc" \in Items /\ u # "none"
  BY DEF Delayable, Handlers, Items, QueueShape
<1>1. ASSUME SerialProcess PROVE OtherStep(u)
  <2>1. PICK pc, job : cur' = [Idle EXCEPT !.work = "serproc", !.pc = pc, !.job = job]
    BY <1>1 DEF SerialProcess
  <2>2. QueueMove(u) /\ cur = Idle /\ env' = env /\ timers' = timers
    BY <1>0, <1>1, Queueing DEF SerialProcess
  <2>3. CurShape' /\ cur'.work = "serproc" /\ cur.work = "none"
    BY <2>1, <2>2 DEF Idle, CurShape
  <2> QED
    BY <1>0, <2>2, <2>3 DEF OtherStep
<1>2. ASSUME SerialFill PROVE OtherStep(u)
  <2>1. QueueMove(u) /\ cur.work = "serproc" /\ env' = env /\ timers' = timers
    BY <1>2, Queueing DEF SerialFill, Fill, Running
  <2>2. CurShape' /\ cur'.work = "serproc"
    BY <1>0, <1>2, <2>1 DEF SerialFill, Fill, CurShape
  <2> QED
    BY <1>0, <2>1, <2>2 DEF OtherStep
<1>3. ASSUME SerialSend PROVE OtherStep(u)
  <2>1. QueueMove(u) /\ cur.work = "serproc" /\ env' = env /\ timers' = timers
    BY <1>3, Queueing DEF SerialSend, Running
  <2>2. CurShape' /\ cur'.work = "serproc"
    BY <1>0, <1>3, <2>1 DEF SerialSend, CurShape
  <2> QED
    BY <1>0, <2>1, <2>2 DEF OtherStep
<1>4. ASSUME SerialOut PROVE OtherStep(u)
  <2>1. QueueMove(u) /\ cur.work = "serproc" /\ env' = env /\ timers' = timers /\ cur' = Idle
    BY <1>4, Queueing DEF SerialOut, Running, Returns
  <2>2. CurShape' /\ cur'.work = "none"
    BY <2>1 DEF Idle, CurShape
  <2> QED
    BY <1>0, <2>1, <2>2 DEF OtherStep
<1>5. ASSUME SerialReport PROVE OtherStep(u)
  BY <1>0, <1>5, CoreQueues DEF SerialReport
<1>6. ASSUME SerialRx PROVE OtherStep(u)
  <2>1. /\ env' = env /\ cur' = cur /\ timers' = timers
        /\ wq' = wq \/ wq' = Rescheduled(wq, "serproc")
    BY <1>6 DEF SerialRx
  <2> QED
    BY <1>0, <2>1, Queueing DEF OtherStep
<1> QED
  BY <1>1, <1>2, <1>3, <1>4, <1>5, <1>6 DEF SerialWork

-----------------------------------------------------------------------------
(* What the host sends *)

\* Character i of line l.
SentLen(l) == TextLen(l) + (IF l % 2 = 1 THEN 2 ELSE 3)
SentChar(l, i) ==
    IF i = SentLen(l) THEN LF
    ELSE IF l % 2 = 1 THEN TextChar(l, i)
    ELSE IF i = 1 THEN Junk ELSE IF i = 2 THEN BS ELSE TextChar(l, i - 2)

\* The lines are numbered from 1, and have as many characters as Lines says.
LEMMA LinesType ==
    /\ Lines \in Seq(Nat)
    /\ \A l \in DOMAIN Lines :
         /\ l \in Nat \ {0} /\ Lines[l] \in Nat /\ l % 2 \in {0, 1}
         /\ TextLen(l) \in Nat /\ TextLen(l) >= Lines[l] /\ TextLen(l) <= Lines[l] + 1
         /\ SentLen(l) \in Nat \ {0, 1}
<1>1. Lines \in Seq(Nat)
  BY SerAssumptions DEF SerAssumptions, Lines
<1> QED
  BY <1>1 DEF TextLen, SentLen

\* The characters of a text are no control characters.
LEMMA TextCharType ==
    ASSUME NEW l \in DOMAIN Lines, NEW i \in Nat \ {0}
    PROVE  /\ TextChar(l, i) \in Chars
           /\ i <= TextLen(l) => TextChar(l, i) \notin {LF, CR, BS, Junk}
           /\ i = TextLen(l) + 1 => TextChar(l, i) = CR
  BY LinesType DEF TextChar, TextLen, Crc, CR, LF, BS, Junk, Chars

\* Sent(l) is SentChar(l, 1), SentChar(l, 2) ...
LEMMA SentShape ==
    ASSUME NEW l \in DOMAIN Lines
    PROVE  /\ Sent(l) \in Seq(Chars) /\ Len(Sent(l)) = SentLen(l)
           /\ \A i \in 1 .. SentLen(l) : Sent(l)[i] = SentChar(l, i)
<1> DEFINE a == IF l % 2 = 0 THEN <<Junk, BS>> ELSE <<>>
           b == IF On("crc") THEN <<Crc(l)>> ELSE <<>>
           c == IF l % 2 = 1 THEN <<CR, LF>> ELSE <<LF>>
           n == Lines[l]
           m == IF On("crc") THEN 1 ELSE 0
           j == IF l % 2 = 0 THEN 2 ELSE 0
           k == IF l % 2 = 1 THEN 2 ELSE 1
<1>1. l \in Nat \ {0} /\ n \in Nat /\ l % 2 \in {0, 1}
  BY LinesType
<1>0. {LF, CR, BS, Junk} \subseteq Chars
  BY DEF LF, CR, BS, Junk, Chars
<1>2. /\ a \in Seq(Chars) /\ Len(a) = j
      /\ l % 2 = 0 => a[1] = Junk /\ a[2] = BS
  <2>1. CASE l % 2 = 0
    BY <1>0, <2>1
  <2>2. CASE l % 2 = 1
    BY <2>2
  <2> QED
    BY <1>1, <2>1, <2>2
<1>3. Payload(l) \in Seq(Chars) /\ Len(Payload(l)) = n /\ \A i \in 1 .. n : Payload(l)[i] = <<l, i>>
  BY <1>1 DEF Payload, Chars
<1>4. b \in Seq(Chars) /\ Len(b) = m /\ (m = 1 => b[1] = Crc(l))
  BY <1>1 DEF Chars, Crc
<1>5. /\ c \in Seq(Chars) /\ Len(c) = k /\ c[k] = LF
      /\ l % 2 = 1 => c[1] = CR
  <2>1. CASE l % 2 = 0
    BY <1>0, <2>1
  <2>2. CASE l % 2 = 1
    BY <1>0, <2>2
  <2> QED
    BY <1>1, <2>1, <2>2
<1>6. /\ j \in Nat /\ k \in Nat /\ m \in {0, 1} /\ k > 0
      /\ l % 2 = 1 => j = 0 /\ k = 2
      /\ l % 2 = 0 => j = 2 /\ k = 1
  BY <1>1
<1>7. TextLen(l) = n + m /\ SentLen(l) = j + n + m + k
  BY <1>1 DEF TextLen, SentLen
<1>8. Sent(l) = a \o Payload(l) \o b \o c
  BY DEF Sent
<1> DEFINE d == a \o Payload(l)
           e == d \o b
           f == e \o c
<1>9. /\ d \in Seq(Chars) /\ Len(d) = j + n
      /\ \A i \in 1 .. j + n : d[i] = IF i <= j THEN a[i] ELSE Payload(l)[i - j]
  BY <1>2, <1>3, ConcatProperties
<1> HIDE DEF a, b, c, d, j, k, m, n
<1>10. /\ e \in Seq(Chars) /\ Len(e) = j + n + m
       /\ \A i \in 1 .. j + n + m : e[i] = IF i <= j + n THEN d[i] ELSE b[i - (j + n)]
  <2>1. /\ e \in Seq(Chars) /\ Len(e) = Len(d) + Len(b)
        /\ \A i \in 1 .. Len(d) + Len(b) : e[i] = IF i <= Len(d) THEN d[i] ELSE b[i - Len(d)]
    BY <1>4, <1>9, ConcatProperties
  <2> QED
    BY <1>4, <1>9, <2>1
<1> HIDE DEF e
<1>11. /\ f \in Seq(Chars) /\ Len(f) = j + n + m + k
       /\ \A i \in 1 .. j + n + m + k : f[i] = IF i <= j + n + m THEN e[i] ELSE c[i - (j + n + m)]
  <2>1. /\ f \in Seq(Chars) /\ Len(f) = Len(e) + Len(c)
        /\ \A i \in 1 .. Len(e) + Len(c) : f[i] = IF i <= Len(e) THEN e[i] ELSE c[i - Len(e)]
    BY <1>5, <1>10, ConcatProperties
  <2> QED
    BY <1>5, <1>10, <2>1
<1>12. Sent(l) = f
  BY <1>8 DEF d, e
<1> HIDE DEF f
<1>13. ASSUME NEW i \in 1 .. j + n + m + k PROVE f[i] = SentChar(l, i)
  <2>1. CASE i <= j
    <3>1. f[i] = a[i] /\ l % 2 = 0 /\ i \in {1, 2}
      BY <1>1, <1>6, <1>9, <1>10, <1>11, <2>1
    <3>2. i # SentLen(l)
      BY <1>1, <1>6, <1>7, <2>1
    <3> QED
      BY <1>2, <3>1, <3>2 DEF SentChar
  <2>2. CASE i > j /\ i <= j + n
    <3>1. i - j \in 1 .. n
      BY <1>1, <1>6, <2>2
    <3>2. f[i] = <<l, i - j>>
      <4>1. i \in 1 .. j + n /\ i \in 1 .. j + n + m
        BY <1>1, <1>6, <2>2
      <4>2. f[i] = e[i] /\ e[i] = d[i]
        BY <1>1, <1>6, <1>10, <1>11, <2>2, <4>1
      <4>3. d[i] = Payload(l)[i - j]
        BY <1>1, <1>6, <1>9, <2>2, <4>1
      <4> QED
        BY <1>3, <3>1, <4>2, <4>3
    <3>3. TextChar(l, i - j) = <<l, i - j>>
      BY <1>1, <3>1 DEF TextChar, n
    <3>4. SentChar(l, i) = TextChar(l, i - j)
      BY <1>1, <1>6, <1>7, <2>2 DEF SentChar
    <3> QED
      BY <3>2, <3>3, <3>4
  <2>3. CASE i > j + n /\ i <= j + n + m
    <3>1. m = 1 /\ i = j + n + 1
      BY <1>1, <1>6, <2>3
    <3>2. f[i] = b[1]
      BY <1>1, <1>6, <1>10, <1>11, <2>3, <3>1
    <3>3. TextChar(l, n + 1) = Crc(l)
      BY <1>1, <1>7, <3>1 DEF TextChar, n
    <3>4. SentChar(l, i) = TextChar(l, n + 1)
      BY <1>1, <1>6, <1>7, <3>1 DEF SentChar
    <3> QED
      BY <1>4, <3>1, <3>2, <3>3, <3>4
  <2>4. CASE i > j + n + m
    <3>0. ~(i <= j + n + m) /\ i - (j + n + m) \in 1 .. k
      BY <1>1, <1>6, <2>4
    <3>1. f[i] = c[i - (j + n + m)] /\ i - (j + n + m) \in 1 .. k
      BY <1>11, <3>0
    <3>2. CASE i = j + n + m + k
      <4>1. i - (j + n + m) = k
        BY <1>1, <1>6, <3>2
      <4> QED
        BY <1>5, <1>7, <3>1, <3>2, <4>1 DEF SentChar
    <3>3. CASE i # j + n + m + k
      <4>1. k = 2 /\ l % 2 = 1 /\ i - (j + n + m) = 1 /\ i = n + m + 1
        BY <1>1, <1>6, <3>1, <3>3
      <4>2. TextChar(l, i) = CR
        BY <1>1, <1>6, <1>7, <4>1, TextCharType
      <4>3. SentChar(l, i) = TextChar(l, i)
        BY <1>7, <3>3, <4>1 DEF SentChar
      <4> QED
        BY <1>5, <3>1, <4>1, <4>2, <4>3
    <3> QED
      BY <3>2, <3>3
  <2> QED
    BY <1>1, <1>6, <2>1, <2>2, <2>3, <2>4
<1> QED
  BY <1>7, <1>11, <1>12, <1>13

-----------------------------------------------------------------------------
(* serial_rx_buf_put *)

\* The first characters of a sequence.
LEMMA FrontType ==
    ASSUME NEW S, NEW q \in Seq(S), q # <<>>
    PROVE  /\ Front(q) \in Seq(S) /\ Len(Front(q)) = Len(q) - 1 /\ Len(q) \in Nat \ {0}
           /\ \A i \in 1 .. Len(q) - 1 : Front(q)[i] = q[i]
           /\ Last(q) \in S
  BY DEF Front, Last

\* Whatever the character: a buffer in use stays as it is, and what was dropped is
\* remembered until the line ends.
LEMMA PutType ==
    ASSUME NEW s \in SerState, NEW c \in Chars, NEW t, t = serial_rx_buf_put(s, c)
    PROVE  /\ t = [s EXCEPT !.rx = t.rx, !.held = t.held, !.discard = t.discard]
           /\ t.rx \in Seq(Chars) /\ t.held \in BOOLEAN /\ t.discard \in BOOLEAN
           /\ s.held => t.rx = s.rx /\ t.held /\ t.discard
           /\ ~s.held /\ s.discard => ~t.held
           /\ ~s.held /\ s.discard /\ c # LF => t.discard
           /\ ~s.held /\ s.discard /\ c = LF => t.rx = <<>> /\ ~t.discard
           /\ ~s.held /\ ~s.discard => ~t.discard /\ (t.held <=> c = LF)
<1>1. s.rx \in Seq(Chars) /\ s.held \in BOOLEAN /\ s.discard \in BOOLEAN
      /\ s = [rx |-> s.rx, held |-> s.held, discard |-> s.discard, got |-> s.got,
              line |-> s.line, at |-> s.at, noise |-> s.noise, open |-> s.open,
              before |-> s.before, due |-> s.due]
  BY DEF SerState
<1>2. CASE s.held
  BY <1>1, <1>2 DEF serial_rx_buf_put, Unavailable
<1>3. CASE ~s.held /\ c = LF /\ s.discard
  <2>1. t = [s EXCEPT !.rx = <<>>, !.discard = FALSE]
    BY <1>3 DEF serial_rx_buf_put, LineEnd, EndOfSpoilt
  <2>2. <<>> \in Seq(Chars)
    OBVIOUS
  <2> QED
    BY <1>1, <1>3, <2>1, <2>2
<1>4. CASE ~s.held /\ c = LF /\ ~s.discard
  <2>1. PICK line \in Seq(Chars) : t = [s EXCEPT !.rx = line, !.held = TRUE]
    BY <1>1, <1>4, FrontType DEF serial_rx_buf_put, LineEnd
  <2> QED
    BY <1>1, <1>4, <2>1
<1>5. CASE ~s.held /\ c # LF
  <2>1. PICK r \in Seq(Chars) : t = [s EXCEPT !.rx = r]
    <3>1. CASE c = BS /\ s.rx # <<>>
      BY <1>1, <1>5, <3>1, FrontType DEF serial_rx_buf_put
    <3>2. CASE ~(c = BS /\ s.rx # <<>>) /\ Len(s.rx) < SERIAL_RX_BUF_SIZE - 1
      <4>1. t = [s EXCEPT !.rx = Append(s.rx, c)] /\ Append(s.rx, c) \in Seq(Chars)
        BY <1>1, <1>5, <3>2 DEF serial_rx_buf_put
      <4> QED
        BY <4>1
    <3>3. CASE ~(c = BS /\ s.rx # <<>>) /\ ~(Len(s.rx) < SERIAL_RX_BUF_SIZE - 1)
      <4>1. t = s /\ t = [s EXCEPT !.rx = s.rx]
        BY <1>1, <1>5, <3>3 DEF serial_rx_buf_put
      <4> QED
        BY <1>1, <4>1
    <3> QED
      BY <3>1, <3>2, <3>3
  <2> QED
    BY <1>1, <1>5, <2>1
<1> QED
  BY <1>1, <1>2, <1>3, <1>4, <1>5

\* A text has TextLen(l) characters, and one with a carriage return at its end still
\* has its text before it.
LEMMA TypedShape ==
    ASSUME NEW l \in DOMAIN Lines, NEW n \in 0 .. TextLen(l) + 1, NEW q,
           q = [i \in 1 .. n |-> TextChar(l, i)]
    PROVE  q \in Seq(Chars) /\ Len(q) = n /\ \A i \in 1 .. n : q[i] = TextChar(l, i)
<1>1. n \in Nat
  BY LinesType
<1>2. \A i \in 1 .. n : TextChar(l, i) \in Chars
  BY <1>1, TextCharType
<1> QED
  BY <1>1, <1>2

\* One more character of a text.
LEMMA TypedNext ==
    ASSUME NEW l \in DOMAIN Lines, NEW n \in 0 .. TextLen(l)
    PROVE  Append([i \in 1 .. n |-> TextChar(l, i)], TextChar(l, n + 1))
             = [i \in 1 .. n + 1 |-> TextChar(l, i)]
<1> DEFINE q == [i \in 1 .. n |-> TextChar(l, i)]
           r == [i \in 1 .. n + 1 |-> TextChar(l, i)]
           a == Append(q, TextChar(l, n + 1))
<1>1. n \in Nat /\ TextLen(l) \in Nat /\ n <= TextLen(l)
  BY LinesType
<1>0. /\ q = [i \in 1 .. n |-> TextChar(l, i)] /\ n \in 0 .. TextLen(l) + 1
      /\ r = [i \in 1 .. n + 1 |-> TextChar(l, i)] /\ n + 1 \in 0 .. TextLen(l) + 1
  BY <1>1
<1> HIDE DEF q, r
<1>2. q \in Seq(Chars) /\ Len(q) = n /\ \A i \in 1 .. n : q[i] = TextChar(l, i)
  BY <1>0, TypedShape
<1>3. r \in Seq(Chars) /\ Len(r) = n + 1 /\ \A i \in 1 .. n + 1 : r[i] = TextChar(l, i)
  BY <1>0, TypedShape
<1>4. TextChar(l, n + 1) \in Chars
  BY <1>1, TextCharType
<1>5. /\ a \in Seq(Chars) /\ Len(a) = n + 1 /\ a[n + 1] = TextChar(l, n + 1)
      /\ \A i \in 1 .. n : a[i] = TextChar(l, i)
  BY <1>1, <1>2, <1>4
<1> HIDE DEF a
<1>6. \A i \in 1 .. n + 1 : a[i] = r[i]
  BY <1>1, <1>3, <1>5
<1>7. a = r
  BY <1>1, <1>3, <1>5, <1>6
<1> QED
  BY <1>7 DEF a, q, r

\* On an undisturbed line with requests that fit, a character that arrives while the
\* buffer is free continues the line ...
LEMMA PutTyped ==
    ASSUME NEW s, NEW l \in DOMAIN Lines, NEW k \in 0 .. SentLen(l) - 2, ~On("long"),
           ~s.held, s.rx = Typed(l, k), NEW c, c = SentChar(l, k + 1)
    PROVE  serial_rx_buf_put(s, c) = [s EXCEPT !.rx = Typed(l, k + 1)]
<1> DEFINE n == TextLen(l)
           z == SERIAL_RX_BUF_SIZE - 1
<1>1. /\ l \in Nat /\ l % 2 \in {0, 1} /\ n \in Nat /\ z \in Int /\ n + 1 <= z /\ n > 0
      /\ k \in Nat /\ SentLen(l) = n + (IF l % 2 = 1 THEN 2 ELSE 3)
  <2>1. Lines = SerLines
    BY DEF Lines
  <2> QED
    BY <2>1, LinesType, SerAssumptions DEF SerAssumptions, SentLen
<1>2. k + 1 # SentLen(l) /\ k + 1 < SentLen(l)
  BY <1>1
<1> HIDE DEF n, z
<1>3. ASSUME NEW i \in 0 .. n, i < n \/ l % 2 = 1, c = TextChar(l, i + 1),
             s.rx = [j \in 1 .. i |-> TextChar(l, j)]
      PROVE  serial_rx_buf_put(s, c) = [s EXCEPT !.rx = [j \in 1 .. i + 1 |-> TextChar(l, j)]]
  <2>1. c \notin {LF, BS}
    <3>1. i + 1 \in Nat \ {0} /\ (i + 1 <= n \/ i + 1 = n + 1)
      BY <1>1
    <3> QED
      BY <1>3, <3>1, TextCharType DEF n, CR, LF, BS
  <2>2. Len(s.rx) = i
    BY <1>1, <1>3, TypedShape DEF n
  <2>3. Len(s.rx) < z
    BY <1>1, <2>2
  <2>4. serial_rx_buf_put(s, c) = [s EXCEPT !.rx = Append(s.rx, c)]
    BY <2>1, <2>3 DEF serial_rx_buf_put, z
  <2> QED
    BY <1>3, <2>4, TypedNext DEF n
<1>4. CASE l % 2 = 1
  <2>1. k \in 0 .. n /\ c = TextChar(l, k + 1) /\ s.rx = [j \in 1 .. k |-> TextChar(l, j)]
        /\ Typed(l, k + 1) = [j \in 1 .. k + 1 |-> TextChar(l, j)]
    BY <1>1, <1>2, <1>4 DEF SentChar, Typed
  <2> QED
    BY <1>3, <1>4, <2>1
<1>5. CASE l % 2 = 0 /\ k >= 2
  <2>1. k - 2 \in 0 .. n /\ k - 2 < n /\ (k - 2) + 1 = k + 1 - 2 /\ k # 1 /\ k + 1 \notin {1, 2}
    BY <1>1, <1>2, <1>5
  <2>2. c = TextChar(l, (k - 2) + 1) /\ s.rx = [j \in 1 .. k - 2 |-> TextChar(l, j)]
        /\ Typed(l, k + 1) = [j \in 1 .. (k - 2) + 1 |-> TextChar(l, j)]
    BY <1>2, <1>5, <2>1 DEF SentChar, Typed
  <2> QED
    BY <1>3, <2>1, <2>2
<1>6. CASE l % 2 = 0 /\ k = 0
  <2>1. c = Junk /\ s.rx = <<>> /\ Typed(l, k + 1) = <<Junk>>
    BY <1>2, <1>6 DEF SentChar, Typed
  <2>2. Junk # LF /\ Junk # BS
    BY DEF Junk, LF, BS
  <2>3. Len(s.rx) < z /\ Append(s.rx, c) = <<Junk>>
    BY <1>1, <2>1
  <2> QED
    BY <2>1, <2>2, <2>3 DEF serial_rx_buf_put, z
<1>7. CASE l % 2 = 0 /\ k = 1
  <2>1. c = BS /\ s.rx = <<Junk>>
    BY <1>2, <1>7 DEF SentChar, Typed
  <2>2. Typed(l, k + 1) = <<>>
    BY <1>7 DEF Typed
  <2>3. LF # BS /\ s.rx # <<>> /\ Front(s.rx) = <<>>
    BY <2>1 DEF LF, BS, Front
  <2>4. serial_rx_buf_put(s, c) = [s EXCEPT !.rx = Front(s.rx)]
    BY <2>1, <2>3 DEF serial_rx_buf_put
  <2> QED
    BY <2>2, <2>3, <2>4
<1> QED
  BY <1>1, <1>4, <1>5, <1>6, <1>7

\* The carriage return at the end of a line is not part of its text.
LEMMA LineRest ==
    ASSUME NEW l \in DOMAIN Lines, ~On("long"), NEW q, q = Typed(l, SentLen(l) - 1)
    PROVE  (IF q # <<>> /\ Last(q) = CR THEN Front(q) ELSE q) = Text(l)
<1> DEFINE n == TextLen(l)
<1>1. l \in Nat /\ l % 2 \in {0, 1} /\ n \in Nat /\ n > 0
      /\ SentLen(l) = n + (IF l % 2 = 1 THEN 2 ELSE 3)
  <2>1. Lines = SerLines
    BY DEF Lines
  <2> QED
    BY <2>1, LinesType, SerAssumptions DEF SerAssumptions, SentLen
<1>2. Text(l) \in Seq(Chars) /\ Len(Text(l)) = n /\ \A i \in 1 .. n : Text(l)[i] = TextChar(l, i)
  BY <1>1, TypedShape DEF Text
<1> HIDE DEF n
<1>3. (IF q # <<>> /\ Last(q) = CR THEN Front(q) ELSE q) = Text(l)
  <2>1. CASE l % 2 = 0
    <3>1. SentLen(l) - 1 # 1 /\ SentLen(l) - 1 - 2 = n
      BY <1>1, <2>1
    <3>2. q = [i \in 1 .. n |-> TextChar(l, i)]
      BY <1>1, <2>1, <3>1 DEF Typed
    <3>5. q = Text(l)
      BY <3>2 DEF Text, n
    <3>3. Last(q) = TextChar(l, n)
      BY <1>1, <1>2, <3>5 DEF Last
    <3>4. Last(q) # CR
      BY <1>1, <3>3, TextCharType DEF n
    <3> QED
      BY <3>4, <3>5
  <2>2. CASE l % 2 = 1
    <3>1. q = [i \in 1 .. n + 1 |-> TextChar(l, i)]
      <4>1. SentLen(l) - 1 = n + 1
        BY <1>1, <2>2
      <4> QED
        BY <2>2, <4>1 DEF Typed
    <3>2. q \in Seq(Chars) /\ Len(q) = n + 1 /\ \A i \in 1 .. n + 1 : q[i] = TextChar(l, i)
      BY <1>1, <3>1, TypedShape DEF n
    <3>3. q # <<>> /\ Last(q) = CR
      BY <1>1, <3>2, TextCharType DEF Last, n
    <3>4. /\ Front(q) \in Seq(Chars) /\ Len(Front(q)) = n
          /\ \A i \in 1 .. n : Front(q)[i] = TextChar(l, i)
      <4>1. /\ Front(q) \in Seq(Chars) /\ Len(Front(q)) = (n + 1) - 1
            /\ \A i \in 1 .. (n + 1) - 1 : Front(q)[i] = q[i]
        BY <3>2, <3>3, FrontType
      <4> QED
        BY <1>1, <3>2, <4>1
    <3>5. Front(q) = Text(l)
      BY <1>2, <3>4
    <3> QED
      BY <3>3, <3>5
  <2> QED
    BY <1>1, <2>1, <2>2
<1> QED
  BY <1>3

\* ... and the last character ends it.
LEMMA PutLast ==
    ASSUME NEW s \in SerState, NEW l \in DOMAIN Lines, ~On("long"), ~(s.held \/ s.discard),
           s.rx = Typed(l, SentLen(l) - 1), NEW t, t = serial_rx_buf_put(s, LF)
    PROVE  t.rx = Text(l) /\ t.held /\ ~t.discard
<1>1. s.rx \in Seq(Chars) /\ s.held \in BOOLEAN /\ s.discard \in BOOLEAN
      /\ s = [rx |-> s.rx, held |-> s.held, discard |-> s.discard, got |-> s.got,
              line |-> s.line, at |-> s.at, noise |-> s.noise, open |-> s.open,
              before |-> s.before, due |-> s.due]
  BY DEF SerState
<1>2. PICK line : /\ line = IF s.rx # <<>> /\ Last(s.rx) = CR THEN Front(s.rx) ELSE s.rx
                  /\ t = [s EXCEPT !.rx = line, !.held = TRUE]
  BY Zenon DEF serial_rx_buf_put, LineEnd
<1>3. line = Text(l)
  BY <1>2, LineRest
<1> QED
  BY <1>1, <1>2, <1>3

-----------------------------------------------------------------------------
(* What is accepted *)

\* A line as the host sent it is accepted.
LEMMA TextAccepted ==
    ASSUME NEW l \in DOMAIN Lines, ~On("long"), On("enforce") => On("crc")
    PROVE  Accepted(Text(l)) = <<Payload(l)>>
<1> DEFINE n == Lines[l]
           q == Text(l)
<1>1. n \in Nat \ {0} /\ l \in Nat \ {0} /\ TextLen(l) \in Nat
      /\ TextLen(l) = IF On("crc") THEN n + 1 ELSE n
  BY LinesType, SerAssumptions DEF SerAssumptions, Lines, TextLen
<1>2. q \in Seq(Chars) /\ Len(q) = TextLen(l) /\ \A i \in 1 .. TextLen(l) : q[i] = TextChar(l, i)
  BY <1>1, TypedShape DEF Text
<1>3. Payload(l) \in Seq(Chars) /\ Len(Payload(l)) = n /\ \A i \in 1 .. n : Payload(l)[i] = <<l, i>>
  BY <1>1 DEF Payload, Chars
<1>4. \A i \in 1 .. n : TextChar(l, i) = <<l, i>>
  BY <1>1 DEF TextChar
<1> HIDE DEF q, n
<1>5. q # <<>>
  BY <1>1, <1>2
<1>6. CASE On("crc")
  <2>1. Len(q) = n + 1 /\ Last(q) = <<l, 0>>
    <3>1. TextLen(l) = n + 1 /\ TextChar(l, n + 1) = Crc(l)
      BY <1>1, <1>6 DEF TextChar, n
    <3> QED
      BY <1>1, <1>2, <3>1 DEF Last, Crc
  <2>2. HasCrc(q)
    BY <1>1, <2>1 DEF HasCrc
  <2>3. /\ Front(q) \in Seq(Chars) /\ Len(Front(q)) = n
        /\ \A i \in 1 .. n : Front(q)[i] = <<l, i>>
    <3>1. /\ Front(q) \in Seq(Chars) /\ Len(Front(q)) = (n + 1) - 1
          /\ \A i \in 1 .. (n + 1) - 1 : Front(q)[i] = q[i]
      BY <1>2, <1>5, <2>1, FrontType
    <3> QED
      BY <1>1, <1>2, <1>4, <2>1, <3>1
  <2>4. Front(q) = Payload(l)
    <3>1. Len(Front(q)) = Len(Payload(l))
          /\ \A i \in 1 .. Len(Front(q)) : Front(q)[i] = Payload(l)[i]
      BY <1>3, <2>3
    <3> QED
      BY <1>3, <2>3, <3>1, SeqEqual
  <2>5. CrcMatches(Front(q), Last(q))
    BY <2>1, <2>4 DEF CrcMatches
  <2> QED
    BY <1>5, <1>6, <2>2, <2>4, <2>5 DEF Accepted, q
<1>7. CASE ~On("crc")
  <2>1. Len(q) = n /\ \A i \in 1 .. n : q[i] = <<l, i>>
    BY <1>1, <1>2, <1>4, <1>7
  <2>2. q = Payload(l)
    <3>1. Len(q) = Len(Payload(l)) /\ \A i \in 1 .. Len(q) : q[i] = Payload(l)[i]
      BY <1>3, <2>1
    <3> QED
      BY <1>2, <1>3, <3>1, SeqEqual
  <2> QED
    BY <1>5, <1>7, <2>2 DEF Accepted, q
<1> QED
  BY <1>6, <1>7

\* With ENFORCE_CRC nothing is accepted but a whole line, whatever was received.
LEMMA EnforcedAccepted ==
    ASSUME NEW m \in Seq(Chars), On("enforce"), Accepted(m) # <<>>
    PROVE  \E l \in DOMAIN Lines : Accepted(m) = <<Payload(l)>>
<1>1. HasCrc(m) /\ CrcMatches(Front(m), Last(m)) /\ Accepted(m) = <<Front(m)>> /\ m # <<>>
  BY DEF Accepted
<1>2. Last(m) \in Chars
  BY <1>1, FrontType
<1>3. Last(m)[1] \in DOMAIN Lines
  BY <1>1, <1>2 DEF HasCrc, Chars
<1> QED
  BY <1>1, <1>3 DEF CrcMatches

\* What is accepted is one request.
LEMMA AcceptedType ==
    ASSUME NEW m \in Seq(Chars)
    PROVE  /\ Accepted(m) = <<>> \/ Accepted(m) = <<m>> \/ Accepted(m) = <<Front(m)>>
           /\ Accepted(m) # <<>> => Accepted(m)[1] \in Seq(Chars) /\ Accepted(m) = <<Accepted(m)[1]>>
<1>1. \/ Accepted(m) = <<>>
      \/ m # <<>> /\ Accepted(m) = <<m>>
      \/ m # <<>> /\ Accepted(m) = <<Front(m)>>
  BY DEF Accepted
<1> QED
  BY <1>1, FrontType

\* Texts begin differently.
LEMMA PrefixOfText ==
    ASSUME NEW l \in DOMAIN Lines, NEW k \in DOMAIN Lines, ~On("long")
    PROVE  /\ IsPrefix(Payload(l), Text(l))
           /\ IsPrefix(Payload(l), Text(k)) => l = k
<1> DEFINE n == Lines[l]
<1>1. /\ n \in Nat \ {0} /\ l \in Nat \ {0} /\ TextLen(l) \in Nat /\ TextLen(k) \in Nat
      /\ TextLen(l) >= n
  BY LinesType, SerAssumptions DEF SerAssumptions, Lines
<1>2. \A j \in {l, k} : /\ Text(j) \in Seq(Chars) /\ Len(Text(j)) = TextLen(j)
                        /\ \A i \in 1 .. TextLen(j) : Text(j)[i] = TextChar(j, i)
  BY <1>1, TypedShape DEF Text
<1>3. Payload(l) \in Seq(Chars) /\ Len(Payload(l)) = n /\ \A i \in 1 .. n : Payload(l)[i] = <<l, i>>
  BY <1>1 DEF Payload, Chars
<1>4. \A i \in 1 .. n : TextChar(l, i) = <<l, i>>
  BY <1>1 DEF TextChar
<1> HIDE DEF n
<1>5. /\ SubSeq(Payload(l), 1, n) \in Seq(Chars) /\ Len(SubSeq(Payload(l), 1, n)) = n
      /\ \A i \in 1 .. n : SubSeq(Payload(l), 1, n)[i] = <<l, i>>
  BY <1>1, <1>3
<1>6. /\ SubSeq(Text(l), 1, n) \in Seq(Chars) /\ Len(SubSeq(Text(l), 1, n)) = n
      /\ \A i \in 1 .. n : SubSeq(Text(l), 1, n)[i] = <<l, i>>
  BY <1>1, <1>2, <1>4
<1>7. SubSeq(Payload(l), 1, n) = SubSeq(Text(l), 1, n)
  BY <1>1, <1>5, <1>6
<1>8. IsPrefix(Payload(l), Text(l))
  BY <1>1, <1>2, <1>3, <1>7 DEF IsPrefix
<1>9. ASSUME IsPrefix(Payload(l), Text(k)) PROVE l = k
  <2>1. n <= TextLen(k) /\ SubSeq(Payload(l), 1, n) = SubSeq(Text(k), 1, n)
    BY <1>2, <1>3, <1>9 DEF IsPrefix
  <2>2. 1 \in 1 .. n /\ SubSeq(Text(k), 1, n)[1] = TextChar(k, 1)
    BY <1>1, <1>2, <2>1
  <2>3. TextChar(k, 1) = <<l, 1>>
    BY <1>5, <2>1, <2>2
  <2>4. l # 0
    BY <1>1
  <2> QED
    BY <2>3, <2>4 DEF TextChar, Crc, CR
<1> QED
  BY <1>8, <1>9

-----------------------------------------------------------------------------
(* serial_rx_cb *)

\* The features do not change, and with them nothing that depends on them alone.
LEMMA FeaturesFixed ==
    ASSUME env' = env
    PROVE  /\ Lines' = Lines /\ SerState' = SerState /\ Chars' = Chars
           /\ \A f : On(f)' = On(f)
           /\ \A l : Sent(l)' = Sent(l) /\ Payload(l)' = Payload(l) /\ Text(l)' = Text(l)
           /\ \A l, k : Typed(l, k)' = Typed(l, k)
           /\ \A m : Accepted(m)' = Accepted(m)
<1>1. Lines' = Lines /\ Chars' = Chars /\ (\A f : On(f)' = On(f))
  BY DEF Lines, Chars, On
<1>2. SerState' = SerState
  BY DEF SerState, Chars, Lines, On
<1>3. \A l : Sent(l)' = Sent(l) /\ Payload(l)' = Payload(l) /\ Text(l)' = Text(l)
  BY DEF Sent, Payload, Text, TextLen, TextChar, Crc, Lines, On
<1>4. \A l, k : Typed(l, k)' = Typed(l, k)
  BY DEF Typed, TextLen, TextChar, Crc, Lines, On
<1>5. \A m : Accepted(m)' = Accepted(m)
  BY DEF Accepted, HasCrc, CrcMatches, Payload, Lines, On
<1> QED
  BY <1>1, <1>2, <1>3, <1>4, <1>5

\* Only the last character of a line is its end.
LEMMA OnlyLastIsEnd ==
    ASSUME NEW l \in DOMAIN Lines, NEW i \in 1 .. SentLen(l)
    PROVE  SentChar(l, i) = LF <=> i = SentLen(l)
<1>1. CASE i = SentLen(l)
  BY <1>1 DEF SentChar
<1>2. CASE i # SentLen(l) /\ l % 2 = 1
  <2>0. TextLen(l) \in Nat /\ SentLen(l) = TextLen(l) + 2
    BY <1>2, LinesType DEF SentLen
  <2>1. i \in Nat \ {0} /\ TextLen(l) \in Nat /\ (i <= TextLen(l) \/ i = TextLen(l) + 1)
    BY <1>2, <2>0
  <2>2. TextChar(l, i) # LF
    BY <2>1, TextCharType DEF CR, LF
  <2> QED
    BY <1>2, <2>2 DEF SentChar
<1>3. CASE i # SentLen(l) /\ l % 2 = 0 /\ i \in {1, 2}
  BY <1>3 DEF SentChar, Junk, BS, LF
<1>4. CASE i # SentLen(l) /\ l % 2 = 0 /\ i \notin {1, 2}
  <2>1. i - 2 \in Nat \ {0} /\ TextLen(l) \in Nat /\ i - 2 <= TextLen(l)
    BY <1>4, LinesType DEF SentLen
  <2>2. TextChar(l, i - 2) # LF
    BY <2>1, TextCharType
  <2> QED
    BY <1>4, <2>2 DEF SentChar
<1> QED
  BY <1>1, <1>2, <1>3, <1>4, LinesType

\* What a character does, whether it arrives as it was sent or not: to the buffer as
\* PutType says, and the host goes on to the next one.
RxEffect(end) ==
    /\ ser' = [rx |-> ser'.rx, held |-> ser'.held, discard |-> ser'.discard, got |-> ser.got,
               line |-> IF end THEN ser.line + 1 ELSE ser.line,
               at |-> IF end THEN 1 ELSE ser.at + 1, noise |-> ser'.noise,
               open |-> end \/ (ser.open /\ ~ser.held),
               before |-> IF end THEN ~ser.held ELSE ser.before,
               due |-> IF end /\ ser.open /\ ~ser.held /\ ser.before
                       THEN ser.due \cup {ser.line} ELSE ser.due]
    /\ ser'.rx \in Seq(Chars) /\ ser'.held \in BOOLEAN /\ ser'.discard \in BOOLEAN
    /\ ser'.noise \in {0, 1}
    /\ ser.held => ser'.held /\ ser'.rx = ser.rx
    /\ wq' = (IF ser'.held /\ ~ser.held THEN Rescheduled(wq, "serproc") ELSE wq)
    /\ cur' = cur /\ timers' = timers /\ env' = env

\* On an undisturbed line it does what serial_rx_buf_put does with what was sent.
RxSound(c) ==
    ser'.noise = 0 =>
        LET t == serial_rx_buf_put(ser, c) IN
        /\ ser.noise = 0 /\ ser'.rx = t.rx /\ ser'.held = t.held /\ ser'.discard = t.discard
        /\ ser.held => ser'.discard
        /\ ~ser.held /\ ser.discard => ~ser'.held
        /\ ~ser.held /\ ser.discard /\ c # LF => ser'.discard
        /\ ~ser.held /\ ser.discard /\ c = LF => ser'.rx = <<>> /\ ~ser'.discard
        /\ ~ser.held /\ ~ser.discard => ~ser'.discard /\ (ser'.held <=> c = LF)

\* SerialRx has this effect.
LEMMA RxHasEffect ==
    ASSUME SerInv, SerialRx
    PROVE  /\ ser.line \in DOMAIN Lines /\ ser.at \in 1 .. SentLen(ser.line)
           /\ RxEffect(ser.at = SentLen(ser.line))
           /\ RxSound(SentChar(ser.line, ser.at))
<1> DEFINE l == ser.line
           c == Sent(l)[ser.at]
           end == ser.at = Len(Sent(l))
           open == ser.open /\ ~ser.held
<1>1. /\ ser \in SerState /\ l \in DOMAIN Lines /\ Len(Sent(l)) = SentLen(l)
      /\ ser.at \in 1 .. SentLen(l) /\ c = SentChar(l, ser.at) /\ c \in Chars
  <2>1. ser \in SerState /\ l \in 1 .. Len(Lines) /\ ser.at \in 1 .. Len(Sent(l)) /\ Lines \in Seq(Nat)
    BY LinesType DEF SerInv, SerialRx, SerState
  <2>2. l \in DOMAIN Lines
    BY <2>1
  <2> QED
    BY <2>1, <2>2, SentShape
<1>2. PICK a \in Arriving(c) :
        LET s == IF a = <<>> THEN ser ELSE serial_rx_buf_put(ser, a[1]) IN
        /\ ser' = [s EXCEPT !.line = IF end THEN @ + 1 ELSE @,
                            !.at = IF end THEN 1 ELSE @ + 1,
                            !.noise = IF a = <<c>> THEN @ ELSE 1,
                            !.open = end \/ open,
                            !.before = IF end THEN ~ser.held ELSE @,
                            !.due = IF end /\ open /\ ser.before THEN @ \cup {ser.line}
                                                                 ELSE @]
        /\ wq' = IF s.held /\ ~ser.held THEN Rescheduled(wq, "serproc") ELSE wq
  BY DEF SerialRx
<1> DEFINE s == IF a = <<>> THEN ser ELSE serial_rx_buf_put(ser, a[1])
<1>3. cur' = cur /\ timers' = timers /\ env' = env
  BY DEF SerialRx
<1>4. a = <<>> \/ \E x \in Chars : a = <<x>>
  BY <1>1 DEF Arriving, Junk, LF, BS, Chars
<1>5. /\ s = [rx |-> s.rx, held |-> s.held, discard |-> s.discard, got |-> ser.got,
              line |-> ser.line, at |-> ser.at, noise |-> ser.noise, open |-> ser.open,
              before |-> ser.before, due |-> ser.due]
      /\ s.rx \in Seq(Chars) /\ s.held \in BOOLEAN /\ s.discard \in BOOLEAN
      /\ ser.held => s.held /\ s.rx = ser.rx
  <2>0. ser = [rx |-> ser.rx, held |-> ser.held, discard |-> ser.discard, got |-> ser.got,
               line |-> ser.line, at |-> ser.at, noise |-> ser.noise, open |-> ser.open,
               before |-> ser.before, due |-> ser.due]
        /\ ser.rx \in Seq(Chars) /\ ser.held \in BOOLEAN /\ ser.discard \in BOOLEAN
    BY <1>1 DEF SerState
  <2>1. CASE a = <<>>
    BY <2>0, <2>1
  <2>2. CASE a # <<>>
    <3>1. PICK x \in Chars : a = <<x>>
      BY <1>4, <2>2
    <3>2. s = serial_rx_buf_put(ser, x)
      BY <2>2, <3>1
    <3> HIDE DEF s
    <3>3. /\ s = [ser EXCEPT !.rx = s.rx, !.held = s.held, !.discard = s.discard]
          /\ s.rx \in Seq(Chars) /\ s.held \in BOOLEAN /\ s.discard \in BOOLEAN
          /\ ser.held => s.held /\ s.rx = ser.rx
      BY <1>1, <3>2, PutType
    <3> QED
      BY <2>0, <3>3
  <2> QED
    BY <2>1, <2>2
<1>6. a = <<c>> => s = serial_rx_buf_put(ser, c)
  OBVIOUS
<1>7. ser' = [s EXCEPT !.line = IF end THEN @ + 1 ELSE @,
                       !.at = IF end THEN 1 ELSE @ + 1,
                       !.noise = IF a = <<c>> THEN @ ELSE 1,
                       !.open = end \/ open,
                       !.before = IF end THEN ~ser.held ELSE @,
                       !.due = IF end /\ open /\ ser.before THEN @ \cup {ser.line} ELSE @]
      /\ wq' = IF s.held /\ ~ser.held THEN Rescheduled(wq, "serproc") ELSE wq
  BY <1>2
<1> HIDE DEF s, c
<1>8. ser' = [rx |-> s.rx, held |-> s.held, discard |-> s.discard, got |-> ser.got,
              line |-> IF end THEN ser.line + 1 ELSE ser.line,
              at |-> IF end THEN 1 ELSE ser.at + 1,
              noise |-> IF a = <<c>> THEN ser.noise ELSE 1,
              open |-> end \/ open,
              before |-> IF end THEN ~ser.held ELSE ser.before,
              due |-> IF end /\ open /\ ser.before THEN ser.due \cup {ser.line} ELSE ser.due]
  <2>4. s \in SerState
    BY <1>1, <1>5 DEF SerState
  <2>2. s.line = ser.line /\ s.at = ser.at /\ s.noise = ser.noise /\ s.before = ser.before
        /\ s.due = ser.due
    BY <1>5
  <2>3. ser' = [s EXCEPT !.line = IF end THEN ser.line + 1 ELSE ser.line,
                         !.at = IF end THEN 1 ELSE ser.at + 1,
                         !.noise = IF a = <<c>> THEN ser.noise ELSE 1,
                         !.open = end \/ open,
                         !.before = IF end THEN ~ser.held ELSE ser.before,
                         !.due = IF end /\ open /\ ser.before THEN ser.due \cup {ser.line}
                                                              ELSE ser.due]
    BY <1>7, <2>2
  <2>5. s.got = ser.got
    BY <1>5
  <2> QED
    BY <2>3, <2>4, <2>5 DEF SerState
<1>9. RxEffect(ser.at = SentLen(l))
  <2>1. ser.noise \in {0, 1} /\ (end <=> ser.at = SentLen(l))
    BY <1>1 DEF SerState
  <2>2. ser'.rx = s.rx /\ ser'.held = s.held /\ ser'.discard = s.discard
        /\ ser'.noise = IF a = <<c>> THEN ser.noise ELSE 1
    BY <1>8
  <2> QED
    BY <1>3, <1>5, <1>7, <1>8, <2>1, <2>2 DEF RxEffect
<1>10. RxSound(c)
  <2> SUFFICES ASSUME ser'.noise = 0 PROVE RxSound(c)
    BY DEF RxSound
  <2>1. a = <<c>> /\ ser.noise = 0
    BY <1>8
  <2>2. s = serial_rx_buf_put(ser, c)
    BY <1>6, <2>1
  <2>3. /\ ser.held => s.discard
        /\ ~ser.held /\ ser.discard => ~s.held
        /\ ~ser.held /\ ser.discard /\ c # LF => s.discard
        /\ ~ser.held /\ ser.discard /\ c = LF => s.rx = <<>> /\ ~s.discard
        /\ ~ser.held /\ ~ser.discard => ~s.discard /\ (s.held <=> c = LF)
    <3>1. ser \in SerState /\ c \in Chars
      BY <1>1
    <3> QED
      BY <3>1, <2>2, PutType
  <2>4. ser'.rx = s.rx /\ ser'.held = s.held /\ ser'.discard = s.discard
    BY <1>8
  <2> QED
    BY <2>1, <2>2, <2>3, <2>4 DEF RxSound
<1> QED
  BY <1>1, <1>9, <1>10

\* A character keeps the invariant of the queue: only the end of a line, which takes
\* the buffer, queues the work item.
LEMMA RxQueue ==
    ASSUME SerialInv, NEW end, RxEffect(end)
    PROVE  QueueInv'
<1>0. QueueInv /\ wq \in Seq(Items) /\ Once("serproc", wq) /\ "serproc" \in Items
  BY DEF SerialInv, QueueInv, Once, Items, Handlers
<1>1. CASE ser'.held /\ ~ser.held
  <2>1. wq' = Rescheduled(wq, "serproc") /\ cur' = cur /\ timers' = timers
    BY <1>1 DEF RxEffect
  <2>2. wq' \in Seq(Items) /\ Once("serproc", wq')
    BY <1>0, <2>1, OnceRescheduled
  <2>3. cur.work # "serproc"
    BY <1>0, <1>1 DEF QueueInv
  <2> QED
    BY <1>0, <1>1, <2>1, <2>2, <2>3 DEF QueueInv, Once, CurShape
<1>2. CASE ~(ser'.held /\ ~ser.held)
  <2>1. wq' = wq /\ cur' = cur /\ timers' = timers /\ (ser.held => ser'.held)
    BY <1>2 DEF RxEffect
  <2> QED
    BY <1>0, <2>1 DEF QueueInv, CurShape
<1> QED
  BY <1>1, <1>2

\* The fields that RxEffect names.
LEMMA RxFields ==
    ASSUME NEW end, RxEffect(end), end \in BOOLEAN
    PROVE  /\ ser'.got = ser.got
           /\ ser'.line = IF end THEN ser.line + 1 ELSE ser.line
           /\ ser'.at = IF end THEN 1 ELSE ser.at + 1
           /\ ser'.open = (end \/ (ser.open /\ ~ser.held))
           /\ ser'.before = IF end THEN ~ser.held ELSE ser.before
           /\ ser'.due = IF end /\ ser.open /\ ~ser.held /\ ser.before
                         THEN ser.due \cup {ser.line} ELSE ser.due
           /\ env' = env
  BY DEF RxEffect

\* A character keeps the types, and the host's position is one within a line.
LEMMA RxType ==
    ASSUME SerInv, SerialRx
    PROVE  /\ ser' \in SerState
           /\ ser'.line <= Len(Lines) => ser'.at \in 1 .. Len(Sent(ser'.line))
           /\ ser'.line > Len(Lines) => ser'.at = 1
<1> DEFINE l == ser.line
           end == ser.at = SentLen(l)
<1>1. l \in DOMAIN Lines /\ ser.at \in 1 .. SentLen(l) /\ RxEffect(end)
  BY RxHasEffect
<1>2. Lines \in Seq(Nat) /\ l \in 1 .. Len(Lines) /\ SentLen(l) \in Nat /\ end \in BOOLEAN
  BY <1>1, LinesType
<1>3. ser \in SerState
  BY DEF SerInv
<1> HIDE DEF end
<1>4. ser' \in SerState
  <2>1. /\ ser.got \in Seq(Seq(Chars)) /\ ser.at \in Nat \ {0} /\ ser.open \in BOOLEAN
        /\ ser.held \in BOOLEAN /\ ser.before \in BOOLEAN /\ ser.due \in SUBSET DOMAIN Lines
    BY <1>3 DEF SerState
  <2>2. (IF end THEN l + 1 ELSE l) \in 1 .. Len(Lines) + 1
    BY <1>2
  <2>3. (IF end THEN 1 ELSE ser.at + 1) \in Nat \ {0}
    BY <2>1
  <2>4. (end \/ (ser.open /\ ~ser.held)) \in BOOLEAN
        /\ (IF end THEN ~ser.held ELSE ser.before) \in BOOLEAN
    BY <2>1
  <2>5. (IF end /\ ser.open /\ ~ser.held /\ ser.before THEN ser.due \cup {l} ELSE ser.due)
          \in SUBSET DOMAIN Lines
    BY <1>1, <2>1
  <2>6. ser' = [rx |-> ser'.rx, held |-> ser'.held, discard |-> ser'.discard, got |-> ser'.got,
                line |-> ser'.line, at |-> ser'.at, noise |-> ser'.noise, open |-> ser'.open,
                before |-> ser'.before, due |-> ser'.due]
    BY <1>1 DEF RxEffect
  <2>7. /\ ser'.rx \in Seq(Chars) /\ ser'.held \in BOOLEAN /\ ser'.discard \in BOOLEAN
        /\ ser'.got \in Seq(Seq(Chars)) /\ ser'.line \in 1 .. Len(Lines) + 1
        /\ ser'.at \in Nat \ {0} /\ ser'.noise \in {0, 1} /\ ser'.open \in BOOLEAN
        /\ ser'.before \in BOOLEAN /\ ser'.due \in SUBSET DOMAIN Lines
    <3>1. /\ ser'.rx \in Seq(Chars) /\ ser'.held \in BOOLEAN /\ ser'.discard \in BOOLEAN
          /\ ser'.noise \in {0, 1}
      BY <1>1 DEF RxEffect
    <3> QED
      BY <1>1, <1>2, <2>1, <2>2, <2>3, <2>4, <2>5, <3>1, RxFields
  <2> QED
    BY <2>6, <2>7 DEF SerState
<1>5. CASE end
  <2>1. ser'.line = l + 1 /\ ser'.at = 1
    BY <1>1, <1>2, <1>5, RxFields
  <2>2. ASSUME l + 1 <= Len(Lines) PROVE 1 \in 1 .. Len(Sent(l + 1))
    <3>1. l + 1 \in DOMAIN Lines
      BY <1>2, <2>2
    <3>2. Len(Sent(l + 1)) = SentLen(l + 1) /\ SentLen(l + 1) \in Nat \ {0, 1}
      BY <3>1, SentShape, LinesType
    <3> QED
      BY <3>2
  <2> QED
    BY <1>4, <2>1, <2>2
<1>6. CASE ~end
  <2>1. ser'.line = l /\ ser'.at = ser.at + 1
    BY <1>1, <1>2, <1>6, RxFields
  <2>2. Len(Sent(l)) = SentLen(l)
    BY <1>1, SentShape
  <2>3. ser.at + 1 \in 1 .. SentLen(l)
    BY <1>1, <1>2, <1>6 DEF end
  <2> QED
    BY <1>2, <1>4, <2>1, <2>2, <2>3
<1> QED
  BY <1>5, <1>6

\* On an undisturbed line, a character that arrives at a free buffer continues the
\* line or ends it; one that is dropped spoils the line until its end.
LEMMA RxLine ==
    ASSUME SerInv, SerialRx, ~On("long"), ser'.noise = 0
    PROVE  /\ ~ser'.held /\ ~ser'.discard /\ ser'.line <= Len(Lines)
                => ser'.rx = Typed(ser'.line, ser'.at - 1)
           /\ ser'.held => \E l \in DOMAIN Lines : ser'.rx = Text(l)
           /\ ser'.held /\ ~ser'.discard => ser'.at = 1
           /\ ser'.open /\ ser'.before => ~ser'.discard
           /\ \A l \in ser'.due \ ser.due : ser'.held /\ ser'.rx = Text(l)
<1> DEFINE l == ser.line
           end == ser.at = SentLen(l)
           c == SentChar(l, ser.at)
<1>1. l \in DOMAIN Lines /\ ser.at \in 1 .. SentLen(l) /\ RxEffect(end) /\ RxSound(c)
  BY RxHasEffect
<1>2. Lines \in Seq(Nat) /\ l \in 1 .. Len(Lines) /\ SentLen(l) \in Nat \ {0, 1} /\ end \in BOOLEAN
  BY <1>1, LinesType
<1>3. ser \in SerState /\ LineInv /\ OpenInv
  BY DEF SerInv
<1>4. c = LF <=> end
  BY <1>1, OnlyLastIsEnd
<1>5. /\ ser'.line = IF end THEN l + 1 ELSE l
      /\ ser'.at = IF end THEN 1 ELSE ser.at + 1
      /\ ser'.open = (end \/ (ser.open /\ ~ser.held))
      /\ ser'.before = IF end THEN ~ser.held ELSE ser.before
      /\ ser'.due = IF end /\ ser.open /\ ~ser.held /\ ser.before
                    THEN ser.due \cup {l} ELSE ser.due
      /\ ser.held => ser'.held /\ ser'.rx = ser.rx
  BY <1>1, <1>2, RxFields DEF RxEffect
<1>6. /\ ser.noise = 0 /\ SerialFaultless
      /\ ser.held => ser'.discard
      /\ ~ser.held /\ ser.discard => ~ser'.held
      /\ ~ser.held /\ ser.discard /\ ~end => ser'.discard
      /\ ~ser.held /\ ser.discard /\ end => ser'.rx = <<>> /\ ~ser'.discard
      /\ ~ser.held /\ ~ser.discard => ~ser'.discard /\ (ser'.held <=> end)
  BY <1>1, <1>4 DEF RxSound, SerialFaultless
<1>7. ASSUME NEW k PROVE Typed(k, 0) = <<>>
  BY DEF Typed
<1>8. CASE ser.held
  BY <1>3, <1>5, <1>6, <1>8 DEF LineInv, OpenInv
<1>9. CASE ~ser.held /\ ser.discard
  <2>1. CASE end
    <3>1. ser'.at - 1 = 0
      BY <1>5, <2>1
    <3> QED
      BY <1>3, <1>5, <1>6, <1>7, <1>9, <2>1, <3>1 DEF OpenInv
  <2>2. CASE ~end
    BY <1>3, <1>5, <1>6, <1>9, <2>2 DEF OpenInv
  <2> QED
    BY <2>1, <2>2
<1>10. CASE ~ser.held /\ ~ser.discard
  <2>1. ser.rx = Typed(l, ser.at - 1)
    BY <1>2, <1>3, <1>6, <1>10 DEF LineInv
  <2>2. ser'.rx = serial_rx_buf_put(ser, c).rx
    BY <1>1 DEF RxSound
  <2>3. CASE end
    <3>1. serial_rx_buf_put(ser, LF).rx = Text(l)
      BY <1>1, <1>3, <1>10, <2>1, <2>3, PutLast
    <3>2. ser'.rx = Text(l) /\ ser'.held /\ ser'.at = 1 /\ ~ser'.discard
          /\ ser'.due \ ser.due \subseteq {l}
      BY <1>4, <1>5, <1>6, <1>10, <2>2, <2>3, <3>1
    <3> QED
      BY <1>1, <3>2
  <2>4. CASE ~end
    <3>1. ser.at - 1 \in 0 .. SentLen(l) - 2 /\ (ser.at - 1) + 1 = ser.at
          /\ ser'.at - 1 = ser.at
      BY <1>1, <1>2, <1>5, <2>4
    <3>2. serial_rx_buf_put(ser, c) = [ser EXCEPT !.rx = Typed(l, (ser.at - 1) + 1)]
      BY <1>1, <1>10, <2>1, <3>1, PutTyped
    <3>3. ser'.rx = Typed(l, ser'.at - 1)
      BY <1>3, <2>2, <3>1, <3>2 DEF SerState
    <3> QED
      BY <1>5, <1>6, <1>10, <2>4, <3>3
  <2> QED
    BY <2>3, <2>4
<1> QED
  BY <1>8, <1>9, <1>10

\* A character keeps the invariant.
LEMMA RxKeeps == ASSUME SerialInv, SerialRx PROVE SerialInv'
<1>0. SerInv /\ QueueInv
  BY DEF SerialInv
<1>1. RxEffect(ser.at = SentLen(ser.line)) /\ ser.line \in DOMAIN Lines
      /\ RxSound(SentChar(ser.line, ser.at))
  BY <1>0, RxHasEffect
<1>2. QueueInv'
  BY <1>1, RxQueue
<1>3. env' = env /\ cur' = cur /\ ser'.got = ser.got /\ (ser.held => ser'.held /\ ser'.rx = ser.rx)
  BY <1>1 DEF RxEffect
<1>4. /\ Lines' = Lines /\ SerState' = SerState /\ (\A f : On(f)' = On(f))
      /\ \A l : Sent(l)' = Sent(l) /\ Payload(l)' = Payload(l) /\ Text(l)' = Text(l)
      /\ \A l, k : Typed(l, k)' = Typed(l, k)
      /\ \A m : Accepted(m)' = Accepted(m)
  BY <1>3, FeaturesFixed
<1>5. /\ ser' \in SerState
      /\ ser'.line <= Len(Lines) => ser'.at \in 1 .. Len(Sent(ser'.line))
      /\ ser'.line > Len(Lines) => ser'.at = 1
  BY <1>0, RxType
<1>6. SerialFaultless' => ~On("long") /\ ser'.noise = 0 /\ SerialFaultless
  BY <1>1, <1>4 DEF SerialFaultless, RxSound
<1>7. LineInv' /\ OpenInv'
  BY <1>0, <1>4, <1>6, RxLine DEF LineInv, OpenInv
<1>8. JobInv'
  <2>1. cur.work = "serproc" => ser.held
    BY <1>0 DEF QueueInv
  <2> QED
    BY <1>0, <1>3, <1>4, <2>1 DEF SerInv, JobInv
<1>9. SerialLinesWhole'
  BY <1>0, <1>3, <1>4, <1>6 DEF SerInv, SerialLinesWhole
<1>10. SerialRecovers'
  <2> SUFFICES ASSUME SerialFaultless', NEW l \in ser'.due
               PROVE  Contains(ser.got, Payload(l)) \/ (ser'.held /\ IsPrefix(Payload(l), ser'.rx))
    BY <1>3, <1>4 DEF SerialRecovers
  <2>1. CASE l \in ser.due
    BY <1>0, <1>3, <1>6, <2>1 DEF SerInv, SerialRecovers
  <2>2. CASE l \notin ser.due
    <3>1. ser'.held /\ ser'.rx = Text(l) /\ l \in DOMAIN Lines
      BY <1>0, <1>5, <1>6, <2>2, RxLine DEF SerState
    <3> QED
      BY <1>6, <3>1, PrefixOfText
  <2> QED
    BY <2>1, <2>2
<1>11. env' \in Envs
  BY <1>0, <1>3 DEF SerInv
<1> QED
  BY <1>2, <1>4, <1>5, <1>7, <1>8, <1>9, <1>10, <1>11 DEF SerialInv, SerInv

-----------------------------------------------------------------------------
(* serial_process_msg_handler *)

\* What the handler has of the buffer, it passes on at most once.
Passed ==
    /\ ser' = [ser EXCEPT !.got = ser'.got] /\ env' = env
    /\ \/ ser'.got = ser.got
       \/ Accepted(ser.rx) # <<>> /\ ser'.got = Append(ser.got, Accepted(ser.rx)[1])

\* Then what is passed on is a whole line.
LEMMA PassedKeeps ==
    ASSUME SerInv, ser.held, Passed, JobInv'
    PROVE  /\ SerInv'
           /\ \A p : Contains(ser.got, p) => Contains(ser'.got, p)
           /\ ser'.got # ser.got => Contains(ser'.got, Accepted(ser.rx)[1])
<1> DEFINE p == Accepted(ser.rx)[1]
<1>0. /\ ser \in SerState /\ ser.rx \in Seq(Chars) /\ ser.got \in Seq(Seq(Chars))
      /\ On("enforce") => On("crc")
  BY SerAssumptions DEF SerInv, SerState, SerAssumptions, On
<1>1. /\ ser'.rx = ser.rx /\ ser'.held = ser.held /\ ser'.discard = ser.discard
      /\ ser'.line = ser.line /\ ser'.at = ser.at /\ ser'.noise = ser.noise
      /\ ser'.open = ser.open /\ ser'.before = ser.before /\ ser'.due = ser.due /\ env' = env
  BY <1>0 DEF Passed, SerState
<1>2. /\ Lines' = Lines /\ SerState' = SerState /\ (\A f : On(f)' = On(f))
      /\ \A l : Sent(l)' = Sent(l) /\ Payload(l)' = Payload(l) /\ Text(l)' = Text(l)
      /\ \A l, k : Typed(l, k)' = Typed(l, k)
  BY <1>1, FeaturesFixed
<1>3. Accepted(ser.rx) # <<>> => p \in Seq(Chars) /\ Accepted(ser.rx) = <<p>>
  BY <1>0, AcceptedType
<1>4. ASSUME Accepted(ser.rx) # <<>>, SerialFaultless \/ On("enforce")
      PROVE  \E l \in DOMAIN Lines : p = Payload(l)
  <2>1. CASE SerialFaultless
    <3>1. PICK l \in DOMAIN Lines : ser.rx = Text(l)
      BY <2>1 DEF SerInv, LineInv
    <3>2. Accepted(ser.rx) = <<Payload(l)>>
      BY <1>0, <2>1, <3>1, TextAccepted DEF SerialFaultless
    <3> QED
      BY <3>2
  <2>2. CASE On("enforce")
    <3>1. PICK l \in DOMAIN Lines : Accepted(ser.rx) = <<Payload(l)>>
      BY <1>0, <1>4, <2>2, EnforcedAccepted
    <3> QED
      BY <3>1
  <2> QED
    BY <1>4, <2>1, <2>2
<1> HIDE DEF p
<1>5. /\ ser'.got \in Seq(Seq(Chars)) /\ (\A q : Contains(ser.got, q) => Contains(ser'.got, q))
      /\ \/ ser'.got = ser.got
         \/ /\ Accepted(ser.rx) # <<>> /\ Contains(ser'.got, p)
            /\ \A k \in DOMAIN ser'.got : ser'.got[k] = p \/ (k \in DOMAIN ser.got /\ ser'.got[k] = ser.got[k])
  <2>1. CASE ser'.got = ser.got
    BY <1>0, <2>1
  <2>2. CASE Accepted(ser.rx) # <<>> /\ ser'.got = Append(ser.got, p)
    <3>1. /\ ser'.got \in Seq(Seq(Chars)) /\ Len(ser'.got) = Len(ser.got) + 1
          /\ ser'.got[Len(ser.got) + 1] = p /\ Len(ser.got) \in Nat
          /\ \A k \in 1 .. Len(ser.got) : ser'.got[k] = ser.got[k]
      BY <1>0, <1>3, <2>2
    <3> QED
      BY <1>0, <2>2, <3>1 DEF Contains
  <2> QED
    BY <2>1, <2>2 DEF Passed, p
<1>6. ser' \in SerState'
  BY <1>0, <1>2, <1>5 DEF Passed, SerState
<1>7. SerialFaultless' = SerialFaultless
  BY <1>1, <1>2 DEF SerialFaultless
<1>8. LineInv' /\ OpenInv'
  BY <1>1, <1>2, <1>7 DEF SerInv, LineInv, OpenInv
<1>9. SerialLinesWhole'
  <2> SUFFICES ASSUME SerialFaultless \/ On("enforce"), NEW k \in DOMAIN ser'.got
               PROVE  \E l \in DOMAIN Lines : ser'.got[k] = Payload(l)
    BY <1>2, <1>7 DEF SerialLinesWhole
  <2>1. \A i \in DOMAIN ser.got : \E l \in DOMAIN Lines : ser.got[i] = Payload(l)
    BY DEF SerInv, SerialLinesWhole
  <2> QED
    BY <1>4, <1>5, <2>1
<1>10. SerialRecovers'
  BY <1>1, <1>2, <1>5, <1>7 DEF SerInv, SerialRecovers
<1>11. /\ ser'.line <= Len(Lines') => ser'.at \in 1 .. Len(Sent(ser.line)')
       /\ ser'.line > Len(Lines') => ser'.at = 1
       /\ env' \in Envs
  BY <1>1, <1>2 DEF SerInv
<1>12. SerInv'
  BY <1>1, <1>6, <1>8, <1>9, <1>10, <1>11 DEF SerInv
<1> QED
  BY <1>5, <1>12 DEF p

\* The work item is taken from the queue.
LEMMA ProcessKeeps == ASSUME SerialInv, SerialProcess PROVE SerialInv'
<1> DEFINE todo == Accepted(ser.rx)
<1>0. /\ SerInv /\ QueueInv /\ ser \in SerState /\ ser.rx \in Seq(Chars)
      /\ ser.got \in Seq(Seq(Chars)) /\ wq \in Seq(Items) /\ Once("serproc", wq)
  BY DEF SerialInv, SerInv, QueueInv, SerState, Once
<1>1. /\ cur = Idle /\ wq # <<>> /\ Head(wq) = "serproc" /\ wq' = Tail(wq) /\ env' = env
      /\ timers' = timers
      /\ ser' = [ser EXCEPT !.got = IF On("gateway") THEN @ \o todo ELSE @]
  BY DEF SerialProcess, Starts
<1>2. PICK pc, job : /\ cur' = [Idle EXCEPT !.work = "serproc", !.pc = pc, !.job = job]
                     /\ pc = IF todo = <<>> \/ On("gateway") THEN "out" ELSE "fill"
                     /\ job = IF todo = <<>> THEN Nothing ELSE <<"serial", todo[1]>>
  BY DEF SerialProcess
<1>3. cur' = [work |-> "serproc", pc |-> pc, job |-> job, i |-> 0]
  BY <1>2 DEF Idle
<1>4. ser.held /\ wq' \in Seq(Items) /\ Once("serproc", wq') /\ ~Contains(wq', "serproc")
  BY <1>0, <1>1, OnceTail DEF QueueInv
<1>5. /\ ser'.got = (IF On("gateway") THEN ser.got \o todo ELSE ser.got)
      /\ ser' = [ser EXCEPT !.got = ser'.got] /\ ser'.held /\ ser'.rx = ser.rx
  BY <1>0, <1>1, <1>4 DEF SerState
<1>6. todo = <<>> \/ (todo # <<>> /\ todo = <<todo[1]>> /\ todo[1] \in Seq(Chars))
  BY <1>0, AcceptedType
<1>7. Passed
  <2>1. ser.got \o <<>> = ser.got
    BY <1>0, ConcatEmptySeq
  <2>2. CASE On("gateway") /\ todo # <<>>
    <3>1. ser.got \o <<todo[1]>> = Append(ser.got, todo[1])
      BY <1>0, <1>6, <2>2, AppendIsConcat
    <3> QED
      BY <1>1, <1>5, <1>6, <2>2, <3>1 DEF Passed
  <2>3. CASE ~(On("gateway") /\ todo # <<>>)
    BY <1>1, <1>5, <1>6, <2>1, <2>3 DEF Passed
  <2> QED
    BY <2>2, <2>3
<1>8. QueueInv'
  <2>1. "serproc" \in Items
    BY DEF Items, Handlers
  <2>2. CurShape' /\ cur'.work = "serproc"
    BY <1>3 DEF CurShape
  <2> QED
    BY <1>0, <1>1, <1>4, <1>5, <2>1, <2>2 DEF QueueInv, Once
<1>9. JobInv'
  <2>1. \A m : Accepted(m)' = Accepted(m)
    BY <1>1, FeaturesFixed
  <2>2. CASE pc = "fill"
    <3>1. todo # <<>> /\ cur'.job[2] = todo[1] /\ cur'.pc = "fill"
      BY <1>2, <1>3, <2>2
    <3> QED
      BY <1>5, <1>6, <2>1, <3>1 DEF JobInv
  <2>3. CASE pc # "fill" /\ todo = <<>>
    BY <1>3, <1>5, <2>1, <2>3 DEF JobInv
  <2>4. CASE pc # "fill" /\ todo # <<>>
    <3>1. On("gateway")
      BY <1>2, <2>4
    <3>2. ser'.got = ser.got \o <<todo[1]>>
      BY <1>5, <1>6, <2>4, <3>1
    <3>3. Contains(ser'.got, todo[1])
      <4>1. ser'.got = Append(ser.got, todo[1])
        BY <1>0, <1>6, <2>4, <3>2, AppendIsConcat
      <4>2. Len(ser'.got) = Len(ser.got) + 1 /\ ser'.got[Len(ser.got) + 1] = todo[1]
            /\ Len(ser.got) \in Nat
        BY <1>0, <1>6, <2>4, <4>1
      <4> QED
        BY <4>2 DEF Contains
    <3> QED
      BY <1>3, <1>5, <2>1, <2>4, <3>3 DEF JobInv
  <2> QED
    BY <2>2, <2>3, <2>4
<1> QED
  BY <1>0, <1>4, <1>7, <1>8, <1>9, PassedKeeps DEF SerialInv

\* The request is passed to ThingSet.
LEMMA FillKeeps == ASSUME SerialInv, SerialFill PROVE SerialInv'
<1>0. /\ SerInv /\ QueueInv /\ JobInv /\ ser \in SerState /\ ser.rx \in Seq(Chars)
      /\ ser.got \in Seq(Seq(Chars)) /\ CurShape
  BY DEF SerialInv, SerInv, QueueInv, SerState
<1>1. /\ cur.work = "serproc" /\ cur.pc = "fill" /\ cur' = [cur EXCEPT !.pc = "send"]
      /\ env' = env /\ wq' = wq /\ timers' = timers
      /\ ser' = [ser EXCEPT !.got = Append(ser.got, cur.job[2])]
  BY DEF SerialFill, Fill, Running
<1>2. cur'.work = "serproc" /\ cur'.pc = "send" /\ CurShape'
  BY <1>0, <1>1 DEF CurShape
<1>3. Accepted(ser.rx) # <<>> /\ Accepted(ser.rx)[1] = cur.job[2] /\ ser.held
      /\ cur.job[2] \in Seq(Chars)
  <2>1. Accepted(ser.rx) = <<cur.job[2]>> /\ ser.held
    BY <1>0, <1>1 DEF JobInv, QueueInv
  <2>2. Accepted(ser.rx) # <<>> /\ Accepted(ser.rx)[1] = cur.job[2]
    BY <2>1
  <2>3. Accepted(ser.rx)[1] \in Seq(Chars)
    BY <1>0, <2>2, AcceptedType
  <2> QED
    BY <2>1, <2>2, <2>3
<1>4. ser'.got = Append(ser.got, cur.job[2]) /\ ser'.rx = ser.rx /\ ser'.held
      /\ ser' = [ser EXCEPT !.got = ser'.got]
  BY <1>0, <1>1, <1>3 DEF SerState
<1>5. Passed
  BY <1>1, <1>3, <1>4 DEF Passed
<1>6. QueueInv'
  BY <1>0, <1>1, <1>2, <1>4 DEF QueueInv
<1>7. JobInv'
  <2>1. \A m : Accepted(m)' = Accepted(m)
    BY <1>1, FeaturesFixed
  <2>2. Len(ser'.got) = Len(ser.got) + 1 /\ ser'.got[Len(ser.got) + 1] = cur.job[2]
        /\ Len(ser.got) \in Nat
    BY <1>0, <1>3, <1>4
  <2>3. Contains(ser'.got, cur.job[2])
    BY <2>2 DEF Contains
  <2> QED
    BY <1>2, <1>3, <1>4, <2>1, <2>3 DEF JobInv
<1> QED
  BY <1>0, <1>3, <1>5, <1>6, <1>7, PassedKeeps DEF SerialInv

\* The answer is sent.
LEMMA SendKeeps == ASSUME SerialInv, SerialSend PROVE SerialInv'
<1>0. SerInv /\ QueueInv /\ JobInv /\ ser \in SerState /\ CurShape
  BY DEF SerialInv, SerInv, QueueInv
<1>1. /\ cur.work = "serproc" /\ cur.pc = "send" /\ cur' = [cur EXCEPT !.pc = "out"]
      /\ env' = env /\ wq' = wq /\ timers' = timers /\ ser' = ser
  BY DEF SerialSend, Running
<1>2. cur'.work = "serproc" /\ cur'.pc = "out" /\ CurShape'
  BY <1>0, <1>1 DEF CurShape
<1>3. ser.held
  BY <1>0, <1>1 DEF QueueInv
<1>4. Passed
  BY <1>0, <1>1 DEF Passed, SerState
<1>5. QueueInv'
  BY <1>0, <1>1, <1>2 DEF QueueInv
<1>6. JobInv'
  <2>1. \A m : Accepted(m)' = Accepted(m)
    BY <1>1, FeaturesFixed
  <2> QED
    BY <1>0, <1>1, <1>2, <2>1 DEF JobInv
<1> QED
  BY <1>0, <1>3, <1>4, <1>5, <1>6, PassedKeeps DEF SerialInv

\* The buffer is released: what it held has been passed on, and nothing of the next
\* line was dropped unless discard_buffer says so.
LEMMA OutKeeps == ASSUME SerialInv, SerialOut PROVE SerialInv'
<1>0. /\ SerInv /\ QueueInv /\ JobInv /\ ser \in SerState /\ LineInv
      /\ On("enforce") => On("crc")
  BY SerAssumptions DEF SerialInv, SerInv, SerAssumptions, On
<1>1. /\ cur.work = "serproc" /\ cur.pc = "out" /\ cur' = Idle
      /\ env' = env /\ wq' = wq /\ timers' = timers
      /\ ser' = [ser EXCEPT !.rx = <<>>, !.held = FALSE]
  BY DEF SerialOut, Running, Returns
<1>2. ser.held /\ ~Contains(wq, "serproc")
  BY <1>0, <1>1 DEF QueueInv
<1>3. /\ ser'.rx = <<>> /\ ~ser'.held /\ ser'.discard = ser.discard /\ ser'.got = ser.got
      /\ ser'.line = ser.line /\ ser'.at = ser.at /\ ser'.noise = ser.noise
      /\ ser'.open = ser.open /\ ser'.before = ser.before /\ ser'.due = ser.due
      /\ ser' \in SerState
  <2>1. <<>> \in Seq(Chars)
    OBVIOUS
  <2> QED
    BY <1>0, <1>1, <2>1 DEF SerState
<1>4. /\ Lines' = Lines /\ SerState' = SerState /\ (\A f : On(f)' = On(f))
      /\ \A l : Sent(l)' = Sent(l) /\ Payload(l)' = Payload(l) /\ Text(l)' = Text(l)
      /\ \A l, k : Typed(l, k)' = Typed(l, k)
  BY <1>1, FeaturesFixed
<1>5. SerialFaultless' = SerialFaultless
  BY <1>3, <1>4 DEF SerialFaultless
<1>6. QueueInv'
  <2>1. CurShape' /\ cur'.work = "none"
    BY <1>1 DEF Idle, CurShape
  <2> QED
    BY <1>0, <1>1, <1>2, <2>1 DEF QueueInv
<1>7. JobInv'
  BY <1>1 DEF JobInv, Idle
<1>8. LineInv'
  <2>1. ASSUME NEW k PROVE Typed(k, 0) = <<>>
    BY DEF Typed
  <2>2. SerialFaultless /\ ~ser.discard => ser.at - 1 = 0
    BY <1>0, <1>2 DEF LineInv
  <2> QED
    BY <1>3, <1>4, <1>5, <2>1, <2>2 DEF LineInv
<1>9. OpenInv' /\ SerialLinesWhole'
  BY <1>0, <1>3, <1>4, <1>5 DEF SerInv, OpenInv, SerialLinesWhole
<1>10. SerialRecovers'
  <2> SUFFICES ASSUME SerialFaultless, NEW l \in ser.due
               PROVE  Contains(ser.got, Payload(l))
    BY <1>3, <1>4, <1>5 DEF SerialRecovers
  <2>1. Contains(ser.got, Payload(l)) \/ IsPrefix(Payload(l), ser.rx)
    BY <1>0 DEF SerInv, SerialRecovers
  <2>2. PICK k \in DOMAIN Lines : ser.rx = Text(k)
    BY <1>0, <1>2 DEF LineInv
  <2>3. CASE IsPrefix(Payload(l), ser.rx)
    <3>1. l \in DOMAIN Lines
      BY <1>0 DEF SerState
    <3>2. l = k
      BY <2>2, <2>3, <3>1, PrefixOfText DEF SerialFaultless
    <3>3. Accepted(ser.rx) = <<Payload(l)>>
      BY <1>0, <2>2, <3>2, TextAccepted DEF SerialFaultless
    <3>4. Accepted(ser.rx) # <<>> /\ Accepted(ser.rx)[1] = Payload(l)
      BY <3>3
    <3> QED
      BY <1>0, <1>1, <3>4 DEF JobInv
  <2> QED
    BY <2>1, <2>3
<1>11. /\ ser'.line <= Len(Lines') => ser'.at \in 1 .. Len(Sent(ser.line)')
       /\ ser'.line > Len(Lines') => ser'.at = 1
       /\ env' \in Envs
  BY <1>0, <1>1, <1>3, <1>4 DEF SerInv
<1> QED
  BY <1>3, <1>4, <1>6, <1>7, <1>8, <1>9, <1>10, <1>11 DEF SerialInv, SerInv

-----------------------------------------------------------------------------
(* The node starts, and starts again *)

\* Nothing is received yet, so that no handler of a receive buffer is queued; that of
\* the advertising is, at most once.
LEMMA BootQueueType ==
    /\ BootQueue \in Seq(Items) /\ BootTimers \subseteq Delayable /\ Once("btadv", BootQueue)
    /\ \A u \in {"serproc", "btproc"} : ~Contains(BootQueue, u)
<1>0. \A w \in Delayable : <<w>> \in Seq(Delayable) /\ <<>> \in Seq(Delayable)
  OBVIOUS
<1>1. \A s, t \in Seq(Delayable) : s \o t \in Seq(Delayable)
  BY ConcatProperties
<1>2. \A w \in Delayable : \A f : Report(w, f) \in Seq(Delayable)
  BY <1>0 DEF Report
<1>3. {"serrep", "btrep", "wsrep", "canrep", "canctl", "save"} \subseteq Delayable
  BY DEF Delayable
<1>4. (IF On("can") THEN <<"canctl">> ELSE <<>>) \in Seq(Delayable)
  BY <1>0, <1>3
<1> DEFINE q == Report("serrep", "serial") \o Report("btrep", "bt") \o Report("wsrep", "ws")
                \o Report("canrep", "can") \o (IF On("can") THEN <<"canctl">> ELSE <<>>)
<1>5. q \in Seq(Delayable)
  BY <1>1, <1>2, <1>3, <1>4
<1>6. BootQueue = q \o (IF On("bt") THEN <<"btadv">> ELSE <<>>)
  BY DEF BootQueue
<1> HIDE DEF q
<1>7. \A i \in 1 .. Len(q) : q[i] \in Delayable
  BY <1>5
<1>8. \A u \in Handlers : ~Contains(q, u)
  BY <1>7 DEF Contains, Delayable, Handlers
<1>9. q \in Seq(Items)
  BY <1>5 DEF Items
<1>10. BootQueue = q \/ BootQueue = Rescheduled(q, "btadv")
  <2>1. q \o <<"btadv">> = Append(q, "btadv") /\ q \o <<>> = q
    BY <1>9
  <2>2. Rescheduled(q, "btadv") = Append(q, "btadv")
    BY <1>8 DEF Rescheduled, Handlers
  <2> QED
    BY <1>6, <2>1, <2>2
<1>11. \A u \in Handlers : Once(u, q)
  <2>1. \A u \in Handlers : \A i \in 1 .. Len(q) : q[i] # u
    BY <1>7 DEF Delayable, Handlers
  <2> QED
    BY <2>1 DEF Once
<1>12. "btadv" \in Items /\ "btadv" \in Handlers /\ "serproc" \in Handlers /\ "btproc" \in Handlers
  BY DEF Items, Handlers
<1>13. \A u \in Handlers : /\ Rescheduled(q, "btadv") \in Seq(Items)
                           /\ Once(u, Rescheduled(q, "btadv"))
                           /\ Contains(Rescheduled(q, "btadv"), u) => Contains(q, u) \/ "btadv" = u
  BY <1>9, <1>11, <1>12, OnceRescheduled
<1> QED
  BY <1>3, <1>8, <1>9, <1>10, <1>11, <1>12, <1>13 DEF BootTimers

\* The initial state.
LEMMA SerialInvInit == Init => SerialInv
<1> SUFFICES ASSUME Init PROVE SerialInv
  OBVIOUS
<1>1. cur = Idle /\ wq = BootQueue /\ timers = BootTimers /\ env \in Envs
  BY DEF Init, CoreInit
<1>2. /\ ser.rx = <<>> /\ ser.held = FALSE /\ ser.discard = FALSE /\ ser.got = <<>> /\ ser.line = 1
      /\ ser.at = 1 /\ ser.noise = 0 /\ ser.open = TRUE /\ ser.before = TRUE /\ ser.due = {}
  BY DEF Init, SerialInit
<1>3. Lines \in Seq(Nat) /\ Len(Lines) \in Nat
  BY LinesType
<1>4. ser \in SerState
  BY <1>3 DEF Init, SerialInit, SerState
<1>5. QueueInv
  BY <1>1, BootQueueType DEF QueueInv, Idle, CurShape, Contains
<1>6. /\ ser.line <= Len(Lines) => ser.at \in 1 .. Len(Sent(ser.line))
      /\ ser.line > Len(Lines) => ser.at = 1
  <2>1. ASSUME 1 <= Len(Lines) PROVE 1 \in 1 .. Len(Sent(1))
    <3>1. 1 \in DOMAIN Lines
      BY <1>3, <2>1
    <3>2. Len(Sent(1)) = SentLen(1) /\ SentLen(1) \in Nat \ {0, 1}
      BY <3>1, SentShape, LinesType
    <3> QED
      BY <3>2
  <2> QED
    BY <1>2, <2>1
<1>7. LineInv
  <2>1. Typed(1, 0) = <<>> /\ 1 - 1 = 0
    BY DEF Typed
  <2> QED
    BY <1>2, <2>1 DEF LineInv
<1>8. OpenInv /\ JobInv /\ SerialLinesWhole /\ SerialRecovers
  BY <1>1, <1>2 DEF OpenInv, JobInv, SerialLinesWhole, SerialRecovers, Idle
<1> QED
  BY <1>1, <1>4, <1>5, <1>6, <1>7, <1>8 DEF SerialInv, SerInv

\* A restart counts as a disturbance of the line; the requests processed before it
\* remain what they were.
LEMMA RebootKeeps == ASSUME SerialInv, Reboot PROVE SerialInv'
<1>0. SerInv /\ ser \in SerState
  BY DEF SerialInv, SerInv
<1>1. env' = env /\ cur' = Idle /\ wq' = BootQueue /\ timers' = BootTimers
      /\ ser' = [ser EXCEPT !.rx = <<>>, !.held = FALSE, !.discard = FALSE, !.noise = 1]
  BY DEF Reboot, CoreReboot, SerialReboot
<1>2. /\ ser'.held = FALSE /\ ser'.got = ser.got /\ ser'.noise = 1 /\ ser'.line = ser.line
      /\ ser'.at = ser.at /\ ser' \in SerState
  <2>1. <<>> \in Seq(Chars)
    OBVIOUS
  <2> QED
    BY <1>0, <1>1, <2>1 DEF SerState
<1>3. /\ Lines' = Lines /\ SerState' = SerState /\ (\A f : On(f)' = On(f))
      /\ \A l : Sent(l)' = Sent(l) /\ Payload(l)' = Payload(l)
  BY <1>1, FeaturesFixed
<1>4. QueueInv'
  <2>1. CurShape' /\ cur'.work = "none"
    BY <1>1 DEF Idle, CurShape
  <2>2. wq' \in Seq(Items) /\ ~Contains(wq', "serproc") /\ timers' \subseteq Delayable
    BY <1>1, BootQueueType
  <2> QED
    BY <2>1, <2>2 DEF QueueInv, Contains
<1>5. ~SerialFaultless'
  BY <1>2 DEF SerialFaultless
<1>6. LineInv' /\ OpenInv' /\ SerialRecovers'
  BY <1>5 DEF LineInv, OpenInv, SerialRecovers
<1>7. JobInv'
  BY <1>1 DEF JobInv, Idle
<1>8. SerialLinesWhole'
  BY <1>0, <1>2, <1>3, <1>5 DEF SerInv, SerialLinesWhole
<1>9. /\ ser'.line <= Len(Lines') => ser'.at \in 1 .. Len(Sent(ser.line)')
      /\ ser'.line > Len(Lines') => ser'.at = 1
      /\ env' \in Envs
  BY <1>0, <1>1, <1>2, <1>3 DEF SerInv
<1> QED
  BY <1>2, <1>3, <1>4, <1>6, <1>7, <1>8, <1>9 DEF SerialInv, SerInv

\* The invariant is inductive.
LEMMA SerialInvNext == SerialInv /\ [Next]_vars => SerialInv'
<1> SUFFICES ASSUME SerialInv, [Next]_vars PROVE SerialInv'
  OBVIOUS
<1>0. QueueShape /\ "serproc" \in Handlers
  BY DEF SerialInv, QueueInv, QueueShape, Handlers
<1>1. CASE WorkThread
  <2>1. CASE SerialStep(SerialWork)
    <3>1. ASSUME SerialReport PROVE SerialInv'
      <4>1. "serrep" \in Delayable
        BY DEF Delayable
      <4> QED
        BY <1>0, <3>1, <4>1, CoreQueues, OthersKeepSerial DEF SerialReport
    <3> QED
      BY <2>1, <3>1, ProcessKeeps, FillKeeps, SendKeeps, OutKeeps DEF SerialStep, SerialWork
  <2>2. CASE BtStep(BtWork)
    BY <1>0, <2>2, BtQueuesSerial, OthersKeepSerial DEF BtStep
  <2>3. CASE WsOnly(WsReport)
    BY <1>0, <2>3, WsDfuActions, OthersKeepSerial DEF WsOnly
  <2>4. CASE LoraStep(LoraWork)
    BY <1>0, <2>4, LoraQueues, OthersKeepSerial DEF LoraStep
  <2>5. CASE CoreStep(CanWork)
    <3>1. "canctl" \in Delayable /\ "canrep" \in Delayable
      BY DEF Delayable
    <3> QED
      BY <1>0, <2>5, <3>1, CoreQueues, OthersKeepSerial DEF CoreStep, CanWork, LiveReport
  <2> QED
    BY <1>1, <2>1, <2>2, <2>3, <2>4, <2>5 DEF WorkThread
<1>2. CASE SerialStep(SerialRx)
  BY <1>2, RxKeeps DEF SerialStep
<1>3. CASE BtStep(BtConnect \/ thingset_bluetooth_ccc_change \/ BtDisconnect \/ BtRx)
  BY <1>0, <1>3, BtQueuesSerial, OthersKeepSerial DEF BtStep
<1>4. CASE WsOnly(WsNext \/ WsStall \/ WsReportStall)
  BY <1>0, <1>4, WsDfuActions, OthersKeepSerial DEF WsOnly
<1>5. CASE LoraStep(LoraThread)
  BY <1>0, <1>5, LoraQueues, OthersKeepSerial DEF LoraStep
<1>6. CASE DfuStep(DfuNext)
  BY <1>0, <1>6, WsDfuActions, OthersKeepSerial DEF DfuStep
<1>7. ASSUME NEW w \in timers, CoreStep(Expire(w)) PROVE SerialInv'
  <2>1. w \in Delayable
    BY DEF SerialInv, QueueInv
  <2> QED
    BY <1>0, <1>7, <2>1, CoreQueues, OthersKeepSerial DEF CoreStep
<1>8. CASE Reboot
  BY <1>8, RebootKeeps
<1>9. CASE UNCHANGED vars
  BY <1>9, OthersKeepSerial DEF vars, coreVars, OtherStep, QueueMove
<1> QED
  BY <1>1, <1>2, <1>3, <1>4, <1>5, <1>6, <1>7, <1>8, <1>9 DEF Next

\* What serial_process_msg_handler processes is a whole line of the host: see
\* SerialLinesWhole.
THEOREM SerialWhole == Spec => []SerialLinesWhole
<1>1. SerialInv => SerialLinesWhole
  BY DEF SerialInv, SerInv
<1> QED
  BY <1>1, SerialInvInit, SerialInvNext, PTL DEF Spec

\* A line that is spoilt because serial_rx_buf_put found rx_buf in use costs no other:
\* see SerialRecovers.
THEOREM SerialSpoilsNoOther == Spec => []SerialRecovers
<1>1. SerialInv => SerialRecovers
  BY DEF SerialInv, SerInv
<1> QED
  BY <1>1, SerialInvInit, SerialInvNext, PTL DEF Spec

-----------------------------------------------------------------------------
(* The packetizer: induction over the natural numbers, and functions defined
   along them *)

Smaller == {ss \in Nat \X Nat : ss[1] < ss[2]}

\* Every set of natural numbers has a least element.
LEMMA Least == ASSUME NEW T, T \subseteq Nat, T # {} PROVE \E x \in T : \A y \in T : x <= y
<1>1. Smaller = OpToRel(<, Nat)
  BY DEF Smaller, OpToRel
<1>2. IsWellFoundedOn(Smaller, Nat)
  BY <1>1, NatLessThanWellFounded
<1>3. PICK x \in T : \A y \in T : ~(<<y, x>> \in Smaller)
  BY <1>2, WFMin
<1>4. ASSUME NEW y \in T PROVE x <= y
  <2>1. ~(y < x)
    BY <1>3 DEF Smaller
  <2> QED
    BY <2>1
<1> QED
  BY <1>4

\* A set that holds 0 and with each number the next one holds them all.
LEMMA Induction ==
    ASSUME NEW S, 0 \in S, \A n \in Nat : n \in S => n + 1 \in S PROVE \A n \in Nat : n \in S
<1> DEFINE T == Nat \ S
<1>1. SUFFICES ASSUME T # {} PROVE FALSE
  OBVIOUS
<1>2. PICK x \in T : \A y \in T : x <= y
  BY <1>1, Least
<1>3. x - 1 \in Nat
  BY <1>2
<1>4. x - 1 \in S
  BY <1>2, <1>3
<1>5. x - 1 + 1 \in S
  BY <1>3, <1>4
<1> QED
  BY <1>2, <1>5

\* A function on 0 .. N is defined by its first value and a step.
IsIteration(g, N, A, a, s) ==
    g \in [0 .. N -> A] /\ g[0] = a /\ \A n \in 1 .. N : g[n] = s[<<n, g[n - 1]>>]

\* There is such a function.
LEMMA Iterates ==
    ASSUME NEW N \in Nat, NEW A, NEW a \in A, NEW s \in [(1 .. N) \X A -> A]
    PROVE  \E g : IsIteration(g, N, A, a, s)
<1> DEFINE S == {k \in Nat : k <= N => \E g : IsIteration(g, k, A, a, s)}
<1>1. 0 \in S
  <2> DEFINE g == [n \in 0 .. 0 |-> a]
  <2>1. IsIteration(g, 0, A, a, s)
    BY DEF IsIteration
  <2> QED
    BY <2>1
<1>2. ASSUME NEW k \in Nat, k \in S PROVE k + 1 \in S
  <2>1. SUFFICES ASSUME k + 1 <= N PROVE \E g : IsIteration(g, k + 1, A, a, s)
    OBVIOUS
  <2>2. PICK h : IsIteration(h, k, A, a, s)
    BY <1>2, <2>1
  <2>3. h \in [0 .. k -> A] /\ h[0] = a /\ \A n \in 1 .. k : h[n] = s[<<n, h[n - 1]>>]
    BY <2>2 DEF IsIteration
  <2>4. s[<<k + 1, h[k]>>] \in A
    <3>1. h[k] \in A /\ k + 1 \in 1 .. N
      BY <2>1, <2>3
    <3> QED
      BY <3>1
  <2> DEFINE v == s[<<k + 1, h[k]>>]
             g == [n \in 0 .. k + 1 |-> IF n = k + 1 THEN v ELSE h[n]]
  <2> HIDE DEF v
  <2>5. g \in [0 .. k + 1 -> A]
    <3>1. v \in A
      BY <2>4 DEF v
    <3>2. \A n \in 0 .. k + 1 : n # k + 1 => n \in 0 .. k /\ h[n] \in A
      BY <2>3
    <3> QED
      BY <3>1, <3>2
  <2>6. g[k + 1] = v /\ \A n \in 0 .. k : g[n] = h[n]
    OBVIOUS
  <2> HIDE DEF g
  <2>8. g[0] = a
    BY <2>3, <2>6
  <2>9. ASSUME NEW n \in 1 .. k + 1 PROVE g[n] = s[<<n, g[n - 1]>>]
    <3>1. n - 1 \in 0 .. k
      OBVIOUS
    <3>2. g[n - 1] = h[n - 1]
      BY <2>6, <3>1
    <3>3. CASE n = k + 1
      <4>1. n - 1 = k
        BY <3>3
      <4> QED
        BY <2>6, <3>2, <3>3, <4>1 DEF v
    <3>4. CASE n # k + 1
      <4>1. n \in 1 .. k
        BY <3>4
      <4> QED
        BY <2>3, <2>6, <3>2, <4>1
    <3> QED
      BY <3>3, <3>4
  <2>7. IsIteration(g, k + 1, A, a, s)
    BY <2>5, <2>8, <2>9 DEF IsIteration
  <2> QED
    BY <2>7
<1> HIDE DEF S
<1>3. \A n \in Nat : n \in S
  BY <1>1, <1>2, Induction
<1> QED
  BY <1>3 DEF S

-----------------------------------------------------------------------------
\* Bytes; the provers do not know that a literal is in STRING.
Byte == STRING \cup {MSG_END, MSG_SKIP, MSG_ESC, "ESC_END", "ESC_SKIP", "ESC_ESC", "r", "e"}
RState == [dst : Seq(Byte), esc : BOOLEAN, fin : BOOLEAN, ret : BOOLEAN]

State(d, e, f, t) == [dst |-> d, esc |-> e, fin |-> f, ret |-> t]

\* What a byte does.
LEMMA TakeIs ==
    ASSUME NEW d \in Seq(Byte), NEW e \in BOOLEAN, NEW f \in BOOLEAN, NEW t \in BOOLEAN, NEW c \in Byte
    PROVE  /\ TakeByte(State(d, e, f, t), c) \in RState
           /\ t => TakeByte(State(d, e, f, t), c) = State(d, e, f, t)
           /\ ~t /\ e => TakeByte(State(d, e, f, t), c) = State(Append(d, Decoded(c)), FALSE, f, t)
           /\ ~t /\ ~e /\ c = MSG_ESC => TakeByte(State(d, e, f, t), c) = State(d, TRUE, f, t)
           /\ ~t /\ ~e /\ c = MSG_END => TakeByte(State(d, e, f, t), c) = State(d, e, TRUE, ~f)
           /\ ~t /\ ~e /\ c \notin {MSG_ESC, MSG_END, MSG_SKIP} =>
                TakeByte(State(d, e, f, t), c) = State(Append(d, c), e, FALSE, t)
<1>1. Decoded(c) \in Byte
  <2>1. DOMAIN Escapes = {MSG_END, MSG_SKIP, MSG_ESC}
    BY DEF Escapes
  <2>2. {MSG_END, MSG_SKIP, MSG_ESC} \subseteq Byte
    BY DEF Byte
  <2> QED
    BY <2>1, <2>2 DEF Decoded
<1>2. Append(d, c) \in Seq(Byte) /\ Append(d, Decoded(c)) \in Seq(Byte)
  BY <1>1
<1> DEFINE q == TakeByte(State(d, e, f, t), c)
<1>3. /\ t => q = State(d, e, f, t)
      /\ ~t /\ e => q = State(Append(d, Decoded(c)), FALSE, f, t)
      /\ ~t /\ ~e /\ c = MSG_ESC => q = State(d, TRUE, f, t)
      /\ ~t /\ ~e /\ c = MSG_SKIP => q = State(d, e, f, t)
      /\ ~t /\ ~e /\ c = MSG_END => q = State(d, e, TRUE, ~f)
      /\ ~t /\ ~e /\ c \notin {MSG_ESC, MSG_END, MSG_SKIP} => q = State(Append(d, c), e, FALSE, t)
  BY DEF State, TakeByte, MSG_ESC, MSG_END, MSG_SKIP
<1> HIDE DEF q
<1>4. \A x \in Seq(Byte), u \in BOOLEAN, v \in BOOLEAN, w \in BOOLEAN : State(x, u, v, w) \in RState
  BY DEF State, RState
<1>5. q \in RState
  <2>1. CASE t
    BY <1>3, <1>4, <2>1
  <2>2. CASE ~t /\ e
    BY <1>2, <1>3, <1>4, <2>2
  <2>3. CASE ~t /\ ~e
    BY <1>2, <1>3, <1>4, <2>3
  <2> QED
    BY <2>1, <2>2, <2>3
<1> QED
  BY <1>3, <1>5 DEF q

\* A state is made of its fields.
LEMMA StateIs ==
    ASSUME NEW r \in RState
    PROVE  /\ r = State(r.dst, r.esc, r.fin, r.ret) /\ r.dst \in Seq(Byte) /\ r.esc \in BOOLEAN
           /\ r.fin \in BOOLEAN /\ r.ret \in BOOLEAN
  BY DEF State, RState

\* What a sequence of bytes does to the state of reassemble.
After(src, r) ==
    LET take[n \in 0 .. Len(src)] == IF n = 0 THEN r ELSE TakeByte(take[n - 1], src[n])
    IN  take[Len(src)]

IsTake(g, src, r) == g = [n \in 0 .. Len(src) |-> IF n = 0 THEN r ELSE TakeByte(g[n - 1], src[n])]

\* What reassemble does byte by byte is such a function.
LEMMA TakeExists ==
    ASSUME NEW src \in Seq(Byte), NEW r \in RState
    PROVE  \E g \in [0 .. Len(src) -> RState] : IsTake(g, src, r)
<1> DEFINE N == Len(src)
           s == [x \in (1 .. N) \X RState |-> TakeByte(x[2], src[x[1]])]
<1>1. \A c \in Byte, q \in RState : TakeByte(q, c) \in RState
  <2> TAKE c \in Byte, q \in RState
  <2>1. q = State(q.dst, q.esc, q.fin, q.ret) /\ q.dst \in Seq(Byte) /\ q.esc \in BOOLEAN
        /\ q.fin \in BOOLEAN /\ q.ret \in BOOLEAN
    BY StateIs
  <2>2. TakeByte(State(q.dst, q.esc, q.fin, q.ret), c) \in RState
    BY <2>1, TakeIs
  <2> QED
    BY <2>1, <2>2
<1>2. s \in [(1 .. N) \X RState -> RState]
  BY <1>1
<1>3. N \in Nat
  OBVIOUS
<1> HIDE DEF N, s
<1>4. PICK g : IsIteration(g, N, RState, r, s)
  BY <1>2, <1>3, Iterates
<1>5. g \in [0 .. N -> RState] /\ g[0] = r
  BY <1>4 DEF IsIteration
<1>6. ASSUME NEW n \in 1 .. N PROVE g[n] = TakeByte(g[n - 1], src[n])
  <2>1. g[n - 1] \in RState
    BY <1>3, <1>5
  <2> QED
    BY <1>4, <2>1 DEF IsIteration, s
<1>7. IsTake(g, src, r)
  BY <1>3, <1>5, <1>6 DEF IsTake, N
<1> QED
  BY <1>5, <1>7 DEF N

\* After is its last value.
LEMMA AfterIs ==
    ASSUME NEW src \in Seq(Byte), NEW r \in RState
    PROVE  \E g \in [0 .. Len(src) -> RState] : IsTake(g, src, r) /\ After(src, r) = g[Len(src)]
<1>1. PICK h \in [0 .. Len(src) -> RState] : IsTake(h, src, r)
  BY TakeExists
<1> DEFINE f == CHOOSE g : IsTake(g, src, r)
<1>2. IsTake(f, src, r)
  BY <1>1
<1>3. After(src, r) = f[Len(src)]
  BY DEF After, IsTake
<1> HIDE DEF f
<1>4. \A n \in Nat : n <= Len(src) => f[n] = h[n]
  <2> DEFINE S == {n \in Nat : n <= Len(src) => f[n] = h[n]}
  <2>1. 0 \in S
    BY <1>1, <1>2 DEF IsTake
  <2>2. ASSUME NEW n \in Nat, n \in S PROVE n + 1 \in S
    <3>1. SUFFICES ASSUME n + 1 <= Len(src) PROVE f[n + 1] = h[n + 1]
      OBVIOUS
    <3>2. n + 1 \in 0 .. Len(src) /\ n + 1 # 0 /\ n + 1 - 1 = n
      BY <3>1
    <3>3. f[n + 1] = TakeByte(f[n], src[n + 1]) /\ h[n + 1] = TakeByte(h[n], src[n + 1])
      BY <1>1, <1>2, <3>2 DEF IsTake
    <3>4. f[n] = h[n]
      BY <2>2, <3>1
    <3> QED
      BY <3>3, <3>4
  <2> HIDE DEF S
  <2>3. \A n \in Nat : n \in S
    BY <2>1, <2>2, Induction
  <2> QED
    BY <2>3 DEF S
<1>5. f[Len(src)] = h[Len(src)]
  BY <1>4
<1> QED
  BY <1>1, <1>3, <1>5

\* Nothing, and one more byte.
LEMMA AfterEmpty == ASSUME NEW r \in RState PROVE After(<<>>, r) = r
<1>1. <<>> \in Seq(Byte) /\ Len(<<>>) = 0
  OBVIOUS
<1>2. PICK g \in [0 .. Len(<<>>) -> RState] : IsTake(g, <<>>, r) /\ After(<<>>, r) = g[Len(<<>>)]
  BY <1>1, AfterIs
<1> QED
  BY <1>1, <1>2 DEF IsTake

\* One byte more is one step more.
LEMMA AfterAppend ==
    ASSUME NEW src \in Seq(Byte), NEW r \in RState, NEW c \in Byte
    PROVE  After(Append(src, c), r) = TakeByte(After(src, r), c) /\ After(src, r) \in RState
<1> DEFINE N == Len(src)
           t == Append(src, c)
<1>1. /\ t \in Seq(Byte) /\ N \in Nat /\ Len(t) = N + 1 /\ t[N + 1] = c
      /\ \A n \in 1 .. N : t[n] = src[n]
  OBVIOUS
<1> HIDE DEF t
<1>2. PICK g \in [0 .. Len(src) -> RState] : IsTake(g, src, r) /\ After(src, r) = g[Len(src)]
  BY AfterIs
<1>3. PICK h \in [0 .. Len(t) -> RState] : IsTake(h, t, r) /\ After(t, r) = h[Len(t)]
  BY <1>1, AfterIs
<1> HIDE DEF N
<1>4. \A n \in Nat : n <= N => g[n] = h[n]
  <2> DEFINE S == {n \in Nat : n <= N => g[n] = h[n]}
  <2>1. 0 \in S
    BY <1>1, <1>2, <1>3 DEF IsTake, N
  <2>2. ASSUME NEW n \in Nat, n \in S PROVE n + 1 \in S
    <3>1. SUFFICES ASSUME n + 1 <= N PROVE g[n + 1] = h[n + 1]
      OBVIOUS
    <3>2. n + 1 \in 0 .. N /\ n + 1 \in 0 .. N + 1 /\ n + 1 # 0 /\ n + 1 - 1 = n /\ n + 1 \in 1 .. N
      BY <1>1, <3>1
    <3>3. g[n + 1] = TakeByte(g[n], src[n + 1])
      BY <1>2, <3>2 DEF IsTake, N
    <3>4. h[n + 1] = TakeByte(h[n], t[n + 1])
      BY <1>1, <1>3, <3>2 DEF IsTake
    <3>5. g[n] = h[n] /\ t[n + 1] = src[n + 1]
      BY <1>1, <2>2, <3>1, <3>2
    <3> QED
      BY <3>3, <3>4, <3>5
  <2> HIDE DEF S
  <2>3. \A n \in Nat : n \in S
    BY <2>1, <2>2, Induction
  <2> QED
    BY <2>3 DEF S
<1>5. h[N + 1] = TakeByte(h[N], t[N + 1])
  <2>1. N + 1 \in 0 .. N + 1 /\ N + 1 # 0 /\ N + 1 - 1 = N
    BY <1>1
  <2> QED
    BY <1>1, <1>3, <2>1 DEF IsTake
<1>6. h[N] = g[N]
  BY <1>1, <1>4
<1>7. After(t, r) = TakeByte(After(src, r), c)
  BY <1>1, <1>2, <1>3, <1>5, <1>6 DEF N
<1>8. After(src, r) \in RState
  <2>1. N \in 0 .. N
    BY <1>1
  <2> QED
    BY <1>2, <2>1 DEF N
<1> QED
  BY <1>7, <1>8 DEF t

\* reassemble.
Start(d) == State(d, FALSE, TRUE, FALSE)

\* reassemble is After, from there.
LEMMA ReassembleIs == \A p, d : reassemble(p, d, FALSE) = After(p, Start(d))
  BY DEF reassemble, After, Start, State

-----------------------------------------------------------------------------
(* One packet *)

Upto(m, k)  == [i \in 1 .. k |-> m[i]]
Escaped     == {MSG_END, MSG_SKIP, MSG_ESC}

\* A packet of which nothing but end markers and escaped bytes has been taken in.
Marks(p) == \A i \in DOMAIN p : p[i] \in {MSG_END, MSG_ESC} \/ (i > 1 /\ p[i - 1] = MSG_ESC)

LoopRec == [dst : Seq(Byte), pos : Nat]
\* What the loop of packetize has written for the bytes from pos on, and what
\* reassemble, that had received d, makes of it.
LoopInv(p, src, pos, d) ==
    LET r == After(p.dst, Start(d)) IN
    /\ p \in LoopRec /\ p.pos >= pos /\ p.pos <= Len(src)
    /\ r = State(r.dst, FALSE, r.fin, FALSE) /\ r.dst \in Seq(Byte) /\ r.fin \in BOOLEAN
    /\ d = Upto(src, pos) => r.dst = Upto(src, p.pos)
    /\ r.fin => Marks(p.dst)
    /\ r.fin /\ p.pos > pos => Contains(p.dst, MSG_ESC)
    /\ p.pos > pos => p.dst # <<>>

\* The loop's body.
LoopStep(p, src, dst_len) ==
    IF Len(p.dst) < dst_len /\ p.pos < Len(src)
    THEN [dst |-> p.dst \o Encoded(src[p.pos + 1]), pos |-> p.pos + 1]
    ELSE p

\* Which bytes are escaped, and that Decoded undoes it.
LEMMA EscapesAre ==
    /\ DOMAIN Escapes = Escaped /\ Escaped \subseteq Byte
    /\ \A c \in Escaped : Escapes[c] \in Byte /\ Decoded(Escapes[c]) = c
    /\ \A c \in Byte \ Escaped : Encoded(c) = <<c>>
    /\ \A c \in Escaped : Encoded(c) = <<MSG_ESC, Escapes[c]>>
    /\ MSG_ESC \in Byte /\ MSG_END \in Byte /\ MSG_ESC # MSG_END
<1>1. DOMAIN Escapes = Escaped /\ Escaped \subseteq Byte
  BY DEF Escapes, Escaped, Byte
<1>2. /\ Escapes[MSG_END] = "ESC_END" /\ Escapes[MSG_SKIP] = "ESC_SKIP" /\ Escapes[MSG_ESC] = "ESC_ESC"
  BY DEF Escapes, MSG_END, MSG_SKIP, MSG_ESC
<1>3. \A e, g \in Escaped : Escapes[e] = Escapes[g] => e = g
  BY <1>2 DEF Escaped
<1>4. ASSUME NEW c \in Escaped PROVE Escapes[c] \in Byte /\ Decoded(Escapes[c]) = c
  <2>1. Escapes[c] \in Byte
    BY <1>2 DEF Escaped, Byte
  <2>2. Decoded(Escapes[c]) = CHOOSE e \in Escaped : Escapes[e] = Escapes[c]
    BY <1>1 DEF Decoded
  <2> QED
    BY <1>3, <2>1, <2>2
<1>5. \A c \in Byte \ Escaped : Encoded(c) = <<c>>
  BY <1>1 DEF Encoded
<1>6. \A c \in Escaped : Encoded(c) = <<MSG_ESC, Escapes[c]>>
  BY <1>1 DEF Encoded
<1>7. MSG_ESC \in Byte /\ MSG_END \in Byte /\ MSG_ESC # MSG_END
  BY DEF MSG_ESC, MSG_END, Byte
<1> QED
  BY <1>1, <1>4, <1>5, <1>6, <1>7

\* The two bytes of an escaped one are put one after the other.
LEMMA TwoMore ==
    ASSUME NEW s \in Seq(Byte), NEW c \in Byte, NEW d \in Byte
    PROVE  /\ s \o <<c>> = Append(s, c) /\ s \o <<c, d>> = Append(Append(s, c), d)
           /\ Append(s, c) \in Seq(Byte)
  OBVIOUS

\* One more byte of the message.
LEMMA LoopKeeps ==
    ASSUME NEW src \in Seq(Byte), NEW dst_len, NEW pos \in Nat, NEW d \in Seq(Byte),
           NEW p, LoopInv(p, src, pos, d)
    PROVE  LoopInv(LoopStep(p, src, dst_len), src, pos, d)
<1>1. CASE ~(Len(p.dst) < dst_len /\ p.pos < Len(src))
  BY <1>1 DEF LoopStep
<1>2. CASE Len(p.dst) < dst_len /\ p.pos < Len(src)
  <2> DEFINE c == src[p.pos + 1]
             r == After(p.dst, Start(d))
             q == p.dst
  <2>1. /\ p \in LoopRec /\ p.pos \in Nat /\ q \in Seq(Byte) /\ Start(d) \in RState
        /\ r = State(r.dst, FALSE, r.fin, FALSE) /\ r.dst \in Seq(Byte) /\ r.fin \in BOOLEAN
    BY DEF LoopInv, LoopRec, Start, State, RState
  <2>2. c \in Byte /\ p.pos + 1 \in 1 .. Len(src)
    BY <1>2, <2>1
  <2>3. d = Upto(src, pos) => Append(r.dst, c) = Upto(src, p.pos + 1)
    <3>1. ASSUME NEW k \in Nat, k + 1 <= Len(src)
          PROVE  Append(Upto(src, k), src[k + 1]) = Upto(src, k + 1)
      <4>1. Upto(src, k) \in Seq(Byte) /\ Len(Upto(src, k)) = k
        BY <3>1 DEF Upto
      <4> QED
        BY <3>1, <4>1 DEF Upto
    <3>2. d = Upto(src, pos) => r.dst = Upto(src, p.pos)
      BY DEF LoopInv
    <3>3. Append(Upto(src, p.pos), src[p.pos + 1]) = Upto(src, p.pos + 1)
      <4>1. p.pos \in Nat /\ p.pos + 1 <= Len(src)
        BY <2>1, <2>2
      <4> QED
        BY <3>1, <4>1
    <3> HIDE DEF r
    <3> QED
      BY <3>2, <3>3
  <2>4. LoopStep(p, src, dst_len) = [dst |-> q \o Encoded(c), pos |-> p.pos + 1]
    BY <1>2 DEF LoopStep
  <2>5. CASE c \notin Escaped
    <3>2. After(Append(q, c), Start(d)) = TakeByte(r, c)
      BY <2>1, <2>2, AfterAppend
    <3> HIDE DEF c, r, q
    <3>0. Encoded(c) = <<c>>
      BY <2>2, <2>5, EscapesAre
    <3>1. q \o Encoded(c) = Append(q, c) /\ Append(q, c) \in Seq(Byte)
      BY <2>1, <2>2, <3>0, TwoMore
    <3>3. TakeByte(State(r.dst, FALSE, r.fin, FALSE), c) = State(Append(r.dst, c), FALSE, FALSE, FALSE)
      BY <2>1, <2>2, <2>5, TakeIs DEF Escaped
    <3>4. After(Append(q, c), Start(d)) = State(Append(r.dst, c), FALSE, FALSE, FALSE)
      BY <2>1, <3>2, <3>3
    <3> DEFINE u == LoopStep(p, src, dst_len)
    <3>5. u = [dst |-> Append(q, c), pos |-> p.pos + 1]
      BY <2>4, <3>1
    <3>6. u.dst = Append(q, c) /\ u.pos = p.pos + 1 /\ u \in LoopRec /\ u.dst # <<>>
      BY <2>1, <3>1, <3>5 DEF LoopRec
    <3> HIDE DEF u
    <3> DEFINE w == After(u.dst, Start(d))
    <3>7. w.dst = Append(r.dst, c) /\ w.esc = FALSE /\ w.fin = FALSE /\ w.ret = FALSE
          /\ w = State(w.dst, FALSE, w.fin, FALSE)
      BY <3>4, <3>6 DEF State
    <3>8. w.dst \in Seq(Byte)
      BY <2>1, <2>2, <3>7
    <3> HIDE DEF w
    <3>9. p.pos >= pos
      BY DEF LoopInv
    <3>11. /\ d = Upto(src, pos) => w.dst = Upto(src, u.pos)
           /\ u.pos >= pos /\ u.pos <= Len(src) /\ w.fin \in BOOLEAN
      <4>1. d = Upto(src, pos) => w.dst = Upto(src, u.pos)
        BY <2>3, <3>6, <3>7
      <4>2. u.pos >= pos /\ u.pos <= Len(src)
        BY <2>1, <2>2, <3>6, <3>9
      <4>3. w.fin \in BOOLEAN
        BY <3>7
      <4> QED
        BY <4>1, <4>2, <4>3
    <3>10. LoopInv(u, src, pos, d)
      BY <3>6, <3>7, <3>8, <3>11 DEF LoopInv, w
    <3> QED
      BY <3>10 DEF u
  <2>6. CASE c \in Escaped
    <3> DEFINE e == Escapes[c]
               a == Append(q, MSG_ESC)
               b == Append(a, e)
    <3>1. e \in Byte /\ Decoded(e) = c /\ MSG_ESC \in Byte /\ Encoded(c) = <<MSG_ESC, e>>
      BY <2>6, EscapesAre
    <3>2. q \o Encoded(c) = b /\ a \in Seq(Byte) /\ b \in Seq(Byte)
      BY <2>1, <3>1, TwoMore
    <3>3. /\ Len(a) = Len(q) + 1 /\ Len(b) = Len(q) + 2 /\ Len(q) \in Nat
          /\ \A i \in 1 .. Len(q) : b[i] = q[i]
          /\ b[Len(q) + 1] = MSG_ESC /\ b[Len(q) + 2] = e
      BY <2>1, <3>1, <3>2
    <3> HIDE DEF e, a, b, q, r, c
    <3>4. After(a, Start(d)) = TakeByte(r, MSG_ESC) /\ After(b, Start(d)) = TakeByte(After(a, Start(d)), e)
      <4>1. After(a, Start(d)) = TakeByte(r, MSG_ESC)
        BY <2>1, <3>1, AfterAppend DEF a, r, q
      <4>2. After(b, Start(d)) = TakeByte(After(a, Start(d)), e)
        BY <2>1, <3>1, <3>2, AfterAppend DEF b
      <4> QED
        BY <4>1, <4>2
    <3>5. TakeByte(State(r.dst, FALSE, r.fin, FALSE), MSG_ESC) = State(r.dst, TRUE, r.fin, FALSE)
      BY <2>1, <3>1, TakeIs
    <3>6. TakeByte(State(r.dst, TRUE, r.fin, FALSE), e) = State(Append(r.dst, c), FALSE, r.fin, FALSE)
      BY <2>1, <3>1, TakeIs
    <3>7. After(b, Start(d)) = State(Append(r.dst, c), FALSE, r.fin, FALSE)
      BY <2>1, <3>4, <3>5, <3>6
    <3> DEFINE u == LoopStep(p, src, dst_len)
    <3>8. u = [dst |-> b, pos |-> p.pos + 1]
      BY <2>4, <3>2
    <3>9. u.dst = b /\ u.pos = p.pos + 1 /\ u \in LoopRec /\ u.dst # <<>>
      BY <2>1, <3>2, <3>3, <3>8 DEF LoopRec
    <3> HIDE DEF u
    <3> DEFINE w == After(u.dst, Start(d))
    <3>10. w.dst = Append(r.dst, c) /\ w.esc = FALSE /\ w.fin = r.fin /\ w.ret = FALSE
          /\ w = State(w.dst, FALSE, w.fin, FALSE)
      BY <3>7, <3>9 DEF State
    <3>11. w.dst \in Seq(Byte)
      BY <2>1, <2>2, <3>10
    <3>12. DOMAIN b = 1 .. Len(q) + 2 /\ DOMAIN q = 1 .. Len(q)
      BY <2>1, <3>2, <3>3
    <3>13. r.fin => Marks(b)
      <4>1. SUFFICES ASSUME r.fin, NEW i \in DOMAIN b
                     PROVE  b[i] \in {MSG_END, MSG_ESC} \/ (i > 1 /\ b[i - 1] = MSG_ESC)
        BY DEF Marks
      <4>2. CASE i \in 1 .. Len(q)
        <5>1. Marks(q)
          BY <4>1 DEF LoopInv, r, q
        <5>2. q[i] \in {MSG_END, MSG_ESC} \/ (i > 1 /\ q[i - 1] = MSG_ESC)
          BY <3>12, <4>2, <5>1 DEF Marks
        <5>3. i > 1 => i - 1 \in 1 .. Len(q)
          BY <3>3, <4>2
        <5> QED
          BY <3>3, <4>2, <5>2, <5>3
      <4>3. CASE i = Len(q) + 1
        BY <3>3, <4>3
      <4>4. CASE i = Len(q) + 2
        <5>1. i > 1 /\ i - 1 = Len(q) + 1
          BY <3>3, <4>4
        <5> QED
          BY <3>3, <5>1
      <4> QED
        BY <3>3, <3>12, <4>2, <4>3, <4>4
    <3>14. Contains(b, MSG_ESC)
      BY <3>3, <3>12 DEF Contains
    <3> HIDE DEF w
    <3>15. p.pos >= pos
      BY DEF LoopInv
    <3>16. LoopInv(u, src, pos, d)
      BY <1>2, <2>1, <2>3, <3>9, <3>10, <3>11, <3>13, <3>14, <3>15 DEF LoopInv, w
    <3> QED
      BY <3>16 DEF u
  <2> QED
    BY <2>5, <2>6
<1> QED
  BY <1>1, <1>2

\* The loop of packetize.
LoopStart(pos) == [dst |-> IF pos = 0 THEN <<MSG_END>> ELSE <<>>, pos |-> pos]
IsLoop(g, src, dst_len, pos) ==
    g = [n \in 0 .. Len(src) |-> IF n = 0 THEN LoopStart(pos) ELSE LoopStep(g[n - 1], src, dst_len)]

\* The bytes a byte is sent as.
LEMMA EncodedSeq == \A c \in Byte : Encoded(c) \in Seq(Byte)
<1>1. \A a, b \in Byte : <<a, b>> \in Seq(Byte) /\ <<a>> \in Seq(Byte)
  OBVIOUS
<1>2. ASSUME NEW c \in Escaped PROVE Encoded(c) \in Seq(Byte)
  <2>1. PICK e \in Byte : e = Escapes[c]
    BY EscapesAre
  <2>2. Encoded(c) = <<MSG_ESC, e>>
    BY <2>1, EscapesAre
  <2>3. MSG_ESC \in Byte
    BY EscapesAre
  <2>4. <<MSG_ESC, e>> \in Seq(Byte)
    BY <1>1, <2>3
  <2> QED
    BY <2>2, <2>4, Zenon
<1>3. ASSUME NEW c \in Byte \ Escaped PROVE Encoded(c) \in Seq(Byte)
  <2>1. Encoded(c) = <<c>> /\ <<c>> \in Seq(Byte)
    BY <1>1, EscapesAre
  <2> QED
    BY <2>1, Zenon
<1> QED
  BY <1>2, <1>3

\* The loop's variables stay what they are.
LEMMA LoopTypes ==
    ASSUME NEW src \in Seq(Byte), NEW dst_len \in Nat
    PROVE  /\ \A pos \in Nat : LoopStart(pos) \in LoopRec /\ Len(LoopStart(pos).dst) <= 1
           /\ \A p \in LoopRec : LoopStep(p, src, dst_len) \in LoopRec
<1>1. ASSUME NEW pos \in Nat PROVE LoopStart(pos) \in LoopRec /\ Len(LoopStart(pos).dst) <= 1
  <2>1. <<MSG_END>> \in Seq(Byte) /\ <<>> \in Seq(Byte) /\ Len(<<MSG_END>>) = 1 /\ Len(<<>>) = 0
    BY EscapesAre
  <2> QED
    BY <2>1 DEF LoopStart, LoopRec
<1>2. ASSUME NEW p \in LoopRec PROVE LoopStep(p, src, dst_len) \in LoopRec
  <2>1. CASE ~(Len(p.dst) < dst_len /\ p.pos < Len(src))
    BY <2>1 DEF LoopStep
  <2>2. CASE Len(p.dst) < dst_len /\ p.pos < Len(src)
    <3>1. p.pos \in Nat /\ p.dst \in Seq(Byte)
      BY DEF LoopRec
    <3>2. src[p.pos + 1] \in Byte
      BY <2>2, <3>1
    <3>3. Encoded(src[p.pos + 1]) \in Seq(Byte)
      BY <3>2, EncodedSeq
    <3>4. p.dst \o Encoded(src[p.pos + 1]) \in Seq(Byte) /\ p.pos + 1 \in Nat
      BY <3>1, <3>3
    <3> QED
      BY <2>2, <3>4 DEF LoopStep, LoopRec
  <2> QED
    BY <2>1, <2>2
<1> QED
  BY <1>1, <1>2

\* The loop of packetize is a function of the number of bytes put.
LEMMA LoopIs ==
    ASSUME NEW src \in Seq(Byte), NEW dst_len \in Nat, NEW pos \in Nat
    PROVE  \E g \in [0 .. Len(src) -> LoopRec] :
              IsLoop(g, src, dst_len, pos) /\ packetize(src, dst_len, pos) = PutEnd(g[Len(src)], src, dst_len)
<1> DEFINE N == Len(src)
           a == LoopStart(pos)
           s == [x \in (1 .. N) \X LoopRec |-> LoopStep(x[2], src, dst_len)]
<1>1. N \in Nat /\ a \in LoopRec /\ s \in [(1 .. N) \X LoopRec -> LoopRec]
  BY LoopTypes
<1> HIDE DEF N, s, a
<1>2. PICK h : IsIteration(h, N, LoopRec, a, s)
  BY <1>1, Iterates
<1>3. h \in [0 .. N -> LoopRec] /\ h[0] = a
  BY <1>2 DEF IsIteration
<1>4. ASSUME NEW n \in 1 .. N PROVE h[n] = LoopStep(h[n - 1], src, dst_len)
  <2>1. h[n - 1] \in LoopRec
    BY <1>1, <1>3
  <2> QED
    BY <1>2, <2>1 DEF IsIteration, s
<1>5. IsLoop(h, src, dst_len, pos)
  BY <1>1, <1>3, <1>4 DEF IsLoop, N, a
<1> DEFINE f == CHOOSE g : IsLoop(g, src, dst_len, pos)
<1>6. IsLoop(f, src, dst_len, pos)
  BY <1>5
<1>7. packetize(src, dst_len, pos) = PutEnd(f[Len(src)], src, dst_len)
  BY DEF packetize, IsLoop, LoopStart, LoopStep
<1> HIDE DEF f
<1>8. \A n \in Nat : n <= N => f[n] = h[n]
  <2> DEFINE S == {n \in Nat : n <= N => f[n] = h[n]}
  <2>1. 0 \in S
    BY <1>1, <1>5, <1>6 DEF IsLoop, N
  <2>2. ASSUME NEW n \in Nat, n \in S PROVE n + 1 \in S
    <3>1. SUFFICES ASSUME n + 1 <= N PROVE f[n + 1] = h[n + 1]
      OBVIOUS
    <3>2. n + 1 \in 0 .. N /\ n + 1 # 0 /\ n + 1 - 1 = n
      BY <1>1, <3>1
    <3>3. f[n + 1] = LoopStep(f[n], src, dst_len) /\ h[n + 1] = LoopStep(h[n], src, dst_len)
      BY <1>5, <1>6, <3>2 DEF IsLoop, N
    <3>4. f[n] = h[n]
      BY <1>1, <2>2, <3>1
    <3> QED
      BY <3>3, <3>4
  <2> HIDE DEF S
  <2>3. \A n \in Nat : n \in S
    BY <2>1, <2>2, Induction
  <2> QED
    BY <2>3 DEF S
<1> QED
  BY <1>1, <1>3, <1>5, <1>7, <1>8 DEF N

\* It starts with what reassemble makes nothing of.
LEMMA LoopStarts ==
    ASSUME NEW src \in Seq(Byte), NEW pos \in Nat, pos <= Len(src), NEW d \in Seq(Byte)
    PROVE  LoopInv(LoopStart(pos), src, pos, d)
<1> DEFINE p == LoopStart(pos)
           r == After(p.dst, Start(d))
<1>1. Start(d) \in RState
  BY DEF Start, State, RState
<1>2. r = State(d, FALSE, TRUE, FALSE)
  <2>1. CASE pos = 0
    <3>1. p.dst = Append(<<>>, MSG_END) /\ <<>> \in Seq(Byte) /\ MSG_END \in Byte
      BY <2>1, EscapesAre DEF LoopStart
    <3>2. r = TakeByte(Start(d), MSG_END)
      <4>1. After(<<>>, Start(d)) = Start(d)
        BY <1>1, AfterEmpty
      <4>2. After(Append(<<>>, MSG_END), Start(d)) = TakeByte(After(<<>>, Start(d)), MSG_END)
        <5>1. <<>> \in Seq(Byte) /\ MSG_END \in Byte
          BY <3>1
        <5> QED
          BY <1>1, <5>1, AfterAppend
      <4> HIDE DEF p
      <4> QED
        BY <3>1, <4>1, <4>2
    <3>3. TakeByte(State(d, FALSE, TRUE, FALSE), MSG_END) = State(d, FALSE, TRUE, ~TRUE)
      BY <3>1, TakeIs DEF MSG_END, MSG_ESC
    <3> HIDE DEF r
    <3> QED
      BY <3>2, <3>3 DEF Start
  <2>2. CASE pos # 0
    BY <1>1, <2>2, AfterEmpty DEF LoopStart, Start
  <2> QED
    BY <2>1, <2>2
<1>3. Marks(p.dst)
  <2>1. \A i \in DOMAIN p.dst : p.dst[i] = MSG_END
    BY DEF LoopStart
  <2> QED
    BY <2>1 DEF Marks
<1>4. p \in LoopRec /\ p.pos = pos
  <2>1. p \in LoopRec
    BY LoopTypes
  <2> QED
    BY <2>1 DEF LoopStart
<1> HIDE DEF p
<1>5. r.dst = d /\ r.esc = FALSE /\ r.fin = TRUE /\ r.ret = FALSE
  BY <1>2 DEF State
<1>6. r = State(r.dst, FALSE, r.fin, FALSE)
  BY <1>2, <1>5
<1> HIDE DEF r
<1>7. LoopInv(p, src, pos, d)
  <2>1. r.fin \in BOOLEAN
    BY <1>5
  <2>2. p.pos >= pos /\ p.pos <= Len(src) /\ ~(p.pos > pos)
    BY <1>4
  <2> QED
    BY <1>3, <1>4, <1>5, <1>6, <2>1, <2>2 DEF LoopInv, r
<1> QED
  BY <1>7 DEF p

\* The packet made from position pos, and what reassemble, that had received d,
\* makes of it.
PacketIs(u, src, pos, d) ==
    LET r == reassemble(u.dst, d, FALSE) IN
    /\ u.dst \in Seq(Byte) /\ u.dst # <<>> /\ u.pos \in pos + 1 .. Len(src) + 1
    /\ r.dst \in Seq(Byte) /\ r.esc = FALSE /\ r.fin \in BOOLEAN
    /\ u.pos = Len(src) + 1 => r.fin /\ (d = Upto(src, pos) => r.dst = Upto(src, Len(src)))
    /\ u.pos <= Len(src) => /\ d = Upto(src, pos) => r.dst = Upto(src, u.pos)
                            /\ r.fin => OnlyEscapes(u.dst)

\* The end of the loop: it has moved, or there was nothing to move over.
LEMMA LoopEnd ==
    ASSUME NEW src \in Seq(Byte), NEW dst_len \in Nat, dst_len > 2,
           NEW pos \in Nat, pos <= Len(src) + 1,
           NEW g \in [0 .. Len(src) -> LoopRec], IsLoop(g, src, dst_len, pos)
    PROVE  LET p == g[Len(src)] IN
           /\ pos >= Len(src) => p = LoopStart(pos)
           /\ pos < Len(src) => p.pos > pos
           /\ \A d \in Seq(Byte) : pos <= Len(src) => LoopInv(p, src, pos, d)
<1> DEFINE N == Len(src)
<1>1. N \in Nat
  OBVIOUS
<1> HIDE DEF N
<1>2. g[0] = LoopStart(pos) /\ \A n \in 1 .. N : g[n] = LoopStep(g[n - 1], src, dst_len)
  BY <1>1 DEF IsLoop, N
<1> DEFINE S == {n \in Nat : n <= N => /\ pos >= N => g[n] = LoopStart(pos)
                                       /\ pos < N /\ n > 0 => g[n].pos > pos
                                       /\ \A d \in Seq(Byte) : pos <= N => LoopInv(g[n], src, pos, d)}
<1>3. 0 \in S
  <2>1. \A d \in Seq(Byte) : pos <= N => LoopInv(LoopStart(pos), src, pos, d)
    BY LoopStarts DEF N
  <2> QED
    BY <1>1, <1>2, <2>1
<1>4. ASSUME NEW n \in Nat, n \in S PROVE n + 1 \in S
  <2>1. SUFFICES ASSUME n + 1 <= N
                 PROVE  /\ pos >= N => g[n + 1] = LoopStart(pos)
                        /\ pos < N => g[n + 1].pos > pos
                        /\ \A d \in Seq(Byte) : pos <= N => LoopInv(g[n + 1], src, pos, d)
    OBVIOUS
  <2>2. /\ pos >= N => g[n] = LoopStart(pos)
        /\ pos < N /\ n > 0 => g[n].pos > pos
        /\ \A d \in Seq(Byte) : pos <= N => LoopInv(g[n], src, pos, d)
    BY <1>1, <1>4, <2>1
  <2>3. g[n + 1] = LoopStep(g[n], src, dst_len) /\ g[n] \in LoopRec
    <3>1. n + 1 \in 1 .. N /\ n + 1 - 1 = n /\ n \in 0 .. N
      BY <1>1, <2>1
    <3>2. g[n + 1] = LoopStep(g[n], src, dst_len)
      BY <1>2, <3>1
    <3>3. g[n] \in LoopRec
      BY <3>1 DEF N
    <3> QED
      BY <3>2, <3>3
  <2>4. pos >= N => g[n + 1] = LoopStart(pos)
    <3>1. SUFFICES ASSUME pos >= N PROVE g[n + 1] = LoopStart(pos)
      OBVIOUS
    <3>2. g[n].pos = pos
      BY <2>2, <3>1 DEF LoopStart
    <3>3. ~(g[n].pos < Len(src))
      BY <1>1, <3>1, <3>2 DEF N
    <3> QED
      BY <2>2, <2>3, <3>1, <3>3 DEF LoopStep
  <2>5. pos < N => g[n + 1].pos > pos
    <3>1. SUFFICES ASSUME pos < N PROVE g[n + 1].pos > pos
      OBVIOUS
    <3>2. CASE n > 0
      <4>1. g[n].pos > pos /\ g[n].pos \in Nat
        BY <2>2, <2>3, <3>1, <3>2 DEF LoopRec
      <4>2. LoopStep(g[n], src, dst_len).pos \in {g[n].pos, g[n].pos + 1}
        BY DEF LoopStep
      <4> QED
        BY <2>3, <4>1, <4>2
    <3>3. CASE n = 0
      <4>1. g[n] = LoopStart(pos) /\ Len(LoopStart(pos).dst) <= 1 /\ LoopStart(pos).pos = pos
            /\ Len(LoopStart(pos).dst) \in Nat
        <5>1. LoopStart(pos) \in LoopRec /\ Len(LoopStart(pos).dst) <= 1
          BY LoopTypes
        <5>2. Len(LoopStart(pos).dst) \in Nat
          BY <5>1 DEF LoopRec
        <5> QED
          BY <1>2, <3>3, <5>1, <5>2 DEF LoopStart
      <4>2. Len(g[n].dst) < dst_len /\ g[n].pos < Len(src) /\ g[n].pos = pos
        BY <3>1, <4>1 DEF N
      <4>3. g[n + 1].pos = pos + 1
        BY <2>3, <4>2 DEF LoopStep
      <4> QED
        BY <4>3
    <3> QED
      BY <3>2, <3>3
  <2>6. ASSUME NEW d \in Seq(Byte), pos <= N PROVE LoopInv(g[n + 1], src, pos, d)
    <3>1. LoopInv(g[n], src, pos, d)
      BY <2>2, <2>6
    <3>2. LoopInv(LoopStep(g[n], src, dst_len), src, pos, d)
      BY <3>1, LoopKeeps
    <3> QED
      BY <2>3, <3>2
  <2> QED
    BY <2>4, <2>5, <2>6
<1> HIDE DEF S
<1>5. N \in S
  BY <1>1, <1>3, <1>4, Induction
<1>6. pos < N => N > 0
  BY <1>1
<1> QED
  BY <1>1, <1>5, <1>6 DEF S, N

\* packetize from a position within the message.
LEMMA Packet ==
    ASSUME NEW src \in Seq(Byte), NEW dst_len \in Nat, dst_len > 2,
           NEW pos \in Nat, pos <= Len(src), NEW d \in Seq(Byte)
    PROVE  PacketIs(packetize(src, dst_len, pos), src, pos, d)
<1>1. PICK g \in [0 .. Len(src) -> LoopRec] :
         IsLoop(g, src, dst_len, pos) /\ packetize(src, dst_len, pos) = PutEnd(g[Len(src)], src, dst_len)
  BY LoopIs
<1> DEFINE p == g[Len(src)]
           u == PutEnd(p, src, dst_len)
           r == After(p.dst, Start(d))
<1>2. /\ pos >= Len(src) => p = LoopStart(pos)
      /\ pos < Len(src) => p.pos > pos
      /\ LoopInv(p, src, pos, d)
  <2>1. pos <= Len(src) + 1
    OBVIOUS
  <2> QED
    BY <1>1, <2>1, LoopEnd
<1>3. /\ p.dst \in Seq(Byte) /\ p.pos \in Nat /\ p.pos >= pos /\ p.pos <= Len(src)
      /\ r = State(r.dst, FALSE, r.fin, FALSE) /\ r.dst \in Seq(Byte) /\ r.fin \in BOOLEAN
      /\ d = Upto(src, pos) => r.dst = Upto(src, p.pos)
      /\ r.fin => Marks(p.dst)
      /\ r.fin /\ p.pos > pos => Contains(p.dst, MSG_ESC)
      /\ p.pos > pos => p.dst # <<>>
  BY <1>2 DEF LoopInv, LoopRec
<1>4. Start(d) \in RState
  BY DEF Start, State, RState
<1> HIDE DEF p
<1>5. CASE Len(p.dst) < dst_len - 1 /\ p.pos = Len(src)
  <2>1. u = [dst |-> Append(p.dst, MSG_END), pos |-> p.pos + 1]
    BY <1>5 DEF PutEnd
  <2>2. u.dst = Append(p.dst, MSG_END) /\ u.pos = Len(src) + 1
    BY <1>5, <2>1
  <2>3. u.dst \in Seq(Byte) /\ u.dst # <<>> /\ MSG_END \in Byte
    <3>1. MSG_END \in Byte
      BY EscapesAre
    <3>2. \A s \in Seq(Byte), c \in Byte : Append(s, c) \in Seq(Byte) /\ Append(s, c) # <<>>
      OBVIOUS
    <3>3. Append(p.dst, MSG_END) \in Seq(Byte) /\ Append(p.dst, MSG_END) # <<>>
      BY <1>3, <3>1, <3>2
    <3> HIDE DEF u
    <3> QED
      BY <2>2, <3>1, <3>3
  <2>4. After(u.dst, Start(d)) = State(r.dst, FALSE, TRUE, ~r.fin)
    <3>1. After(Append(p.dst, MSG_END), Start(d)) = TakeByte(r, MSG_END)
      BY <1>3, <1>4, <2>3, AfterAppend
    <3> HIDE DEF r, u
    <3>2. TakeByte(State(r.dst, FALSE, r.fin, FALSE), MSG_END) = State(r.dst, FALSE, TRUE, ~r.fin)
      BY <1>3, <2>3, TakeIs DEF MSG_END, MSG_ESC
    <3> QED
      BY <1>3, <2>2, <3>1, <3>2
  <2> HIDE DEF u, r
  <2> DEFINE w == reassemble(u.dst, d, FALSE)
  <2>5. w.dst = r.dst /\ w.esc = FALSE /\ w.fin = TRUE
    <3>1. w = State(r.dst, FALSE, TRUE, ~r.fin)
      BY <2>4, ReassembleIs
    <3> HIDE DEF w
    <3> QED
      BY <3>1 DEF State
  <2> HIDE DEF w
  <2>6. u.pos \in pos + 1 .. Len(src) + 1 /\ ~(u.pos <= Len(src))
    BY <1>3, <1>5, <2>2
  <2>7. PacketIs(u, src, pos, d)
    BY <1>3, <1>5, <2>2, <2>3, <2>5, <2>6 DEF PacketIs, w
  <2> QED
    BY <1>1, <2>7 DEF u, p
<1>6. CASE ~(Len(p.dst) < dst_len - 1 /\ p.pos = Len(src))
  <2>1. u = p
    BY <1>6 DEF PutEnd
  <2>2. pos < Len(src)
    <3>1. SUFFICES ASSUME pos = Len(src) PROVE FALSE
      OBVIOUS
    <3>2. p = LoopStart(pos) /\ Len(LoopStart(pos).dst) <= 1 /\ LoopStart(pos).pos = pos
      BY <1>2, <3>1, LoopTypes DEF LoopStart
    <3>3. Len(p.dst) \in Nat
      BY <1>3
    <3> QED
      BY <1>6, <3>1, <3>2, <3>3
  <2>3. p.pos > pos
    BY <1>2, <2>2
  <2> DEFINE w == reassemble(p.dst, d, FALSE)
  <2>4. w.dst = r.dst /\ w.esc = FALSE /\ w.fin = r.fin
    <3>1. w = State(r.dst, FALSE, r.fin, FALSE)
      <4>1. w = r
        BY ReassembleIs
      <4> HIDE DEF w, r
      <4> QED
        BY <1>3, <4>1
    <3> HIDE DEF w, r
    <3> QED
      BY <3>1 DEF State
  <2> HIDE DEF w, r, u
  <2>5. p.pos \in pos + 1 .. Len(src) + 1 /\ p.pos # Len(src) + 1
    BY <1>3, <2>3
  <2>6. w.fin => OnlyEscapes(p.dst)
    BY <1>3, <2>3, <2>4 DEF OnlyEscapes, Marks
  <2>7. PacketIs(p, src, pos, d)
    BY <1>3, <2>3, <2>4, <2>5, <2>6 DEF PacketIs, w
  <2> QED
    BY <1>1, <2>1, <2>7 DEF u, p
<1> QED
  BY <1>5, <1>6

\* packetize behind the end of the message.
LEMMA PacketEnd ==
    ASSUME NEW src \in Seq(Byte), NEW dst_len \in Nat, dst_len > 2
    PROVE  packetize(src, dst_len, Len(src) + 1) = [dst |-> <<>>, pos |-> Len(src) + 1]
<1> DEFINE pos == Len(src) + 1
<1>1. pos \in Nat /\ pos >= Len(src) /\ pos <= Len(src) + 1 /\ pos # 0 /\ pos # Len(src)
  OBVIOUS
<1> HIDE DEF pos
<1>2. PICK g \in [0 .. Len(src) -> LoopRec] :
         IsLoop(g, src, dst_len, pos) /\ packetize(src, dst_len, pos) = PutEnd(g[Len(src)], src, dst_len)
  BY <1>1, LoopIs
<1>3. g[Len(src)] = LoopStart(pos)
  BY <1>1, <1>2, LoopEnd
<1>4. LoopStart(pos) = [dst |-> <<>>, pos |-> pos]
  BY <1>1 DEF LoopStart
<1>5. PutEnd(LoopStart(pos), src, dst_len) = LoopStart(pos)
  BY <1>1, <1>4 DEF PutEnd
<1> QED
  BY <1>2, <1>3, <1>4, <1>5 DEF pos

-----------------------------------------------------------------------------
(* All packets of a message *)

\* What packetize returns.
LEMMA PacketRec ==
    ASSUME NEW src \in Seq(Byte), NEW dst_len \in Nat, NEW pos \in Nat
    PROVE  packetize(src, dst_len, pos) \in LoopRec
<1>1. PICK g \in [0 .. Len(src) -> LoopRec] :
         IsLoop(g, src, dst_len, pos) /\ packetize(src, dst_len, pos) = PutEnd(g[Len(src)], src, dst_len)
  BY LoopIs
<1> DEFINE p == g[Len(src)]
<1>2. p \in LoopRec
  OBVIOUS
<1> HIDE DEF p
<1>3. Append(p.dst, MSG_END) \in Seq(Byte) /\ p.pos + 1 \in Nat
  <2>1. MSG_END \in Byte /\ p.dst \in Seq(Byte) /\ p.pos \in Nat
    BY <1>2, EscapesAre DEF LoopRec
  <2> QED
    BY <2>1
<1>4. PutEnd(p, src, dst_len) \in LoopRec
  BY <1>2, <1>3 DEF PutEnd, LoopRec
<1> QED
  BY <1>1, <1>4 DEF p

\* The calls of packetize.
IsCalls(f, src, dst_len) ==
    f = [n \in 0 .. Len(src) + 2 |->
           IF n = 0 THEN [dst |-> <<>>, pos |-> 0] ELSE packetize(src, dst_len, f[n - 1].pos)]

CallRec(src) == [dst : Seq(Byte), pos : 0 .. Len(src) + 1]

\* The calls of packetize are such a function, and Packets is made of it.
LEMMA CallsAre ==
    ASSUME NEW src \in Seq(Byte), NEW dst_len \in Nat, dst_len > 2
    PROVE  \E f \in [0 .. Len(src) + 2 -> CallRec(src)] :
             /\ f[0] = [dst |-> <<>>, pos |-> 0]
             /\ \A n \in 1 .. Len(src) + 2 : f[n] = packetize(src, dst_len, f[n - 1].pos)
             /\ Packets(src, dst_len) = [n \in {k \in 1 .. Len(src) + 2 : f[k].dst # <<>>} |-> f[n].dst]
<1> DEFINE N == Len(src) + 2
           A == CallRec(src)
           a == [dst |-> <<>>, pos |-> 0]
           s == [x \in (1 .. N) \X A |-> packetize(src, dst_len, x[2].pos)]
<1>1. N \in Nat /\ Len(src) \in Nat
  OBVIOUS
<1>2. a \in A
  <2>1. <<>> \in Seq(Byte) /\ 0 \in 0 .. Len(src) + 1
    BY <1>1
  <2> QED
    BY <2>1 DEF CallRec
<1>3. ASSUME NEW x \in A PROVE packetize(src, dst_len, x.pos) \in A
  <2>1. x.pos \in 0 .. Len(src) + 1
    BY DEF CallRec
  <2> DEFINE u == packetize(src, dst_len, x.pos)
  <2>2. u \in LoopRec
    BY <2>1, PacketRec
  <2>3. u.pos \in 0 .. Len(src) + 1
    <3>1. CASE x.pos = Len(src) + 1
      <4>1. u = [dst |-> <<>>, pos |-> Len(src) + 1]
        BY <3>1, PacketEnd
      <4> QED
        BY <1>1, <4>1
    <3>2. CASE x.pos # Len(src) + 1
      <4>1. x.pos \in Nat /\ x.pos <= Len(src) /\ src \in Seq(Byte)
        BY <1>1, <2>1, <3>2
      <4>2. PacketIs(u, src, x.pos, src)
        BY <4>1, Packet
      <4>3. u.pos \in x.pos + 1 .. Len(src) + 1
        BY <4>2 DEF PacketIs
      <4> HIDE DEF u
      <4> QED
        BY <1>1, <2>1, <4>3
    <3> QED
      BY <3>1, <3>2
  <2> HIDE DEF u
  <2>4. u \in A
    BY <2>2, <2>3 DEF LoopRec, CallRec
  <2> QED
    BY <2>4 DEF u
<1>4. s \in [(1 .. N) \X A -> A]
  BY <1>3
<1> HIDE DEF N, A, a, s
<1>5. PICK h : IsIteration(h, N, A, a, s)
  BY <1>1, <1>2, <1>4, Iterates
<1>6. h \in [0 .. N -> A] /\ h[0] = a
  BY <1>5 DEF IsIteration
<1>7. ASSUME NEW n \in 1 .. N PROVE h[n] = packetize(src, dst_len, h[n - 1].pos)
  <2>1. h[n - 1] \in A
    BY <1>1, <1>6
  <2> QED
    BY <1>5, <2>1 DEF IsIteration, s
<1>8. IsCalls(h, src, dst_len)
  BY <1>1, <1>6, <1>7 DEF IsCalls, N, a
<1> DEFINE f == CHOOSE g : IsCalls(g, src, dst_len)
<1>9. IsCalls(f, src, dst_len)
  BY <1>8
<1>10. Packets(src, dst_len) = [n \in {k \in 1 .. Len(src) + 2 : f[k].dst # <<>>} |-> f[n].dst]
  BY DEF Packets, IsCalls
<1> HIDE DEF f
<1>11. \A n \in Nat : n <= N => f[n] = h[n]
  <2> DEFINE S == {n \in Nat : n <= N => f[n] = h[n]}
  <2>1. 0 \in S
    BY <1>1, <1>8, <1>9 DEF IsCalls, N
  <2>2. ASSUME NEW n \in Nat, n \in S PROVE n + 1 \in S
    <3>1. SUFFICES ASSUME n + 1 <= N PROVE f[n + 1] = h[n + 1]
      OBVIOUS
    <3>2. n + 1 \in 0 .. N /\ n + 1 # 0 /\ n + 1 - 1 = n
      BY <1>1, <3>1
    <3>3. f[n + 1] = packetize(src, dst_len, f[n].pos) /\ h[n + 1] = packetize(src, dst_len, h[n].pos)
      BY <1>8, <1>9, <3>2 DEF IsCalls, N
    <3>4. f[n] = h[n]
      BY <1>1, <2>2, <3>1
    <3> QED
      BY <3>3, <3>4
  <2> HIDE DEF S
  <2>3. \A n \in Nat : n \in S
    BY <2>1, <2>2, Induction
  <2> QED
    BY <2>3 DEF S
<1>12. \A k \in 1 .. Len(src) + 2 : f[k] = h[k]
  BY <1>1, <1>11 DEF N
<1>13. Packets(src, dst_len) = [n \in {k \in 1 .. Len(src) + 2 : h[k].dst # <<>>} |-> h[n].dst]
  <2>1. {k \in 1 .. Len(src) + 2 : f[k].dst # <<>>} = {k \in 1 .. Len(src) + 2 : h[k].dst # <<>>}
    BY <1>12
  <2> QED
    BY <1>10, <1>12, <2>1
<1> QED
  BY <1>6, <1>7, <1>13 DEF N, A, a

\* part[n] is what has been received of m after n of its packets ps; whatever was
\* there before, only the last packet ends a message.
IsParts(m, ps, part) ==
    /\ ps \in Seq(Seq(Byte)) /\ Len(ps) >= 1
    /\ part \in [0 .. Len(ps) -> Seq(Byte)] /\ part[0] = <<>> /\ part[Len(ps)] = m
    /\ \A n \in 1 .. Len(ps), d \in Seq(Byte) :
         LET r == reassemble(ps[n], d, FALSE) IN
         /\ r.dst \in Seq(Byte) /\ r.esc = FALSE /\ r.fin = (n = Len(ps))
         /\ d = part[n - 1] => r.dst = part[n]

\* The calls until packetize returns 0 make the message.
LEMMA CallsEnd ==
    ASSUME NEW src \in Seq(Byte), NEW dst_len \in Nat, dst_len > 2,
           NEW f \in [0 .. Len(src) + 2 -> CallRec(src)],
           f[0] = [dst |-> <<>>, pos |-> 0],
           \A n \in 1 .. Len(src) + 2 : f[n] = packetize(src, dst_len, f[n - 1].pos)
    PROVE  \E l \in 1 .. Len(src) + 1 :
             /\ {k \in 1 .. Len(src) + 2 : f[k].dst # <<>>} = 1 .. l
             /\ f[l].pos = Len(src) + 1
             /\ \A k \in 0 .. l - 1 : f[k].pos \in 0 .. Len(src)
             /\ \A k \in 1 .. l, d \in Seq(Byte) : PacketIs(f[k], src, f[k - 1].pos, d)
<1> DEFINE N == Len(src)
<1>1. N \in Nat
  OBVIOUS
<1> HIDE DEF N
<1>2. \A n \in 0 .. N + 2 : f[n].pos \in 0 .. N + 1
  BY DEF CallRec, N
<1>3. ASSUME NEW n \in 0 .. N + 1, f[n].pos # N + 1
      PROVE  \A d \in Seq(Byte) : PacketIs(f[n + 1], src, f[n].pos, d)
  <2>1. n + 1 \in 1 .. N + 2 /\ n + 1 - 1 = n /\ n \in 0 .. N + 2
    BY <1>1
  <2>2. f[n + 1] = packetize(src, dst_len, f[n].pos)
    BY <2>1 DEF N
  <2>3. f[n].pos \in Nat /\ f[n].pos <= Len(src)
    BY <1>1, <1>2, <1>3, <2>1 DEF N
  <2> QED
    BY <2>2, <2>3, Packet
<1>4. ASSUME NEW n \in 0 .. N + 1, f[n].pos = N + 1 PROVE f[n + 1].dst = <<>> /\ f[n + 1].pos = N + 1
  <2>1. n + 1 \in 1 .. N + 2 /\ n + 1 - 1 = n
    BY <1>1
  <2>2. f[n + 1] = packetize(src, dst_len, Len(src) + 1)
    BY <1>4, <2>1 DEF N
  <2> QED
    BY <2>2, PacketEnd DEF N
<1>5. \A n \in Nat : n <= N + 1 => f[n].pos >= n
  <2> DEFINE S == {n \in Nat : n <= N + 1 => f[n].pos >= n}
  <2>1. 0 \in S
    BY <1>1, <1>2
  <2>2. ASSUME NEW n \in Nat, n \in S PROVE n + 1 \in S
    <3>1. SUFFICES ASSUME n + 1 <= N + 1 PROVE f[n + 1].pos >= n + 1
      OBVIOUS
    <3>2. n \in 0 .. N + 1 /\ f[n].pos >= n /\ f[n].pos \in Nat /\ f[n + 1].pos \in Nat
      BY <1>1, <1>2, <2>2, <3>1
    <3>3. CASE f[n].pos = N + 1
      BY <1>1, <1>4, <3>1, <3>2, <3>3
    <3>4. CASE f[n].pos # N + 1
      <4>1. PacketIs(f[n + 1], src, f[n].pos, src)
        BY <1>3, <3>2, <3>4
      <4>2. f[n + 1].pos \in f[n].pos + 1 .. Len(src) + 1
        BY <4>1 DEF PacketIs
      <4> QED
        BY <1>1, <3>2, <4>2 DEF N
    <3> QED
      BY <3>3, <3>4
  <2> HIDE DEF S
  <2>3. \A n \in Nat : n \in S
    BY <2>1, <2>2, Induction
  <2> QED
    BY <2>3 DEF S
<1> DEFINE T == {n \in Nat : n <= N + 1 /\ f[n].pos = N + 1}
<1>6. T \subseteq Nat /\ T # {}
  <2>1. f[N + 1].pos = N + 1
    BY <1>1, <1>2, <1>5
  <2> QED
    BY <1>1, <2>1
<1>7. PICK l \in T : \A y \in T : l <= y
  <2> HIDE DEF T
  <2> QED
    BY <1>6, Least
<1>8. l \in 1 .. N + 1 /\ f[l].pos = N + 1 /\ l \in Nat
  <2>1. l # 0
    BY <1>1, <1>7
  <2> QED
    BY <1>1, <1>7, <2>1
<1>9. ASSUME NEW k \in 0 .. l - 1 PROVE f[k].pos \in 0 .. N
  <2>1. k \notin T /\ k \in Nat /\ k <= N + 1
    BY <1>1, <1>7, <1>8
  <2>2. k \in 0 .. N + 2
    BY <1>1, <2>1
  <2> QED
    BY <1>1, <1>2, <2>1, <2>2
<1> HIDE DEF T
<1>10. ASSUME NEW k \in 1 .. l PROVE \A d \in Seq(Byte) : PacketIs(f[k], src, f[k - 1].pos, d)
  <2>1. k - 1 \in 0 .. l - 1 /\ k - 1 \in 0 .. N + 1 /\ k - 1 + 1 = k
    BY <1>1, <1>8
  <2>2. f[k - 1].pos # N + 1
    BY <1>1, <1>9, <2>1
  <2>3. \A d \in Seq(Byte) : PacketIs(f[k - 1 + 1], src, f[k - 1].pos, d)
    BY <1>3, <2>1, <2>2
  <2> QED
    BY <2>1, <2>3
<1>11. \A k \in Nat : k >= l /\ k <= N + 2 => f[k].pos = N + 1
  <2> DEFINE S == {k \in Nat : k >= l /\ k <= N + 2 => f[k].pos = N + 1}
  <2>1. 0 \in S
    BY <1>8
  <2>2. ASSUME NEW k \in Nat, k \in S PROVE k + 1 \in S
    <3>1. SUFFICES ASSUME k + 1 >= l, k + 1 <= N + 2 PROVE f[k + 1].pos = N + 1
      OBVIOUS
    <3>2. CASE k + 1 = l
      BY <1>8, <3>2
    <3>3. CASE k + 1 # l
      <4>1. k \in 0 .. N + 1 /\ k >= l /\ k <= N + 2
        BY <1>1, <1>8, <3>1, <3>3
      <4>2. f[k].pos = N + 1
        BY <2>2, <4>1
      <4> QED
        BY <1>4, <4>1, <4>2
    <3> QED
      BY <3>2, <3>3
  <2> HIDE DEF S
  <2>3. \A k \in Nat : k \in S
    BY <2>1, <2>2, Induction
  <2> QED
    BY <2>3 DEF S
<1>12. {k \in 1 .. N + 2 : f[k].dst # <<>>} = 1 .. l
  <2>1. ASSUME NEW k \in 1 .. N + 2, k <= l PROVE f[k].dst # <<>>
    <3>1. k \in 1 .. l /\ src \in Seq(Byte)
      BY <1>8, <2>1
    <3>2. PacketIs(f[k], src, f[k - 1].pos, src)
      BY <1>10, <3>1
    <3> QED
      BY <3>2 DEF PacketIs
  <2>2. ASSUME NEW k \in 1 .. N + 2, k > l PROVE f[k].dst = <<>>
    <3>1. k - 1 \in Nat /\ k - 1 >= l /\ k - 1 <= N + 2 /\ k - 1 \in 0 .. N + 1 /\ k - 1 + 1 = k
      BY <1>1, <1>8, <2>2
    <3>2. f[k - 1].pos = N + 1
      BY <1>11, <3>1
    <3>3. f[k - 1 + 1].dst = <<>>
      BY <1>4, <3>1, <3>2
    <3> QED
      BY <3>1, <3>3
  <2> QED
    BY <1>1, <1>8, <2>1, <2>2
<1> QED
  BY <1>8, <1>9, <1>10, <1>12 DEF N

\* What packetize makes of a message, reassemble makes into the message again, with the
\* last packet and not before: for every message that is carried and every packet
\* length greater than two.
THEOREM PacketsCarry ==
    ASSUME NEW m \in Seq(Byte), NEW dst_len \in Nat, dst_len > 2, Carried(m, dst_len)
    PROVE  \E part : IsParts(m, Packets(m, dst_len), part)
<1> DEFINE ps == Packets(m, dst_len)
           N == Len(m)
<1>1. PICK f \in [0 .. Len(m) + 2 -> CallRec(m)] :
         /\ f[0] = [dst |-> <<>>, pos |-> 0]
         /\ \A n \in 1 .. Len(m) + 2 : f[n] = packetize(m, dst_len, f[n - 1].pos)
         /\ ps = [n \in {k \in 1 .. Len(m) + 2 : f[k].dst # <<>>} |-> f[n].dst]
  BY CallsAre
<1>2. PICK l \in 1 .. Len(m) + 1 :
         /\ {k \in 1 .. Len(m) + 2 : f[k].dst # <<>>} = 1 .. l
         /\ f[l].pos = Len(m) + 1
         /\ \A k \in 0 .. l - 1 : f[k].pos \in 0 .. Len(m)
         /\ \A k \in 1 .. l, d \in Seq(Byte) : PacketIs(f[k], m, f[k - 1].pos, d)
  BY <1>1, CallsEnd
<1>3. \A i \in DOMAIN ps : ~OnlyEscapes(ps[i])
  BY DEF Carried
<1>4. N \in Nat /\ l \in Nat /\ l >= 1
  BY <1>2
<1> HIDE DEF ps, N
<1>5. ps = [n \in 1 .. l |-> f[n].dst]
  BY <1>1, <1>2
<1>6. \A n \in 1 .. l : f[n].dst \in Seq(Byte)
  <2>1. \A n \in 1 .. l : n \in 0 .. Len(m) + 2
    BY <1>2
  <2> QED
    BY <2>1 DEF CallRec
<1>7. ps \in Seq(Seq(Byte)) /\ Len(ps) = l /\ \A n \in 1 .. l : ps[n] = f[n].dst
  <2>1. ps \in Seq(Seq(Byte)) /\ Len(ps) = l
    BY <1>4, <1>5, <1>6
  <2> QED
    BY <1>5, <2>1
<1> DEFINE part == [n \in 0 .. l |-> IF n = l THEN m ELSE Upto(m, f[n].pos)]
<1>8. \A k \in 0 .. N : Upto(m, k) \in Seq(Byte)
  BY <1>4 DEF Upto, N
<1>9. Upto(m, 0) = <<>> /\ Upto(m, N) = m
  BY DEF Upto, N
<1>10. part \in [0 .. l -> Seq(Byte)] /\ part[l] = m /\ part[0] = <<>>
  <2>1. part[l] = m
    BY <1>4
  <2>2. part[0] = <<>>
    BY <1>1, <1>4, <1>9
  <2>3. ASSUME NEW n \in 0 .. l PROVE part[n] \in Seq(Byte)
    <3>1. CASE n = l
      BY <3>1
    <3>2. CASE n # l
      <4>1. n \in 0 .. l - 1
        BY <1>4, <3>2
      <4>2. f[n].pos \in 0 .. N
        BY <1>2, <4>1 DEF N
      <4> QED
        BY <1>8, <3>2, <4>2
    <3> QED
      BY <3>1, <3>2
  <2> QED
    BY <2>1, <2>2, <2>3
<1>11. \A n \in 1 .. l : /\ part[n - 1] = Upto(m, f[n - 1].pos)
                         /\ n # l => part[n] = Upto(m, f[n].pos)
  BY <1>4
<1> HIDE DEF part
<1>12. ASSUME NEW n \in 1 .. l, NEW d \in Seq(Byte)
       PROVE  LET r == reassemble(ps[n], d, FALSE) IN
              /\ r.dst \in Seq(Byte) /\ r.esc = FALSE /\ r.fin = (n = l)
              /\ d = part[n - 1] => r.dst = part[n]
  <2> DEFINE r == reassemble(f[n].dst, d, FALSE)
  <2>1. PacketIs(f[n], m, f[n - 1].pos, d)
    BY <1>2
  <2>2. /\ r.dst \in Seq(Byte) /\ r.esc = FALSE /\ r.fin \in BOOLEAN
        /\ f[n].pos = N + 1 => r.fin /\ (d = Upto(m, f[n - 1].pos) => r.dst = Upto(m, N))
        /\ f[n].pos <= N => /\ d = Upto(m, f[n - 1].pos) => r.dst = Upto(m, f[n].pos)
                            /\ r.fin => OnlyEscapes(f[n].dst)
    BY <2>1 DEF PacketIs, N
  <2> HIDE DEF r
  <2>3. CASE n = l
    <3>1. f[n].pos = N + 1
      BY <1>2, <2>3 DEF N
    <3>2. r.fin /\ (d = part[n - 1] => r.dst = part[n])
      BY <1>9, <1>10, <1>11, <2>2, <2>3, <3>1
    <3>3. r.fin = (n = l)
      BY <2>2, <2>3, <3>2
    <3> QED
      BY <1>7, <2>2, <3>2, <3>3 DEF r
  <2>4. CASE n # l
    <3>1. n \in 0 .. l - 1 /\ n \in DOMAIN ps
      <4>1. DOMAIN ps = 1 .. l
        BY <1>5
      <4> QED
        BY <1>4, <2>4, <4>1
    <3>2. f[n].pos \in 0 .. N
      BY <1>2, <3>1 DEF N
    <3>3. f[n].pos <= N /\ ~OnlyEscapes(f[n].dst)
      <4>1. f[n].pos <= N
        BY <1>4, <3>2
      <4>2. ~OnlyEscapes(ps[n]) /\ ps[n] = f[n].dst
        BY <1>3, <1>7, <3>1
      <4> QED
        BY <4>1, <4>2
    <3>4. ~r.fin
      BY <2>2, <3>3
    <3>5. r.fin = (n = l)
      BY <2>2, <2>4, <3>4
    <3>6. d = part[n - 1] => r.dst = part[n]
      BY <1>11, <2>2, <2>4, <3>3
    <3> QED
      BY <1>7, <2>2, <3>5, <3>6 DEF r
  <2> QED
    BY <2>3, <2>4
<1>13. IsParts(m, ps, part)
  BY <1>4, <1>7, <1>10, <1>12 DEF IsParts
<1> QED
  BY <1>13 DEF ps

\* A message without a byte that is escaped is carried: its packets hold no escape
\* and are no longer than they may be.
Plain(p, dst_len) == Len(p) <= dst_len /\ \A i \in DOMAIN p : p[i] # MSG_ESC

\* A byte more that is not escaped.
LEMMA PlainAppend ==
    ASSUME NEW dst_len \in Nat, NEW p \in Seq(Byte), Plain(p, dst_len), Len(p) < dst_len,
           NEW c \in Byte, c # MSG_ESC
    PROVE  Plain(Append(p, c), dst_len)
<1>1. /\ Len(Append(p, c)) = Len(p) + 1 /\ Len(p) \in Nat /\ DOMAIN Append(p, c) = 1 .. Len(p) + 1
      /\ DOMAIN p = 1 .. Len(p)
      /\ \A i \in 1 .. Len(p) : Append(p, c)[i] = p[i]
      /\ Append(p, c)[Len(p) + 1] = c
  OBVIOUS
<1>2. ASSUME NEW i \in 1 .. Len(p) + 1 PROVE Append(p, c)[i] # MSG_ESC
  <2>1. CASE i \in 1 .. Len(p)
    BY <1>1, <2>1 DEF Plain
  <2>2. CASE i = Len(p) + 1
    BY <1>1, <2>2
  <2> QED
    BY <1>1, <2>1, <2>2
<1>3. Len(Append(p, c)) <= dst_len
  BY <1>1
<1> DEFINE q == Append(p, c)
<1>4. Len(q) <= dst_len /\ DOMAIN q = 1 .. Len(p) + 1 /\ \A i \in 1 .. Len(p) + 1 : q[i] # MSG_ESC
  BY <1>1, <1>2, <1>3
<1> HIDE DEF q
<1>5. Plain(q, dst_len)
  BY <1>4 DEF Plain
<1> QED
  BY <1>5 DEF q

\* A packet of a message without escaped bytes.
LEMMA PlainPacket ==
    ASSUME NEW src \in Seq(Byte), NEW dst_len \in Nat, dst_len > 2, NEW pos \in Nat,
           \A i \in DOMAIN src : src[i] \notin Escaped
    PROVE  Plain(packetize(src, dst_len, pos).dst, dst_len)
<1>1. PICK g \in [0 .. Len(src) -> LoopRec] :
         IsLoop(g, src, dst_len, pos) /\ packetize(src, dst_len, pos) = PutEnd(g[Len(src)], src, dst_len)
  BY LoopIs
<1> DEFINE N == Len(src)
<1>2. N \in Nat
  OBVIOUS
<1> HIDE DEF N
<1>3. g[0] = LoopStart(pos) /\ \A n \in 1 .. N : g[n] = LoopStep(g[n - 1], src, dst_len)
  BY <1>1, <1>2 DEF IsLoop, N
<1>4. Plain(LoopStart(pos).dst, dst_len)
  <2> DEFINE p == LoopStart(pos).dst
  <2>1. p = <<>> \/ p = <<MSG_END>>
    BY DEF LoopStart
  <2> HIDE DEF p
  <2>2. Plain(p, dst_len)
    <3>1. CASE p = <<>>
      BY <3>1 DEF Plain
    <3>2. CASE p = <<MSG_END>>
      BY <3>2, EscapesAre DEF Plain
    <3> QED
      BY <2>1, <3>1, <3>2
  <2> QED
    BY <2>2 DEF p
<1>5. ASSUME NEW p \in LoopRec, Plain(p.dst, dst_len) PROVE Plain(LoopStep(p, src, dst_len).dst, dst_len)
  <2>1. CASE ~(Len(p.dst) < dst_len /\ p.pos < Len(src))
    BY <1>5, <2>1 DEF LoopStep
  <2>2. CASE Len(p.dst) < dst_len /\ p.pos < Len(src)
    <3> DEFINE c == src[p.pos + 1]
    <3>1. p.dst \in Seq(Byte) /\ p.pos \in Nat
      BY DEF LoopRec
    <3>2. c \in Byte /\ c \notin Escaped
      <4>1. p.pos + 1 \in DOMAIN src
        BY <2>2, <3>1
      <4> QED
        BY <4>1
    <3>3. LoopStep(p, src, dst_len).dst = p.dst \o Encoded(c)
      BY <2>2 DEF LoopStep
    <3> HIDE DEF c
    <3>4. Encoded(c) = <<c>> /\ c # MSG_ESC
      BY <3>2, EscapesAre DEF Escaped
    <3>5. p.dst \o <<c>> = Append(p.dst, c)
      BY <3>1, <3>2, TwoMore
    <3>6. Plain(Append(p.dst, c), dst_len)
      BY <1>5, <2>2, <3>1, <3>2, <3>4, PlainAppend
    <3> QED
      BY <3>3, <3>4, <3>5, <3>6
  <2> QED
    BY <2>1, <2>2
<1>6. Plain(g[N].dst, dst_len)
  <2> DEFINE S == {n \in Nat : n <= N => Plain(g[n].dst, dst_len)}
  <2>1. 0 \in S
    BY <1>3, <1>4
  <2>2. ASSUME NEW n \in Nat, n \in S PROVE n + 1 \in S
    <3>1. SUFFICES ASSUME n + 1 <= N PROVE Plain(g[n + 1].dst, dst_len)
      OBVIOUS
    <3>2. n + 1 \in 1 .. N /\ n + 1 - 1 = n /\ n \in 0 .. N /\ n <= N
      BY <1>2, <3>1
    <3>3. g[n + 1] = LoopStep(g[n], src, dst_len) /\ g[n] \in LoopRec /\ Plain(g[n].dst, dst_len)
      <4>1. g[n] \in LoopRec
        BY <3>2 DEF N
      <4>2. g[n + 1] = LoopStep(g[n], src, dst_len)
        BY <1>3, <3>2
      <4> QED
        BY <2>2, <3>2, <4>1, <4>2
    <3>4. Plain(LoopStep(g[n], src, dst_len).dst, dst_len)
      BY <1>5, <3>3
    <3> QED
      BY <3>3, <3>4
  <2> HIDE DEF S
  <2>3. \A n \in Nat : n \in S
    BY <2>1, <2>2, Induction
  <2> QED
    BY <1>2, <2>3 DEF S
<1> DEFINE p == g[Len(src)]
<1>7. p \in LoopRec /\ Plain(p.dst, dst_len)
  BY <1>2, <1>6 DEF N
<1> HIDE DEF p
<1>8. Plain(PutEnd(p, src, dst_len).dst, dst_len)
  <2>1. CASE ~(Len(p.dst) < dst_len - 1 /\ p.pos = Len(src))
    BY <1>7, <2>1 DEF PutEnd
  <2>2. CASE Len(p.dst) < dst_len - 1 /\ p.pos = Len(src)
    <3>1. p.dst \in Seq(Byte)
      BY <1>7 DEF LoopRec
    <3>2. Len(p.dst) \in Nat
      BY <3>1
    <3>3. Len(p.dst) < dst_len /\ MSG_END \in Byte /\ MSG_END # MSG_ESC
      BY <2>2, <3>2, EscapesAre
    <3>4. Plain(Append(p.dst, MSG_END), dst_len)
      BY <1>7, <3>1, <3>3, PlainAppend
    <3> QED
      BY <2>2, <3>4 DEF PutEnd
  <2> QED
    BY <2>1, <2>2
<1> QED
  BY <1>1, <1>8 DEF p

\* A message without escaped bytes is carried.
LEMMA PlainCarried ==
    ASSUME NEW src \in Seq(Byte), NEW dst_len \in Nat, dst_len > 2,
           \A i \in DOMAIN src : src[i] \notin Escaped
    PROVE  Carried(src, dst_len)
<1> DEFINE ps == Packets(src, dst_len)
<1>1. PICK f \in [0 .. Len(src) + 2 -> CallRec(src)] :
         /\ f[0] = [dst |-> <<>>, pos |-> 0]
         /\ \A n \in 1 .. Len(src) + 2 : f[n] = packetize(src, dst_len, f[n - 1].pos)
         /\ ps = [n \in {k \in 1 .. Len(src) + 2 : f[k].dst # <<>>} |-> f[n].dst]
  BY CallsAre
<1> HIDE DEF ps
<1>2. ASSUME NEW i \in DOMAIN ps PROVE Len(ps[i]) <= dst_len /\ ~OnlyEscapes(ps[i])
  <2>1. i \in 1 .. Len(src) + 2 /\ ps[i] = f[i].dst
    BY <1>1
  <2>2. i - 1 \in 0 .. Len(src) + 2
    BY <2>1
  <2>3. f[i - 1].pos \in Nat
    BY <2>2 DEF CallRec
  <2>4. Plain(packetize(src, dst_len, f[i - 1].pos).dst, dst_len)
    BY <2>3, PlainPacket
  <2>5. Plain(ps[i], dst_len)
    BY <1>1, <2>1, <2>4
  <2>6. ps[i] \in Seq(Byte)
    <3>1. i \in 0 .. Len(src) + 2
      BY <2>1
    <3> QED
      BY <2>1, <3>1 DEF CallRec
  <2>7. DOMAIN ps[i] = 1 .. Len(ps[i])
    BY <2>6
  <2> QED
    BY <2>5, <2>7 DEF Plain, OnlyEscapes, Contains
<1> QED
  BY <1>2 DEF Carried, ps

-----------------------------------------------------------------------------
(* The phone *)

\* What the phone and the node send each other, and what has been received of it
\* after some of its packets.
Sendable  == ToSet(BtMsgs) \cup {ReportData, <<"e">>}
PartOf(m) == CHOOSE part : IsParts(m, PacketsOf[m], part)

\* All of it is carried.
LEMMA Parts ==
    ASSUME NEW m \in Sendable
    PROVE  /\ m \in Seq(Byte) /\ IsParts(m, PacketsOf[m], PartOf(m))
           /\ \A n \in 1 .. Len(PacketsOf[m]) : Len(PacketsOf[m][n]) <= MTU
<1>1. MTU \in Nat /\ MTU > 2 /\ BtMsgs \in Seq(Seq(STRING))
      /\ \A i \in DOMAIN BtMsgs : Carried(BtMsgs[i], MTU)
  BY BtAssumption DEF BtAssumption
<1>2. m \in Seq(Byte) /\ Carried(m, MTU)
  <2>1. CASE m \in ToSet(BtMsgs)
    <3>1. PICK i \in DOMAIN BtMsgs : m = BtMsgs[i]
      BY <2>1 DEF ToSet
    <3>2. m \in Seq(STRING)
      BY <1>1, <3>1
    <3>3. STRING \subseteq Byte
      BY DEF Byte
    <3>5. ASSUME NEW S, S \subseteq Byte, m \in Seq(S) PROVE m \in Seq(Byte)
      <4>1. /\ m = [n \in 1 .. Len(m) |-> m[n]] /\ Len(m) \in Nat
            /\ \A n \in 1 .. Len(m) : m[n] \in Byte
        BY <3>5
      <4> QED
        BY <4>1
    <3>4. m \in Seq(Byte)
      BY <3>2, <3>3, <3>5
    <3> QED
      BY <1>1, <3>1, <3>4
  <2>2. ASSUME NEW c \in {"r", "e"}, m = <<c>> PROVE m \in Seq(Byte) /\ Carried(m, MTU)
    <3>1. c \in Byte /\ c \notin Escaped
      BY DEF Byte, Escaped, MSG_END, MSG_SKIP, MSG_ESC
    <3>2. <<c>> \in Seq(Byte) /\ \A i \in DOMAIN <<c>> : <<c>>[i] = c
      BY <3>1
    <3>3. Carried(<<c>>, MTU)
      BY <1>1, <3>1, <3>2, PlainCarried
    <3> QED
      BY <2>2, <3>2, <3>3
  <2> QED
    BY <2>1, <2>2 DEF Sendable, ReportData
<1>3. PacketsOf[m] = Packets(m, MTU)
  BY DEF PacketsOf, Sendable
<1>4. IsParts(m, PacketsOf[m], PartOf(m))
  <2>1. \E part : IsParts(m, PacketsOf[m], part)
    BY <1>1, <1>2, <1>3, PacketsCarry
  <2> QED
    BY <2>1 DEF PartOf
<1>5. \A n \in 1 .. Len(PacketsOf[m]) : Len(PacketsOf[m][n]) <= MTU
  <2>1. DOMAIN PacketsOf[m] = 1 .. Len(PacketsOf[m])
    BY <1>4 DEF IsParts
  <2> QED
    BY <1>2, <1>3, <2>1 DEF Carried
<1> QED
  BY <1>2, <1>4, <1>5

BleState == [conn : BOOLEAN, notify : BOOLEAN, adv : BOOLEAN, rx : Seq(Byte), esc : BOOLEAN,
             held : BOOLEAN, discard : BOOLEAN, m : Nat, k : Nat, in : Seq(Byte),
             inEsc : BOOLEAN, got : Seq(Seq(Byte)), heard : SUBSET Seq(Byte), torn : BOOLEAN,
             big : Nat, drops : Nat]

\* A request waits in rx_buf for being processed.
RequestWaits == Contains(wq, "btproc") \/ (cur.work = "btproc" /\ cur.pc = "fill")

\* What rx_buf should hold of the request that is being received.
Received(b) == IF b.m <= Len(BtMsgs) THEN PartOf(BtMsgs[b.m])[b.k - 1] ELSE <<>>

\* It does, unless the buffer is in use, or the request will be discarded, or began
\* before the connection; while the buffer is in use nothing arrives that is not
\* discarded.
RxInv(b) ==
    /\ ~b.esc /\ b.m \in 1 .. Len(BtMsgs) + 1
    /\ b.m <= Len(BtMsgs) => b.k \in 1 .. Len(PacketsOf[BtMsgs[b.m]])
    /\ b.m > Len(BtMsgs) => b.k = 1
    /\ b.held /\ ~b.discard => b.k = 1
    /\ ~b.discard /\ ~b.held /\ ~b.torn => b.rx = Received(b)

\* What has been processed are requests that were sent one after the other before
\* the next one, and before the one that waits.
GotInv(b, waits) ==
    \E x \in [1 .. Len(b.got) -> DOMAIN BtMsgs] :
        /\ \A i, j \in 1 .. Len(b.got) : i < j => x[i] < x[j]
        /\ \A i \in 1 .. Len(b.got) : b.got[i] = BtMsgs[x[i]] /\ x[i] < b.m
        /\ waits /\ ~b.torn => \E h \in DOMAIN BtMsgs : /\ h < b.m /\ b.rx = BtMsgs[h]
                                                        /\ \A i \in 1 .. Len(b.got) : x[i] < h

\* rx_buf is with the work item exactly once: queued, or running.
RequestInv ==
    /\ Once("btproc", wq) /\ (Contains(wq, "btproc") => ble.held /\ cur.work # "btproc")
    /\ cur.work = "btproc" => ble.held
    /\ RxInv(ble) /\ GotInv(ble, RequestWaits)

\* What a job of the interface sends.
Sending(job) == IF job[1] = "btrep" THEN ReportData
                ELSE IF Contains(BtMsgs, job[2]) THEN job[2] ELSE <<"e">>
JobsInv == /\ cur.work = "btproc" => cur.job[1] = "bt"
           /\ cur.work = "btrep" => cur.job[1] = "btrep"

\* Advertising waits for the work queue, so that nobody is connected anew while the
\* rest of a message is sent to nobody; the phone has received the packets that
\* were sent.
AnswerInv ==
    /\ Once("btadv", wq) /\ (Contains(wq, "btadv") => ~ble.conn /\ ~ble.adv)
    /\ ble.conn => ~ble.adv
    /\ ble.notify => ble.conn
    /\ JobsInv
    /\ cur.pc # "packet" /\ ble.conn => ble.in = <<>> /\ ~ble.inEsc
    /\ cur.pc = "packet" =>
         LET m == Sending(cur.job)
             l == Len(PacketsOf[m])
         IN  /\ cur.work \in {"btproc", "btrep"} /\ cur.i \in 0 .. l
             /\ \/ ~ble.conn /\ ~ble.adv
                \/ /\ ble.conn /\ ble.notify /\ ~ble.inEsc
                   /\ ble.in = IF cur.i = l THEN <<>> ELSE PartOf(m)[cur.i]
    /\ ble.heard \subseteq Sendable

Phone    == QueueShape /\ ble \in BleState /\ RequestInv /\ AnswerInv
PhoneInv == ~On("hard") => Phone

-----------------------------------------------------------------------------
(* The phone: what leaves it alone *)

SameRequests(b, c) ==
    /\ c.rx = b.rx /\ c.esc = b.esc /\ c.held = b.held /\ c.discard = b.discard
    /\ c.m = b.m /\ c.k = b.k /\ c.got = b.got /\ c.torn = b.torn
SameAnswers(b, c) ==
    /\ c.conn = b.conn /\ c.notify = b.notify /\ c.adv = b.adv
    /\ c.in = b.in /\ c.inEsc = b.inEsc /\ c.heard = b.heard

\* A request that no longer waits imposes less.
LEMMA GotWeaker ==
    ASSUME NEW b, NEW c, NEW v, NEW w, GotInv(b, v), c.got = b.got, c.m = b.m,
           w => v /\ c.rx = b.rx /\ (b.torn => c.torn)
    PROVE  GotInv(c, w)
  BY DEF GotInv

\* The requests are left alone.
LEMMA QuietRequests ==
    ASSUME RequestInv, SameRequests(ble, ble'), Once("btproc", wq'),
           Contains(wq', "btproc") => Contains(wq, "btproc"),
           cur'.work = "btproc" => cur.work = "btproc",
           RequestWaits' => RequestWaits
    PROVE  RequestInv'
<1>1. RxInv(ble') /\ RxInv(ble)'
  BY DEF RequestInv, RxInv, SameRequests, Received
<1>2. GotInv(ble', RequestWaits')
  BY GotWeaker DEF RequestInv, SameRequests
<1>3. GotInv(ble, RequestWaits)'
  BY <1>2 DEF GotInv
<1>4. ble'.held = ble.held
  BY DEF SameRequests
<1> QED
  BY <1>1, <1>3, <1>4 DEF RequestInv, Once

\* So are the answers; the thread may go on as long as it sends no packets.
LEMMA QuietAnswers ==
    ASSUME AnswerInv, SameAnswers(ble, ble'), Once("btadv", wq'),
           Contains(wq', "btadv") => Contains(wq, "btadv"),
           cur' = cur \/ (cur.pc # "packet" /\ cur'.pc # "packet" /\ JobsInv')
    PROVE  AnswerInv'
<1>1. /\ ble'.conn = ble.conn /\ ble'.notify = ble.notify /\ ble'.adv = ble.adv
      /\ ble'.in = ble.in /\ ble'.inEsc = ble.inEsc /\ ble'.heard = ble.heard
  BY DEF SameAnswers
<1>2. CASE cur' = cur
  BY <1>1, <1>2 DEF AnswerInv, Once, JobsInv, Sending
<1>3. CASE cur.pc # "packet" /\ cur'.pc # "packet" /\ JobsInv'
  BY <1>1, <1>3 DEF AnswerInv, Once
<1> QED
  BY <1>2, <1>3

\* A step of another part of the node.
OtherCur == \/ cur' = cur
            \/ /\ cur.pc # "packet" /\ cur'.pc # "packet"
               /\ cur'.work \notin {"btproc", "btrep"}

\* Such a step changes nothing for the phone.
LEMMA OthersKeepPhone ==
    ASSUME Phone, ble' = ble, OtherStep("btproc"), OtherStep("btadv"), OtherCur
    PROVE  Phone'
<1>1. /\ QueueShape /\ RequestInv /\ AnswerInv /\ ble \in BleState
      /\ Once("btproc", wq) /\ Once("btadv", wq)
  BY DEF Phone, RequestInv, AnswerInv
<1>2. /\ QueueShape' /\ Once("btproc", wq') /\ (Contains(wq', "btproc") => Contains(wq, "btproc"))
      /\ cur'.work = "btproc" => cur' = cur
  BY <1>1, ShapeKept
<1>3. Once("btadv", wq') /\ (Contains(wq', "btadv") => Contains(wq, "btadv"))
  BY <1>1, ShapeKept
<1>4. RequestWaits' => RequestWaits
  BY <1>2 DEF RequestWaits
<1>5. SameRequests(ble, ble') /\ SameAnswers(ble, ble')
  BY DEF SameRequests, SameAnswers
<1>6. RequestInv'
  BY <1>1, <1>2, <1>4, <1>5, QuietRequests
<1>7. AnswerInv'
  BY <1>1, <1>3, <1>5, QuietAnswers DEF OtherCur, JobsInv
<1> QED
  BY <1>1, <1>2, <1>6, <1>7 DEF Phone, BleState

\* The thread of the work queue outside the interface.
LEMMA OtherCurs ==
    ASSUME QueueShape
    PROVE  /\ \A w \in {"serrep", "wsrep", "canrep"} : \A ready : ReportBegin(w, ready) => OtherCur
           /\ \A w \in {"serproc", "serrep", "wsrep", "canrep", "canctl"} : Fill(w) \/ ReportSend(w) => OtherCur
           /\ \A w : Expire(w) => OtherCur
           /\ ControlBegin \/ ControlCopy => OtherCur
           /\ SerialWork \/ SerialRx \/ LoraWork \/ LoraThread \/ DfuNext => OtherCur
           /\ WsReport \/ WsReportStall \/ WsNext \/ WsStall => OtherCur
<1>0. CurShape
  BY DEF QueueShape
<1>1. ASSUME NEW w \in {"serrep", "wsrep", "canrep"}, NEW ready, ReportBegin(w, ready) PROVE OtherCur
  BY <1>1 DEF ReportBegin, Starts, Idle, OtherCur
<1>2. ASSUME NEW w \in {"serproc", "serrep", "wsrep", "canrep", "canctl"}, Fill(w) PROVE OtherCur
  BY <1>0, <1>2 DEF Fill, Running, OtherCur, CurShape
<1>3. ASSUME NEW w, ReportSend(w) PROVE OtherCur
  BY <1>3 DEF ReportSend, Running, Returns, Idle, OtherCur
<1>4. ASSUME NEW w, Expire(w) PROVE OtherCur
  BY <1>4 DEF Expire, OtherCur
<1>5. ASSUME ControlBegin PROVE OtherCur
  BY <1>5 DEF ControlBegin, Starts, Idle, OtherCur
<1>6. ASSUME ControlCopy PROVE OtherCur
  <2>1. PICK i, job : cur' = [cur EXCEPT !.pc = "fill", !.i = i, !.job = job] \/ cur' = Idle
    BY <1>6 DEF ControlCopy, Returns
  <2>2. cur.work = "canctl" /\ cur.pc = "send"
    BY <1>6 DEF ControlCopy, Running
  <2>3. CASE cur' = [cur EXCEPT !.pc = "fill", !.i = i, !.job = job]
    BY <1>0, <2>2, <2>3 DEF OtherCur, CurShape
  <2>4. CASE cur' = Idle
    BY <2>2, <2>4 DEF OtherCur, Idle
  <2> QED
    BY <2>1, <2>3, <2>4
<1>7. ASSUME SerialWork PROVE OtherCur
  <2>1. ASSUME SerialProcess PROVE OtherCur
    <3>1. PICK pc, job : cur' = [Idle EXCEPT !.work = "serproc", !.pc = pc, !.job = job]
                         /\ pc \in {"out", "fill"}
      BY <2>1 DEF SerialProcess
    <3> QED
      BY <2>1, <3>1 DEF SerialProcess, Starts, Idle, OtherCur
  <2>2. ASSUME SerialFill PROVE OtherCur
    BY <1>2, <2>2 DEF SerialFill
  <2>3. ASSUME SerialSend PROVE OtherCur
    BY <1>0, <2>3 DEF SerialSend, Running, OtherCur, CurShape
  <2>4. ASSUME SerialOut PROVE OtherCur
    BY <2>4 DEF SerialOut, Running, Returns, Idle, OtherCur
  <2>5. ASSUME SerialReport PROVE OtherCur
    BY <1>1, <1>2, <1>3, <2>5 DEF SerialReport
  <2> QED
    BY <1>7, <2>1, <2>2, <2>3, <2>4, <2>5 DEF SerialWork
<1>8. ASSUME SerialRx \/ LoraThread \/ DfuNext \/ WsNext \/ WsStall PROVE OtherCur
  <2>1. cur' = cur
    BY <1>8 DEF SerialRx, LoraThread, LoraStart, JoinFails, JoinOk, coreVars,
       DfuNext, thingset_dfu_init, thingset_dfu_write, thingset_dfu_boot, WsNext, WsStall, Resolve,
       OpenSocket, Connect, Sleep, Upgrade, Recv, WsFill, WsSend, WsStep
  <2> QED
    BY <2>1 DEF OtherCur
<1>9. ASSUME LoraWork PROVE OtherCur
  <2>1. ASSUME SaveBegin PROVE OtherCur
    BY <2>1 DEF SaveBegin, Starts, Idle, OtherCur
  <2>2. ASSUME SaveFill PROVE OtherCur
    BY <1>0, <2>2 DEF SaveFill, Running, OtherCur, CurShape
  <2>3. ASSUME SaveWrite PROVE OtherCur
    BY <2>3 DEF SaveWrite, Running, Returns, Idle, OtherCur
  <2> QED
    BY <1>9, <2>1, <2>2, <2>3 DEF LoraWork
<1>10. ASSUME WsReport PROVE OtherCur
  BY <1>1, <1>2, <1>3, <1>10 DEF WsReport
<1>11. ASSUME WsReportStall PROVE OtherCur
  BY <1>0, <1>11 DEF WsReportStall, Running, OtherCur, CurShape
<1> QED
  BY <1>1, <1>2, <1>3, <1>4, <1>5, <1>6, <1>7, <1>8, <1>9, <1>10, <1>11

-----------------------------------------------------------------------------
(* The phone's requests *)

\* What is known of a request.
LEMMA RequestIs ==
    ASSUME NEW n \in DOMAIN BtMsgs
    PROVE  /\ BtMsgs[n] \in Sendable /\ BtMsgs[n] \in Seq(Byte)
           /\ PartOf(BtMsgs[n])[0] = <<>>
           /\ Len(PacketsOf[BtMsgs[n]]) \in Nat \ {0}
           /\ PartOf(BtMsgs[n])[Len(PacketsOf[BtMsgs[n]])] = BtMsgs[n]
<1>1. BtMsgs[n] \in Sendable
  BY DEF Sendable, ToSet
<1>2. BtMsgs[n] \in Seq(Byte) /\ IsParts(BtMsgs[n], PacketsOf[BtMsgs[n]], PartOf(BtMsgs[n]))
  BY <1>1, Parts
<1>3. Len(PacketsOf[BtMsgs[n]]) \in Nat \ {0}
  <2>1. PacketsOf[BtMsgs[n]] \in Seq(Seq(Byte)) /\ Len(PacketsOf[BtMsgs[n]]) >= 1
    BY <1>2 DEF IsParts
  <2> QED
    BY <2>1
<1> QED
  BY <1>1, <1>2, <1>3 DEF IsParts

\* Nothing has been received of a request that begins.
LEMMA ReceivedNothing ==
    ASSUME NEW b, b.m \in 1 .. Len(BtMsgs) + 1, b.k = 1
    PROVE  Received(b) = <<>>
<1>1. BtMsgs \in Seq(Seq(STRING))
  BY BtAssumption DEF BtAssumption
<1>2. CASE b.m <= Len(BtMsgs)
  <2>1. b.m \in DOMAIN BtMsgs /\ b.k - 1 = 0
    BY <1>1, <1>2
  <2> QED
    BY <1>2, <2>1, RequestIs DEF Received
<1>3. CASE ~(b.m <= Len(BtMsgs))
  BY <1>3 DEF Received
<1> QED
  BY <1>2, <1>3

\* The packet that the phone writes.
LEMMA PacketTaken ==
    ASSUME ~On("hard"), ble \in BleState, RxInv(ble), ble.m <= Len(BtMsgs)
    PROVE  LET M == BtMsgs[ble.m]
               ps == PacketsOf[M]
               r == reassemble(ps[ble.k], ble.rx, ble.esc)
           IN  /\ Requests = BtMsgs /\ ble.m \in DOMAIN BtMsgs /\ ble.k \in 1 .. Len(ps)
               /\ r.dst \in Seq(Byte) /\ r.esc = FALSE /\ r.fin = (ble.k = Len(ps))
               /\ ble.rx = PartOf(M)[ble.k - 1] => r.dst = PartOf(M)[ble.k]
<1>1. BtMsgs \in Seq(Seq(STRING)) /\ Requests = BtMsgs
  BY BtAssumption DEF BtAssumption, Requests
<1>2. ble.m \in DOMAIN BtMsgs /\ ble.esc = FALSE /\ ble.rx \in Seq(Byte)
      /\ ble.k \in 1 .. Len(PacketsOf[BtMsgs[ble.m]])
  BY <1>1 DEF RxInv, BleState
<1>3. IsParts(BtMsgs[ble.m], PacketsOf[BtMsgs[ble.m]], PartOf(BtMsgs[ble.m]))
  BY <1>2, RequestIs, Parts
<1> DEFINE ps == PacketsOf[BtMsgs[ble.m]]
           part == PartOf(BtMsgs[ble.m])
           k == ble.k
           d == ble.rx
           r == reassemble(ps[k], d, FALSE)
<1>4. k \in 1 .. Len(ps) /\ d \in Seq(Byte)
  BY <1>2
<1>5. \A n \in 1 .. Len(ps), e \in Seq(Byte) :
         LET u == reassemble(ps[n], e, FALSE) IN
         /\ u.dst \in Seq(Byte) /\ u.esc = FALSE /\ u.fin = (n = Len(ps))
         /\ e = part[n - 1] => u.dst = part[n]
  BY <1>3 DEF IsParts
<1> HIDE DEF ps, part, k, d
<1>6. /\ r.dst \in Seq(Byte) /\ r.esc = FALSE /\ r.fin = (k = Len(ps))
      /\ d = part[k - 1] => r.dst = part[k]
  BY <1>4, <1>5
<1>7. reassemble(ps[k], d, ble.esc) = r
  BY <1>2
<1> HIDE DEF r
<1> QED
  BY <1>1, <1>2, <1>6, <1>7 DEF ps, part, k, d

\* thingset_bluetooth_rx makes c of b, with d in rx_buf and f for the end of a
\* message: the buffer is in use; or a message that is discarded ends; or one ends
\* and takes the buffer; or there is more to come.
RxOf(b, c, d, f) ==
    /\ c \in BleState /\ SameAnswers(b, c) /\ c.m = b.m /\ c.k = b.k /\ c.got = b.got
    /\ \/ /\ b.held /\ c.held /\ c.discard /\ c.rx = b.rx /\ c.torn = b.torn /\ c.esc = b.esc
       \/ /\ ~b.held /\ f /\ b.discard
          /\ ~c.held /\ ~c.discard /\ ~c.torn /\ c.rx = <<>> /\ ~c.esc
       \/ /\ ~b.held /\ f /\ ~b.discard
          /\ c.held /\ ~c.discard /\ c.torn = b.torn /\ c.rx = d /\ ~c.esc
       \/ /\ ~b.held /\ ~f
          /\ ~c.held /\ c.discard = b.discard /\ c.torn = b.torn /\ c.rx = d /\ ~c.esc

\* So it does.
LEMMA RxIs ==
    ASSUME NEW b \in BleState, NEW p, NEW d \in Seq(Byte), NEW f \in BOOLEAN,
           LET r == reassemble(p, b.rx, b.esc) IN r.dst = d /\ r.esc = FALSE /\ r.fin = f
    PROVE  RxOf(b, thingset_bluetooth_rx(b, p), d, f)
<1> DEFINE r == reassemble(p, b.rx, b.esc)
           t == [b EXCEPT !.rx = r.dst, !.esc = r.esc]
           s == thingset_bluetooth_rx(b, p)
<1>1. r.dst = d /\ r.esc = FALSE /\ r.fin = f
  OBVIOUS
<1>2. s = IF b.held THEN NoBuffer(b) ELSE IF r.fin THEN Finished(t) ELSE t
  BY DEF thingset_bluetooth_rx
<1> HIDE DEF r, s
<1>3. /\ t \in BleState /\ SameAnswers(b, t) /\ t.m = b.m /\ t.k = b.k /\ t.got = b.got
      /\ t.rx = d /\ ~t.esc /\ t.held = b.held /\ t.discard = b.discard /\ t.torn = b.torn
  BY <1>1 DEF BleState, SameAnswers
<1> HIDE DEF t
<1>4. CASE b.held
  <2>1. s = [b EXCEPT !.discard = TRUE]
    BY <1>2, <1>4 DEF NoBuffer
  <2>2. /\ s \in BleState /\ SameAnswers(b, s) /\ s.m = b.m /\ s.k = b.k /\ s.got = b.got
        /\ s.held /\ s.discard /\ s.rx = b.rx /\ s.torn = b.torn /\ s.esc = b.esc
    BY <1>4, <2>1 DEF BleState, SameAnswers
  <2> QED
    BY <1>4, <2>2 DEF s, RxOf
<1>5. CASE ~b.held /\ f /\ b.discard
  <2>1. s = [t EXCEPT !.rx = <<>>, !.discard = FALSE, !.torn = FALSE]
    BY <1>1, <1>2, <1>3, <1>5 DEF Finished
  <2>2. /\ s \in BleState /\ SameAnswers(t, s) /\ s.m = t.m /\ s.k = t.k /\ s.got = t.got
        /\ ~s.discard /\ s.rx = <<>> /\ ~s.torn /\ s.esc = t.esc /\ s.held = t.held
    <3>1. <<>> \in Seq(Byte)
      OBVIOUS
    <3> QED
      BY <1>3, <2>1, <3>1 DEF BleState, SameAnswers
  <2>3. SameAnswers(b, s)
    BY <1>3, <2>2 DEF SameAnswers
  <2> QED
    BY <1>3, <1>5, <2>2, <2>3 DEF s, RxOf
<1>6. CASE ~b.held /\ f /\ ~b.discard
  <2>1. s = [t EXCEPT !.held = TRUE]
    BY <1>1, <1>2, <1>3, <1>6 DEF Finished
  <2>2. /\ s \in BleState /\ SameAnswers(t, s) /\ s.m = t.m /\ s.k = t.k /\ s.got = t.got
        /\ s.discard = t.discard /\ s.rx = t.rx /\ s.torn = t.torn /\ s.esc = t.esc /\ s.held
    BY <1>3, <2>1 DEF BleState, SameAnswers
  <2>3. SameAnswers(b, s)
    BY <1>3, <2>2 DEF SameAnswers
  <2> QED
    BY <1>3, <1>6, <2>2, <2>3 DEF s, RxOf
<1>7. CASE ~b.held /\ ~f
  <2>1. s = t
    BY <1>1, <1>2, <1>7
  <2> QED
    BY <1>3, <1>7, <2>1 DEF s, RxOf
<1> QED
  BY <1>4, <1>5, <1>6, <1>7

\* A packet arrives.
LEMMA BtRxKeeps == ASSUME ~On("hard"), Phone, BtRx PROVE Phone'
<1> DEFINE M == BtMsgs[ble.m]
           ps == PacketsOf[M]
           p == ps[ble.k]
           r == reassemble(p, ble.rx, ble.esc)
           d == r.dst
           end == ble.k = Len(ps)
           s == thingset_bluetooth_rx(ble, p)
<1>1. /\ QueueShape /\ ble \in BleState /\ RequestInv /\ AnswerInv /\ RxInv(ble)
      /\ GotInv(ble, RequestWaits) /\ Once("btproc", wq) /\ Once("btadv", wq)
      /\ BtMsgs \in Seq(Seq(STRING))
  BY BtAssumption DEF Phone, RequestInv, AnswerInv, BtAssumption
<1>2. ble.m <= Len(BtMsgs)
  BY DEF BtRx, Requests
<1>3. /\ Requests = BtMsgs /\ ble.m \in DOMAIN BtMsgs /\ ble.k \in 1 .. Len(ps)
      /\ d \in Seq(Byte) /\ r.esc = FALSE /\ r.fin = end
      /\ ble.rx = PartOf(M)[ble.k - 1] => d = PartOf(M)[ble.k]
  BY <1>1, <1>2, PacketTaken
<1>4. /\ Len(ps) \in Nat \ {0} /\ PartOf(M)[Len(ps)] = M /\ M \in Seq(Byte)
  BY <1>3, RequestIs
<1>5. /\ ble' = [s EXCEPT !.m = IF end THEN @ + 1 ELSE @, !.k = IF end THEN 1 ELSE @ + 1]
      /\ wq' = IF s.held /\ ~ble.held THEN Rescheduled(wq, "btproc") ELSE wq
      /\ env' = env /\ timers' = timers /\ cur' = cur
  BY <1>3 DEF BtRx
<1>6. end \in BOOLEAN
  OBVIOUS
<1> HIDE DEF M, ps, p, r, d, end, s
<1>7. /\ s \in BleState /\ SameAnswers(ble, s) /\ s.m = ble.m /\ s.k = ble.k /\ s.got = ble.got
      /\ \/ /\ ble.held /\ s.held /\ s.discard /\ s.rx = ble.rx /\ s.torn = ble.torn /\ s.esc = ble.esc
         \/ /\ ~ble.held /\ end /\ ble.discard
            /\ ~s.held /\ ~s.discard /\ ~s.torn /\ s.rx = <<>> /\ ~s.esc
         \/ /\ ~ble.held /\ end /\ ~ble.discard
            /\ s.held /\ ~s.discard /\ s.torn = ble.torn /\ s.rx = d /\ ~s.esc
         \/ /\ ~ble.held /\ ~end
            /\ ~s.held /\ s.discard = ble.discard /\ s.torn = ble.torn /\ s.rx = d /\ ~s.esc
  <2>1. LET u == reassemble(p, ble.rx, ble.esc) IN u.dst = d /\ u.esc = FALSE /\ u.fin = end
    BY <1>3 DEF r, d
  <2>2. ble \in BleState /\ d \in Seq(Byte) /\ end \in BOOLEAN
    BY <1>1, <1>3, <1>6
  <2>3. RxOf(ble, s, d, end)
    BY <2>1, <2>2, RxIs DEF s
  <2> QED
    BY <2>3 DEF RxOf
<1>8. /\ ble' \in BleState
      /\ ble'.m = (IF end THEN ble.m + 1 ELSE ble.m) /\ ble'.k = (IF end THEN 1 ELSE ble.k + 1)
      /\ ble'.rx = s.rx /\ ble'.esc = s.esc /\ ble'.held = s.held /\ ble'.discard = s.discard
      /\ ble'.got = ble.got /\ ble'.torn = s.torn /\ SameAnswers(s, ble')
  <2>1. /\ s.m + 1 \in Nat /\ s.k + 1 \in Nat
    BY <1>7 DEF BleState
  <2> QED
    BY <1>5, <1>7, <2>1 DEF BleState, SameAnswers
<1>9. SameAnswers(ble, ble')
  BY <1>7, <1>8 DEF SameAnswers
<1>10. /\ ble.m \in 1 .. Len(BtMsgs) /\ Len(BtMsgs) \in Nat /\ ~ble.esc
       /\ ble.held /\ ~ble.discard => ble.k = 1
       /\ ~ble.discard /\ ~ble.held /\ ~ble.torn => ble.rx = PartOf(M)[ble.k - 1]
  BY <1>1, <1>2 DEF RxInv, Received, M
<1>11. /\ ble'.m \in 1 .. Len(BtMsgs) + 1
       /\ ble'.m <= Len(BtMsgs) => ble'.k \in 1 .. Len(PacketsOf[BtMsgs[ble'.m]])
       /\ ble'.m > Len(BtMsgs) => ble'.k = 1
  <2>1. CASE end
    <3>1. ble'.m = ble.m + 1 /\ ble'.k = 1
      BY <1>8, <2>1
    <3>2. ble'.m <= Len(BtMsgs) => ble'.m \in DOMAIN BtMsgs
      BY <1>1, <1>10, <3>1
    <3>3. ble'.m <= Len(BtMsgs) => Len(PacketsOf[BtMsgs[ble'.m]]) \in Nat \ {0}
      BY <3>2, RequestIs
    <3>4. ble'.m \in 1 .. Len(BtMsgs) + 1
      BY <1>10, <3>1
    <3> QED
      BY <3>1, <3>3, <3>4
  <2>2. CASE ~end
    <3>1. ble'.m = ble.m /\ ble'.k = ble.k + 1
      BY <1>8, <2>2
    <3>2. ble.k + 1 \in 1 .. Len(ps)
      BY <1>3, <1>4, <2>2 DEF end
    <3> QED
      BY <1>10, <3>1, <3>2 DEF ps, M
  <2> QED
    BY <2>1, <2>2
<1>12. RxInv(ble')
  <2>1. ~ble'.esc
    BY <1>7, <1>8, <1>10
  <2>2. ble'.held /\ ~ble'.discard => ble'.k = 1
    BY <1>7, <1>8
  <2>3. ~ble'.discard /\ ~ble'.held /\ ~ble'.torn => ble'.rx = Received(ble')
    <3>1. SUFFICES ASSUME ~ble'.discard, ~ble'.held, ~ble'.torn PROVE ble'.rx = Received(ble')
      OBVIOUS
    <3>2. CASE end
      <4>1. ble'.rx = <<>> /\ ble'.k = 1
        BY <1>7, <1>8, <3>1, <3>2
      <4> DEFINE c == ble'
      <4>2. c.m \in 1 .. Len(BtMsgs) + 1 /\ c.k = 1 /\ c.rx = <<>>
        BY <1>11, <4>1
      <4> HIDE DEF c
      <4>3. Received(c) = <<>>
        BY <4>2, ReceivedNothing
      <4> QED
        BY <4>2, <4>3 DEF c
    <3>3. CASE ~end
      <4>1. ble'.rx = d /\ ~ble.discard /\ ~ble.held /\ ~ble.torn
        BY <1>7, <1>8, <3>1, <3>3
      <4>2. d = PartOf(M)[ble.k]
        BY <1>3, <1>10, <4>1
      <4>3. ble'.m = ble.m /\ ble'.k - 1 = ble.k
        <5>1. ble.k \in Nat
          BY <1>1 DEF BleState
        <5> QED
          BY <1>8, <3>3, <5>1
      <4> QED
        BY <1>2, <4>1, <4>2, <4>3 DEF Received, M
    <3> QED
      BY <3>2, <3>3
  <2> QED
    BY <1>11, <2>1, <2>2, <2>3 DEF RxInv
<1>13. "btproc" \in Items /\ "btproc" # "btadv"
  BY DEF Items, Handlers
<1>14. /\ wq' \in Seq(Items) /\ Once("btproc", wq') /\ Once("btadv", wq')
       /\ Contains(wq', "btadv") => Contains(wq, "btadv")
       /\ ~(s.held /\ ~ble.held) => wq' = wq
  BY <1>1, <1>5, <1>13, OnceRescheduled DEF QueueShape
<1>15. QueueShape'
  BY <1>1, <1>5, <1>14 DEF QueueShape, CurShape
<1>16. /\ Contains(wq', "btproc") => ble'.held /\ cur'.work # "btproc"
       /\ cur'.work = "btproc" => ble'.held
  <2>1. /\ Contains(wq, "btproc") => ble.held /\ cur.work # "btproc"
        /\ cur.work = "btproc" => ble.held
    BY <1>1 DEF RequestInv
  <2>2. ble.held => s.held
    BY <1>7
  <2>3. CASE s.held /\ ~ble.held
    BY <1>5, <1>8, <2>1, <2>3
  <2>4. CASE ~(s.held /\ ~ble.held)
    BY <1>5, <1>8, <1>14, <2>1, <2>2, <2>4
  <2> QED
    BY <2>3, <2>4
<1>17. GotInv(ble', RequestWaits')
  <2>1. PICK x \in [1 .. Len(ble.got) -> DOMAIN BtMsgs] :
           /\ \A i, j \in 1 .. Len(ble.got) : i < j => x[i] < x[j]
           /\ \A i \in 1 .. Len(ble.got) : ble.got[i] = BtMsgs[x[i]] /\ x[i] < ble.m
           /\ RequestWaits /\ ~ble.torn => \E h \in DOMAIN BtMsgs : /\ h < ble.m /\ ble.rx = BtMsgs[h]
                                                  /\ \A i \in 1 .. Len(ble.got) : x[i] < h
    BY <1>1 DEF GotInv
  <2>2. ble.m \in Nat /\ ble'.m >= ble.m /\ ble'.m \in Nat /\ \A n \in DOMAIN BtMsgs : n \in Nat
    BY <1>1, <1>8, <1>10
  <2>3. \A i \in 1 .. Len(ble.got) : x[i] \in Nat /\ x[i] < ble'.m
    BY <2>1, <2>2
  <2>4. ASSUME RequestWaits', ~ble'.torn
        PROVE  \E h \in DOMAIN BtMsgs : /\ h < ble'.m /\ ble'.rx = BtMsgs[h]
                                        /\ \A i \in 1 .. Len(ble.got) : x[i] < h
    <3>1. ~ble.held => ~RequestWaits
      BY <1>1 DEF RequestInv, RequestWaits
    <3>2. wq' = wq => (RequestWaits' <=> RequestWaits)
      BY <1>5 DEF RequestWaits
    <3>3. CASE ble.held
      <4>1. ble'.rx = ble.rx /\ ble'.torn = ble.torn /\ RequestWaits
        BY <1>7, <1>8, <1>14, <2>4, <3>2, <3>3
      <4>2. PICK h \in DOMAIN BtMsgs : h < ble.m /\ ble.rx = BtMsgs[h]
                                       /\ \A i \in 1 .. Len(ble.got) : x[i] < h
        BY <2>1, <2>4, <4>1
      <4>3. h < ble'.m
        BY <2>2, <4>2
      <4> QED
        BY <4>1, <4>2, <4>3
    <3>4. CASE ~ble.held
      <4>1. end /\ ~ble.discard /\ s.torn = ble.torn /\ s.rx = d
        BY <1>7, <1>14, <2>4, <3>1, <3>2, <3>4
      <4>2. ble.rx = PartOf(M)[ble.k - 1] /\ ble.k = Len(ps)
        BY <1>8, <1>10, <2>4, <3>4, <4>1 DEF end
      <4>3. ble'.rx = BtMsgs[ble.m]
        BY <1>3, <1>4, <1>8, <4>1, <4>2 DEF M
      <4>4. ble.m < ble'.m
        BY <1>8, <2>2, <4>1
      <4> QED
        BY <1>3, <2>1, <4>3, <4>4
    <3> QED
      BY <3>3, <3>4
  <2>5. ble'.got = ble.got
    BY <1>8
  <2> QED
    BY <2>1, <2>3, <2>4, <2>5 DEF GotInv
<1>18. RequestInv'
  <2>1. RxInv(ble)'
    BY <1>12 DEF RxInv, Received
  <2>2. GotInv(ble, RequestWaits)'
    BY <1>17 DEF GotInv
  <2> QED
    BY <1>14, <1>16, <2>1, <2>2 DEF RequestInv, Once
<1>19. AnswerInv'
  BY <1>1, <1>5, <1>9, <1>14, QuietAnswers
<1> QED
  BY <1>8, <1>15, <1>18, <1>19 DEF Phone, BleState

-----------------------------------------------------------------------------
(* The phone: the steps of the interface *)

\* A step that leaves the requests alone.
LEMMA RequestsLeft ==
    ASSUME Phone, SameRequests(ble, ble'), OtherStep("btproc")
    PROVE  QueueShape' /\ RequestInv'
<1>1. QueueShape /\ RequestInv /\ Once("btproc", wq)
  BY DEF Phone, RequestInv
<1>2. /\ QueueShape' /\ Once("btproc", wq') /\ (Contains(wq', "btproc") => Contains(wq, "btproc"))
      /\ cur'.work = "btproc" => cur' = cur
  BY <1>1, ShapeKept
<1>3. (RequestWaits' => RequestWaits) /\ (cur'.work = "btproc" => cur.work = "btproc")
  BY <1>2 DEF RequestWaits
<1> QED
  BY <1>1, <1>2, <1>3, QuietRequests

\* A step that leaves the answers alone.
LEMMA AnswersLeft ==
    ASSUME Phone, SameAnswers(ble, ble'), OtherStep("btadv"),
           cur' = cur \/ (cur.pc # "packet" /\ cur'.pc # "packet" /\ JobsInv')
    PROVE  QueueShape' /\ AnswerInv'
<1>1. QueueShape /\ AnswerInv /\ Once("btadv", wq)
  BY DEF Phone, AnswerInv
<1>2. QueueShape' /\ Once("btadv", wq') /\ (Contains(wq', "btadv") => Contains(wq, "btadv"))
  BY <1>1, ShapeKept
<1> QED
  BY <1>1, <1>2, QuietAnswers

\* The invariant of the requests after a step.
LEMMA RequestNext ==
    ASSUME Once("btproc", wq'), RxInv(ble'), GotInv(ble', RequestWaits'),
           Contains(wq', "btproc") => ble'.held /\ cur'.work # "btproc",
           cur'.work = "btproc" => ble'.held
    PROVE  RequestInv'
<1>1. RxInv(ble)'
  BY DEF RxInv, Received
<1>2. GotInv(ble, RequestWaits)'
  BY DEF GotInv
<1> QED
  BY <1>1, <1>2 DEF RequestInv, Once

\* The phone connects.
LEMMA BtConnectKeeps == ASSUME Phone, BtConnect PROVE Phone'
<1>1. /\ QueueShape /\ AnswerInv /\ ble \in BleState /\ "btproc" \in Handlers
  BY DEF Phone, Handlers
<1>2. /\ ble' = [ble EXCEPT !.conn = TRUE, !.adv = FALSE, !.in = <<>>, !.inEsc = FALSE]
      /\ cur' = cur /\ wq' = wq /\ ble.adv /\ ~ble.conn
  BY DEF BtConnect, coreVars
<1>3. SameRequests(ble, ble')
  BY <1>2 DEF SameRequests, BleState
<1>4. QueueShape' /\ RequestInv'
  BY <1>1, <1>3, BtQueues, RequestsLeft
<1>5. /\ ble' \in BleState /\ ble'.conn /\ ~ble'.adv /\ ble'.in = <<>> /\ ~ble'.inEsc
      /\ ble'.heard = ble.heard
  <2>1. <<>> \in Seq(Byte)
    OBVIOUS
  <2> QED
    BY <1>1, <1>2, <2>1 DEF BleState
<1>6. ~Contains(wq, "btadv") /\ cur.pc # "packet"
  BY <1>1, <1>2 DEF AnswerInv
<1>7. AnswerInv'
  BY <1>1, <1>2, <1>5, <1>6 DEF AnswerInv, Once, JobsInv
<1> QED
  BY <1>4, <1>5, <1>7 DEF Phone, BleState

\* The phone switches notifications on.
LEMMA BtNotifyKeeps == ASSUME Phone, thingset_bluetooth_ccc_change PROVE Phone'
<1>1. /\ QueueShape /\ AnswerInv /\ ble \in BleState /\ "btproc" \in Handlers
  BY DEF Phone, Handlers
<1>2. /\ ble' = [ble EXCEPT !.notify = TRUE] /\ cur' = cur /\ wq' = wq /\ ble.conn /\ ~ble.notify
  BY DEF thingset_bluetooth_ccc_change, coreVars
<1>3. SameRequests(ble, ble')
  BY <1>2 DEF SameRequests, BleState
<1>4. QueueShape' /\ RequestInv'
  BY <1>1, <1>3, BtQueues, RequestsLeft
<1>5. /\ ble' \in BleState /\ ble'.conn /\ ble'.adv = ble.adv /\ ble'.in = ble.in
      /\ ble'.inEsc = ble.inEsc /\ ble'.heard = ble.heard
  BY <1>1, <1>2 DEF BleState
<1>6. cur.pc # "packet"
  BY <1>1, <1>2 DEF AnswerInv
<1>7. AnswerInv'
  BY <1>1, <1>2, <1>5, <1>6 DEF AnswerInv, Once, JobsInv
<1> QED
  BY <1>4, <1>5, <1>7 DEF Phone, BleState

\* Advertising starts: whatever is sent has been sent.
LEMMA AdvertiseKeeps == ASSUME Phone, Advertise PROVE Phone'
<1>1. /\ QueueShape /\ AnswerInv /\ ble \in BleState /\ "btproc" \in Handlers /\ "btproc" # "btadv"
      /\ wq \in Seq(Items) /\ Once("btadv", wq)
  BY DEF Phone, Handlers, QueueShape, AnswerInv
<1>2. PICK ok \in BOOLEAN : ble' = [ble EXCEPT !.adv = ok]
  BY DEF Advertise
<1>3. cur' = cur /\ cur = Idle /\ wq # <<>> /\ Head(wq) = "btadv" /\ wq' = Tail(wq)
  BY DEF Advertise, Starts
<1>4. SameRequests(ble, ble')
  BY <1>2 DEF SameRequests, BleState
<1>5. QueueShape' /\ RequestInv'
  BY <1>1, <1>4, BtQueues, RequestsLeft
<1>6. /\ ble' \in BleState /\ ble'.conn = ble.conn /\ ble'.notify = ble.notify /\ ble'.in = ble.in
      /\ ble'.inEsc = ble.inEsc /\ ble'.heard = ble.heard
  BY <1>1, <1>2 DEF BleState
<1>7. Once("btadv", wq') /\ ~Contains(wq', "btadv") /\ Contains(wq, "btadv")
  BY <1>1, <1>3, OnceTail
<1>8. ~ble'.conn /\ cur.pc # "packet"
  BY <1>1, <1>3, <1>6, <1>7 DEF AnswerInv, Idle
<1>9. AnswerInv'
  BY <1>1, <1>3, <1>6, <1>7, <1>8 DEF AnswerInv, Once, JobsInv
<1> QED
  BY <1>5, <1>6, <1>9 DEF Phone, BleState

\* The connection is lost.
LEMMA BtDisconnectKeeps == ASSUME Phone, BtDisconnect PROVE Phone'
<1>1. /\ QueueShape /\ AnswerInv /\ RequestInv /\ ble \in BleState /\ wq \in Seq(Items)
      /\ Once("btproc", wq) /\ Once("btadv", wq) /\ RxInv(ble) /\ GotInv(ble, RequestWaits)
      /\ "btproc" \in Handlers /\ "btproc" # "btadv" /\ "btadv" \in Items
  BY DEF Phone, RequestInv, AnswerInv, QueueShape, Handlers, Items
<1>2. /\ ble' = [ble EXCEPT !.conn = FALSE, !.notify = FALSE, !.k = 1, !.drops = @ + 1,
                            !.torn = @ \/ ble.k > 1]
      /\ cur' = cur /\ wq' = Rescheduled(wq, "btadv") /\ ble.conn
  BY DEF BtDisconnect
<1>3. /\ ble' \in BleState /\ ~ble'.conn /\ ~ble'.notify /\ ble'.k = 1 /\ ble'.adv = ble.adv
      /\ ble'.rx = ble.rx /\ ble'.esc = ble.esc /\ ble'.held = ble.held
      /\ ble'.discard = ble.discard /\ ble'.m = ble.m /\ ble'.got = ble.got
      /\ ble'.torn = (ble.torn \/ ble.k > 1) /\ ble'.heard = ble.heard
  <2>1. /\ ble.drops + 1 \in Nat /\ (ble.torn \/ ble.k > 1) \in BOOLEAN
    BY <1>1 DEF BleState
  <2> QED
    BY <1>1, <1>2, <2>1 DEF BleState
<1>4. /\ QueueShape' /\ Once("btproc", wq') /\ (Contains(wq', "btproc") => Contains(wq, "btproc"))
  BY <1>1, BtQueues, ShapeKept
<1>5. Once("btadv", wq')
  BY <1>1, <1>2, OnceRescheduled
<1>6. RxInv(ble')
  <2>1. ble.k \in Nat /\ ble.m \in 1 .. Len(BtMsgs) + 1
    BY <1>1 DEF BleState, RxInv
  <2>2. ble.m <= Len(BtMsgs) => 1 \in 1 .. Len(PacketsOf[BtMsgs[ble.m]])
    <3>1. BtMsgs \in Seq(Seq(STRING))
      BY BtAssumption DEF BtAssumption
    <3>2. ble.m <= Len(BtMsgs) => ble.m \in DOMAIN BtMsgs
      BY <2>1, <3>1
    <3> QED
      BY <3>2, RequestIs
  <2>3. ~ble'.discard /\ ~ble'.held /\ ~ble'.torn => ble'.rx = Received(ble')
    <3>1. SUFFICES ASSUME ~ble'.discard, ~ble'.held, ~ble'.torn PROVE ble'.rx = Received(ble')
      OBVIOUS
    <3>2. ~ble.discard /\ ~ble.held /\ ~ble.torn /\ ~(ble.k > 1)
      BY <1>3, <3>1
    <3>3. ble.k = 1
      BY <1>1, <2>1, <3>2 DEF RxInv
    <3>4. ble.rx = Received(ble)
      BY <1>1, <3>2 DEF RxInv
    <3>5. Received(ble') = Received(ble)
      BY <1>3, <3>3 DEF Received
    <3> QED
      BY <1>3, <3>4, <3>5
  <2> QED
    BY <1>1, <1>3, <2>1, <2>2, <2>3 DEF RxInv
<1>7. GotInv(ble', RequestWaits')
  <2>1. RequestWaits' => RequestWaits
    BY <1>2, <1>4 DEF RequestWaits
  <2> QED
    BY <1>1, <1>3, <2>1, GotWeaker
<1>8. RequestInv'
  <2>1. /\ Contains(wq', "btproc") => ble'.held /\ cur'.work # "btproc"
        /\ cur'.work = "btproc" => ble'.held
    BY <1>1, <1>2, <1>3, <1>4 DEF RequestInv
  <2> QED
    BY <1>4, <1>6, <1>7, <2>1, RequestNext
<1>9. AnswerInv'
  <2>1. ~ble'.adv
    BY <1>1, <1>2, <1>3 DEF AnswerInv
  <2>2. cur.pc = "packet" =>
          /\ cur.work \in {"btproc", "btrep"} /\ cur.i \in 0 .. Len(PacketsOf[Sending(cur.job)])
    BY <1>1 DEF AnswerInv
  <2>3. JobsInv' /\ ble.heard \subseteq Sendable
    BY <1>1, <1>2 DEF AnswerInv, JobsInv
  <2> QED
    BY <1>2, <1>3, <1>5, <2>1, <2>2, <2>3 DEF AnswerInv, Once
<1> QED
  BY <1>3, <1>4, <1>8, <1>9 DEF Phone, BleState

\* A request is taken from rx_buf.
LEMMA TookKeeps ==
    ASSUME NEW b \in BleState, RxInv(b), b.held, GotInv(b, TRUE)
    PROVE  LET c == Took(b) IN
           c \in BleState /\ RxInv(c) /\ GotInv(c, FALSE) /\ SameAnswers(b, c) /\ c.held
<1> DEFINE c == Took(b)
           g == IF b.torn THEN b.got ELSE Append(b.got, b.rx)
<1>1. c = [b EXCEPT !.got = g, !.torn = FALSE]
  BY DEF Took
<1>2. b.got \in Seq(Seq(Byte)) /\ b.rx \in Seq(Byte) /\ Len(b.got) \in Nat
  BY DEF BleState
<1>3. g \in Seq(Seq(Byte))
  BY <1>2
<1> HIDE DEF c, g
<1>4. /\ c \in BleState /\ SameAnswers(b, c) /\ c.got = g /\ c.m = b.m /\ c.k = b.k /\ c.held
      /\ c.esc = b.esc /\ c.discard = b.discard
  BY <1>1, <1>3 DEF BleState, SameAnswers
<1>5. RxInv(c)
  BY <1>4 DEF RxInv
<1>6. GotInv(c, FALSE)
  <2> DEFINE n == Len(b.got)
  <2>1. PICK x \in [1 .. n -> DOMAIN BtMsgs] :
           /\ \A i, j \in 1 .. n : i < j => x[i] < x[j]
           /\ \A i \in 1 .. n : b.got[i] = BtMsgs[x[i]] /\ x[i] < b.m
           /\ ~b.torn => \E h \in DOMAIN BtMsgs : /\ h < b.m /\ b.rx = BtMsgs[h]
                                                  /\ \A i \in 1 .. n : x[i] < h
    BY DEF GotInv
  <2>2. CASE b.torn
    BY <1>4, <2>1, <2>2 DEF GotInv, g
  <2>3. CASE ~b.torn
    <3>1. PICK h \in DOMAIN BtMsgs : h < b.m /\ b.rx = BtMsgs[h] /\ \A i \in 1 .. n : x[i] < h
      BY <2>1, <2>3
    <3>2. /\ Len(g) = n + 1 /\ n \in Nat /\ g[n + 1] = b.rx /\ \A i \in 1 .. n : g[i] = b.got[i]
      BY <1>2, <2>3 DEF g
    <3> HIDE DEF n
    <3> DEFINE y == [i \in 1 .. n + 1 |-> IF i <= n THEN x[i] ELSE h]
    <3>3. /\ y \in [1 .. n + 1 -> DOMAIN BtMsgs] /\ y[n + 1] = h
          /\ \A i \in 1 .. n + 1 : i <= n => y[i] = x[i]
      <4>1. ASSUME NEW i \in 1 .. n + 1, i <= n PROVE x[i] \in DOMAIN BtMsgs
        BY <2>1, <3>2, <4>1
      <4> QED
        BY <3>2, <4>1
    <3> HIDE DEF y
    <3>4. ASSUME NEW i \in 1 .. n + 1, NEW j \in 1 .. n + 1, i < j PROVE y[i] < y[j]
      <4>1. i \in 1 .. n /\ y[i] = x[i]
        BY <3>2, <3>3, <3>4
      <4>2. CASE j <= n
        BY <2>1, <3>2, <3>3, <3>4, <4>1, <4>2
      <4>3. CASE ~(j <= n)
        <5>1. j = n + 1
          BY <3>2, <4>3
        <5> QED
          BY <3>1, <3>3, <4>1, <5>1
      <4> QED
        BY <4>2, <4>3
    <3>5. ASSUME NEW i \in 1 .. n + 1 PROVE g[i] = BtMsgs[y[i]] /\ y[i] < b.m
      <4>1. CASE i <= n
        <5>1. i \in 1 .. n
          BY <3>2, <4>1
        <5> QED
          BY <2>1, <3>2, <3>3, <4>1, <5>1
      <4>2. CASE ~(i <= n)
        <5>1. i = n + 1
          BY <3>2, <4>2
        <5> QED
          BY <3>1, <3>2, <3>3, <5>1
      <4> QED
        BY <4>1, <4>2
    <3> QED
      BY <1>4, <3>2, <3>3, <3>4, <3>5 DEF GotInv
  <2> QED
    BY <2>2, <2>3
<1> QED
  BY <1>4, <1>5, <1>6 DEF c

\* Its processing starts, with gateway at once with the request.
LEMMA BtProcessKeeps == ASSUME Phone, BtProcess PROVE Phone'
<1>1. /\ QueueShape /\ AnswerInv /\ RequestInv /\ ble \in BleState /\ wq \in Seq(Items)
      /\ Once("btproc", wq) /\ RxInv(ble) /\ GotInv(ble, RequestWaits)
      /\ "btadv" \in Handlers /\ "btproc" # "btadv"
  BY DEF Phone, RequestInv, AnswerInv, QueueShape, Handlers
<1>2. /\ cur = Idle /\ wq # <<>> /\ Head(wq) = "btproc" /\ wq' = Tail(wq)
      /\ ble' = (IF ble.rx # <<>> /\ On("gateway") THEN Took(ble) ELSE ble)
      /\ cur' = [Idle EXCEPT !.work = "btproc", !.job = <<"bt", ble.rx>>,
                             !.pc = IF ble.rx = <<>> \/ On("gateway") THEN "out" ELSE "fill"]
  BY DEF BtProcess, Starts
<1>3. /\ cur'.work = "btproc" /\ cur'.job = <<"bt", ble.rx>> /\ cur'.pc \in {"out", "fill"}
      /\ ble.rx # <<>> /\ On("gateway") => cur'.pc = "out"
  BY <1>2 DEF Idle
<1>4. Once("btproc", wq') /\ ~Contains(wq', "btproc") /\ Contains(wq, "btproc")
  BY <1>1, <1>2, OnceTail
<1>5. ble.held /\ RequestWaits
  BY <1>1, <1>4 DEF RequestInv, RequestWaits
<1>6. /\ ble' \in BleState /\ RxInv(ble') /\ GotInv(ble', RequestWaits') /\ SameAnswers(ble, ble')
      /\ ble'.held
  <2>1. CASE ble.rx # <<>> /\ On("gateway")
    <3>1. RequestWaits' = FALSE
      BY <1>3, <1>4, <2>1 DEF RequestWaits
    <3>2. GotInv(ble, TRUE)
      BY <1>1, <1>5 DEF GotInv
    <3> QED
      BY <1>1, <1>2, <1>5, <2>1, <3>1, <3>2, TookKeeps
  <2>2. CASE ~(ble.rx # <<>> /\ On("gateway"))
    <3>1. ble' = ble
      BY <1>2, <2>2
    <3>2. GotInv(ble', RequestWaits')
      BY <1>1, <1>5, <3>1, GotWeaker
    <3> QED
      BY <1>1, <1>5, <3>1, <3>2 DEF SameAnswers
  <2> QED
    BY <2>1, <2>2
<1>7. RequestInv'
  BY <1>4, <1>6, RequestNext
<1>8. QueueShape' /\ AnswerInv'
  <2>1. cur.pc # "packet" /\ cur'.pc # "packet" /\ JobsInv'
    BY <1>2, <1>3 DEF Idle, JobsInv
  <2> QED
    BY <1>1, <1>6, <2>1, BtQueues, AnswersLeft
<1> QED
  BY <1>6, <1>7, <1>8 DEF Phone, BleState

\* It takes the request and the shared buffer.
LEMMA BtFillKeeps == ASSUME Phone, BtFill PROVE Phone'
<1>1. /\ QueueShape /\ AnswerInv /\ RequestInv /\ ble \in BleState /\ CurShape
      /\ RxInv(ble) /\ GotInv(ble, RequestWaits) /\ Once("btproc", wq)
      /\ "btadv" \in Handlers /\ "btproc" # "btadv"
  BY DEF Phone, RequestInv, QueueShape, Handlers
<1>2. /\ cur.work = "btproc" /\ cur.pc = "fill" /\ cur' = [cur EXCEPT !.pc = "send"] /\ wq' = wq
      /\ ble' = Took(ble)
  BY DEF BtFill, Fill, Running
<1>3. cur'.work = "btproc" /\ cur'.job = cur.job /\ cur'.pc = "send"
  BY <1>1, <1>2 DEF CurShape
<1>4. ble.held /\ RequestWaits /\ ~Contains(wq, "btproc")
  BY <1>1, <1>2 DEF RequestInv, RequestWaits
<1>5. RequestWaits' = FALSE
  BY <1>2, <1>3, <1>4 DEF RequestWaits
<1>6. /\ ble' \in BleState /\ RxInv(ble') /\ GotInv(ble', RequestWaits') /\ SameAnswers(ble, ble')
      /\ ble'.held
  <2>1. GotInv(ble, TRUE)
    BY <1>1, <1>4 DEF GotInv
  <2> QED
    BY <1>1, <1>2, <1>4, <1>5, <2>1, TookKeeps
<1>7. RequestInv'
  BY <1>1, <1>2, <1>4, <1>6, RequestNext
<1>8. QueueShape' /\ AnswerInv'
  <2>1. cur.pc # "packet" /\ cur'.pc # "packet" /\ JobsInv'
    BY <1>1, <1>2, <1>3 DEF AnswerInv, JobsInv
  <2> QED
    BY <1>1, <1>6, <2>1, BtQueues, AnswersLeft
<1> QED
  BY <1>6, <1>7, <1>8 DEF Phone, BleState

\* It releases rx_buf: unless a message is to be discarded, none has begun since.
LEMMA BtOutKeeps == ASSUME Phone, BtOut PROVE Phone'
<1>1. /\ QueueShape /\ AnswerInv /\ RequestInv /\ ble \in BleState
      /\ RxInv(ble) /\ GotInv(ble, RequestWaits) /\ Once("btproc", wq)
      /\ "btadv" \in Handlers /\ "btproc" # "btadv"
  BY DEF Phone, RequestInv, Handlers
<1>2. /\ cur.work = "btproc" /\ cur.pc = "out" /\ cur' = Idle /\ wq' = wq
      /\ ble' = [ble EXCEPT !.rx = <<>>, !.held = FALSE]
  BY DEF BtOut, Running, Returns
<1>3. ble.held /\ ~Contains(wq, "btproc")
  BY <1>1, <1>2 DEF RequestInv
<1>4. RequestWaits' = FALSE /\ cur'.work # "btproc" /\ cur'.work # "btrep"
  BY <1>2, <1>3 DEF RequestWaits, Idle
<1>5. /\ ble' \in BleState /\ SameAnswers(ble, ble') /\ ble'.rx = <<>> /\ ~ble'.held
      /\ ble'.m = ble.m /\ ble'.k = ble.k /\ ble'.got = ble.got /\ ble'.esc = ble.esc
      /\ ble'.discard = ble.discard
  <2>1. <<>> \in Seq(Byte)
    OBVIOUS
  <2> QED
    BY <1>1, <1>2, <2>1 DEF BleState, SameAnswers
<1>6. RxInv(ble')
  <2> DEFINE c == ble'
  <2>1. /\ c.m = ble.m /\ c.k = ble.k /\ c.rx = <<>> /\ ~c.held /\ c.esc = ble.esc
        /\ c.discard = ble.discard
    BY <1>5
  <2> HIDE DEF c
  <2>2. ~c.discard => Received(c) = <<>>
    <3>1. ~c.discard => c.k = 1
      BY <1>1, <1>3, <2>1 DEF RxInv
    <3>2. c.m \in 1 .. Len(BtMsgs) + 1
      BY <1>1, <2>1 DEF RxInv
    <3> QED
      BY <3>1, <3>2, ReceivedNothing
  <2>3. RxInv(c)
    BY <1>1, <2>1, <2>2 DEF RxInv
  <2> QED
    BY <2>3 DEF c
<1>7. GotInv(ble', RequestWaits')
  BY <1>1, <1>4, <1>5, GotWeaker
<1>8. RequestInv'
  BY <1>1, <1>2, <1>3, <1>4, <1>6, <1>7, RequestNext
<1>9. QueueShape' /\ AnswerInv'
  <2>1. cur.pc # "packet" /\ cur'.pc # "packet" /\ JobsInv'
    BY <1>2, <1>4 DEF Idle, JobsInv
  <2> QED
    BY <1>1, <1>5, <2>1, BtQueues, AnswersLeft
<1> QED
  BY <1>5, <1>8, <1>9 DEF Phone, BleState

\* It goes on with the request it has taken.
LEMMA RequestRuns ==
    ASSUME Phone, SameRequests(ble, ble'), wq' = wq, cur.work = "btproc", cur.pc # "fill",
           cur'.work = "btproc", cur'.pc # "fill"
    PROVE  RequestInv'
<1>1. RequestInv /\ Once("btproc", wq')
  BY DEF Phone, RequestInv
<1>2. RequestWaits' => RequestWaits
  BY DEF RequestWaits
<1> QED
  BY <1>1, <1>2, QuietRequests

\* A response has been sent.
LEMMA BtSentKeeps == ASSUME Phone, BtSent PROVE Phone'
<1>1. QueueShape /\ AnswerInv /\ ble \in BleState /\ CurShape /\ "btadv" \in Handlers /\ "btproc" # "btadv"
  BY DEF Phone, QueueShape, Handlers
<1>2. /\ cur.work = "btproc" /\ cur.pc = "sent" /\ cur' = [cur EXCEPT !.pc = "out"]
      /\ wq' = wq /\ ble' = ble
  BY DEF BtSent, Running
<1>3. cur'.work = "btproc" /\ cur'.job = cur.job /\ cur'.pc = "out"
  BY <1>1, <1>2 DEF CurShape
<1>4. SameRequests(ble, ble') /\ SameAnswers(ble, ble') /\ ble' \in BleState
  BY <1>1, <1>2 DEF SameRequests, SameAnswers
<1>5. RequestInv'
  BY <1>2, <1>3, <1>4, RequestRuns
<1>6. QueueShape' /\ AnswerInv'
  <2>1. cur.pc # "packet" /\ cur'.pc # "packet" /\ JobsInv'
    BY <1>1, <1>2, <1>3 DEF AnswerInv, JobsInv
  <2> QED
    BY <1>1, <1>4, <2>1, BtQueues, AnswersLeft
<1> QED
  BY <1>4, <1>5, <1>6 DEF Phone, BleState

\* The regular report, but for its packets.
LEMMA BtReportKeeps == ASSUME Phone, ble' = ble, BtReport \/ BtReportSent PROVE Phone'
<1>1. /\ QueueShape /\ AnswerInv /\ ble \in BleState /\ CurShape /\ "btadv" \in Handlers
      /\ "btproc" # "btadv" /\ "btproc" \in Handlers
  BY DEF Phone, QueueShape, Handlers
<1>2. SameRequests(ble, ble') /\ SameAnswers(ble, ble') /\ ble' \in BleState
  BY <1>1 DEF SameRequests, SameAnswers
<1>3. QueueShape' /\ RequestInv'
  BY <1>1, <1>2, BtQueues, RequestsLeft
<1>4. cur' = cur \/ (cur.pc # "packet" /\ cur'.pc # "packet" /\ JobsInv')
  <2>1. CASE ReportBegin("btrep", TRUE)
    <3> DEFINE j == <<"btrep", <<>>>>
    <3>1. j[1] = "btrep"
      OBVIOUS
    <3>2. cur' = cur \/ (cur = Idle /\ cur' = [Idle EXCEPT !.work = "btrep", !.pc = "fill", !.job = j])
      BY <2>1 DEF ReportBegin, Starts
    <3> HIDE DEF j
    <3>3. CASE cur = Idle /\ cur' = [Idle EXCEPT !.work = "btrep", !.pc = "fill", !.job = j]
      <4>1. cur.pc = "idle" /\ cur'.work = "btrep" /\ cur'.pc = "fill" /\ cur'.job = j
        BY <3>3 DEF Idle
      <4> QED
        BY <3>1, <4>1 DEF JobsInv
    <3> QED
      BY <3>2, <3>3
  <2>2. CASE Fill("btrep")
    <3>1. cur.work = "btrep" /\ cur.pc = "fill" /\ cur' = [cur EXCEPT !.pc = "send"]
      BY <2>2 DEF Fill, Running
    <3>2. cur'.work = "btrep" /\ cur'.job = cur.job /\ cur'.pc = "send"
      BY <1>1, <3>1 DEF CurShape
    <3> QED
      BY <1>1, <3>1, <3>2 DEF AnswerInv, JobsInv
  <2>3. CASE BtReportSent
    BY <2>3 DEF BtReportSent, Running, Returns, Idle, JobsInv
  <2> QED
    BY <2>1, <2>2, <2>3 DEF BtReport
<1>5. AnswerInv'
  BY <1>1, <1>2, <1>4, BtQueues, AnswersLeft
<1> QED
  BY <1>2, <1>3, <1>5 DEF Phone, BleState

-----------------------------------------------------------------------------
(* The phone: packets of the node *)

\* What is known of what a job sends.
LEMMA SendingIs ==
    ASSUME NEW job
    PROVE  LET m == Sending(job) IN
           /\ m \in Sendable /\ m \in Seq(Byte) /\ IsParts(m, PacketsOf[m], PartOf(m))
           /\ PacketsOf[m] \in Seq(Seq(Byte)) /\ Len(PacketsOf[m]) \in Nat \ {0}
           /\ PartOf(m)[0] = <<>> /\ PartOf(m)[Len(PacketsOf[m])] = m
           /\ \A n \in 1 .. Len(PacketsOf[m]) : Len(PacketsOf[m][n]) <= MTU
<1> DEFINE m == Sending(job)
<1>1. m \in Sendable
  BY DEF Sending, Sendable, Contains, ToSet
<1> HIDE DEF m
<1>2. /\ m \in Seq(Byte) /\ IsParts(m, PacketsOf[m], PartOf(m))
      /\ \A n \in 1 .. Len(PacketsOf[m]) : Len(PacketsOf[m][n]) <= MTU
  BY <1>1, Parts
<1>3. /\ PacketsOf[m] \in Seq(Seq(Byte)) /\ Len(PacketsOf[m]) >= 1
      /\ PartOf(m)[0] = <<>> /\ PartOf(m)[Len(PacketsOf[m])] = m
  BY <1>2 DEF IsParts
<1>4. Len(PacketsOf[m]) \in Nat \ {0}
  BY <1>3
<1> QED
  BY <1>1, <1>2, <1>3, <1>4 DEF m

\* The packets begin, or nobody is there.
LEMMA BtSendBeginKeeps ==
    ASSUME Phone, NEW w \in {"btproc", "btrep"}, BtSendBegin(w)
    PROVE  Phone'
<1>1. /\ QueueShape /\ AnswerInv /\ ble \in BleState /\ CurShape /\ "btadv" \in Handlers
      /\ "btproc" # "btadv" /\ "btproc" \in Handlers /\ "btrep" # "btproc"
      /\ Once("btadv", wq)
  BY DEF Phone, QueueShape, Handlers, AnswerInv
<1>2. /\ cur.work = w /\ cur.pc = "send" /\ wq' = wq /\ ble' = ble
      /\ cur' = [cur EXCEPT !.pc = IF ble.conn /\ ble.notify THEN "packet" ELSE "sent", !.i = 0]
  BY DEF BtSendBegin, Running
<1>3. /\ cur'.work = w /\ cur'.job = cur.job /\ cur'.i = 0
      /\ cur'.pc = IF ble.conn /\ ble.notify THEN "packet" ELSE "sent"
  BY <1>1, <1>2 DEF CurShape
<1>4. SameRequests(ble, ble') /\ SameAnswers(ble, ble') /\ ble' \in BleState
  BY <1>1, <1>2 DEF SameRequests, SameAnswers
<1>5. RequestInv'
  <2>1. CASE w = "btproc"
    <3>1. cur'.pc # "fill"
      BY <1>3
    <3> QED
      BY <1>2, <1>3, <1>4, <2>1, <3>1, RequestRuns
  <2>2. CASE w = "btrep"
    BY <1>1, <1>4, <2>2, BtQueues, RequestsLeft
  <2> QED
    BY <2>1, <2>2
<1>6. QueueShape'
  <2>1. OtherStep("btadv")
    BY <1>1, BtQueues
  <2> QED
    BY <1>1, <2>1, ShapeKept
<1>7. JobsInv'
  BY <1>1, <1>2, <1>3 DEF AnswerInv, JobsInv
<1>8. AnswerInv'
  <2> DEFINE m == Sending(cur.job)
             l == Len(PacketsOf[m])
  <2>1. l \in Nat \ {0} /\ PartOf(m)[0] = <<>>
    BY SendingIs
  <2>2. Sending(cur'.job) = m
    BY <1>3 DEF Sending
  <2> HIDE DEF m
  <2>3. ble.conn => ble.in = <<>> /\ ~ble.inEsc /\ ~ble.adv
    BY <1>1, <1>2 DEF AnswerInv
  <2>4. cur'.pc = "packet" =>
          /\ cur'.work \in {"btproc", "btrep"} /\ cur'.i \in 0 .. l
          /\ ble.conn /\ ble.notify /\ ~ble.inEsc /\ ble.in = PartOf(m)[cur'.i] /\ cur'.i # l
    BY <1>3, <2>1, <2>3
  <2> QED
    BY <1>1, <1>2, <1>7, <2>2, <2>3, <2>4 DEF AnswerInv, Once
<1> QED
  BY <1>4, <1>5, <1>6, <1>8 DEF Phone, BleState

\* What the phone makes of packet i + 1 of a message.
LEMMA PacketHeard ==
    ASSUME NEW b \in BleState, NEW m, NEW i \in Nat, IsParts(m, PacketsOf[m], PartOf(m)),
           m \in Sendable, i < Len(PacketsOf[m]), Len(PacketsOf[m]) \in Nat, ~b.inEsc,
           b.in = PartOf(m)[i], b.heard \subseteq Sendable
    PROVE  LET c == Heard(b, PacketsOf[m][i + 1]) IN
           /\ c \in BleState /\ SameRequests(b, c) /\ c.conn = b.conn /\ c.notify = b.notify
           /\ c.adv = b.adv /\ ~c.inEsc /\ c.heard \subseteq Sendable /\ c.big = b.big
           /\ c.in = IF i + 1 = Len(PacketsOf[m]) THEN <<>> ELSE PartOf(m)[i + 1]
<1> DEFINE ps == PacketsOf[m]
           p == ps[i + 1]
           r == reassemble(p, b.in, FALSE)
           whole == r.fin /\ r.dst # <<>>
           c == Heard(b, p)
           in == IF whole THEN <<>> ELSE r.dst
           heard == IF whole THEN b.heard \cup {r.dst} ELSE b.heard
<1>1. i + 1 \in 1 .. Len(ps) /\ i + 1 - 1 = i /\ b.in \in Seq(Byte) /\ b.inEsc = FALSE
      /\ b.heard \subseteq Seq(Byte)
  BY DEF BleState
<1>2. \A n \in 1 .. Len(ps), d \in Seq(Byte) :
         LET u == reassemble(ps[n], d, FALSE) IN
         /\ u.dst \in Seq(Byte) /\ u.esc = FALSE /\ u.fin = (n = Len(ps))
         /\ d = PartOf(m)[n - 1] => u.dst = PartOf(m)[n]
  BY DEF IsParts
<1>3. PartOf(m)[Len(ps)] = m
  BY DEF IsParts
<1> HIDE DEF ps
<1>4. r.dst \in Seq(Byte) /\ r.esc = FALSE /\ r.fin = (i + 1 = Len(ps)) /\ r.dst = PartOf(m)[i + 1]
  <2> DEFINE n == i + 1
             d == b.in
             u == reassemble(ps[n], d, FALSE)
  <2>1. n \in 1 .. Len(ps) /\ d \in Seq(Byte) /\ d = PartOf(m)[n - 1]
    BY <1>1
  <2> HIDE DEF n, d
  <2>2. /\ u.dst \in Seq(Byte) /\ u.esc = FALSE /\ u.fin = (n = Len(ps))
        /\ d = PartOf(m)[n - 1] => u.dst = PartOf(m)[n]
    BY <1>2, <2>1
  <2>3. r = u
    BY DEF n, d
  <2> HIDE DEF u, r
  <2> QED
    BY <2>1, <2>2, <2>3 DEF n
<1>5. c = [b EXCEPT !.in = in, !.inEsc = r.esc, !.heard = heard]
  BY <1>1 DEF Heard
<1> HIDE DEF r, p, c
<1>6. in \in Seq(Byte) /\ heard \subseteq Seq(Byte) /\ heard \subseteq Sendable
  <2>1. whole => r.dst = m
    BY <1>3, <1>4
  <2> QED
    BY <1>1, <1>4, <2>1
<1>7. in = IF i + 1 = Len(ps) THEN <<>> ELSE PartOf(m)[i + 1]
  BY <1>4
<1> HIDE DEF whole, in, heard
<1>8. /\ c \in BleState /\ SameRequests(b, c) /\ c.conn = b.conn /\ c.notify = b.notify
      /\ c.adv = b.adv /\ ~c.inEsc /\ c.heard = heard /\ c.big = b.big /\ c.in = in
  BY <1>4, <1>5, <1>6 DEF BleState, SameRequests
<1> QED
  BY <1>6, <1>7, <1>8 DEF c, p, ps

\* The next packet is sent, or there is none.
LEMMA BtPacketKeeps ==
    ASSUME ~On("hard"), Phone, BufferInv, NEW w \in {"btproc", "btrep"}, BtPacket(w)
    PROVE  Phone'
<1> DEFINE m == Sending(cur.job)
           ps == PacketsOf[m]
           l == Len(ps)
           p == ps[cur.i + 1]
           s == IF ble.conn /\ ble.notify /\ Len(p) <= MTU THEN Heard(ble, p) ELSE ble
           big == IF Len(p) > s.big THEN Len(p) ELSE s.big
<1>1. /\ QueueShape /\ AnswerInv /\ ble \in BleState /\ CurShape /\ "btadv" \in Handlers
      /\ "btproc" # "btadv" /\ "btproc" \in Handlers /\ "btrep" # "btproc"
      /\ Once("btadv", wq)
  BY DEF Phone, QueueShape, Handlers, AnswerInv
<1>2. cur.work = w /\ cur.pc = "packet" /\ wq' = wq
  BY DEF BtPacket, Running
<1>3. DataOf(buf) = m
  <2>1. buf = cur.job
    BY <1>2 DEF BufferInv, BufferOwn
  <2>2. cur.job[1] = IF w = "btproc" THEN "bt" ELSE "btrep"
    BY <1>1, <1>2 DEF AnswerInv, JobsInv
  <2> QED
    BY <2>1, <2>2 DEF DataOf, Sending, Answer, Requests
<1>4. \/ cur.i >= l /\ cur' = [cur EXCEPT !.pc = "sent"] /\ ble' = ble
      \/ cur.i < l /\ cur' = [cur EXCEPT !.i = @ + 1] /\ ble' = [s EXCEPT !.big = big]
  <2>1. cur.i \in Nat /\ l \in Nat
    BY <1>1, <1>2, SendingIs DEF AnswerInv
  <2>2. \/ cur.i >= l /\ cur' = [cur EXCEPT !.pc = "sent"] /\ ble' = ble
        \/ ~(cur.i >= l) /\ cur' = [cur EXCEPT !.i = @ + 1] /\ ble' = [s EXCEPT !.big = big]
    BY <1>3 DEF BtPacket
  <2> HIDE DEF s, big, l
  <2> QED
    BY <2>1, <2>2
<1>5. /\ m \in Sendable /\ IsParts(m, ps, PartOf(m)) /\ ps \in Seq(Seq(Byte))
      /\ l \in Nat \ {0} /\ \A n \in 1 .. l : Len(ps[n]) <= MTU
  BY SendingIs
<1>6. /\ cur.i \in 0 .. l /\ ble.heard \subseteq Sendable
      /\ \/ ~ble.conn /\ ~ble.adv
         \/ /\ ble.conn /\ ble.notify /\ ~ble.inEsc
            /\ ble.in = IF cur.i = l THEN <<>> ELSE PartOf(m)[cur.i]
  BY <1>1, <1>2 DEF AnswerInv
<1> HIDE DEF m, ps, l, p, s, big
<1>7. cur.i < l =>
        /\ ble' \in BleState /\ SameRequests(ble, ble') /\ ble'.conn = ble.conn
        /\ ble'.notify = ble.notify /\ ble'.adv = ble.adv /\ ble'.heard \subseteq Sendable
        /\ ble.conn => ~ble'.inEsc /\ ble'.in = IF cur.i + 1 = l THEN <<>> ELSE PartOf(m)[cur.i + 1]
  <2> SUFFICES ASSUME cur.i < l
               PROVE /\ ble' \in BleState /\ SameRequests(ble, ble') /\ ble'.conn = ble.conn
                     /\ ble'.notify = ble.notify /\ ble'.adv = ble.adv /\ ble'.heard \subseteq Sendable
                     /\ ble.conn => /\ ~ble'.inEsc
                                    /\ ble'.in = IF cur.i + 1 = l THEN <<>> ELSE PartOf(m)[cur.i + 1]
    OBVIOUS
  <2>1. /\ s \in BleState /\ SameRequests(ble, s) /\ s.conn = ble.conn
        /\ s.notify = ble.notify /\ s.adv = ble.adv /\ s.heard \subseteq Sendable
        /\ ble.conn => ~s.inEsc /\ s.in = IF cur.i + 1 = l THEN <<>> ELSE PartOf(m)[cur.i + 1]
    <3>1. cur.i \in Nat /\ cur.i + 1 \in 1 .. l
      BY <1>5, <1>6
    <3>2. Len(p) <= MTU
      BY <1>5, <3>1 DEF p
    <3>3. CASE ~ble.conn
      BY <1>1, <1>6, <3>3 DEF s, SameRequests
    <3>4. CASE ble.conn
      <4>1. s = Heard(ble, PacketsOf[m][cur.i + 1])
        BY <1>6, <3>2, <3>4 DEF s, p, ps
      <4>2. ble.in = PartOf(m)[cur.i] /\ ~ble.inEsc
        BY <1>6, <3>4
      <4>3. LET c == Heard(ble, PacketsOf[m][cur.i + 1]) IN
           /\ c \in BleState /\ SameRequests(ble, c) /\ c.conn = ble.conn /\ c.notify = ble.notify
           /\ c.adv = ble.adv /\ ~c.inEsc /\ c.heard \subseteq Sendable /\ c.big = ble.big
           /\ c.in = IF cur.i + 1 = Len(PacketsOf[m]) THEN <<>> ELSE PartOf(m)[cur.i + 1]
        <5>1. cur.i < Len(PacketsOf[m]) /\ Len(PacketsOf[m]) \in Nat /\ IsParts(m, PacketsOf[m], PartOf(m))
          BY <1>5 DEF l, ps
        <5> QED
          BY <1>1, <1>5, <1>6, <3>1, <4>2, <5>1, PacketHeard
      <4> QED
        BY <4>1, <4>3 DEF l, ps
    <3> QED
      BY <3>3, <3>4
  <2>2. big \in Nat
    <3>1. p \in Seq(Byte)
      <4>1. cur.i + 1 \in 1 .. Len(ps)
        BY <1>5, <1>6 DEF l
      <4> QED
        BY <1>5, <4>1 DEF p
    <3>2. Len(p) \in Nat /\ s.big \in Nat
      BY <2>1, <3>1 DEF BleState
    <3> QED
      BY <3>2 DEF big
  <2>3. ble' = [s EXCEPT !.big = big]
    BY <1>4, <1>5, <1>6
  <2>4. /\ ble' \in BleState /\ SameRequests(s, ble') /\ SameAnswers(s, ble')
    BY <2>1, <2>2, <2>3 DEF BleState, SameRequests, SameAnswers
  <2>5. SameRequests(ble, ble')
    BY <2>1, <2>4 DEF SameRequests
  <2> QED
    BY <2>1, <2>4, <2>5 DEF SameAnswers
<1>8. CASE cur.i >= l
  <2>1. cur' = [cur EXCEPT !.pc = "sent"] /\ ble' = ble /\ cur.i = l
    BY <1>4, <1>5, <1>6, <1>8
  <2>2. cur'.work = w /\ cur'.job = cur.job /\ cur'.pc = "sent"
    BY <1>1, <1>2, <2>1 DEF CurShape
  <2>3. SameRequests(ble, ble') /\ ble' \in BleState
    BY <1>1, <2>1 DEF SameRequests
  <2>4. RequestInv' /\ QueueShape'
    BY <1>1, <1>2, <2>2, <2>3, BtQueues, RequestRuns, RequestsLeft, ShapeKept
  <2>5. JobsInv'
    BY <1>1, <1>2, <2>2 DEF AnswerInv, JobsInv
  <2>6. AnswerInv'
    BY <1>1, <1>2, <1>6, <2>1, <2>2, <2>5 DEF AnswerInv, Once
  <2> QED
    BY <2>3, <2>4, <2>6 DEF Phone, BleState
<1>9. CASE cur.i < l
  <2>1. cur' = [cur EXCEPT !.i = @ + 1]
    BY <1>4, <1>5, <1>6, <1>9
  <2>2. cur'.work = w /\ cur'.job = cur.job /\ cur'.pc = "packet" /\ cur'.i = cur.i + 1
    BY <1>1, <1>2, <2>1 DEF CurShape
  <2>3. SameRequests(ble, ble') /\ ble' \in BleState
    BY <1>7, <1>9
  <2>4. RequestInv' /\ QueueShape'
    BY <1>1, <1>2, <2>2, <2>3, BtQueues, RequestRuns, RequestsLeft, ShapeKept
  <2>5. JobsInv'
    BY <1>1, <1>2, <2>2 DEF AnswerInv, JobsInv
  <2>6. AnswerInv'
    <3>1. Sending(cur.job)' = m
      BY <2>2 DEF Sending, m
    <3>2. /\ cur'.work \in {"btproc", "btrep"} /\ cur'.i \in 0 .. l
          /\ \/ ~ble'.conn /\ ~ble'.adv
             \/ /\ ble'.conn /\ ble'.notify /\ ~ble'.inEsc
                /\ ble'.in = IF cur'.i = l THEN <<>> ELSE PartOf(m)[cur'.i]
      BY <1>5, <1>6, <1>7, <1>9, <2>2
    <3>3. /\ Once("btadv", wq') /\ (Contains(wq', "btadv") => ~ble'.conn /\ ~ble'.adv)
          /\ ble'.conn => ~ble'.adv
          /\ ble'.notify => ble'.conn
      BY <1>1, <1>2, <1>7, <1>9 DEF AnswerInv
    <3>4. ble'.heard \subseteq Sendable /\ cur'.pc = "packet"
      BY <1>7, <1>9, <2>2
    <3> QED
      BY <2>5, <3>1, <3>2, <3>3, <3>4 DEF AnswerInv, Once, l, ps
  <2> QED
    BY <2>3, <2>4, <2>6 DEF Phone, BleState
<1> QED
  BY <1>5, <1>6, <1>8, <1>9

-----------------------------------------------------------------------------
(* The phone: the node starts, and starts again *)

\* Nothing is received and nothing queued; the phone begins request m.
LEMMA PhoneFresh ==
    ASSUME NEW b \in BleState, b.m \in 1 .. Len(BtMsgs) + 1, b.k = 1, b.rx = <<>>, ~b.esc, ~b.held
    PROVE  RxInv(b)
<1>1. BtMsgs \in Seq(Seq(STRING))
  BY BtAssumption DEF BtAssumption
<1>2. b.m <= Len(BtMsgs) => b.m \in DOMAIN BtMsgs
  BY <1>1
<1>3. b.m <= Len(BtMsgs) => 1 \in 1 .. Len(PacketsOf[BtMsgs[b.m]])
  BY <1>2, RequestIs
<1>4. Received(b) = <<>>
  BY ReceivedNothing
<1> QED
  BY <1>3, <1>4 DEF RxInv

\* The initial state.
LEMMA PhoneInvInit == Init => PhoneInv
<1> SUFFICES ASSUME Init PROVE Phone
  BY DEF PhoneInv
<1>1. cur = Idle /\ wq = BootQueue /\ timers = BootTimers /\ ble = BtBoot
  BY DEF Init, CoreInit, BtInit
<1>2. QueueShape
  BY <1>1, BootQueueType DEF QueueShape, Idle, CurShape
<1>3. /\ ble \in BleState /\ ble.m = 1 /\ ble.k = 1 /\ ble.rx = <<>> /\ ~ble.esc /\ ~ble.held
      /\ ble.got = <<>> /\ ble.heard = {} /\ ~ble.conn /\ ~ble.notify /\ ~ble.adv
  <2>1. <<>> \in Seq(Byte) /\ <<>> \in Seq(Seq(Byte)) /\ {} \in SUBSET Seq(Byte)
    OBVIOUS
  <2> QED
    BY <1>1, <2>1 DEF BtBoot, BleState
<1>4. /\ cur.work = "none" /\ cur.pc = "idle" /\ ~Contains(wq, "btproc")
      /\ Once("btproc", wq) /\ Once("btadv", wq)
  BY <1>1, BootQueueType DEF Idle, Contains, Once
<1>5. RxInv(ble)
  <2>1. Len(BtMsgs) \in Nat
    BY BtAssumption DEF BtAssumption
  <2> QED
    BY <1>3, <2>1, PhoneFresh
<1>6. GotInv(ble, RequestWaits)
  <2>1. ~RequestWaits
    BY <1>4 DEF RequestWaits
  <2>2. Len(ble.got) = 0 /\ 1 .. 0 = {}
    BY <1>3
  <2>3. [i \in {} |-> 0] \in [1 .. 0 -> DOMAIN BtMsgs]
    BY <2>2
  <2> QED
    BY <2>1, <2>2, <2>3 DEF GotInv
<1>7. RequestInv
  BY <1>4, <1>5, <1>6 DEF RequestInv
<1>8. AnswerInv
  BY <1>3, <1>4 DEF AnswerInv, JobsInv
<1> QED
  BY <1>2, <1>3, <1>7, <1>8 DEF Phone

\* A restart: the phone repeats the request it was sending.
LEMMA PhoneReboot == ASSUME Phone, Reboot PROVE Phone'
<1>0. ble \in BleState /\ RxInv(ble) /\ GotInv(ble, RequestWaits) /\ ble.heard \subseteq Sendable
  BY DEF Phone, RequestInv, AnswerInv
<1>1. cur' = Idle /\ wq' = BootQueue' /\ timers' = BootTimers' /\ env' = env
      /\ ble' = [BtBoot EXCEPT !.m = ble.m, !.got = ble.got, !.heard = ble.heard,
                               !.big = ble.big, !.drops = ble.drops]
  BY DEF Reboot, CoreReboot, BtReboot, BootQueue, BootTimers, Report, On
<1>2. BootQueue' = BootQueue /\ BootTimers' = BootTimers
  BY <1>1 DEF BootQueue, BootTimers, Report, On
<1>3. QueueShape'
  BY <1>1, <1>2, BootQueueType DEF QueueShape, Idle, CurShape
<1>4. /\ ble' \in BleState /\ ble'.m = ble.m /\ ble'.k = 1 /\ ble'.rx = <<>> /\ ~ble'.esc
      /\ ~ble'.held /\ ble'.got = ble.got /\ ble'.heard = ble.heard /\ ~ble'.conn
      /\ ~ble'.notify /\ ~ble'.adv
  <2>1. <<>> \in Seq(Byte)
    OBVIOUS
  <2> QED
    BY <1>0, <1>1, <2>1 DEF BtBoot, BleState
<1>5. /\ cur'.work = "none" /\ cur'.pc = "idle" /\ ~Contains(wq', "btproc")
      /\ Once("btproc", wq') /\ Once("btadv", wq')
  BY <1>1, <1>2, BootQueueType DEF Idle, Contains, Once
<1>6. RxInv(ble')
  <2>1. ble'.m \in 1 .. Len(BtMsgs) + 1
    BY <1>0, <1>4 DEF RxInv
  <2> QED
    BY <1>4, <2>1, PhoneFresh
<1>7. GotInv(ble', RequestWaits')
  <2>1. ~RequestWaits'
    BY <1>5 DEF RequestWaits
  <2> QED
    BY <1>0, <1>4, <2>1, GotWeaker
<1>8. RequestInv'
  BY <1>5, <1>6, <1>7, RequestNext
<1>9. AnswerInv'
  BY <1>0, <1>4, <1>5 DEF AnswerInv, JobsInv, Once
<1> QED
  BY <1>3, <1>4, <1>8, <1>9 DEF Phone, BleState

\* The invariant is inductive.
LEMMA PhoneInvNext == BufferInv /\ PhoneInv /\ [Next]_vars => PhoneInv'
<1> SUFFICES ASSUME BufferInv, PhoneInv, [Next]_vars, ~On("hard")' PROVE Phone'
  BY DEF PhoneInv
<1>0. ~On("hard") /\ Phone /\ QueueShape
  <2>1. env' = env
    BY EnvFixed
  <2> QED
    BY <2>1 DEF PhoneInv, Phone, On
<1>u. /\ "btproc" \in Handlers /\ "btadv" \in Handlers /\ "btproc" # "serproc" /\ "btadv" # "serproc"
      /\ {"serrep", "wsrep", "canrep", "canctl"} \subseteq Delayable
  BY DEF Handlers, Delayable
<1>1. CASE WorkThread
  <2>1. CASE SerialStep(SerialWork)
    BY <1>0, <1>u, <2>1, SerialQueues, OtherCurs, OthersKeepPhone DEF SerialStep
  <2>2. CASE BtStep(BtWork)
    BY <1>0, <2>2, AdvertiseKeeps, BtProcessKeeps, BtFillKeeps, BtSentKeeps, BtOutKeeps,
       BtReportKeeps, BtSendBeginKeeps, BtPacketKeeps DEF BtStep, BtWork, BtReport, BtReportSent
  <2>3. CASE WsOnly(WsReport)
    BY <1>0, <1>u, <2>3, WsDfuActions, OtherCurs, OthersKeepPhone DEF WsOnly
  <2>4. CASE LoraStep(LoraWork)
    BY <1>0, <1>u, <2>4, LoraQueues, OtherCurs, OthersKeepPhone DEF LoraStep
  <2>5. CASE CoreStep(CanWork)
    <3>1. ble' = ble
      BY <2>5 DEF CoreStep
    <3>2. CASE ControlBegin \/ ControlCopy
      BY <1>0, <1>u, <3>1, <3>2, CoreQueues, OtherCurs, OthersKeepPhone
    <3>3. CASE Fill("canctl") \/ Fill("canrep") \/ ReportSend("canrep")
      <4>1. OtherCur
        BY <1>0, <3>3, OtherCurs
      <4> QED
        BY <1>0, <1>u, <3>1, <3>3, <4>1, CoreQueues, OthersKeepPhone
    <3>4. CASE ReportBegin("canrep", TRUE)
      <4>1. OtherCur
        BY <1>0, <3>4, OtherCurs
      <4> QED
        BY <1>0, <1>u, <3>1, <3>4, <4>1, CoreQueues, OthersKeepPhone
    <3> QED
      BY <2>5, <3>2, <3>3, <3>4 DEF CoreStep, CanWork, LiveReport
  <2> QED
    BY <1>1, <2>1, <2>2, <2>3, <2>4, <2>5 DEF WorkThread
<1>2. CASE SerialStep(SerialRx)
  BY <1>0, <1>u, <1>2, SerialQueues, OtherCurs, OthersKeepPhone DEF SerialStep
<1>3. CASE BtStep(BtConnect \/ thingset_bluetooth_ccc_change \/ BtDisconnect \/ BtRx)
  BY <1>0, <1>3, BtConnectKeeps, BtNotifyKeeps, BtDisconnectKeeps, BtRxKeeps DEF BtStep
<1>4. CASE WsOnly(WsNext \/ WsStall \/ WsReportStall)
  BY <1>0, <1>u, <1>4, WsDfuActions, OtherCurs, OthersKeepPhone DEF WsOnly
<1>5. CASE LoraStep(LoraThread)
  BY <1>0, <1>u, <1>5, LoraQueues, OtherCurs, OthersKeepPhone DEF LoraStep
<1>6. CASE DfuStep(DfuNext)
  BY <1>0, <1>u, <1>6, WsDfuActions, OtherCurs, OthersKeepPhone DEF DfuStep
<1>7. ASSUME NEW w \in timers, CoreStep(Expire(w)) PROVE Phone'
  <2>1. w \in Delayable
    BY <1>0 DEF QueueShape
  <2> QED
    BY <1>0, <1>u, <1>7, <2>1, CoreQueues, OtherCurs, OthersKeepPhone DEF CoreStep
<1>8. CASE Reboot
  BY <1>0, <1>8, PhoneReboot
<1>9. CASE UNCHANGED vars
  BY <1>0, <1>9, OthersKeepPhone DEF vars, coreVars, OtherStep, QueueMove, OtherCur
<1> QED
  BY <1>1, <1>2, <1>3, <1>4, <1>5, <1>6, <1>7, <1>8, <1>9 DEF Next

\* What process_msg_handler takes from rx_buf are whole requests of the phone, in the
\* order in which they were sent: see BleRequestsWhole.
THEOREM BleRequestsAreWhole == Spec => []BleRequestsWhole
<1>1. PhoneInv => BleRequestsWhole
  <2> SUFFICES ASSUME Phone
               PROVE /\ \A k \in DOMAIN ble.got : Contains(BtMsgs, ble.got[k])
                     /\ \A j, k \in DOMAIN ble.got : j < k =>
                          \E l, m \in DOMAIN BtMsgs :
                            l < m /\ ble.got[j] = BtMsgs[l] /\ ble.got[k] = BtMsgs[m]
    BY DEF PhoneInv, BleRequestsWhole
  <2>1. DOMAIN ble.got = 1 .. Len(ble.got) /\ DOMAIN BtMsgs = 1 .. Len(BtMsgs)
    BY BtAssumption DEF Phone, BleState, BtAssumption
  <2>2. PICK x \in [1 .. Len(ble.got) -> DOMAIN BtMsgs] :
           /\ \A i, j \in 1 .. Len(ble.got) : i < j => x[i] < x[j]
           /\ \A i \in 1 .. Len(ble.got) : ble.got[i] = BtMsgs[x[i]] /\ x[i] < ble.m
    BY DEF Phone, RequestInv, GotInv
  <2>3. ASSUME NEW k \in DOMAIN ble.got PROVE Contains(BtMsgs, ble.got[k])
    BY <2>1, <2>2 DEF Contains
  <2>4. ASSUME NEW j \in DOMAIN ble.got, NEW k \in DOMAIN ble.got, j < k
        PROVE  \E l, m \in DOMAIN BtMsgs : l < m /\ ble.got[j] = BtMsgs[l] /\ ble.got[k] = BtMsgs[m]
    BY <2>1, <2>2, <2>4
  <2> QED
    BY <2>3, <2>4
<1>2. Init => BufferInv /\ PhoneInv
  BY BufferInvInit, PhoneInvInit
<1>3. BufferInv /\ PhoneInv /\ [Next]_vars => (BufferInv /\ PhoneInv)'
  BY BufferInvNext, PhoneInvNext
<1> QED
  BY <1>1, <1>2, <1>3, PTL DEF Spec

\* What the phone reassembles of the packets of thingset_bluetooth_send are whole
\* answers and reports: see BleAnswersWhole.
THEOREM BleAnswersAreWhole == Spec => []BleAnswersWhole
<1>1. PhoneInv => BleAnswersWhole
  BY DEF PhoneInv, Phone, AnswerInv, BleAnswersWhole, Sendable, ToSet, Contains
<1>2. Init => BufferInv /\ PhoneInv
  BY BufferInvInit, PhoneInvInit
<1>3. BufferInv /\ PhoneInv /\ [Next]_vars => (BufferInv /\ PhoneInv)'
  BY BufferInvNext, PhoneInvNext
<1> QED
  BY <1>1, <1>2, <1>3, PTL DEF Spec
=============================================================================
