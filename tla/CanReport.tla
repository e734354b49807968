----------------------------- MODULE CanReport -----------------------------
(***************************************************************************)
(* Multi-frame reports on the CAN bus (src/src/can.c): several publishing  *)
(* nodes run thingset_can_send_report_inst, one subscribing node runs      *)
(* thingset_can_report_rx_cb.                                              *)
(*                                                                         *)
(* A publisher is a thread that cuts the report into frames, hands each to *)
(* the CAN driver and waits for report_tx_sem before the next one.  The    *)
(* driver's mailboxes, the bus and the driver's transmit callback are      *)
(* other actors, so the callback of a frame the publisher has given up on  *)
(* may come at any later moment.  The receive callback runs in the         *)
(* driver's interrupt and is one step.                                     *)
(*                                                                         *)
(* A report is its number and its length in bytes; its chunks are told     *)
(* apart by the pair <<report number, offset>>.  The hash table of receive *)
(* buffers is a function from source addresses: a bucket is searched by    *)
(* address, so the buckets only speed up the lookup.                       *)
(***************************************************************************)
EXTENDS Integers, Sequences, FiniteSets, SequencesExt

CONSTANTS
    Nodes,         \* source addresses of the publishing nodes
    CAN_MAX_DLEN,  \* payload bytes of a full frame: 8, or 64 for CAN FD
    DLC_SIZES,     \* payload sizes a DLC code can express
    SEQ_MOD,       \* 16: the sequence number has 4 bits in the CAN ID
    MSG_MOD,       \* 4: the message number has 2 bits in the CAN ID
    BUFFER_SIZE,   \* CONFIG_THINGSET_CAN_REPORT_RX_BUFFER_SIZE
    NUM_BUFFERS,   \* CONFIG_THINGSET_CAN_REPORT_RX_NUM_BUFFERS
    Lens,          \* what thingset_report_path may return (0: nothing to send)
    MaxReports,    \* bound: reports a node publishes
    FaultKinds,    \* subset of {"eagain", "error", "timeout", "txerror", "lost"}
    MaxFaults      \* bound: how many faults happen in a behaviour

ASSUME ReportAssumptions ==
    /\ CAN_MAX_DLEN \in Nat \ {0} /\ SEQ_MOD \in Nat \ {0, 1} /\ MSG_MOD \in Nat \ {0, 1}
    /\ DLC_SIZES \subseteq 0..CAN_MAX_DLEN /\ CAN_MAX_DLEN \in DLC_SIZES
    /\ BUFFER_SIZE \in Nat /\ NUM_BUFFERS \in Nat /\ Lens \subseteq Nat
    /\ MaxReports \in Nat /\ MaxFaults \in Nat
    /\ FaultKinds \subseteq {"eagain", "error", "timeout", "txerror", "lost"}

VARIABLES
    snd,     \* publishing threads and the msg_no and report_tx_sem they use
    mbox,    \* frames in the driver's transmit mailboxes, per node
    rx,      \* receive buffer of each source address, or NoBuf
    pub,     \* history: length and return value of every report published
    heard,   \* history: chunks that reached the subscriber, per source
    got,     \* history: calls of report_rx_cb, per source
    faults   \* how often each kind of fault has happened

vars == <<snd, mbox, rx, pub, heard, got, faults>>

NoBuf == [used |-> FALSE]
Pending == 1   \* "return value" of a report that is still being sent

DlcBytes(n) == CHOOSE d \in DLC_SIZES :
                 d >= n /\ \A e \in DLC_SIZES : e >= n => d <= e

ChunkLen(len, pos) == IF len - pos > CAN_MAX_DLEN THEN CAN_MAX_DLEN ELSE len - pos

MfType(len, pos) ==
    IF len - pos > CAN_MAX_DLEN
      THEN IF pos = 0 THEN "first" ELSE "consec"
      ELSE IF pos = 0 THEN "single" ELSE "last"

\* frame.id and frame.dlc; n and pos stand for the payload.
Frame(s) ==
    [msg |-> s.msg_no % MSG_MOD, type |-> MfType(s.len, s.pos), seq |-> s.seq % SEQ_MOD,
     bytes |-> DlcBytes(ChunkLen(s.len, s.pos)), n |-> s.n, pos |-> s.pos]

Init ==
    /\ snd = [a \in Nodes |-> [pc |-> "idle", len |-> 0, pos |-> 0, seq |-> 0,
                               msg_no |-> 0, sem |-> 0, n |-> 0]]
    /\ mbox = [a \in Nodes |-> {}]
    /\ rx = [a \in Nodes |-> NoBuf]
    /\ pub = [a \in Nodes |-> <<>>]
    /\ heard = [a \in Nodes |-> <<>>]
    /\ got = [a \in Nodes |-> <<>>]
    /\ faults = [k \in FaultKinds |-> 0]

Fault(kind) ==
    /\ kind \in FaultKinds
    /\ SumFunction(faults) < MaxFaults
    /\ faults' = [faults EXCEPT ![kind] = @ + 1]

Happened(kind) == kind \in FaultKinds /\ faults[kind] > 0

-----------------------------------------------------------------------------
(* The publisher.                                                          *)

\* Mutant: the next frame is handed over without waiting for the callback.
SendFrame_NoWait(a) ==
    /\ snd[a].pc = "send"
    /\ mbox' = [mbox EXCEPT ![a] = @ \cup {Frame(snd[a])}]
    /\ snd' = [snd EXCEPT ![a].pc = "wait", ![a].sem = 1]
    /\ UNCHANGED <<rx, pub, heard, got, faults>>

\* The buffer lock is taken, the semaphore reset, the report serialised;
\* the function returns at once when there is nothing to send.
StartReport(a, len) ==
    /\ snd[a].pc = "idle"
    /\ Len(pub[a]) < MaxReports
    /\ IF len = 0
         THEN /\ snd' = [snd EXCEPT ![a].sem = 0]
              /\ UNCHANGED pub
         ELSE /\ snd' = [snd EXCEPT ![a] = [@ EXCEPT !.pc = "send", !.len = len, !.pos = 0,
                                               !.seq = 0, !.sem = 0, !.n = Len(pub[a]) + 1]]
              /\ pub' = [pub EXCEPT ![a] = Append(@, [len |-> len, ret |-> Pending])]
    /\ UNCHANGED <<mbox, rx, heard, got, faults>>

\* The function returns: msg_no moves on, whether or not the report got out.
Return(s) == [s EXCEPT !.pc = "idle", !.msg_no = (@ + 1) % MSG_MOD]
Returned(a, ret) == pub' = [pub EXCEPT ![a][snd[a].n].ret = ret]

SendFrame(a) ==
    /\ snd[a].pc = "send"
    /\ mbox' = [mbox EXCEPT ![a] = @ \cup {Frame(snd[a])}]
    /\ snd' = [snd EXCEPT ![a].pc = "wait"]
    /\ UNCHANGED <<rx, pub, heard, got, faults>>

\* can_send returned -EAGAIN: no mailbox became free in time.
SendEagain(a) ==
    /\ snd[a].pc = "send"
    /\ Fault("eagain")
    /\ snd' = [snd EXCEPT ![a] = Return(@)]
    /\ Returned(a, -1)
    /\ UNCHANGED <<mbox, rx, heard, got>>

\* Any other error of can_send is not looked at: the thread waits all the same.
SendError(a) ==
    /\ snd[a].pc = "send"
    /\ Fault("error")
    /\ snd' = [snd EXCEPT ![a].pc = "wait"]
    /\ UNCHANGED <<mbox, rx, pub, heard, got>>

\* Mutant: seq starts over with the next message number only.
AfterSem_SeqStuck(s) ==
    LET pos == s.pos + ChunkLen(s.len, s.pos)
        next == [s EXCEPT !.sem = 0, !.pos = pos]
    IN  IF s.len - pos > 0 THEN [next EXCEPT !.pc = "send"] ELSE Return(next)

\* k_sem_take succeeded; then the separation time, seq, pos and the loop test.
AfterSem(s) ==
    LET pos == s.pos + ChunkLen(s.len, s.pos)
        next == [s EXCEPT !.sem = 0, !.pos = pos, !.seq = @ + 1]
    IN  IF s.len - pos > 0 THEN [next EXCEPT !.pc = "send"] ELSE Return(next)

SemTaken(a) ==
    /\ snd[a].pc = "wait"
    /\ snd[a].sem = 1
    /\ snd' = [snd EXCEPT ![a] = AfterSem(@)]
    /\ IF AfterSem(snd[a]).pc = "idle" THEN Returned(a, 0) ELSE UNCHANGED pub
    /\ UNCHANGED <<mbox, rx, heard, got, faults>>

\* k_sem_take timed out: the frame stays in its mailbox.  After an error of
\* can_send there is nothing to wait for, and the time-out is no further fault.
SemTimeout(a) ==
    /\ snd[a].pc = "wait"
    /\ snd[a].sem = 0
    /\ IF mbox[a] = {} THEN UNCHANGED faults ELSE Fault("timeout")
    /\ snd' = [snd EXCEPT ![a] = Return(@)]
    /\ Returned(a, -1)
    /\ UNCHANGED <<mbox, rx, heard, got>>

-----------------------------------------------------------------------------
(* The subscriber.                                                         *)

NumUsed == Cardinality({a \in Nodes : rx[a].used})

\* net_buf_alloc leaves msg and started to whatever the user data of the pool
\* holds: seq is the only field of the context that is set.
NewContexts == {[used |-> TRUE, msg |-> m, seq |-> 0, started |-> st, data |-> <<>>, len |-> 0] :
                  m \in 0..MSG_MOD - 1, st \in BOOLEAN}

thingset_can_get_rx_buf(a) ==
    IF rx[a].used THEN {rx[a]}
    ELSE IF NumUsed < NUM_BUFFERS THEN NewContexts
    ELSE {}

IsFirst(f) == f.type \in {"single", "first"}
IsLast(f) == f.type \in {"single", "last"}

\* The context once the type and the message number have been looked at.
Opened(b, f) == IF IsFirst(f) THEN [b EXCEPT !.msg = f.msg, !.started = TRUE] ELSE b

\* Mutant: the sequence number is not compared.
Fits_NoSeq(b, f) ==
    /\ b.msg = f.msg
    /\ b.started
    /\ b.len + f.bytes <= BUFFER_SIZE

\* The frame continues the message of the buffer and fits.
Fits(b, f) ==
    /\ b.msg = f.msg
    /\ b.started
    /\ b.seq % SEQ_MOD = f.seq
    /\ b.len + f.bytes <= BUFFER_SIZE

Extended(b, f) ==
    [b EXCEPT !.data = Append(@, <<f.n, f.pos>>), !.len = @ + f.bytes, !.seq = @ + 1]

\* Mutant: an out-of-sequence frame is ignored and the buffer kept.
Dropped_Kept(b) == b

\* A frame that does not fit frees the buffer: nothing is left of the report.
Dropped(b) == NoBuf

\* The frame's effect on the buffer b of its source address a.
thingset_can_report_rx_cb(a, b, f) ==
    LET o == Opened(b, f)
        x == Extended(o, f)
    IN  /\ rx' = [rx EXCEPT ![a] = CASE ~Fits(o, f) -> Dropped(o)
                                  [] Fits(o, f) /\ IsLast(f) -> NoBuf
                                  [] OTHER -> x]
        /\ got' = IF Fits(o, f) /\ IsLast(f)
                    THEN [got EXCEPT ![a] = Append(@, [data |-> x.data, len |-> x.len])]
                    ELSE got

-----------------------------------------------------------------------------
(* The CAN driver and the bus.                                             *)

\* report_tx_sem has a limit of 1.
thingset_can_report_tx_cb(a) == snd' = [snd EXCEPT ![a].sem = 1]

\* A frame crosses the bus: the transmit callback here, the receive callback
\* at the subscriber.
FrameOnBus(a) ==
    \E f \in mbox[a] :
      /\ mbox' = [mbox EXCEPT ![a] = @ \ {f}]
      /\ thingset_can_report_tx_cb(a)
      /\ heard' = [heard EXCEPT ![a] = Append(@, <<f.n, f.pos>>)]
      /\ IF thingset_can_get_rx_buf(a) = {}
           THEN UNCHANGED <<rx, got>>
           ELSE \E b \in thingset_can_get_rx_buf(a) : thingset_can_report_rx_cb(a, b, f)
      /\ UNCHANGED <<pub, faults>>

\* The subscriber misses a frame that the others acknowledge (overrun, restart).
FrameLost(a) ==
    \E f \in mbox[a] :
      /\ Fault("lost")
      /\ mbox' = [mbox EXCEPT ![a] = @ \ {f}]
      /\ thingset_can_report_tx_cb(a)
      /\ UNCHANGED <<rx, pub, heard, got>>

\* The driver gives the frame up and calls back with an error.
FrameTxError(a) ==
    \E f \in mbox[a] :
      /\ Fault("txerror")
      /\ mbox' = [mbox EXCEPT ![a] = @ \ {f}]
      /\ thingset_can_report_tx_cb(a)
      /\ UNCHANGED <<rx, pub, heard, got>>

Progress(a) == SendFrame(a) \/ SemTaken(a) \/ FrameOnBus(a)

Next == \E a \in Nodes :
          \/ \E len \in Lens : StartReport(a, len)
          \/ Progress(a)
          \/ SendEagain(a) \/ SendError(a) \/ SemTimeout(a)
          \/ FrameLost(a) \/ FrameTxError(a)

Spec == Init /\ [][Next]_vars

\* A thread that can run does, and the bus carries the frames it is given.
FairSpec == Spec /\ \A a \in Nodes :
              WF_vars(SendFrame(a)) /\ WF_vars(SemTaken(a)) /\ WF_vars(FrameOnBus(a))

-----------------------------------------------------------------------------
(* Properties.                                                             *)

NumChunks(len) == (len + CAN_MAX_DLEN - 1) \div CAN_MAX_DLEN
Chunks(a, n) == [i \in 1..NumChunks(pub[a][n].len) |-> <<n, (i - 1) * CAN_MAX_DLEN>>]
Delivered(a, n) == \E i \in DOMAIN got[a] : got[a][i].data = Chunks(a, n)
Reports(a) == DOMAIN pub[a]

\* The reports the subscriber's buffers can hold.
Fitting(a) == {n \in Reports(a) : pub[a][n].len <= BUFFER_SIZE}

\* Every step leaves the publishers, the mailboxes and the receive buffers in
\* their ranges, and no more buffers are in use than the pool has.
TypeOK ==
    /\ \A a \in Nodes :
         /\ snd[a].pc \in {"idle", "send", "wait"} /\ snd[a].sem \in 0..1
         /\ snd[a].msg_no \in 0..MSG_MOD - 1 /\ snd[a].pos \in 0..snd[a].len
         /\ \A f \in mbox[a] : f.seq \in 0..SEQ_MOD - 1 /\ f.bytes \in DLC_SIZES
         /\ rx[a].used => rx[a].len \in 0..BUFFER_SIZE
    /\ NumUsed <= NUM_BUFFERS

\* thingset_can_report_rx_cb hands the application exactly the chunks of one
\* published report, in order: frames lost, given up or delayed never lead to a
\* truncated report or to one put together from two.
DeliveredWhole ==
    \A a \in Nodes : \A i \in DOMAIN got[a] :
      \E n \in Reports(a) : got[a][i].data = Chunks(a, n)

\* The publisher hands the driver a frame only when the one before has left its
\* mailbox: "wait until frame was actually sent to ensure message order".
\* It holds until a wait times out: the late callback of the frame given up on
\* then counts for a frame of the next report.
OneFrameInFlight ==
    Happened("timeout") \/ \A a \in Nodes : snd[a].pc = "send" => mbox[a] = {}

\* Consecutive frames reached the subscriber with nothing in between.
HeardTogether(a, chunks) ==
    \E k \in 0..Len(heard[a]) - Len(chunks) :
      SubSeq(heard[a], k + 1, k + Len(chunks)) = chunks

\* A disturbed report costs at most the one after it: whatever was left in the
\* receive buffer, once a whole report has gone by the next one that arrives
\* complete is delivered.
RecoversAfterOneReport ==
    \A a \in Nodes : \A n \in Fitting(a) :
      n > 1 /\ HeardTogether(a, Chunks(a, n - 1) \o Chunks(a, n)) => Delivered(a, n)

\* A report of which every frame arrived is delivered, whatever happened to the
\* report before: a subscriber gets the reports of the other nodes.
CompleteIsDelivered ==
    \A a \in Nodes : \A n \in Fitting(a) :
      HeardTogether(a, Chunks(a, n)) => Delivered(a, n)

\* report_len is the length of the report.
DeliveredLength ==
    \A a \in Nodes : \A i \in DOMAIN got[a] :
      \E n \in Reports(a) : got[a][i].data = Chunks(a, n) /\ got[a][i].len = pub[a][n].len

\* thingset_can_send_report returns 0 for success only: every frame of the
\* report was transmitted.
SuccessMeansSent ==
    \A a \in Nodes : \A n \in Reports(a) :
      pub[a][n].ret = 0 => Range(Chunks(a, n)) \subseteq Range(heard[a])

\* As long as the bus has no faults every report that fits the buffers is
\* delivered, and the publisher comes back with 0.
EveryReportDelivered ==
    \A a \in Nodes : \A n \in 1..MaxReports :
      (n \in Fitting(a)) ~> \/ n \in Reports(a) /\ Delivered(a, n) /\ pub[a][n].ret = 0
                            \/ \E k \in FaultKinds : Happened(k)

=============================================================================
