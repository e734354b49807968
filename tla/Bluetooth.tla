----------------------------- MODULE Bluetooth -----------------------------
(***************************************************************************)
(* The Bluetooth interface, src/bluetooth.c: packets written by a phone    *)
(* are reassembled in rx_buf, which is handed to the processing work with  *)
(* its semaphore as in Serial; responses and reports are sent packet by    *)
(* packet while the connection may come and go.  The phone uses the same   *)
(* packetizer and is part of the environment, as is Zephyr's Bluetooth.    *)
(***************************************************************************)
EXTENDS SdkCore, Packetizer

CONSTANTS
    MTU,          \* bytes of a packet, in both directions
    BtMsgs,       \* the phone's requests, as sequences of bytes
    BtHard,       \* requests that packetizer.c does not carry
    MaxDrops      \* bound: connections lost

\* Features: bt, reports, gateway; stream: the phone does not wait for the node
\* to be ready; drop: connections are lost; hard: requests of BtHard.

\* ATT leaves at least 20 bytes for a packet; requests but those of BtHard are carried.
ASSUME BtAssumption == /\ MTU \in Nat /\ MTU > 2
                       /\ BtMsgs \in Seq(Seq(STRING))
                       /\ \A i \in DOMAIN BtMsgs : Carried(BtMsgs[i], MTU)

VARIABLE ble
    \* conn, notify: ble_conn, notify_resp; adv: advertising; rx, esc, held,
    \* discard: rx_buf and escape, rx_buf_lock, discard_buffer; m, k: packet k of
    \* request m is next; in, inEsc: what the phone has received of a message;
    \* got, heard: requests processed and messages the phone has received; torn:
    \* the next request began before the connection; big: longest packet; drops:
    \* connections lost

Requests == IF On("hard") THEN BtHard ELSE BtMsgs
Answer(m) == IF Contains(Requests, m) THEN m ELSE <<"e">>
ReportData == <<"r">>
Foreign    == <<"f">>     \* what another interface put into the buffer
DataOf(job) == IF job[1] = "btrep" THEN ReportData
               ELSE IF job[1] = "bt" THEN Answer(job[2]) ELSE Foreign

\* The packets of everything that is sent.
PacketsOf == [m \in ToSet(BtMsgs) \cup ToSet(BtHard) \cup {ReportData, Foreign, <<"e">>} |->
                Packets(m, MTU)]

-----------------------------------------------------------------------------
(* The connection *)

\* adv_work_handler: if bt_le_adv_start fails nobody tries again.
Advertise ==
    /\ Starts("btadv")
    /\ \E ok \in BOOLEAN : ble' = [ble EXCEPT !.adv = ok]
    /\ UNCHANGED <<env, lock, buf, timers, cur>>

\* thingset_bluetooth_conn (with an error it does nothing).
BtConnect ==
    /\ On("bt") /\ ble.adv /\ ~ble.conn
    /\ ble' = [ble EXCEPT !.conn = TRUE, !.adv = FALSE, !.in = <<>>, !.inEsc = FALSE]
    /\ UNCHANGED <<env, coreVars>>

\* The phone switches notifications on.
thingset_bluetooth_ccc_change ==
    /\ ble.conn /\ ~ble.notify
    /\ ble' = [ble EXCEPT !.notify = TRUE]
    /\ UNCHANGED <<env, coreVars>>

\* thingset_bluetooth_disconn: nothing is done about a message half received.
\* Zephyr switches notifications off; the phone repeats the request it was sending.
BtDisconnect ==
    /\ On("drop") /\ ble.conn /\ ble.drops < MaxDrops
    /\ ble' = [ble EXCEPT !.conn = FALSE, !.notify = FALSE, !.k = 1, !.drops = @ + 1,
                          !.torn = @ \/ ble.k > 1]
    /\ wq' = Rescheduled(wq, "btadv")
    /\ UNCHANGED <<env, lock, buf, timers, cur>>

-----------------------------------------------------------------------------
(* thingset_bluetooth_rx *)

\* Mutant: the rest of the message is taken for a whole one.
NoBuffer_Ignored(s) == s
\* rx_buf_lock is taken: drop the packet, and with it the message.
NoBuffer(s) == [s EXCEPT !.discard = TRUE]

Finished(s) == IF s.discard THEN [s EXCEPT !.rx = <<>>, !.discard = FALSE, !.torn = FALSE]
                            ELSE [s EXCEPT !.held = TRUE]

thingset_bluetooth_rx(s, p) ==
    LET r == reassemble(p, s.rx, s.esc)
        t == [s EXCEPT !.rx = r.dst, !.esc = r.esc]
    IN  IF s.held THEN NoBuffer(s) ELSE IF r.fin THEN Finished(t) ELSE t

\* The phone writes the next packet.
BtRx ==
    /\ ble.conn /\ ble.m <= Len(Requests)
    /\ On("stream") \/ ble.k > 1 \/ ~ble.held
    /\ LET ps == PacketsOf[Requests[ble.m]]
           s  == thingset_bluetooth_rx(ble, ps[ble.k])
           end == ble.k = Len(ps)
       IN /\ ble' = [s EXCEPT !.m = IF end THEN @ + 1 ELSE @, !.k = IF end THEN 1 ELSE @ + 1]
          /\ wq' = IF s.held /\ ~ble.held THEN Rescheduled(wq, "btproc") ELSE wq
    /\ UNCHANGED <<env, lock, buf, timers, cur>>

-----------------------------------------------------------------------------
(* process_msg_handler *)

Took(s) == [s EXCEPT !.got = IF s.torn THEN @ ELSE Append(@, s.rx), !.torn = FALSE]

BtProcess ==
    /\ Starts("btproc")
    /\ ble' = IF ble.rx # <<>> /\ On("gateway") THEN Took(ble) ELSE ble
    /\ cur' = [Idle EXCEPT !.work = "btproc", !.job = <<"bt", ble.rx>>,
                           !.pc = IF ble.rx = <<>> \/ On("gateway") THEN "out" ELSE "fill"]
    /\ UNCHANGED <<env, lock, buf, timers>>

BtFill == Fill("btproc") /\ ble' = Took(ble)

\* The phone takes in a packet of the node.
Heard(s, p) ==
    LET r == reassemble(p, s.in, s.inEsc)
        whole == r.fin /\ r.dst # <<>>
    IN  [s EXCEPT !.in = IF whole THEN <<>> ELSE r.dst, !.inEsc = r.esc,
                  !.heard = IF whole THEN @ \cup {r.dst} ELSE @]

\* Mutant: the shared buffer is given back before the packets are made from it.
BtSendBegin_GivesEarly(w) ==
    /\ Running(w, "send") /\ Give
    /\ cur' = [cur EXCEPT !.pc = IF ble.conn /\ ble.notify THEN "packet" ELSE "sent", !.i = 0]
    /\ UNCHANGED <<env, buf, wq, timers, ble>>
\* thingset_bluetooth_send: nobody is there, or the packets follow one by one.
BtSendBegin(w) ==
    /\ Running(w, "send")
    /\ cur' = [cur EXCEPT !.pc = IF ble.conn /\ ble.notify THEN "packet" ELSE "sent", !.i = 0]
    /\ UNCHANGED <<env, lock, buf, wq, timers, ble>>

\* bt_gatt_notify, whose result is ignored: a packet that is too long is not sent.
BtPacket(w) ==
    /\ Running(w, "packet")
    /\ LET ps == PacketsOf[DataOf(buf)]
           p  == ps[cur.i + 1]
       IN IF cur.i >= Len(ps) THEN cur' = [cur EXCEPT !.pc = "sent"] /\ ble' = ble
          ELSE /\ cur' = [cur EXCEPT !.i = @ + 1]
               /\ LET s == IF ble.conn /\ ble.notify /\ Len(p) <= MTU THEN Heard(ble, p) ELSE ble
                  IN  ble' = [s EXCEPT !.big = IF Len(p) > @ THEN Len(p) ELSE @]
    /\ UNCHANGED <<env, lock, buf, wq, timers>>

BtSent ==
    /\ Running("btproc", "sent") /\ Give
    /\ cur' = [cur EXCEPT !.pc = "out"]
    /\ UNCHANGED <<env, buf, wq, timers, ble>>

\* regular_report_handler: its sending is thingset_bluetooth_send as above.
BtReport == (ReportBegin("btrep", TRUE) \/ Fill("btrep")) /\ UNCHANGED ble

BtReportSent ==
    /\ Running("btrep", "sent") /\ Give /\ Returns(TRUE)
    /\ UNCHANGED <<env, buf, wq, ble>>

\* The receive buffer is released.
BtOut ==
    /\ Running("btproc", "out") /\ Returns(FALSE)
    /\ ble' = [ble EXCEPT !.rx = <<>>, !.held = FALSE]
    /\ UNCHANGED <<env, lock, buf, wq>>

BtBoot == [conn |-> FALSE, notify |-> FALSE, adv |-> FALSE, rx |-> <<>>, esc |-> FALSE,
           held |-> FALSE, discard |-> FALSE, m |-> 1, k |-> 1, in |-> <<>>, inEsc |-> FALSE,
           got |-> <<>>, heard |-> {}, torn |-> FALSE, big |-> 0, drops |-> 0]
BtInit == ble = BtBoot

\* The node restarts: the phone repeats the request it was sending.
BtReboot == ble' = [BtBoot EXCEPT !.m = ble.m, !.got = ble.got, !.heard = ble.heard,
                                  !.big = ble.big, !.drops = ble.drops]

BtWork == \/ Advertise \/ BtProcess \/ BtFill \/ BtSent \/ BtOut \/ BtReport \/ BtReportSent
          \/ \E w \in {"btproc", "btrep"} : BtSendBegin(w) \/ BtPacket(w)

-----------------------------------------------------------------------------
(* Properties *)

\* Requests of the phone are processed as they were sent, whole and in order, when
\* packets come while rx_buf is in use and when connections are lost; the one
\* exception is the request after a connection that ended within a request, which
\* is appended to what had been received.
BleRequestsWhole ==
    ~On("hard") => /\ \A k \in DOMAIN ble.got : Contains(BtMsgs, ble.got[k])
                   /\ \A j, k \in DOMAIN ble.got : j < k =>
                        \E l, m \in DOMAIN BtMsgs :
                            l < m /\ ble.got[j] = BtMsgs[l] /\ ble.got[k] = BtMsgs[m]

\* The phone reassembles responses and reports as they were sent, although the
\* shared buffer is used by others before and after and the connection may be lost
\* between two packets: the rest does not reach the next connection, because the
\* advertising waits for the sending on the same work queue.
BleAnswersWhole ==
    ~On("hard") => \A h \in ble.heard : Contains(BtMsgs, h) \/ h \in {ReportData, <<"e">>}

\* A packet fits the buffer it is written to: "Split the supplied source buffer
\* into packets that fit in the destination buffer." (packetizer.h)
PacketsFit == ble.big <= MTU
=============================================================================
