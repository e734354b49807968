------------------------------- MODULE Serial -------------------------------
(***************************************************************************)
(* The serial interface, src/serial.c: characters arrive in the UART's     *)
(* interrupt (or the polling thread) and are put into rx_buf; the line end *)
(* passes rx_buf, with its semaphore, to the work item that processes the  *)
(* request.  The host at the other end of the line is the environment.     *)
(*                                                                         *)
(* A character of line l is <<l, i>>, its checksum " XXXXXXXX#" one        *)
(* character <<l, 0>>; control characters are of line 0.  The CRC is ideal.*)
(***************************************************************************)
EXTENDS SdkCore

CONSTANTS
    SERIAL_RX_BUF_SIZE,   \* CONFIG_THINGSET_SERIAL_RX_BUF_SIZE
    SerLines,             \* the lengths of the host's requests
    SerLong               \* the same for a host with requests that do not fit

\* Features: serial, crc (USE_CRC), enforce (ENFORCE_CRC), gateway (rx_callback
\* is set), reports; stream: the host does not wait for the answers; prompt: it
\* does, and sends the next request before the node is ready; noise: a character
\* is lost or disturbed; long: requests that do not fit rx_buf.

\* Requests are not empty, and those of SerLines fit rx_buf with their checksum and
\* line end; ENFORCE_CRC depends on USE_CRC (Kconfig.serial).
ASSUME SerAssumptions ==
    /\ SERIAL_RX_BUF_SIZE \in Nat /\ SerLines \in Seq(Nat) /\ SerLong \in Seq(Nat)
    /\ \A l \in DOMAIN SerLines : SerLines[l] > 0 /\ SerLines[l] + 2 < SERIAL_RX_BUF_SIZE
    /\ \A e \in Envs : "enforce" \in e => "crc" \in e

VARIABLE ser    \* rx_buf, rx_buf_lock, discard_buffer; the host's position; history

LF   == <<0, 1>>   \* '\n'
CR   == <<0, 2>>   \* '\r'
BS   == <<0, 3>>   \* '\b'
Junk == <<0, 4>>   \* any other character

Lines      == IF On("long") THEN SerLong ELSE SerLines
Payload(l) == [i \in 1 .. Lines[l] |-> <<l, i>>]
Crc(l)     == <<l, 0>>

\* What the host sends for line l: every other line is typed with a correction
\* and ends without carriage return.
Sent(l) == (IF l % 2 = 0 THEN <<Junk, BS>> ELSE <<>>) \o Payload(l)
           \o (IF On("crc") THEN <<Crc(l)>> ELSE <<>>)
           \o (IF l % 2 = 1 THEN <<CR, LF>> ELSE <<LF>>)

-----------------------------------------------------------------------------
(* serial_rx_buf_put *)

\* Mutant: the spoilt line is not remembered.
Unavailable_Ignored(s) == s
\* rx_buf_lock is taken: drop the character, and with it the line.
Unavailable(s) == [s EXCEPT !.discard = TRUE]

\* Mutant: the next line is discarded as well.
EndOfSpoilt_Sticks(s) == [s EXCEPT !.rx = <<>>]
EndOfSpoilt(s) == [s EXCEPT !.rx = <<>>, !.discard = FALSE]

\* The line end, after which rx_buf_lock is kept for the work item.
LineEnd(s) ==
    LET line == IF s.rx # <<>> /\ Last(s.rx) = CR THEN Front(s.rx) ELSE s.rx IN
    IF s.discard THEN EndOfSpoilt(s) ELSE [s EXCEPT !.rx = line, !.held = TRUE]

serial_rx_buf_put(s, c) ==
    IF s.held THEN Unavailable(s)
    ELSE IF c = LF THEN LineEnd(s)
    ELSE IF c = BS /\ s.rx # <<>> THEN [s EXCEPT !.rx = Front(@)]
    ELSE IF Len(s.rx) < SERIAL_RX_BUF_SIZE - 1 THEN [s EXCEPT !.rx = Append(@, c)]
    ELSE s

-----------------------------------------------------------------------------
(* The host *)

\* The host may send: at any time, or after the answer, or when the node is ready.
HostReady == \/ On("stream") \/ ser.at > 1
             \/ IF On("prompt") THEN ~ser.held \/ Running("serproc", "out") ELSE ~ser.held

\* What becomes of a character on the line.
Arriving(c) == {<<c>>} \cup (IF On("noise") /\ ser.noise = 0
                             THEN {<<>>, <<Junk>>, <<LF>>, <<BS>>} ELSE {})

\* serial_rx_cb: the next character of the host, if it gets through.  The history
\* notes the lines that arrive while rx_buf is free, as did the end of the line before.
SerialRx ==
    /\ On("serial") /\ ser.line <= Len(Lines) /\ HostReady
    /\ LET c == Sent(ser.line)[ser.at]
           end == ser.at = Len(Sent(ser.line))
           open == ser.open /\ ~ser.held
       IN \E a \in Arriving(c) :
            LET s == IF a = <<>> THEN ser ELSE serial_rx_buf_put(ser, a[1]) IN
            /\ ser' = [s EXCEPT !.line = IF end THEN @ + 1 ELSE @,
                                !.at = IF end THEN 1 ELSE @ + 1,
                                !.noise = IF a = <<c>> THEN @ ELSE 1,
                                !.open = end \/ open,
                                !.before = IF end THEN ~ser.held ELSE @,
                                !.due = IF end /\ open /\ ser.before THEN @ \cup {ser.line}
                                                                     ELSE @]
            /\ wq' = IF s.held /\ ~ser.held THEN Rescheduled(wq, "serproc") ELSE wq
    /\ UNCHANGED <<env, lock, buf, timers, cur>>

-----------------------------------------------------------------------------
(* serial_process_msg_handler *)

CrcMatches(msg, c) == msg = Payload(c[1])

HasCrc(m) == Len(m) > 1 /\ Last(m)[1] # 0 /\ Last(m)[2] = 0

\* The request in <<>> or <<request>> that passes the checks.
Accepted(m) ==
    IF m = <<>> THEN <<>>
    ELSE IF On("crc") /\ HasCrc(m)
         THEN IF CrcMatches(Front(m), Last(m)) THEN <<Front(m)>> ELSE <<>>
    ELSE IF On("enforce") THEN <<>> ELSE <<m>>

\* The request is passed to rx_callback, or to ThingSet with the shared buffer.
SerialProcess ==
    /\ Starts("serproc")
    /\ LET todo == Accepted(ser.rx) IN
       /\ ser' = [ser EXCEPT !.got = IF On("gateway") THEN @ \o todo ELSE @]
       /\ cur' = [Idle EXCEPT !.work = "serproc",
                     !.pc  = IF todo = <<>> \/ On("gateway") THEN "out" ELSE "fill",
                     !.job = IF todo = <<>> THEN Nothing ELSE <<"serial", todo[1]>>]
    /\ UNCHANGED <<env, lock, buf, timers>>

\* thingset_process_message
SerialFill ==
    /\ Fill("serproc")
    /\ ser' = [ser EXCEPT !.got = Append(@, cur.job[2])]

\* thingset_serial_send, if there is a response.
SerialSend ==
    /\ Running("serproc", "send") /\ Give
    /\ cur' = [cur EXCEPT !.pc = "out"]
    /\ UNCHANGED <<env, buf, wq, timers, ser>>

\* The receive buffer is released.
SerialOut ==
    /\ Running("serproc", "out") /\ Returns(FALSE)
    /\ ser' = [ser EXCEPT !.rx = <<>>, !.held = FALSE]
    /\ UNCHANGED <<env, lock, buf, wq>>

SerialInit == ser = [rx |-> <<>>, held |-> FALSE, discard |-> FALSE, got |-> <<>>,
                     line |-> 1, at |-> 1, noise |-> 0,
                     open |-> TRUE, before |-> TRUE, due |-> {}]

\* The node restarts in the middle of the host's request or between two.
SerialReboot == ser' = [ser EXCEPT !.rx = <<>>, !.held = FALSE, !.discard = FALSE, !.noise = 1]

\* serial_regular_report_handler
SerialReport == /\ ReportBegin("serrep", TRUE) \/ Fill("serrep") \/ ReportSend("serrep")
                /\ UNCHANGED ser

SerialWork == SerialProcess \/ SerialFill \/ SerialSend \/ SerialOut \/ SerialReport

-----------------------------------------------------------------------------
(* Properties *)

\* Every line arrives as it was sent, at a node that is running, and fits rx_buf.
SerialFaultless == ser.noise = 0 /\ ~On("long")

\* A request that is processed is a line of the host, the whole of it and nothing
\* else, although characters come while the buffer is in use: on an undisturbed
\* line whose requests fit, and with ENFORCE_CRC whatever happens on the line.
SerialLinesWhole ==
    SerialFaultless \/ On("enforce")
        => \A k \in DOMAIN ser.got : \E l \in DOMAIN Lines : ser.got[k] = Payload(l)

\* A spoilt line costs no other: a line that arrives while rx_buf is free is
\* processed, provided the end of the line before (which ends what is spoilt)
\* arrived while it was free as well.
SerialRecovers ==
    SerialFaultless => \A l \in ser.due : \/ Contains(ser.got, Payload(l))
                                          \/ ser.held /\ IsPrefix(Payload(l), ser.rx)

\* Every request of a host that waits until the node is ready is processed, and
\* none twice, whatever the reports and the other interfaces do with the shared
\* buffer; unless a send over the WebSocket never returns or the node restarts.
EveryRequestServed ==
    On("serial") /\ env \cap {"stream", "prompt", "noise", "long", "stall", "dfu", "power"} = {}
        ~> ser.got = [l \in DOMAIN Lines |-> Payload(l)]
=============================================================================
