----------------------------- MODULE Packetizer -----------------------------
(***************************************************************************)
(* src/packetizer.c: a message is sent over Bluetooth in packets, between  *)
(* two end markers and with the bytes that look like one escaped (after    *)
(* SLIP, RFC 1055).  packetize makes one packet, reassemble takes one in.  *)
(***************************************************************************)
EXTENDS Integers, Sequences, SequencesExt

MSG_END  == "END"
MSG_SKIP == "SKIP"
MSG_ESC  == "ESC"

\* The byte that stands for an escaped one, and back (any other byte is passed as
\* it is).
Escapes    == [c \in {MSG_END, MSG_SKIP, MSG_ESC} |->
                IF c = MSG_END THEN "ESC_END" ELSE IF c = MSG_SKIP THEN "ESC_SKIP" ELSE "ESC_ESC"]
Encoded(c) == IF c \in DOMAIN Escapes THEN <<MSG_ESC, Escapes[c]>> ELSE <<c>>
Decoded(c) == IF \E e \in DOMAIN Escapes : Escapes[e] = c
              THEN CHOOSE e \in DOMAIN Escapes : Escapes[e] = c ELSE c

-----------------------------------------------------------------------------

\* The end marker follows the last byte, if it fits.
PutEnd(p, src, dst_len) ==
    IF Len(p.dst) < dst_len - 1 /\ p.pos = Len(src)
    THEN [dst |-> Append(p.dst, MSG_END), pos |-> p.pos + 1] ELSE p

\* The packet made from position pos (counted from 0) of src, and the position
\* after it.  A byte is begun while there is room for one; an escaped one needs two.
packetize(src, dst_len, pos) ==
    LET loop[n \in 0 .. Len(src)] ==
            IF n = 0 THEN [dst |-> IF pos = 0 THEN <<MSG_END>> ELSE <<>>, pos |-> pos]
            ELSE LET p == loop[n - 1] IN
                 IF Len(p.dst) < dst_len /\ p.pos < Len(src)
                 THEN [dst |-> p.dst \o Encoded(src[p.pos + 1]), pos |-> p.pos + 1]
                 ELSE p
    IN  PutEnd(loop[Len(src)], src, dst_len)

\* The packets of a message: packetize is called until it returns 0.
Packets(src, dst_len) ==
    LET call[n \in 0 .. Len(src) + 2] ==
            IF n = 0 THEN [dst |-> <<>>, pos |-> 0] ELSE packetize(src, dst_len, call[n - 1].pos)
    IN  [n \in {k \in 1 .. Len(src) + 2 : call[k].dst # <<>>} |-> call[n].dst]

-----------------------------------------------------------------------------

\* What one byte does to [dst, esc, fin, ret]: fin is `finished`, ret means that
\* reassemble has returned and ignores the rest of the packet.
TakeByte(r, c) ==
    IF r.ret THEN r
    ELSE IF r.esc THEN [r EXCEPT !.esc = FALSE, !.dst = Append(@, Decoded(c))]
    ELSE IF c = MSG_ESC THEN [r EXCEPT !.esc = TRUE]
    ELSE IF c = MSG_SKIP THEN r
    ELSE IF c = MSG_END THEN [r EXCEPT !.ret = ~r.fin, !.fin = TRUE]
    ELSE [r EXCEPT !.fin = FALSE, !.dst = Append(@, c)]

\* Every call starts with finished = true.
reassemble(src, dst, esc) ==
    LET take[n \in 0 .. Len(src)] ==
            IF n = 0 THEN [dst |-> dst, esc |-> esc, fin |-> TRUE, ret |-> FALSE]
            ELSE TakeByte(take[n - 1], src[n])
    IN  take[Len(src)]

-----------------------------------------------------------------------------

\* A packet that carries nothing but escaped bytes: reassemble takes it for the
\* end of a message.
OnlyEscapes(p) == /\ Contains(p, MSG_ESC)
                  /\ \A i \in DOMAIN p : \/ p[i] \in {MSG_END, MSG_ESC}
                                         \/ i > 1 /\ p[i - 1] = MSG_ESC
\* Messages that get through packetize and reassemble with packets of dst_len
\* bytes: none overflows and none is taken for the end.
Carried(m, dst_len) ==
    \A i \in DOMAIN Packets(m, dst_len) : /\ Len(Packets(m, dst_len)[i]) <= dst_len
                                          /\ ~OnlyEscapes(Packets(m, dst_len)[i])
=============================================================================
