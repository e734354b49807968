--------------------------- MODULE MCCanAddrClaim ---------------------------
(* Small instances of CanAddrClaim for TLC. *)
EXTENDS CanAddrClaim

CONSTANTS n1, n2, n3

Bus(n, t, s, l, o, r) == [nodes |-> n, timeouts |-> t, sendFails |-> s, lateFrames |-> l,
                          overlap |-> o, maxReboots |-> r]

\* Three nodes one after the other, with a restart; two at a time on the bus of a
\* third one; two at a time with timeouts and a driver that fails.
MCEnvs == {Bus({n1, n2, n3}, FALSE, FALSE, FALSE, {}, 1),
           Bus({n1, n2}, TRUE, FALSE, FALSE, {}, 1),
           Bus({n1, n2, n3}, FALSE, FALSE, FALSE, {n2, n3}, 0),
           Bus({n1, n2}, TRUE, TRUE, FALSE, {n1, n2}, 0)}

\* Two nodes that are switched on together.
PowerOn == {Bus({n1, n2}, FALSE, FALSE, FALSE, {n1, n2}, 0)}
=============================================================================
