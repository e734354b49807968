---------------------------- MODULE MCIsoTpRecv ----------------------------
(* Small instances of IsoTpRecv for TLC, with frames of 4 bytes as in      *)
(* MCIsoTpSend.                                                            *)
EXTENDS IsoTpRecv
CONSTANTS p1, p2, p3

OnePeer(faults, bs) ==
    [peers |-> {p1}, msgs |-> 3, lens |-> {3, 12}, faults |-> faults, bs |-> bs]

\* More peers than contexts, and peers that come back while others send.
Crowd  == [peers |-> {p1, p2, p3}, msgs |-> 1, lens |-> {3, 8}, faults |-> {}, bs |-> 1]
InTurn == [peers |-> {p1, p2}, msgs |-> 2, lens |-> {3, 8}, faults |-> {}, bs |-> 1]

\* A bus without faults; the same with messages in one block, which may then be
\* too long for the pool; frames lost and late; faults of the bus and the peer;
\* every fault; and several peers.
MCEnvs == {OnePeer({}, 2), OnePeer({"fcfail"}, 0), OnePeer({"loss", "slow", "fctxerr"}, 2), OnePeer(AllRxFaults, 2),
           OnePeer({"loss", "abort", "fctxerr", "b2b"}, 2), Crowd, InTurn}
LossEnv == {OnePeer({"loss"}, 2)}
=============================================================================
