---------------------------- MODULE MCCanReqResp ----------------------------
(* Small instances of CanReqResp for TLC. *)
EXTENDS CanReqResp

Node(a, i, s, t, e) == [asks |-> a, incoming |-> i, sizes |-> s, timeouts |-> t, errors |-> e]
AnySize == {"short", "long"}
CONSTANTS p1, p2

\* Nodes that only answer: with responses of one frame, of any size, with errors;
\* and nodes that ask: twice with long requests, once and twice with time-outs.
MCEnvs == {Node(<<>>, AllIncoming, {"short"}, FALSE, FALSE),
           Node(<<>>, AllIncoming, AnySize, FALSE, FALSE),
           Node(<<>>, AllIncoming, AnySize, FALSE, TRUE),
           Node([r1 |-> p1, r2 |-> p1], {"i1"}, {"long"}, FALSE, FALSE),
           Node([r1 |-> p1, r2 |-> p2], {"i1"}, {"long"}, FALSE, FALSE),
           Node([r1 |-> p1], {"i1"}, AnySize, TRUE, TRUE),
           Node([r1 |-> p1, r2 |-> p1], {}, AnySize, TRUE, TRUE)}

\* One request, nothing fails; a server with responses of several frames; a client
\* that is also a server.
AskOnce   == {Node([r1 |-> p1], {}, {"long"}, FALSE, FALSE)}
AnswerBig == {Node(<<>>, AllIncoming, {"long"}, FALSE, FALSE)}
AskAndAnswer == {Node([r1 |-> p1], {"i1"}, {"short"}, FALSE, FALSE)}
=============================================================================
