----------------------------- MODULE IsoTpLink -----------------------------
(***************************************************************************)
(* Two nodes on a CAN bus: node "a" runs the sending half of isotp_fast.c  *)
(* towards node "b", which runs the receiving half.  The module extends    *)
(* IsoTpRecv, with a real sender (IsoTpSend) in the place of its peer.     *)
(* A frame leaves one controller and enters the other node's               *)
(* can_rx_callback in one step; on a lossy link it may vanish instead, and *)
(* the application sends without waiting for the receiver.  The protocol's *)
(* timeouts are long: they expire only when the link is quiet.             *)
(***************************************************************************)
EXTENDS IsoTpRecv

CONSTANTS MAX_LEN, OPTS_BS, OPTS_STMIN   \* of node a, as in IsoTpSend

VARIABLES sctx, swq, scur, mbox, calls, len, report, out, acked, window, waits  \* of node a

\* peer is what has been on the bus.
sendVars == <<sctx, swq, scur, mbox, calls, len, report, out, acked, window, waits>>
recvVars == <<env, rx, wq, cur>>
linkVars == <<sendVars, recvVars, peer>>

\* The two links: what node b meets on each.
RxEnv(faults) == [peers |-> {"a"}, msgs |-> MaxMsgs, lens |-> Lengths,
                  faults |-> faults, bs |-> OPTS_BS]
Links == {RxEnv({}), RxEnv({"loss", "abort", "b2b"})}
Lossy == env.faults # {}

ASSUME LinkAssumptions ==
    /\ Peers = {"a"} /\ Envs = Links /\ MaxErrors > MaxMsgs
    /\ MAX_LEN \in Nat /\ OPTS_BS \in Bytes /\ OPTS_STMIN \in Bytes

Sender == INSTANCE IsoTpSend WITH
        Targets <- {"b"}, MaxSends <- MaxMsgs, MaxStrays <- 0, TX_BUF_COUNT <- 1,
        NoInit <- {0}, FcBS <- {OPTS_BS}, FcStmin <- {OPTS_STMIN}, Faults <- {},
        wq <- swq, cur <- scur

-----------------------------------------------------------------------------

\* A frame of node a is on the bus and reaches node b, or is lost.
OnTheBus(f) ==
    /\ IsrAllowed
    /\ peer' = IF f.type = "CF" THEN [peer EXCEPT !["a"].i = @ + 1, !["a"].open = @ - 1]
               ELSE [peer EXCEPT !["a"] = [msg |-> f.msg, len |-> f.len, i |-> 2, open |-> 0]]
    /\ Arrives("a", f)

\* The application sends one message at a time to a node.
MaySend == ~sctx["b"].alloc /\ (Lossy \/ CtxOf("a") = {})

SendShort(l) ==
    /\ MaySend /\ Sender!SendSf("b", l)
    /\ OnTheBus([type |-> "SF", sn |-> 0, msg |-> calls + 1, off |-> 0, n |-> l, len |-> l])
    /\ UNCHANGED <<env, cur>>

SendLong(l) ==
    /\ MaySend /\ Sender!SendMulti("b", l)
    /\ UNCHANGED <<recvVars, peer>>

SenderWorks == Sender!Worker /\ UNCHANGED <<recvVars, peer>>

FrameOnBus ==
    /\ Sender!TxDone("b", TRUE)
    /\ OnTheBus(Head(mbox["b"]))
    /\ UNCHANGED <<env, cur>>

ReceiverWorks == Worker /\ UNCHANGED sendVars

\* receive_send_fc puts opts->bs and opts->stmin in every FC.
FcFrame(fs) == IF fs = "CTS" THEN [fs |-> "CTS", bs |-> OPTS_BS, stmin |-> OPTS_STMIN]
                             ELSE [fs |-> fs]

FcOnBus ==
    /\ IsrAllowed /\ rx.fc # <<>>
    /\ rx' = [rx EXCEPT !.fc = Tail(@)]
    /\ \/ /\ Sender!HandleFc("b", FcFrame(Head(rx.fc).fs))
          /\ peer' = [peer EXCEPT !["a"] = OnFc(@, Head(rx.fc).fs)]
       \/ Lossy /\ UNCHANGED <<sendVars, peer>>
    /\ UNCHANGED <<env, wq, cur>>

Quiet == /\ swq = <<>> /\ scur = Sender!Idle /\ mbox["b"] = <<>>
         /\ wq = <<>> /\ cur = Idle /\ rx.fc = <<>>
         /\ sctx["b"].state # "SEND_CF"

\* The separation time runs whenever it is due; the FC and CF timeouts when Quiet.
SenderTimer ==
    /\ sctx["b"].state = "SEND_CF" \/ Quiet
    /\ Sender!Timeout("b")
    /\ UNCHANGED <<recvVars, peer>>

ReceiverTimer ==
    /\ Quiet
    /\ \E b \in Blocks : Timeout(b)
    /\ UNCHANGED sendVars

-----------------------------------------------------------------------------

LinkInit == Sender!Init /\ Init

LinkNext == \/ \E l \in Lengths : SendShort(l) \/ SendLong(l)
            \/ SenderWorks \/ FrameOnBus \/ ReceiverWorks \/ FcOnBus
            \/ SenderTimer \/ ReceiverTimer

LinkSpec == LinkInit /\ [][LinkNext]_linkVars

\* Both work queues, both controllers and the timers make progress.
LinkFairness == /\ WF_linkVars(SenderWorks) /\ WF_linkVars(FrameOnBus) /\ WF_linkVars(ReceiverWorks)
                /\ WF_linkVars(FcOnBus) /\ WF_linkVars(SenderTimer) /\ WF_linkVars(ReceiverTimer)
FairLinkSpec == LinkSpec /\ LinkFairness

-----------------------------------------------------------------------------
(* Properties *)

\* Each side is the environment that the module of the other one assumes, also when
\* frames are lost: the receiver sends flow-control frames only when the sender's
\* block is complete, and the sender sends the frames of one message in order,
\* within the block the receiver granted.
EachSideAsAssumed == Sender!Spec /\ Spec

\* The abstract transfer: a message is over when its last byte is in a context
\* of node b that is due to be delivered.  Data that is not one whole message is
\* message 0, which MsgTransfer does not know; the released buffer that the error
\* path of the receiver delivers (OnlyReceivedIsDelivered) is left out where
\* receptions fail.
WholeMsg(d) == IF \E l \in Lengths : d = PiecesOf(d[1].msg, l) THEN d[1].msg ELSE 0
NotFreed(g) == LET f[n \in 0 .. Len(g)] == IF n = 0 THEN <<>>
                                            ELSE IF g[n] = Freed THEN f[n - 1]
                                            ELSE Append(f[n - 1], g[n])
               IN  f[Len(g)]
Received    == IF Lossy THEN NotFreed(rx.got["a"]) ELSE rx.got["a"]
Delivered   == [k \in DOMAIN Received |-> WholeMsg(Received[k])]
Arrived     == {WholeMsg(rx.ctx[b].data) : b \in {c \in CtxOf("a") :
                    rx.ctx[c].state \in {"PROCESS_SF", "RECYCLE"}}}
ResultOf(r) == CASE r = <<>> -> "none" [] r = <<"OK">> -> "OK" [] OTHER -> "error"

Transfer == INSTANCE MsgTransfer WITH
        Msgs      <- 1 .. MaxMsgs,
        lossy     <- Lossy,
        accepted  <- 1 .. calls,
        over      <- Arrived \cup {Delivered[k] : k \in DOMAIN Delivered},
        delivered <- Delivered,
        result    <- [m \in 1 .. MaxMsgs |-> ResultOf(report[m])]

\* Sender and receiver together implement MsgTransfer: whole, in order, at most
\* once, and where nothing is lost OK means handed over.
ImplementsTransfer == Transfer!TSpec

\* Every message accepted is reported and, once handed over on a bus that loses
\* nothing, delivered.
TransferCompletes == Transfer!TLive
=============================================================================
