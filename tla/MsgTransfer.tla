---------------------------- MODULE MsgTransfer ----------------------------
(***************************************************************************)
(* What isotp_fast promises the two applications at the ends of a link,    *)
(* with nothing of frames, flow control or timers: a message that was      *)
(* accepted is handed over at one instant; from then on it is bound to be  *)
(* delivered, whole and in its turn, and only then may the sender be told  *)
(* that it was sent.  On a lossy link a message may be lost at any time,   *)
(* and what the sender is told may be wrong.                               *)
(***************************************************************************)
EXTENDS Integers, Sequences, FiniteSets

CONSTANT Msgs       \* the messages, numbered in the order they are sent

VARIABLES
    lossy,          \* whether the link may lose messages: fixed
    accepted,       \* messages given to isotp_fast_send
    over,           \* messages handed over to the receiving node
    delivered,      \* messages passed to recv_callback, in order
    result          \* what sent_callback was told, per message

tvars == <<lossy, accepted, over, delivered, result>>

TInit == /\ lossy \in BOOLEAN
         /\ accepted = {} /\ over = {} /\ delivered = <<>>
         /\ result = [m \in Msgs |-> "none"]

Accept(m) == /\ m \notin accepted /\ \A n \in accepted : n < m
             /\ accepted' = accepted \cup {m}
             /\ UNCHANGED <<over, delivered, result>>

\* A message that has been handed over and not delivered is lost.
Lost(m) == /\ m \in over /\ \A i \in DOMAIN delivered : delivered[i] # m
           /\ over' = over \ {m}

\* A message of one frame is accepted, handed over and reported in one step.  Or it
\* is lost, and may take one with it that waits to be delivered: when no buffer is
\* left for the frame, isotp_fast gives up the context that gets it.
AcceptShort(m) == /\ m \notin accepted /\ \A n \in accepted : n < m
                  /\ accepted' = accepted \cup {m}
                  /\ \/ over' = over \cup {m}
                     \/ lossy /\ (over' = over \/ \E n \in over : Lost(n))
                  /\ result' = [result EXCEPT ![m] = "OK"]
                  /\ UNCHANGED delivered

HandOver(m) == /\ m \in accepted \ over /\ (result[m] = "none" \/ lossy)
               /\ over' = over \cup {m}
               /\ UNCHANGED <<accepted, delivered, result>>

Deliver(m) == /\ m \in over
              /\ \A i \in DOMAIN delivered : delivered[i] < m
              /\ delivered' = Append(delivered, m)
              /\ UNCHANGED <<accepted, over, result>>

\* A message is lost on its way to the application.
Lose(m) == /\ lossy /\ Lost(m)
           /\ UNCHANGED <<accepted, delivered, result>>

ReportOk(m) == /\ (m \in over \/ (lossy /\ m \in accepted)) /\ result[m] = "none"
               /\ result' = [result EXCEPT ![m] = "OK"]
               /\ UNCHANGED <<accepted, over, delivered>>

ReportError(m) == /\ m \in accepted /\ (m \notin over \/ lossy) /\ result[m] = "none"
                  /\ result' = [result EXCEPT ![m] = "error"]
                  /\ UNCHANGED <<accepted, over, delivered>>

TNext == /\ \E m \in Msgs : \/ Accept(m) \/ AcceptShort(m) \/ HandOver(m) \/ Lose(m)
                            \/ Deliver(m) \/ ReportOk(m) \/ ReportError(m)
         /\ UNCHANGED lossy

TSpec == TInit /\ [][TNext]_tvars

\* What is handed over is delivered unless the link is lossy, what is accepted is
\* reported in any case.
TLive == \A m \in Msgs :
            /\ ~lossy /\ m \in over ~> \E i \in DOMAIN delivered : delivered[i] = m
            /\ m \in accepted ~> result[m] # "none"
=============================================================================
