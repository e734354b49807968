-------------------------- MODULE CanReqRespProofs --------------------------
(***************************************************************************)
(* Theorems about CanReqResp, for every number of requests, peers, reports *)
(* and messages, and every node and environment.                           *)
(***************************************************************************)
EXTENDS CanReqResp, FiniteSetTheorems, TLAPS

-----------------------------------------------------------------------------
(* Types *)

Ids   == AllRequests \cup AllIncoming
Heard == Ids \cup {"sent", "error", "timeout"}
AppPc == {"idle", "send", "sent", "error", "asked", "done", "refused"}
WqState == [pc : {"idle", "take", "process", "give"}, msg : Ids \cup {None}]
Fin   == [at : {None, "fields", "timer"}, give : BOOLEAN]

\* The type invariant with what TypeOK leaves out.
TypeInv ==
    /\ env \in Env
    /\ rr \in [callback : AllRequests \cup {None}, can_id : Peers \cup {None},
              timer : BOOLEAN, sem : 0 .. 1]
    /\ rr.callback \in Requests \cup {None}
    /\ lock \in 0 .. 1
    /\ app \in [AllRequests -> AppPc]
    /\ wq \in WqState
    /\ wq.pc # "idle" => wq.msg \in Ids
    /\ fin \in [Threads -> Fin]
    /\ inbox \subseteq [from : Peers, id : Ids]
    /\ out \subseteq [id : Ids, response : BOOLEAN]
    /\ report \in [pc : {"idle", "send"}, count : Nat]
    /\ calls \in [AllRequests -> Seq(Heard)]

\* What is fixed for a behaviour.
LEMMA EnvFacts ==
    ASSUME env \in Env
    PROVE  /\ Requests \subseteq AllRequests /\ Incoming \subseteq AllIncoming
           /\ \A r \in Requests : env.asks[r] \in Peers
           /\ Timeouts \in BOOLEAN /\ SendErrors \in BOOLEAN
           /\ Results \subseteq {"sent", "error"}
           /\ ~SendErrors => Results = {"sent"}
           /\ Arriving \subseteq [from : Peers, id : Ids]
<1>1. PICK R \in SUBSET AllRequests : env.asks \in [R -> Peers]
  BY DEF Env
<1>2. Requests = R /\ \A r \in Requests : env.asks[r] \in Peers
  BY <1>1 DEF Requests
<1>3. Incoming \subseteq AllIncoming /\ Timeouts \in BOOLEAN /\ SendErrors \in BOOLEAN
  BY DEF Env, Incoming, Timeouts, SendErrors
<1>4. Results \subseteq {"sent", "error"} /\ (~SendErrors => Results = {"sent"})
  BY DEF Results
<1>5. Arriving \subseteq [from : Peers, id : Ids]
  BY <1>1, <1>2, <1>3 DEF Arriving, Response, Ids
<1> QED
  BY <1>1, <1>2, <1>3, <1>4, <1>5

\* A call of the registered callback.
LEMMA CallType ==
    ASSUME TypeInv, rr.callback # None, NEW result \in Heard, Call(result)
    PROVE  /\ calls' \in [AllRequests -> Seq(Heard)]
           /\ \A r \in AllRequests : calls'[r] = IF r = rr.callback THEN Append(calls[r], result)
                                                ELSE calls[r]
<1>1. rr.callback \in AllRequests
  BY DEF TypeInv
<1> QED
  BY <1>1 DEF Call, TypeInv

\* thingset_can_reqresp_sent_callback.
LEMMA SentCallbackType ==
    ASSUME TypeInv, NEW t \in Threads, NEW result \in {"sent", "error"},
           thingset_can_reqresp_sent_callback(t, result)
    PROVE  /\ calls' \in [AllRequests -> Seq(Heard)] /\ fin' \in [Threads -> Fin]
           /\ lock' \in 0 .. 1
<1>1. CASE rr.callback # None
  <2>1. Call(result) /\ fin' = [fin EXCEPT ![t] = [at |-> "fields", give |-> result = "sent"]] /\ lock' = lock
    BY <1>1 DEF thingset_can_reqresp_sent_callback
  <2>2. [at |-> "fields", give |-> result = "sent"] \in Fin
    BY DEF Fin
  <2>3. fin' \in [Threads -> Fin]
    BY <2>1, <2>2 DEF TypeInv
  <2>4. result \in Heard
    BY DEF Heard
  <2> QED
    BY <1>1, <2>1, <2>3, <2>4, CallType DEF TypeInv
<1>2. CASE rr.callback = None
  BY <1>2 DEF thingset_can_reqresp_sent_callback, TypeInv
<1> QED
  BY <1>1, <1>2

\* Every variable has its type when the node starts ...
LEMMA TypeInit == Init => TypeInv
<1> SUFFICES ASSUME Init PROVE TypeInv
  OBVIOUS
<1>1. env \in Env
  BY ReqRespAssumptions DEF Init, ReqRespAssumptions
<1>2. [at |-> None, give |-> FALSE] \in Fin /\ <<>> \in Seq(Heard)
  BY DEF Fin
<1>3. fin \in [Threads -> Fin] /\ calls \in [AllRequests -> Seq(Heard)]
  BY <1>2 DEF Init
<1>4. rr \in [callback : AllRequests \cup {None}, can_id : Peers \cup {None},
              timer : BOOLEAN, sem : 0 .. 1] /\ rr.callback \in Requests \cup {None}
  BY DEF Init
<1>5. report \in [pc : {"idle", "send"}, count : Nat] /\ wq \in WqState /\ wq.pc = "idle"
  BY DEF Init, WqState
<1> QED
  BY <1>1, <1>3, <1>4, <1>5 DEF Init, TypeInv, AppPc

\* ... and keeps it with every step.
LEMMA TypeNext == TypeInv /\ [Next]_vars => TypeInv'
<1> SUFFICES ASSUME TypeInv, [Next]_vars PROVE TypeInv'
  OBVIOUS
<1> USE ReqRespAssumptions DEF ReqRespAssumptions
<1>a. /\ Requests \subseteq AllRequests /\ Results \subseteq {"sent", "error"}
      /\ \A r \in Requests : env.asks[r] \in Peers
      /\ Timeouts \in BOOLEAN /\ Arriving \subseteq [from : Peers, id : Ids]
  BY EnvFacts DEF TypeInv
<1>b. SysWq \in Threads /\ AllRequests \subseteq Threads
  BY DEF Threads
<1>c. env' = env => Requests' = Requests
  BY DEF Requests
<1>1. ASSUME NEW r \in AllRequests, TakeSlot(r) PROVE TypeInv'
  <2>1. rr' \in [callback : AllRequests \cup {None}, can_id : Peers \cup {None},
                timer : BOOLEAN, sem : 0 .. 1] /\ rr'.callback \in Requests
    BY <1>1, <1>a DEF TakeSlot
  <2> QED
    BY <1>1, <1>c, <2>1 DEF TakeSlot, TypeInv, AppPc
<1>2. ASSUME NEW r \in AllRequests, NoSlot(r) PROVE TypeInv'
  BY <1>2, <1>c DEF NoSlot, TypeInv, AppPc
<1>3. ASSUME NEW r \in AllRequests, SendShort(r) PROVE TypeInv'
  <2>1. app' \in [AllRequests -> AppPc]
    BY <1>3, <1>a DEF SendShort, TypeInv, AppPc
  <2> QED
    BY <1>3, <1>c, <2>1 DEF SendShort, TypeInv
<1>4. ASSUME NEW r \in AllRequests, SentShort(r) PROVE TypeInv'
  <2>1. app[r] \in {"sent", "error"}
    BY <1>4, <1>a DEF SentShort
  <2>2. app' \in [AllRequests -> AppPc]
    BY <1>4 DEF SentShort, TypeInv, AppPc
  <2>3. /\ calls' \in [AllRequests -> Seq(Heard)] /\ fin' \in [Threads -> Fin] /\ lock' \in 0 .. 1
    BY <1>4, <1>b, <2>1, SentCallbackType DEF SentShort
  <2> QED
    BY <1>4, <1>c, <2>2, <2>3 DEF SentShort, TypeInv
<1>5. ASSUME NEW r \in AllRequests, SendLong(r) PROVE TypeInv'
  <2>1. [id |-> r, response |-> FALSE] \in [id : Ids, response : BOOLEAN]
    BY DEF Ids
  <2>2. out' \subseteq [id : Ids, response : BOOLEAN]
    BY <1>5, <2>1 DEF SendLong, TypeInv
  <2> QED
    BY <1>5, <1>c, <2>2 DEF SendLong, TypeInv, AppPc
<1>6. ASSUME NEW t \in Threads, ResetFields(t) PROVE TypeInv'
  <2>1. fin' \in [Threads -> Fin]
    BY <1>6 DEF ResetFields, TypeInv, Fin
  <2>2. rr' \in [callback : AllRequests \cup {None}, can_id : Peers \cup {None},
                timer : BOOLEAN, sem : 0 .. 1] /\ rr'.callback = None
    BY <1>6 DEF ResetFields, TypeInv
  <2> QED
    BY <1>6, <1>c, <2>1, <2>2 DEF ResetFields, TypeInv
<1>7. ASSUME NEW t \in Threads, ResetTimer(t) PROVE TypeInv'
  <2>0. rr' = [callback |-> rr.callback, can_id |-> rr.can_id, timer |-> FALSE, sem |-> 1]
    <3>1. rr' = [rr EXCEPT !.timer = FALSE, !.sem = 1]
      BY <1>7 DEF ResetTimer
    <3> QED
      BY <3>1, Zenon DEF TypeInv
  <2>1. fin' \in [Threads -> Fin]
    BY <1>7 DEF ResetTimer, TypeInv, Fin
  <2>2. rr' \in [callback : AllRequests \cup {None}, can_id : Peers \cup {None},
                timer : BOOLEAN, sem : 0 .. 1] /\ rr'.callback = rr.callback
    BY <2>0 DEF TypeInv
  <2>3. fin[t].give \in BOOLEAN
    BY DEF TypeInv, Fin
  <2>4. lock' = 1 \/ lock' = lock
    BY <1>7, <2>3 DEF ResetTimer
  <2>5. lock' \in 0 .. 1
    BY <2>4 DEF TypeInv
  <2> QED
    BY <1>7, <1>c, <2>1, <2>2, <2>5 DEF ResetTimer, TypeInv
<1>8. CASE TimerExpires
  <2>1. rr' \in [callback : AllRequests \cup {None}, can_id : Peers \cup {None},
                timer : BOOLEAN, sem : 0 .. 1] /\ rr'.callback = None
    BY <1>8 DEF TimerExpires
  <2>2. calls' \in [AllRequests -> Seq(Heard)]
    BY <1>8, CallType DEF TimerExpires, TypeInv, Heard
  <2> QED
    BY <1>8, <1>c, <2>1, <2>2 DEF TimerExpires, TypeInv
<1>9. CASE TransferEnds
  <2>1. PICK x \in out, result \in Results :
           /\ out' = out \ {x}
           /\ thingset_can_reqresp_sent_callback(SysWq, result)
           /\ app' = IF ~x.response /\ result = "sent" THEN [app EXCEPT ![x.id] = "asked"] ELSE app
    BY <1>9 DEF TransferEnds
  <2>2. /\ calls' \in [AllRequests -> Seq(Heard)] /\ fin' \in [Threads -> Fin] /\ lock' \in 0 .. 1
    BY <1>a, <1>b, <2>1, SentCallbackType
  <2>3. app' \in [AllRequests -> AppPc]
    BY <2>1 DEF TypeInv, AppPc
  <2> QED
    BY <1>9, <1>c, <2>1, <2>2, <2>3 DEF TransferEnds, TypeInv
<1>10. CASE ReceiveResponse
  <2>1. PICK m \in inbox : IsResponse(m) /\ Call(m.id)
    BY <1>10 DEF ReceiveResponse
  <2>2. calls' \in [AllRequests -> Seq(Heard)]
    BY <2>1, CallType DEF IsResponse, Heard, TypeInv
  <2>3. [at |-> "fields", give |-> FALSE] \in Fin
    BY DEF Fin
  <2>4. fin' \in [Threads -> Fin]
    BY <1>10, <2>3 DEF ReceiveResponse, TypeInv
  <2> QED
    BY <1>10, <1>c, <2>2, <2>4 DEF ReceiveResponse, TypeInv
<1>11. CASE ReceiveRequest
  <2>1. wq' \in WqState /\ wq'.msg \in Ids
    BY <1>11 DEF ReceiveRequest, TypeInv, WqState
  <2> QED
    BY <1>11, <1>c, <2>1 DEF ReceiveRequest, TypeInv
<1>12. CASE TakeBuffer
  <2>1. wq' \in WqState /\ wq'.msg \in Ids
    BY <1>12 DEF TakeBuffer, TypeInv, WqState
  <2>2. lock' \in 0 .. 1
    BY <1>12 DEF TakeBuffer
  <2> QED
    BY <1>12, <1>c, <2>1, <2>2 DEF TakeBuffer, TypeInv
<1>13. CASE NoResponse
  <2>1. wq' \in WqState /\ wq'.pc = "idle"
    BY <1>13 DEF NoResponse, WqDone, TypeInv, WqState
  <2>2. lock' \in 0 .. 1
    BY <1>13 DEF NoResponse
  <2> QED
    BY <1>13, <1>c, <2>1, <2>2 DEF NoResponse, TypeInv
<1>14. CASE RespondShort
  <2>1. PICK result \in Results :
           /\ thingset_can_reqresp_sent_callback(SysWq, result)
           /\ WqDone(IF result = "sent" THEN "idle" ELSE "give")
    BY <1>14 DEF RespondShort
  <2>2. /\ calls' \in [AllRequests -> Seq(Heard)] /\ fin' \in [Threads -> Fin] /\ lock' \in 0 .. 1
    BY <1>a, <1>b, <2>1, SentCallbackType
  <2>3. wq' \in WqState /\ (wq'.pc # "idle" => wq'.msg \in Ids)
    BY <1>14, <2>1 DEF RespondShort, WqDone, TypeInv, WqState
  <2> QED
    BY <1>14, <1>c, <2>2, <2>3 DEF RespondShort, TypeInv
<1>15. CASE GiveBuffer
  <2>1. wq' \in WqState /\ wq'.pc = "idle"
    BY <1>15 DEF GiveBuffer, TypeInv, WqState
  <2>2. lock' \in 0 .. 1
    BY <1>15 DEF GiveBuffer
  <2> QED
    BY <1>15, <1>c, <2>1, <2>2 DEF GiveBuffer, TypeInv
<1>16. CASE RespondLong
  <2>1. wq' \in WqState /\ wq'.pc = "idle"
    BY <1>16 DEF RespondLong, WqDone, TypeInv, WqState
  <2>2. wq.msg \in Ids
    BY <1>16 DEF RespondLong, TypeInv
  <2>3. [id |-> wq.msg, response |-> TRUE] \in [id : Ids, response : BOOLEAN]
    BY <2>2
  <2>4. out' = out \/ out' = out \cup {[id |-> wq.msg, response |-> TRUE]}
    BY <1>16 DEF RespondLong
  <2>5. out' \subseteq [id : Ids, response : BOOLEAN]
    BY <2>3, <2>4 DEF TypeInv
  <2>6. lock' = lock \/ lock' = 1
    BY <1>16 DEF RespondLong
  <2>7. lock' \in 0 .. 1
    BY <2>6 DEF TypeInv
  <2> QED
    BY <1>16, <1>c, <2>1, <2>5, <2>7 DEF RespondLong, TypeInv
<1>17. CASE MessageArrives
  BY <1>17, <1>a, <1>c DEF MessageArrives, TypeInv
<1>18. CASE ReportTakes \/ ReportGives
  <2>1. report' \in [pc : {"idle", "send"}, count : Nat] /\ lock' \in 0 .. 1
    BY <1>18 DEF ReportTakes, ReportGives, TypeInv
  <2> QED
    BY <1>18, <1>c, <2>1 DEF ReportTakes, ReportGives, TypeInv
<1>19. CASE UNCHANGED vars
  BY <1>19, <1>c DEF vars, TypeInv
<1> QED
  BY <1>1, <1>2, <1>3, <1>4, <1>5, <1>6, <1>7, <1>8, <1>9, <1>10, <1>11, <1>12, <1>13, <1>14,
     <1>15, <1>16, <1>17, <1>18, <1>19 DEF Next, Send, Reset, WorkQueue

\* The slot and the semaphores of slot and buffer stay in range, whatever the
\* interleaving of threads, work queue and timer interrupt.
THEOREM TypeCorrect == Spec => []TypeOK
<1>1. TypeInv => TypeOK
  BY DEF TypeInv, TypeOK, Fin
<1> QED
  BY <1>1, TypeInit, TypeNext, PTL DEF Spec

-----------------------------------------------------------------------------
(* The shared buffer of a node that only answers requests *)

\* The slot is never used, and the buffer is locked only while somebody works in it.
ServerInv ==
    ServerOnly =>
      /\ rr.callback = None /\ rr.timer = FALSE
      /\ \A t \in Threads : fin[t].at = None
      /\ \A r \in AllRequests : app[r] = "idle"
      /\ \A x \in out : x.response = TRUE
      /\ users \subseteq {"response", "report"}
      /\ lock = 0 => users # {}

\* Somebody works in the buffer.
Answering == wq.pc = "process" \/ out # {}
Reporting == report.pc = "send"

\* Who works in the buffer is known from the state of work queue, transfers and
\* publishing thread, there is one of them at most, and it holds the lock.
ExclusiveInv ==
    ServerOnly /\ ~SendErrors =>
      /\ wq.pc # "give"
      /\ \A x, y \in out : x = y
      /\ "response" \in users <=> Answering
      /\ "report" \in users <=> Reporting
      /\ ~(wq.pc = "process" /\ out # {})
      /\ ~(Answering /\ Reporting)
      /\ Answering \/ Reporting => lock = 0

\* A step of a node that only answers requests is one of the work queue, of a peer
\* or of the publishing thread, and a message it sends finds no callback registered.
LEMMA ServerSteps ==
    ASSUME TypeInv, ServerInv, ServerOnly, Next
    PROVE  /\ ~(\E r \in AllRequests : TakeSlot(r) \/ NoSlot(r) \/ Send(r))
           /\ ~(\E t \in Threads : Reset(t))
           /\ ~TimerExpires /\ ~ReceiveResponse
           /\ \A t, result : thingset_can_reqresp_sent_callback(t, result) =>
                               lock' = 1 /\ UNCHANGED <<calls, fin>>
<1> USE DEF ServerInv
<1>1. ~(\E r \in AllRequests : TakeSlot(r) \/ NoSlot(r) \/ Send(r))
  <2> SUFFICES ASSUME NEW r \in AllRequests PROVE ~(TakeSlot(r) \/ NoSlot(r) \/ Send(r))
    OBVIOUS
  <2>1. r \notin Requests /\ app[r] = "idle"
    BY DEF ServerOnly
  <2>2. ~TakeSlot(r) /\ ~NoSlot(r)
    BY <2>1 DEF TakeSlot, NoSlot
  <2>3. ~Send(r)
    BY <2>1 DEF Send, SendShort, SentShort, SendLong, Results
  <2> QED
    BY <2>2, <2>3
<1>2. ~(\E t \in Threads : Reset(t))
  BY DEF Reset, ResetFields, ResetTimer, None
<1>3. ~TimerExpires
  BY DEF TimerExpires
<1>4. ~ReceiveResponse
  BY DEF ReceiveResponse, IsResponse
<1>5. \A t, result : thingset_can_reqresp_sent_callback(t, result) =>
                       lock' = 1 /\ UNCHANGED <<calls, fin>>
  BY DEF thingset_can_reqresp_sent_callback
<1> QED
  BY <1>1, <1>2, <1>3, <1>4, <1>5

\* Initially no thread is in the server and the buffer is free.
LEMMA ServerInit == Init => ServerInv /\ ExclusiveInv
<1> SUFFICES ASSUME Init PROVE ServerInv /\ ExclusiveInv
  OBVIOUS
<1>1. ServerInv
  BY DEF Init, ServerInv
<1>2. ExclusiveInv
  BY DEF Init, ExclusiveInv, Answering, Reporting
<1> QED
  BY <1>1, <1>2

\* Whoever leaves the buffer gives its lock.
LEMMA ServerNext == TypeInv /\ ServerInv /\ [Next]_vars => ServerInv'
<1> SUFFICES ASSUME TypeInv, ServerInv, [Next]_vars, ServerOnly'
             PROVE  ServerInv'
  BY DEF ServerInv
<1>1. env' = env
  BY DEF Next, vars, TakeSlot, NoSlot, Send, SendShort, SentShort, SendLong, Reset, ResetFields,
     ResetTimer, TimerExpires, WorkQueue, TransferEnds, ReceiveResponse, ReceiveRequest, TakeBuffer,
     NoResponse, RespondShort, GiveBuffer, RespondLong, MessageArrives, ReportTakes, ReportGives
<1>2. ServerOnly
  BY <1>1 DEF ServerOnly, Requests
<1>3. CASE UNCHANGED vars
  BY <1>2, <1>3 DEF vars, ServerInv
<1> SUFFICES ASSUME Next PROVE ServerInv'
  BY <1>3
<1> DEFINE Still == /\ rr' = rr /\ fin' = fin /\ app' = app
                    /\ \A x \in out' : x \in out \/ x.response = TRUE
<1>4. ASSUME Still, users' \subseteq {"response", "report"}, lock' = 0 => users' # {}
      PROVE  ServerInv'
  BY <1>2, <1>4 DEF ServerInv
<1>5. users \subseteq {"response", "report"} /\ (lock = 0 => users # {})
  BY <1>2 DEF ServerInv
<1>6. \A t, result : thingset_can_reqresp_sent_callback(t, result) => lock' = 1 /\ fin' = fin
  BY <1>2, ServerSteps
<1>g. ASSUME Still, users' \subseteq users, lock' = 1 PROVE ServerInv'
  <2>1. lock' # 0
    BY <1>g
  <2> QED
    BY <1>4, <1>5, <1>g, <2>1
<1>7. CASE TransferEnds
  <2>1. PICK x \in out, result \in Results :
           /\ thingset_can_reqresp_sent_callback(SysWq, result)
           /\ users' = IF x.response THEN users \ {"response"} ELSE users
           /\ app' = IF ~x.response /\ result = "sent" THEN [app EXCEPT ![x.id] = "asked"] ELSE app
    BY <1>7 DEF TransferEnds
  <2>2. x.response = TRUE
    BY <1>2 DEF ServerInv
  <2>3. app' = app /\ users' \subseteq users /\ out' \subseteq out
    BY <1>7, <2>1, <2>2 DEF TransferEnds
  <2>4. rr' = rr /\ lock' = 1 /\ fin' = fin
    BY <1>6, <1>7, <2>1 DEF TransferEnds
  <2> QED
    BY <1>g, <2>3, <2>4
<1>8. CASE RespondShort
  <2>1. lock' = 1 /\ fin' = fin
    BY <1>6, <1>8 DEF RespondShort
  <2> QED
    BY <1>g, <1>8, <2>1 DEF RespondShort
<1>9. CASE RespondLong
  <2>1. CASE lock' = lock /\ users' = users /\ out' = out \cup {[id |-> wq.msg, response |-> TRUE]}
    <3>0. [id |-> wq.msg, response |-> TRUE].response = TRUE
      BY Zenon
    <3>1. \A x \in out' : x \in out \/ x.response = TRUE
      <4> SUFFICES ASSUME NEW x \in out', x \notin out PROVE x.response = TRUE
        OBVIOUS
      <4>1. x = [id |-> wq.msg, response |-> TRUE]
        BY <2>1, Zenon
      <4> QED
        BY <3>0, <4>1, Zenon
    <3>2. rr' = rr /\ fin' = fin /\ app' = app
      BY <1>9 DEF RespondLong
    <3> QED
      BY <1>4, <1>5, <2>1, <3>1, <3>2
  <2>2. CASE lock' = 1 /\ users' = users \ {"response"} /\ out' = out
    BY <1>g, <1>9, <2>2 DEF RespondLong
  <2> QED
    BY <1>9, <2>1, <2>2 DEF RespondLong
<1>10. CASE ReceiveRequest \/ MessageArrives
  BY <1>4, <1>5, <1>10 DEF ReceiveRequest, MessageArrives
<1>11. CASE TakeBuffer
  BY <1>4, <1>5, <1>11 DEF TakeBuffer
<1>12. CASE NoResponse \/ GiveBuffer
  BY <1>g, <1>12 DEF NoResponse, GiveBuffer
<1>13. CASE ReportTakes
  BY <1>4, <1>5, <1>13 DEF ReportTakes
<1>14. CASE ReportGives
  BY <1>g, <1>14 DEF ReportGives
<1> QED
  BY <1>2, <1>7, <1>8, <1>9, <1>10, <1>11, <1>12, <1>13, <1>14, ServerSteps
     DEF Next, WorkQueue

\* The lock passes from one user of the buffer to the next.
LEMMA ExclusiveNext ==
    TypeInv /\ ServerInv /\ ExclusiveInv /\ [Next]_vars => ExclusiveInv'
<1> SUFFICES ASSUME TypeInv, ServerInv, ExclusiveInv, [Next]_vars, ServerOnly', ~SendErrors'
             PROVE  ExclusiveInv'
  BY DEF ExclusiveInv
<1>1. env' = env
  BY DEF Next, vars, TakeSlot, NoSlot, Send, SendShort, SentShort, SendLong, Reset, ResetFields,
     ResetTimer, TimerExpires, WorkQueue, TransferEnds, ReceiveResponse, ReceiveRequest, TakeBuffer,
     NoResponse, RespondShort, GiveBuffer, RespondLong, MessageArrives, ReportTakes, ReportGives
<1>2. ServerOnly /\ ~SendErrors
  BY <1>1 DEF ServerOnly, Requests, SendErrors
<1>3. CASE UNCHANGED vars
  BY <1>2, <1>3 DEF vars, ExclusiveInv, Answering, Reporting
<1> SUFFICES ASSUME Next PROVE ExclusiveInv'
  BY <1>3
<1>4. Results = {"sent"}
  BY <1>2 DEF Results
<1>5. /\ wq.pc # "give"
      /\ \A x, y \in out : x = y
      /\ "response" \in users <=> (wq.pc = "process" \/ out # {})
      /\ "report" \in users <=> report.pc = "send"
      /\ ~(wq.pc = "process" /\ out # {})
      /\ ~((wq.pc = "process" \/ out # {}) /\ report.pc = "send")
      /\ wq.pc = "process" \/ out # {} \/ report.pc = "send" => lock = 0
  BY <1>2 DEF ExclusiveInv, Answering, Reporting
<1>6. lock = 1 => wq.pc # "process" /\ out = {} /\ report.pc # "send"
  BY <1>5
<1>7. CASE TransferEnds
  <2>1. PICK x \in out :
           /\ wq.pc = "idle"
           /\ out' = out \ {x}
           /\ users' = IF x.response THEN users \ {"response"} ELSE users
           /\ wq' = wq /\ report' = report
    BY <1>7 DEF TransferEnds, WqFree
  <2>2. x.response = TRUE
    BY <1>2 DEF ServerInv
  <2>3. out' = {} /\ users' = users \ {"response"}
    BY <1>5, <2>1, <2>2
  <2> QED
    BY <1>5, <2>1, <2>3 DEF ExclusiveInv, Answering, Reporting
<1>8. CASE RespondShort
  <2>1. wq' = [wq EXCEPT !.pc = "idle"] /\ users' = users \ {"response"} /\ out' = out /\ report' = report
    BY <1>4, <1>8 DEF RespondShort, WqDone
  <2>2. wq'.pc = "idle"
    BY <2>1 DEF TypeInv, WqState
  <2> QED
    BY <1>5, <1>8, <2>1, <2>2 DEF RespondShort, ExclusiveInv, Answering, Reporting
<1>9. CASE RespondLong
  <2>1. out' = out \cup {[id |-> wq.msg, response |-> TRUE]} /\ lock' = lock /\ users' = users
        /\ report' = report /\ wq' = [wq EXCEPT !.pc = "idle"]
    BY <1>2, <1>9 DEF RespondLong, WqDone
  <2>2. wq'.pc = "idle"
    BY <2>1 DEF TypeInv, WqState
  <2>3. out' = {[id |-> wq.msg, response |-> TRUE]}
    BY <1>5, <1>9, <2>1 DEF RespondLong
  <2>4. out' # {} /\ \A x, y \in out' : x = y
    BY <2>3, Zenon
  <2> HIDE <2>3
  <2> QED
    BY <1>5, <1>9, <2>1, <2>2, <2>4 DEF RespondLong, ExclusiveInv, Answering, Reporting
<1>10. CASE ReceiveRequest
  <2>1. wq.pc = "idle" /\ wq'.pc = "take"
    BY <1>10 DEF ReceiveRequest, WqFree
  <2> QED
    BY <1>5, <1>10, <2>1 DEF ReceiveRequest, ExclusiveInv, Answering, Reporting
<1>11. CASE TakeBuffer
  <2>1. wq'.pc = "process" /\ lock' = 0
    BY <1>11 DEF TakeBuffer, TypeInv, WqState
  <2> QED
    BY <1>5, <1>6, <1>11, <2>1 DEF TakeBuffer, ExclusiveInv, Answering, Reporting
<1>12. CASE NoResponse
  <2>1. wq'.pc = "idle"
    BY <1>12 DEF NoResponse, WqDone, TypeInv, WqState
  <2> QED
    BY <1>5, <1>12, <2>1 DEF NoResponse, ExclusiveInv, Answering, Reporting
<1>13. CASE GiveBuffer
  BY <1>5, <1>13 DEF GiveBuffer
<1>14. CASE MessageArrives
  BY <1>5, <1>14 DEF MessageArrives, ExclusiveInv, Answering, Reporting
<1>15. CASE ReportTakes
  <2>1. report'.pc = "send" /\ lock' = 0
    BY <1>15 DEF ReportTakes
  <2> QED
    BY <1>5, <1>6, <1>15, <2>1 DEF ReportTakes, ExclusiveInv, Answering, Reporting
<1>16. CASE ReportGives
  <2>1. report'.pc = "idle"
    BY <1>16 DEF ReportGives, TypeInv
  <2> QED
    BY <1>5, <1>16, <2>1 DEF ReportGives, ExclusiveInv, Answering, Reporting
<1> QED
  BY <1>2, <1>7, <1>8, <1>9, <1>10, <1>11, <1>12, <1>13, <1>14, <1>15, <1>16, ServerSteps
     DEF Next, WorkQueue

\* The lock of the shared buffer keeps its word on every node that only answers
\* requests: responses, whose lock another thread gives back when the last frame has
\* gone, and reports never share the buffer, and nobody forgets to give it back.
THEOREM BufferLockIsSound == Spec => []BufferLockSound
<1>1. Init => TypeInv /\ ServerInv /\ ExclusiveInv
  BY TypeInit, ServerInit
<1>2. TypeInv /\ ServerInv /\ ExclusiveInv /\ [Next]_vars => (TypeInv /\ ServerInv /\ ExclusiveInv)'
  BY TypeNext, ServerNext, ExclusiveNext
<1>3. TypeInv /\ ServerInv /\ ExclusiveInv => BufferLockSound
  <2> SUFFICES ASSUME TypeInv, ServerInv, ExclusiveInv PROVE BufferExclusive /\ BufferNotLeaked
    BY DEF BufferLockSound
  <2>1. BufferNotLeaked
    BY DEF ServerInv, BufferNotLeaked
  <2>2. ASSUME ServerOnly, ~SendErrors PROVE Cardinality(users) <= 1
    <3>1. users \subseteq {"response", "report"} /\ ~("response" \in users /\ "report" \in users)
      BY <2>2 DEF ServerInv, ExclusiveInv
    <3>2. users = {} \/ users = {"response"} \/ users = {"report"}
      BY <3>1
    <3>3. Cardinality(users) = 0 \/ Cardinality(users) = 1
      BY <3>2, FS_EmptySet, FS_Singleton
    <3> QED
      BY <3>3
  <2> QED
    BY <2>1, <2>2 DEF BufferExclusive, BufferShared
<1> QED
  BY <1>1, <1>2, <1>3, PTL DEF Spec

-----------------------------------------------------------------------------
(* Requests of several frames without a time-out *)

\* The slot is taken from TakeSlot to the end of the reset, only the work queue
\* resets it, and the callback registered in it has not been called before.
OnceInv ==
    ~Timeouts /\ Sizes = {"long"} =>
      /\ rr.timer = FALSE
      /\ \A r \in AllRequests : app[r] \notin {"sent", "error"} /\ fin[r].at = None
      /\ rr.callback # None => rr.sem = 0
      /\ fin[SysWq].at # None => rr.sem = 0
      /\ fin[SysWq].at = "timer" => rr.callback = None
      /\ fin[SysWq].at = "fields" => rr.callback # None
      /\ \A r \in AllRequests :
           /\ Len(calls[r]) <= 1
           /\ app[r] = "idle" => calls[r] = <<>> /\ rr.callback # r
           /\ rr.callback = r /\ fin[SysWq].at = None => calls[r] = <<>>

\* Initially no request is outstanding.
LEMMA OnceInit == Init => OnceInv
<1> SUFFICES ASSUME Init PROVE OnceInv
  OBVIOUS
<1>1. SysWq \in Threads /\ \A r \in AllRequests : r \in Threads
  BY DEF Threads
<1>2. rr.timer = FALSE /\ rr.callback = None /\ \A t \in Threads : fin[t].at = None
  BY DEF Init
<1>3. \A r \in AllRequests : app[r] = "idle" /\ calls[r] = <<>>
  BY DEF Init
<1>4. Len(<<>>) <= 1
  OBVIOUS
<1>5. None \notin AllRequests
  BY ReqRespAssumptions DEF ReqRespAssumptions
<1> QED
  BY <1>1, <1>2, <1>3, <1>4, <1>5 DEF OnceInv, None

\* thingset_can_reqresp_sent_callback and the call with a response: the work queue
\* makes the first call of the registered callback and begins the reset.
LEMMA FirstCall ==
    ASSUME TypeInv, OnceInv, ~Timeouts, Sizes = {"long"}, env' = env, rr' = rr,
           rr.callback # None, fin[SysWq].at = None,
           NEW result \in Heard, Call(result),
           NEW give \in BOOLEAN, fin' = [fin EXCEPT ![SysWq] = [at |-> "fields", give |-> give]],
           \A r \in AllRequests : app'[r] = app[r] \/ app'[r] \in {"asked", "done"}
    PROVE  OnceInv'
<1>1. SysWq \in Threads /\ SysWq \notin AllRequests /\ \A r \in AllRequests : r \in Threads
  BY ReqRespAssumptions DEF Threads, ReqRespAssumptions
<1>2. fin'[SysWq].at = "fields" /\ \A r \in AllRequests : fin'[r] = fin[r]
  BY <1>1 DEF TypeInv
<1>3. /\ rr.timer = FALSE /\ rr.sem = 0
      /\ \A r \in AllRequests : app[r] \notin {"sent", "error"} /\ fin[r].at = None
      /\ \A r \in AllRequests : Len(calls[r]) <= 1
      /\ \A r \in AllRequests : app[r] = "idle" => calls[r] = <<>> /\ rr.callback # r
      /\ calls[rr.callback] = <<>>
  BY DEF OnceInv, TypeInv
<1>4. \A r \in AllRequests : calls'[r] = IF r = rr.callback THEN Append(<<>>, result) ELSE calls[r]
  BY <1>3, CallType
<1>5. Len(Append(<<>>, result)) = 1
  OBVIOUS
<1>6. \A r \in AllRequests : Len(calls'[r]) <= 1
  <2> TAKE r \in AllRequests
  <2>1. CASE r = rr.callback
    <3>1. calls'[r] = Append(<<>>, result)
      BY <1>4, <2>1, Zenon
    <3>2. Len(calls'[r]) = 1
      BY <1>5, <3>1, Zenon
    <3> QED
      BY <3>2
  <2>2. CASE r # rr.callback
    <3>1. calls'[r] = calls[r]
      BY <1>4, <2>2, Zenon
    <3> QED
      BY <1>3, <3>1
  <2> QED
    BY <2>1, <2>2
<1>7. \A r \in AllRequests : app'[r] = "idle" => calls'[r] = <<>> /\ rr'.callback # r
  BY <1>3, <1>4
<1>8. \A r \in AllRequests : app'[r] \notin {"sent", "error"} /\ fin'[r].at = None
  BY <1>2, <1>3
<1> QED
  BY <1>2, <1>3, <1>6, <1>7, <1>8 DEF OnceInv, None

\* The slot is given to the next request when this one is through with it.
LEMMA OnceNext == TypeInv /\ OnceInv /\ [Next]_vars => OnceInv'
<1> SUFFICES ASSUME TypeInv, OnceInv, [Next]_vars, ~Timeouts', (Sizes = {"long"})'
             PROVE  OnceInv'
  BY DEF OnceInv
<1>1. env' = env
  BY DEF Next, vars, TakeSlot, NoSlot, Send, SendShort, SentShort, SendLong, Reset, ResetFields,
     ResetTimer, TimerExpires, WorkQueue, TransferEnds, ReceiveResponse, ReceiveRequest, TakeBuffer,
     NoResponse, RespondShort, GiveBuffer, RespondLong, MessageArrives, ReportTakes, ReportGives
<1>2. ~Timeouts /\ Sizes = {"long"}
  BY <1>1 DEF Timeouts, Sizes
<1>3. /\ rr.timer = FALSE
      /\ \A r \in AllRequests : app[r] \notin {"sent", "error"} /\ fin[r].at = None
      /\ rr.callback # None => rr.sem = 0
      /\ fin[SysWq].at # None => rr.sem = 0
      /\ fin[SysWq].at = "timer" => rr.callback = None
      /\ fin[SysWq].at = "fields" => rr.callback # None
      /\ \A r \in AllRequests :
           /\ Len(calls[r]) <= 1
           /\ app[r] = "idle" => calls[r] = <<>> /\ rr.callback # r
           /\ rr.callback = r /\ fin[SysWq].at = None => calls[r] = <<>>
  BY <1>2 DEF OnceInv
<1>4. Results \subseteq {"sent", "error"}
  BY EnvFacts DEF TypeInv
<1>5. /\ SysWq \in Threads /\ SysWq \notin AllRequests /\ None \notin AllRequests
      /\ \A r \in AllRequests : r \in Threads
      /\ \A t \in Threads : t = SysWq \/ t \in AllRequests
  BY ReqRespAssumptions DEF Threads, ReqRespAssumptions
<1>6. ASSUME rr' = rr, fin' = fin, calls' = calls,
             \A r \in AllRequests : app'[r] = app[r] \/ app'[r] \in {"asked", "done"}
      PROVE  OnceInv'
  BY <1>2, <1>3, <1>6 DEF OnceInv
<1>7. ASSUME NEW r \in AllRequests, TakeSlot(r) PROVE OnceInv'
  <2>1. app[r] = "idle" /\ rr.sem = 1 /\ fin' = fin /\ calls' = calls /\ app' = [app EXCEPT ![r] = "send"]
    BY <1>7 DEF TakeSlot
  <2>2. fin[SysWq].at = None /\ calls[r] = <<>>
    BY <1>3, <2>1
  <2>3. rr'.callback = r /\ rr'.sem = 0
    BY <1>7 DEF TakeSlot
  <2>4. rr'.timer = FALSE
    <3>1. rr'.timer = Timeouts /\ Timeouts \in BOOLEAN
      BY <1>7, EnvFacts DEF TakeSlot, TypeInv
    <3> QED
      BY <1>2, <3>1
  <2>5. \A q \in AllRequests : app'[q] = IF q = r THEN "send" ELSE app[q]
    BY <2>1 DEF TypeInv
  <2>6. r # None
    BY <1>5
  <2> QED
    BY <1>3, <2>1, <2>2, <2>3, <2>4, <2>5, <2>6 DEF OnceInv, None
<1>8. ASSUME NEW r \in AllRequests, NoSlot(r) \/ SendShort(r) \/ SentShort(r) PROVE OnceInv'
  BY <1>2, <1>3, <1>4, <1>8 DEF NoSlot, SendShort, SentShort
<1>9. ASSUME NEW r \in AllRequests, SendLong(r) PROVE OnceInv'
  <2>1. \A q \in AllRequests : app'[q] = app[q] \/ app'[q] \in {"asked", "done"}
    BY <1>9 DEF SendLong, TypeInv
  <2> QED
    BY <1>6, <1>9, <2>1 DEF SendLong
<1>10. ASSUME NEW t \in Threads, ResetFields(t) PROVE OnceInv'
  <2>1. t = SysWq
    BY <1>3, <1>5, <1>10 DEF ResetFields, None
  <2>2. /\ rr'.callback = None /\ rr'.sem = rr.sem /\ rr'.timer = rr.timer
        /\ app' = app /\ calls' = calls
    BY <1>10 DEF ResetFields, TypeInv
  <2>3. fin[SysWq].at = "fields" /\ fin'[SysWq].at = "timer" /\ \A r \in AllRequests : fin'[r] = fin[r]
    BY <1>5, <1>10, <2>1 DEF ResetFields, TypeInv, Fin
  <2> QED
    BY <1>3, <1>5, <2>2, <2>3 DEF OnceInv, None
<1>11. ASSUME NEW t \in Threads, ResetTimer(t) PROVE OnceInv'
  <2>1. t = SysWq
    BY <1>3, <1>5, <1>11 DEF ResetTimer, None
  <2>2. fin[SysWq].at = "timer" /\ fin'[SysWq].at = None /\ \A r \in AllRequests : fin'[r] = fin[r]
    BY <1>5, <1>11, <2>1 DEF ResetTimer, TypeInv
  <2>3. rr' = [rr EXCEPT !.timer = FALSE, !.sem = 1]
    BY <1>11 DEF ResetTimer
  <2>4. rr'.callback = rr.callback /\ rr'.timer = FALSE
    BY <2>3, Zenon DEF TypeInv
  <2>5. rr'.callback = None
    BY <1>3, <2>2, <2>4
  <2> QED
    <3>1. app' = app /\ calls' = calls
      BY <1>11 DEF ResetTimer
    <3>2. \A r \in AllRequests : rr'.callback # r
      BY <1>5, <2>5
    <3> QED
      BY <1>3, <2>2, <2>4, <2>5, <3>1, <3>2 DEF OnceInv, None
<1>12. CASE TimerExpires
  BY <1>3, <1>12 DEF TimerExpires
<1>13. CASE TransferEnds
  <2>1. PICK x \in out, result \in Results :
           /\ fin[SysWq].at = None
           /\ thingset_can_reqresp_sent_callback(SysWq, result)
           /\ app' = IF ~x.response /\ result = "sent" THEN [app EXCEPT ![x.id] = "asked"] ELSE app
           /\ rr' = rr
    BY <1>13 DEF TransferEnds, WqFree
  <2>2. \A r \in AllRequests : app'[r] = app[r] \/ app'[r] \in {"asked", "done"}
    BY <2>1 DEF TypeInv
  <2>3. CASE rr.callback = None
    <3>1. calls' = calls /\ fin' = fin
      BY <2>1, <2>3 DEF thingset_can_reqresp_sent_callback
    <3> QED
      BY <1>6, <2>1, <2>2, <3>1
  <2>4. CASE rr.callback # None
    <3>1. /\ Call(result) /\ result \in Heard
          /\ fin' = [fin EXCEPT ![SysWq] = [at |-> "fields", give |-> result = "sent"]]
      BY <1>4, <2>1, <2>4 DEF thingset_can_reqresp_sent_callback, Heard
    <3> QED
      BY <1>1, <1>2, <2>1, <2>2, <2>4, <3>1, FirstCall
  <2> QED
    BY <2>3, <2>4
<1>14. CASE ReceiveResponse
  <2>1. PICK m \in inbox :
           /\ fin[SysWq].at = None /\ rr.callback # None
           /\ Call(m.id)
           /\ fin' = [fin EXCEPT ![SysWq] = [at |-> "fields", give |-> FALSE]]
    BY <1>14 DEF ReceiveResponse, WqFree, IsResponse
  <2>2. m.id \in Heard
    BY DEF TypeInv, Heard
  <2>3. app' = app /\ rr' = rr
    BY <1>14 DEF ReceiveResponse
  <2> QED
    BY <1>1, <1>2, <2>1, <2>2, <2>3, FirstCall
<1>15. CASE RespondShort
  BY <1>2, <1>15 DEF RespondShort
<1>16. CASE ReceiveRequest \/ TakeBuffer \/ NoResponse \/ GiveBuffer \/ RespondLong \/ MessageArrives
            \/ ReportTakes \/ ReportGives \/ UNCHANGED vars
  <2>1. rr' = rr /\ fin' = fin /\ calls' = calls /\ app' = app
    BY <1>16 DEF ReceiveRequest, TakeBuffer, NoResponse, GiveBuffer, RespondLong, MessageArrives,
       ReportTakes, ReportGives, vars
  <2> QED
    BY <1>6, <2>1
<1> QED
  BY <1>7, <1>8, <1>9, <1>10, <1>11, <1>12, <1>13, <1>14, <1>15, <1>16 DEF Next, Send, Reset, WorkQueue

\* However long requests without a time-out, responses, transfers and the two-step
\* reset of the slot interleave, the callback of each request is called once at most,
\* and no second request gets the slot while a callback is registered in it.
THEOREM EachIsCalledOnce == Spec => []CalledOnce
<1>1. Init => TypeInv /\ OnceInv
  BY TypeInit, OnceInit
<1>2. TypeInv /\ OnceInv /\ [Next]_vars => (TypeInv /\ OnceInv)'
  BY TypeNext, OnceNext
<1>3. TypeInv /\ OnceInv => CalledOnce
  BY EnvFacts DEF TypeInv, OnceInv, CalledOnce, HeardOnce
<1> QED
  BY <1>1, <1>2, <1>3, PTL DEF Spec
=============================================================================
