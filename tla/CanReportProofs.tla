-------------------------- MODULE CanReportProofs --------------------------
(***************************************************************************)
(* Theorems about CanReport, for every number of nodes and of receive      *)
(* buffers, every report length and frame size, and any number of faults.  *)
(***************************************************************************)
EXTENDS CanReport, FiniteSetTheorems, WellFoundedInduction, TLAPS

-----------------------------------------------------------------------------
(* Types *)

Sender == [pc : {"idle", "send", "wait"}, len : Nat, pos : Nat, seq : Nat,
           msg_no : 0 .. MSG_MOD - 1, sem : {0, 1}, n : Nat]
Published == [len : Lens \ {0}, ret : Int]

\* The publishers, the reports they have published and the counters of faults.
TypeInv ==
    /\ snd \in [Nodes -> Sender]
    /\ pub \in [Nodes -> Seq(Published)]
    /\ faults \in [FaultKinds -> Nat]
    /\ mbox = [a \in Nodes |-> mbox[a]]
    /\ \A a \in Nodes :
         /\ snd[a].pc # "idle" => snd[a].pos < snd[a].len
         /\ snd[a].pc # "idle" => snd[a].n \in DOMAIN pub[a]

\* The length of a report is one that thingset_report_path returned.
LEMMA LengthOf ==
    ASSUME TypeInv, NEW a \in Nodes, NEW n \in DOMAIN pub[a]
    PROVE  pub[a][n].len \in Lens /\ pub[a][n].len \in Nat /\ pub[a][n].len > 0 /\ n \in Nat \ {0}
<1>1. pub[a] \in Seq(Published)
  BY DEF TypeInv
<1>2. pub[a][n] \in Published
  BY <1>1
<1>3. n \in Nat \ {0}
  BY <1>1
<1>4. pub[a][n].len \in Lens \ {0} /\ Lens \subseteq Nat
  BY <1>2, ReportAssumptions DEF Published, ReportAssumptions
<1> DEFINE l == pub[a][n].len
<1>5. l \in Lens /\ l \in Nat /\ l # 0
  BY <1>4
<1> HIDE DEF l
<1>6. l > 0
  BY <1>5
<1> QED
  BY <1>3, <1>5, <1>6 DEF l

-----------------------------------------------------------------------------
(* The steps of a publisher *)

Others(a) == \A k \in Nodes : k # a => snd'[k] = snd[k]

\* One publisher changes to the state s.
LEMMA SndUpdate ==
    ASSUME TypeInv, NEW a \in Nodes, NEW s \in Sender, snd' = [snd EXCEPT ![a] = s]
    PROVE  snd' \in [Nodes -> Sender] /\ Others(a) /\ snd'[a] = s
<1>1. snd \in [Nodes -> Sender]
  BY DEF TypeInv
<1> QED
  BY <1>1 DEF Others

\* The length of the next chunk.
LEMMA ChunkLenFacts ==
    ASSUME NEW len \in Nat, NEW pos \in Nat, pos < len
    PROVE  /\ ChunkLen(len, pos) \in Nat /\ pos + ChunkLen(len, pos) <= len
           /\ ChunkLen(len, pos) > 0 /\ ChunkLen(len, pos) <= CAN_MAX_DLEN
           /\ pos + ChunkLen(len, pos) < len <=> len - pos > CAN_MAX_DLEN
           /\ len - pos > CAN_MAX_DLEN => ChunkLen(len, pos) = CAN_MAX_DLEN
  BY ReportAssumptions DEF ChunkLen, ReportAssumptions

\* What the publisher does after its callback: the next chunk or the end.
LEMMA AfterSemFacts ==
    ASSUME NEW s \in Sender, s.pos < s.len
    PROVE  LET t == AfterSem(s) IN
           /\ t \in Sender /\ t.len = s.len /\ t.n = s.n /\ t.sem = 0 /\ t.seq = s.seq + 1
           /\ \/ /\ s.len - s.pos > CAN_MAX_DLEN
                 /\ t.pc = "send" /\ t.pos = s.pos + CAN_MAX_DLEN /\ t.msg_no = s.msg_no
                 /\ t.pos < t.len
              \/ /\ ~(s.len - s.pos > CAN_MAX_DLEN)
                 /\ t.pc = "idle" /\ t.msg_no = (s.msg_no + 1) % MSG_MOD
<1> DEFINE p == s.pos + ChunkLen(s.len, s.pos)
           sq == s.seq + 1
           nx == [s EXCEPT !.sem = 0, !.pos = p, !.seq = sq]
<1>1. /\ s.len \in Nat /\ s.pos \in Nat /\ s.seq \in Nat /\ s.msg_no \in 0 .. MSG_MOD - 1
      /\ MSG_MOD \in Nat /\ MSG_MOD > 0
  BY ReportAssumptions DEF Sender, ReportAssumptions
<1>2. /\ p \in Nat /\ (s.len - p > 0 <=> s.len - s.pos > CAN_MAX_DLEN)
      /\ s.len - s.pos > CAN_MAX_DLEN => p = s.pos + CAN_MAX_DLEN /\ p < s.len
  BY <1>1, ChunkLenFacts
<1>q. sq \in Nat
  BY <1>1
<1> HIDE DEF p, sq
<1>3. nx \in Sender /\ nx.len = s.len /\ nx.n = s.n /\ nx.sem = 0 /\ nx.seq = sq
      /\ nx.pos = p /\ nx.msg_no = s.msg_no
  BY <1>1, <1>2, <1>q DEF Sender
<1>4. AfterSem(s) = IF s.len - p > 0 THEN [nx EXCEPT !.pc = "send"] ELSE Return(nx)
  BY DEF AfterSem, p, sq
<1>5. (s.msg_no + 1) % MSG_MOD \in 0 .. MSG_MOD - 1
  BY <1>1
<1> DEFINE q == (s.msg_no + 1) % MSG_MOD
<1> HIDE DEF nx, q
<1>6. CASE s.len - p > 0
  <2>1. AfterSem(s) = [nx EXCEPT !.pc = "send"]
    BY <1>4, <1>6
  <2> QED
    BY <1>2, <1>3, <1>6, <2>1 DEF Sender, sq
<1>7. CASE ~(s.len - p > 0)
  <2>1. AfterSem(s) = [nx EXCEPT !.pc = "idle", !.msg_no = q]
    BY <1>3, <1>4, <1>7 DEF Return, q
  <2>2. q \in 0 .. MSG_MOD - 1
    BY <1>5 DEF q
  <2>3. AfterSem(s) \in Sender /\ AfterSem(s).pc = "idle" /\ AfterSem(s).msg_no = q
        /\ AfterSem(s).len = s.len /\ AfterSem(s).n = s.n /\ AfterSem(s).sem = 0 /\ AfterSem(s).seq = s.seq + 1
    BY <1>3, <2>1, <2>2 DEF Sender, sq
  <2> QED
    BY <1>2, <1>7, <2>3 DEF q
<1> QED
  BY <1>6, <1>7

\* The function returns.
LEMMA ReturnFacts ==
    ASSUME NEW s \in Sender
    PROVE  LET t == Return(s) IN
           t \in Sender /\ t.pc = "idle" /\ t.msg_no = (s.msg_no + 1) % MSG_MOD
<1> DEFINE q == (s.msg_no + 1) % MSG_MOD
<1>1. q \in 0 .. MSG_MOD - 1
  BY ReportAssumptions DEF ReportAssumptions, Sender
<1>2. Return(s) = [s EXCEPT !.pc = "idle", !.msg_no = q]
  BY DEF Return
<1> HIDE DEF q
<1>3. Return(s) \in Sender /\ Return(s).pc = "idle" /\ Return(s).msg_no = q
  BY <1>1, <1>2 DEF Sender
<1> QED
  BY <1>3 DEF q

-----------------------------------------------------------------------------
(* Type correctness *)

\* What is recorded of a report when it returns.
LEMMA ReturnedFacts ==
    ASSUME TypeInv, NEW a \in Nodes, snd[a].pc # "idle", NEW ret \in Int, Returned(a, ret)
    PROVE  /\ pub' \in [Nodes -> Seq(Published)]
           /\ \A k \in Nodes : Len(pub'[k]) = Len(pub[k]) /\ DOMAIN pub'[k] = DOMAIN pub[k]
           /\ \A k \in Nodes : \A i \in DOMAIN pub[k] : pub'[k][i].len = pub[k][i].len
<1> DEFINE n == snd[a].n
           r == [pub[a][n] EXCEPT !.ret = ret]
           q == [pub[a] EXCEPT ![n] = r]
<1>1. pub[a] \in Seq(Published) /\ n \in DOMAIN pub[a] /\ pub \in [Nodes -> Seq(Published)]
  BY DEF TypeInv
<1>2. pub[a][n] \in Published
  BY <1>1
<1>3. r \in Published /\ r.len = pub[a][n].len
  BY <1>2 DEF Published
<1>4. pub' = [pub EXCEPT ![a] = q]
  BY DEF Returned
<1> HIDE DEF r, n
<1>5. q \in Seq(Published) /\ Len(q) = Len(pub[a]) /\ DOMAIN q = DOMAIN pub[a]
      /\ \A i \in DOMAIN pub[a] : q[i].len = pub[a][i].len
  BY <1>1, <1>3
<1> HIDE DEF q
<1>6. \A k \in Nodes : pub'[k] = IF k = a THEN q ELSE pub[k]
  BY <1>1, <1>4
<1> QED
  BY <1>1, <1>4, <1>5, <1>6

\* Faults are counted.
LEMMA FaultFacts ==
    ASSUME TypeInv, NEW kind, Fault(kind)
    PROVE  /\ kind \in FaultKinds /\ faults' \in [FaultKinds -> Nat]
           /\ faults'[kind] > 0
           /\ \A k \in FaultKinds : faults'[k] >= faults[k]
  BY DEF Fault, TypeInv

\* The initial state.
LEMMA TypeInit == Init => TypeInv
<1> SUFFICES ASSUME Init PROVE TypeInv
  OBVIOUS
<1> DEFINE s == [pc |-> "idle", len |-> 0, pos |-> 0, seq |-> 0, msg_no |-> 0, sem |-> 0, n |-> 0]
<1>1. s \in Sender /\ s.pc = "idle"
  BY ReportAssumptions DEF Sender, ReportAssumptions
<1>2. snd = [a \in Nodes |-> s]
  BY DEF Init
<1> HIDE DEF s
<1>3. snd \in [Nodes -> Sender] /\ \A a \in Nodes : snd[a].pc = "idle"
  BY <1>1, <1>2
<1>4. pub \in [Nodes -> Seq(Published)] /\ faults \in [FaultKinds -> Nat] /\ mbox = [a \in Nodes |-> mbox[a]]
  BY DEF Init
<1> QED
  BY <1>3, <1>4 DEF TypeInv

\* A step of the publisher of a.
SndStep(a, pc, len, pos, seq, msg_no, sem, n) ==
    /\ snd' \in [Nodes -> Sender] /\ Others(a)
    /\ snd'[a].pc = pc /\ snd'[a].len = len /\ snd'[a].pos = pos /\ snd'[a].seq = seq
    /\ snd'[a].msg_no = msg_no /\ snd'[a].sem = sem /\ snd'[a].n = n

\* A report is serialised and published.
LEMMA StartStep ==
    ASSUME TypeInv, NEW a \in Nodes, NEW len \in Lens, len # 0, StartReport(a, len)
    PROVE  /\ SndStep(a, "send", len, 0, 0, snd[a].msg_no, 0, Len(pub[a]) + 1)
           /\ pub' \in [Nodes -> Seq(Published)]
           /\ Len(pub'[a]) = Len(pub[a]) + 1 /\ pub'[a][Len(pub[a]) + 1].len = len
           /\ \A i \in DOMAIN pub[a] : pub'[a][i] = pub[a][i]
           /\ \A k \in Nodes : k # a => pub'[k] = pub[k]
<1> DEFINE n == Len(pub[a]) + 1
           s == [snd[a] EXCEPT !.pc = "send", !.len = len, !.pos = 0, !.seq = 0, !.sem = 0, !.n = n]
           r == [len |-> len, ret |-> Pending]
           q == Append(pub[a], r)
<1>1. snd[a] \in Sender /\ pub[a] \in Seq(Published) /\ pub \in [Nodes -> Seq(Published)] /\ len \in Nat
  BY ReportAssumptions DEF TypeInv, ReportAssumptions
<1>2. snd' = [snd EXCEPT ![a] = s] /\ pub' = [pub EXCEPT ![a] = q]
  BY DEF StartReport
<1>3. n \in Nat /\ r \in Published /\ r.len = len
  BY <1>1 DEF Published, Pending
<1> HIDE DEF n, r
<1>4. s \in Sender /\ s.pc = "send" /\ s.len = len /\ s.pos = 0 /\ s.seq = 0 /\ s.sem = 0 /\ s.n = n
      /\ s.msg_no = snd[a].msg_no
  BY <1>1, <1>3 DEF Sender
<1> HIDE DEF s
<1>5. snd' \in [Nodes -> Sender] /\ Others(a) /\ snd'[a] = s
  BY <1>2, <1>4, SndUpdate
<1>6. q \in Seq(Published) /\ Len(q) = n /\ q[n].len = len /\ \A i \in DOMAIN pub[a] : q[i] = pub[a][i]
  BY <1>1, <1>3 DEF n
<1> HIDE DEF q
<1>7. pub' \in [Nodes -> Seq(Published)] /\ pub'[a] = q /\ \A k \in Nodes : k # a => pub'[k] = pub[k]
  BY <1>1, <1>2, <1>6
<1> QED
  BY <1>4, <1>5, <1>6, <1>7 DEF SndStep, n

\* Nothing of the other publishers changes, nor of what was published.
Same(a) ==
    /\ pub' = pub
    /\ SndStep(a, snd'[a].pc, snd[a].len, snd[a].pos, snd[a].seq, snd[a].msg_no, snd'[a].sem, snd[a].n)

\* There was nothing to send.
LEMMA NothingStep ==
    ASSUME TypeInv, NEW a \in Nodes, StartReport(a, 0)
    PROVE  Same(a) /\ snd[a].pc = "idle" /\ snd'[a].pc = "idle" /\ snd'[a].sem = 0
<1> DEFINE s == [snd[a] EXCEPT !.sem = 0]
<1>1. snd' = [snd EXCEPT ![a] = s] /\ pub' = pub /\ snd[a] \in Sender /\ snd[a].pc = "idle"
  BY DEF StartReport, TypeInv
<1>2. s \in Sender /\ s.pc = snd[a].pc /\ s.len = snd[a].len /\ s.pos = snd[a].pos /\ s.seq = snd[a].seq
      /\ s.msg_no = snd[a].msg_no /\ s.sem = 0 /\ s.n = snd[a].n
  BY <1>1 DEF Sender
<1> HIDE DEF s
<1> QED
  BY <1>1, <1>2, SndUpdate DEF Same, SndStep

\* can_send has been called.
LEMMA SendStep ==
    ASSUME TypeInv, NEW a \in Nodes, SendFrame(a) \/ SendError(a)
    PROVE  Same(a) /\ snd[a].pc = "send" /\ snd'[a].pc = "wait" /\ snd'[a].sem = snd[a].sem
<1> DEFINE s == [snd[a] EXCEPT !.pc = "wait"]
<1>1. snd' = [snd EXCEPT ![a] = s] /\ pub' = pub /\ snd[a] \in Sender /\ snd[a].pc = "send"
  BY DEF SendFrame, SendError, TypeInv
<1>2. s \in Sender /\ s.pc = "wait" /\ s.len = snd[a].len /\ s.pos = snd[a].pos /\ s.seq = snd[a].seq
      /\ s.msg_no = snd[a].msg_no /\ s.sem = snd[a].sem /\ s.n = snd[a].n
  BY <1>1 DEF Sender
<1> HIDE DEF s
<1> QED
  BY <1>1, <1>2, SndUpdate DEF Same, SndStep

\* The transmit callback.
LEMMA CallbackStep ==
    ASSUME TypeInv, NEW a \in Nodes, FrameOnBus(a) \/ FrameLost(a) \/ FrameTxError(a)
    PROVE  Same(a) /\ snd'[a].pc = snd[a].pc /\ snd'[a].sem = 1
<1> DEFINE s == [snd[a] EXCEPT !.sem = 1]
<1>1. snd' = [snd EXCEPT ![a] = s] /\ pub' = pub /\ snd[a] \in Sender
  BY DEF FrameOnBus, FrameLost, FrameTxError, thingset_can_report_tx_cb, TypeInv
<1>2. s \in Sender /\ s.pc = snd[a].pc /\ s.len = snd[a].len /\ s.pos = snd[a].pos /\ s.seq = snd[a].seq
      /\ s.msg_no = snd[a].msg_no /\ s.sem = 1 /\ s.n = snd[a].n
  BY <1>1 DEF Sender
<1> HIDE DEF s
<1> QED
  BY <1>1, <1>2, SndUpdate DEF Same, SndStep

\* The list of reports keeps its lengths.
SamePub ==
    /\ pub' \in [Nodes -> Seq(Published)]
    /\ \A k \in Nodes : Len(pub'[k]) = Len(pub[k]) /\ DOMAIN pub'[k] = DOMAIN pub[k]
    /\ \A k \in Nodes : \A i \in DOMAIN pub[k] : pub'[k][i].len = pub[k][i].len

\* The publisher gives up.
LEMMA GiveUpStep ==
    ASSUME TypeInv, NEW a \in Nodes, SendEagain(a) \/ SemTimeout(a)
    PROVE  /\ SamePub /\ mbox' = mbox /\ snd' \in [Nodes -> Sender] /\ Others(a)
           /\ snd[a].pc # "idle" /\ snd'[a].pc = "idle"
           /\ snd'[a].msg_no = (snd[a].msg_no + 1) % MSG_MOD
<1>1. snd' = [snd EXCEPT ![a] = Return(snd[a])] /\ snd[a] \in Sender /\ snd[a].pc # "idle"
      /\ Returned(a, -1) /\ mbox' = mbox
  BY DEF SendEagain, SemTimeout, TypeInv
<1>2. Return(snd[a]) \in Sender /\ Return(snd[a]).pc = "idle"
      /\ Return(snd[a]).msg_no = (snd[a].msg_no + 1) % MSG_MOD
  BY <1>1, ReturnFacts
<1>3. snd' \in [Nodes -> Sender] /\ Others(a) /\ snd'[a] = Return(snd[a])
  BY <1>1, <1>2, SndUpdate
<1>4. SamePub
  BY <1>1, ReturnedFacts DEF SamePub
<1> QED
  BY <1>1, <1>2, <1>3, <1>4

\* The semaphore is taken: the next chunk or the end of the report.
LEMMA TakenStep ==
    ASSUME TypeInv, NEW a \in Nodes, SemTaken(a)
    PROVE  /\ SamePub /\ mbox' = mbox /\ faults' = faults /\ snd[a].pc = "wait" /\ snd[a].sem = 1
           /\ \/ /\ SndStep(a, "send", snd[a].len, snd[a].pos + CAN_MAX_DLEN, snd[a].seq + 1,
                            snd[a].msg_no, 0, snd[a].n)
                 /\ snd[a].len - snd[a].pos > CAN_MAX_DLEN
              \/ /\ snd' \in [Nodes -> Sender] /\ Others(a) /\ snd'[a].pc = "idle"
                 /\ snd'[a].msg_no = (snd[a].msg_no + 1) % MSG_MOD
                 /\ ~(snd[a].len - snd[a].pos > CAN_MAX_DLEN)
<1> DEFINE t == AfterSem(snd[a])
<1>1. snd' = [snd EXCEPT ![a] = t] /\ snd[a] \in Sender /\ snd[a].pc = "wait" /\ snd[a].sem = 1
      /\ mbox' = mbox /\ faults' = faults /\ snd[a].pos < snd[a].len
  BY DEF SemTaken, TypeInv
<1>2. /\ t \in Sender /\ t.len = snd[a].len /\ t.n = snd[a].n /\ t.sem = 0 /\ t.seq = snd[a].seq + 1
      /\ \/ /\ snd[a].len - snd[a].pos > CAN_MAX_DLEN
            /\ t.pc = "send" /\ t.pos = snd[a].pos + CAN_MAX_DLEN /\ t.msg_no = snd[a].msg_no
         \/ /\ ~(snd[a].len - snd[a].pos > CAN_MAX_DLEN)
            /\ t.pc = "idle" /\ t.msg_no = (snd[a].msg_no + 1) % MSG_MOD
  BY <1>1, AfterSemFacts
<1>p. SamePub
  <2>1. CASE t.pc = "idle"
    <3>1. Returned(a, 0)
      BY <2>1 DEF SemTaken
    <3> QED
      BY <1>1, <3>1, ReturnedFacts DEF SamePub
  <2>2. CASE t.pc # "idle"
    <3>1. pub' = pub
      BY <2>2 DEF SemTaken
    <3> QED
      BY <3>1 DEF SamePub, TypeInv
  <2> QED
    BY <2>1, <2>2
<1> HIDE DEF t
<1>3. snd' \in [Nodes -> Sender] /\ Others(a) /\ snd'[a] = t
  BY <1>1, <1>2, SndUpdate
<1> QED
  BY <1>1, <1>2, <1>3, <1>p DEF SndStep

\* The actions keep the shape of the mailboxes and of the counters.
LEMMA RestTyped ==
    ASSUME TypeInv, Next
    PROVE  mbox' = [a \in Nodes |-> mbox'[a]] /\ faults' \in [FaultKinds -> Nat]
<1>1. PICK a \in Nodes : \/ \E len \in Lens : StartReport(a, len)
                         \/ SendFrame(a) \/ SemTaken(a) \/ FrameOnBus(a)
                         \/ SendEagain(a) \/ SendError(a) \/ SemTimeout(a)
                         \/ FrameLost(a) \/ FrameTxError(a)
  BY DEF Next, Progress
<1>2. mbox' = mbox \/ \E v : mbox' = [mbox EXCEPT ![a] = v]
  BY <1>1 DEF StartReport, SendFrame, SemTaken, FrameOnBus, SendEagain, SendError, SemTimeout,
              FrameLost, FrameTxError
<1>3. mbox = [k \in Nodes |-> mbox[k]] /\ faults \in [FaultKinds -> Nat]
  BY DEF TypeInv
<1>4. mbox' = [k \in Nodes |-> mbox'[k]]
  <2>1. CASE mbox' = mbox
    BY <1>3, <2>1
  <2>2. CASE \E v : mbox' = [mbox EXCEPT ![a] = v]
    <3>1. PICK v : mbox' = [mbox EXCEPT ![a] = v]
      BY <2>2
    <3>2. mbox' = [k \in Nodes |-> IF k = a THEN v ELSE mbox[k]]
      BY <1>3, <3>1, Zenon
    <3> QED
      BY <3>2
  <2> QED
    BY <1>2, <2>1, <2>2
<1>5. faults' = faults \/ \E kind : Fault(kind)
  BY <1>1 DEF StartReport, SendFrame, SemTaken, FrameOnBus, SendEagain, SendError, SemTimeout,
              FrameLost, FrameTxError
<1> QED
  BY <1>3, <1>4, <1>5, FaultFacts

\* A step that keeps the types of the publishers and of the reports keeps the rest.
LEMMA TypeFrom ==
    ASSUME TypeInv, Next, snd' \in [Nodes -> Sender], pub' \in [Nodes -> Seq(Published)],
           \A a \in Nodes : /\ snd'[a].pc # "idle" => snd'[a].pos < snd'[a].len
                            /\ snd'[a].pc # "idle" => snd'[a].n \in DOMAIN pub'[a]
    PROVE  TypeInv'
  BY RestTyped DEF TypeInv

\* The types are inductive.
LEMMA TypeNext == TypeInv /\ [Next]_vars => TypeInv'
<1> SUFFICES ASSUME TypeInv, [Next]_vars PROVE TypeInv'
  OBVIOUS
<1>u. CASE UNCHANGED vars
  BY <1>u DEF vars, TypeInv
<1>n. CASE Next
  <2>0. PICK a \in Nodes : \/ \E len \in Lens : StartReport(a, len)
                           \/ SendFrame(a) \/ SemTaken(a) \/ FrameOnBus(a)
                           \/ SendEagain(a) \/ SendError(a) \/ SemTimeout(a)
                           \/ FrameLost(a) \/ FrameTxError(a)
    BY <1>n DEF Next, Progress
  <2>t. /\ \A k \in Nodes : snd[k].pc # "idle" => snd[k].pos < snd[k].len /\ snd[k].n \in DOMAIN pub[k]
        /\ pub \in [Nodes -> Seq(Published)] /\ snd \in [Nodes -> Sender]
    BY DEF TypeInv
  <2>1. CASE Same(a) /\ (snd'[a].pc # "idle" => snd[a].pc # "idle")
    BY <1>n, <2>t, <2>1, TypeFrom DEF Same, SndStep, Others
  <2>2. CASE SamePub /\ snd' \in [Nodes -> Sender] /\ Others(a) /\ snd'[a].pc = "idle"
    BY <1>n, <2>t, <2>2, TypeFrom DEF SamePub, Others
  <2>3. CASE SemTaken(a) /\ snd'[a].pc # "idle"
    <3>1. SamePub /\ SndStep(a, "send", snd[a].len, snd[a].pos + CAN_MAX_DLEN, snd[a].seq + 1,
                            snd[a].msg_no, 0, snd[a].n) /\ snd[a].len - snd[a].pos > CAN_MAX_DLEN
          /\ snd[a].pc = "wait"
      BY <2>3, TakenStep
    <3>2. snd[a].len \in Nat /\ snd[a].pos \in Nat /\ CAN_MAX_DLEN \in Nat
      BY <2>t, ReportAssumptions DEF Sender, ReportAssumptions
    <3>3. snd'[a].pos < snd'[a].len
      BY <3>1, <3>2 DEF SndStep
    <3> QED
      BY <1>n, <2>t, <3>1, <3>3, TypeFrom DEF SamePub, SndStep, Others
  <2>4. CASE \E len \in Lens : len # 0 /\ StartReport(a, len)
    <3>1. PICK len \in Lens : len # 0 /\ StartReport(a, len)
      BY <2>4
    <3>2. /\ SndStep(a, "send", len, 0, 0, snd[a].msg_no, 0, Len(pub[a]) + 1)
          /\ pub' \in [Nodes -> Seq(Published)] /\ Len(pub'[a]) = Len(pub[a]) + 1
          /\ \A k \in Nodes : k # a => pub'[k] = pub[k]
      BY <3>1, StartStep
    <3>3. len \in Nat /\ len > 0 /\ Len(pub[a]) + 1 \in DOMAIN pub'[a]
      <4>1. pub[a] \in Seq(Published) /\ pub'[a] \in Seq(Published)
        BY <2>t, <3>2
      <4> QED
        BY <3>1, <3>2, <4>1, ReportAssumptions DEF ReportAssumptions
    <3> QED
      BY <1>n, <2>t, <3>2, <3>3, TypeFrom DEF SndStep, Others
  <2>5. CASE SemTaken(a)
    BY <2>2, <2>3, <2>5, TakenStep DEF SndStep
  <2>6. CASE \E len \in Lens : StartReport(a, len)
    BY <2>1, <2>4, <2>6, NothingStep
  <2>7. CASE SendFrame(a) \/ SendError(a)
    BY <2>1, <2>7, SendStep
  <2>8. CASE SendEagain(a) \/ SemTimeout(a)
    BY <2>2, <2>8, GiveUpStep
  <2>9. CASE FrameOnBus(a) \/ FrameLost(a) \/ FrameTxError(a)
    BY <2>1, <2>9, CallbackStep
  <2> QED
    BY <2>0, <2>5, <2>6, <2>7, <2>8, <2>9
<1> QED
  BY <1>u, <1>n

-----------------------------------------------------------------------------
(* One frame in flight *)

\* Until a wait times out the mailbox holds a frame only while its publisher
\* waits for it, and only as long as the callback has not come.
FlightInv ==
    Happened("timeout") \/
    \A a \in Nodes :
      /\ snd[a].pc # "wait" => mbox[a] = {}
      /\ snd[a].pc = "send" => snd[a].sem = 0
      /\ snd[a].sem = 1 => mbox[a] = {}
      /\ \A f, g \in mbox[a] : f = g

\* The initial state has nothing in flight.
LEMMA FlightInit == Init => FlightInv
  BY DEF Init, FlightInv

\* A time-out that has happened stays counted.
LEMMA TimeoutStays ==
    ASSUME TypeInv, [Next]_vars, Happened("timeout")
    PROVE  Happened("timeout")'
<1>1. faults' = faults \/ \E kind : Fault(kind)
  BY DEF Next, Progress, vars, StartReport, SendFrame, SemTaken, FrameOnBus, SendEagain, SendError,
         SemTimeout, FrameLost, FrameTxError
<1>2. CASE faults' = faults
  BY <1>2 DEF Happened
<1>3. CASE \E kind : Fault(kind)
  <2>1. \A k \in FaultKinds : faults'[k] >= faults[k] /\ faults'[k] \in Nat /\ faults[k] \in Nat
    BY <1>3, FaultFacts DEF TypeInv
  <2> QED
    BY <2>1 DEF Happened
<1> QED
  BY <1>1, <1>2, <1>3

\* One publisher at a time: the others keep their frames.
LEMMA FlightFrom ==
    ASSUME TypeInv, FlightInv, ~Happened("timeout"), NEW a \in Nodes, Others(a),
           \A k \in Nodes : k # a => mbox'[k] = mbox[k],
           snd'[a].pc # "wait" => mbox'[a] = {},
           snd'[a].pc = "send" => snd'[a].sem = 0,
           snd'[a].sem = 1 => mbox'[a] = {},
           \A f, g \in mbox'[a] : f = g
    PROVE  FlightInv'
  BY DEF FlightInv, Others

\* Every step keeps at most one frame in flight, until a time-out.
LEMMA FlightNext == TypeInv /\ FlightInv /\ [Next]_vars => FlightInv'
<1> SUFFICES ASSUME TypeInv, FlightInv, [Next]_vars PROVE FlightInv'
  OBVIOUS
<1>h. CASE Happened("timeout")
  BY <1>h, TimeoutStays DEF FlightInv
<1>u. CASE UNCHANGED vars
  BY <1>u DEF vars, FlightInv, Happened
<1>n. CASE ~Happened("timeout") /\ Next
  <2>0. PICK a \in Nodes : \/ \E len \in Lens : StartReport(a, len)
                           \/ SendFrame(a) \/ SemTaken(a) \/ FrameOnBus(a)
                           \/ SendEagain(a) \/ SendError(a) \/ SemTimeout(a)
                           \/ FrameLost(a) \/ FrameTxError(a)
    BY <1>n DEF Next, Progress
  <2>f. /\ snd[a].pc # "wait" => mbox[a] = {}
        /\ snd[a].pc = "send" => snd[a].sem = 0
        /\ snd[a].sem = 1 => mbox[a] = {}
        /\ \A f, g \in mbox[a] : f = g
    BY <1>n DEF FlightInv
  <2>m. mbox = [k \in Nodes |-> mbox[k]]
    BY DEF TypeInv
  <2>1. CASE \E len \in Lens : StartReport(a, len)
    <3>1. PICK len \in Lens : StartReport(a, len)
      BY <2>1
    <3>2. mbox' = mbox /\ snd[a].pc = "idle"
      BY <3>1 DEF StartReport
    <3>3. Others(a) /\ snd'[a].sem = 0
      BY <3>1, StartStep, NothingStep DEF SndStep, Same
    <3> QED
      BY <1>n, <2>f, <3>2, <3>3, FlightFrom
  <2>2. CASE SendFrame(a)
    <3>1. Others(a) /\ snd'[a].pc = "wait" /\ snd'[a].sem = snd[a].sem /\ snd[a].pc = "send"
      BY <2>2, SendStep DEF SndStep, Same
    <3>2. mbox' = [mbox EXCEPT ![a] = mbox[a] \cup {Frame(snd[a])}]
      BY <2>2 DEF SendFrame
    <3>3. mbox'[a] = {Frame(snd[a])} /\ \A k \in Nodes : k # a => mbox'[k] = mbox[k]
      BY <2>f, <2>m, <3>1, <3>2
    <3> QED
      BY <1>n, <2>f, <3>1, <3>3, FlightFrom
  <2>3. CASE SendError(a)
    <3>1. Others(a) /\ snd'[a].pc = "wait" /\ snd'[a].sem = snd[a].sem /\ snd[a].pc = "send"
      BY <2>3, SendStep DEF SndStep, Same
    <3>2. mbox' = mbox
      BY <2>3 DEF SendError
    <3> QED
      BY <1>n, <2>f, <3>1, <3>2, FlightFrom
  <2>4. CASE SemTaken(a)
    <3>1. Others(a) /\ mbox' = mbox /\ snd[a].sem = 1 /\ (snd'[a].pc = "send" => snd'[a].sem = 0)
      BY <2>4, TakenStep DEF SndStep
    <3> QED
      BY <1>n, <2>f, <3>1, FlightFrom
  <2>5. CASE SendEagain(a) \/ SemTimeout(a)
    <3>1. Others(a) /\ mbox' = mbox /\ snd'[a].pc = "idle"
      BY <2>5, GiveUpStep
    <3>2. CASE mbox[a] = {}
      BY <1>n, <2>f, <3>1, <3>2, FlightFrom
    <3>3. CASE mbox[a] # {}
      <4>1. Fault("timeout")
        BY <2>5, <2>f, <3>3 DEF SendEagain, SemTimeout
      <4> QED
        BY <4>1, FaultFacts DEF FlightInv, Happened
    <3> QED
      BY <3>2, <3>3
  <2>6. CASE FrameOnBus(a) \/ FrameLost(a) \/ FrameTxError(a)
    <3>1. Others(a) /\ snd'[a].pc = snd[a].pc /\ snd'[a].sem = 1
      BY <2>6, CallbackStep DEF SndStep, Same
    <3>2. PICK f \in mbox[a] : mbox' = [mbox EXCEPT ![a] = mbox[a] \ {f}]
      BY <2>6 DEF FrameOnBus, FrameLost, FrameTxError
    <3>3. mbox'[a] = {} /\ \A k \in Nodes : k # a => mbox'[k] = mbox[k]
      BY <2>f, <2>m, <3>2
    <3>4. snd[a].pc # "send"
      BY <2>f, <3>2
    <3> QED
      BY <1>n, <3>1, <3>3, <3>4, FlightFrom
  <2> QED
    BY <2>0, <2>1, <2>2, <2>3, <2>4, <2>5, <2>6
<1> QED
  BY <1>h, <1>u, <1>n

\* A publisher hands the driver the next frame of a report only when the one
\* before has left its mailbox, until a wait for the callback times out.
THEOREM OneAtATime == Spec => []OneFrameInFlight
<1>1. FlightInv => OneFrameInFlight
  BY DEF FlightInv, OneFrameInFlight
<1> QED
  BY <1>1, TypeInit, TypeNext, FlightInit, FlightNext, PTL DEF Spec

-----------------------------------------------------------------------------
(* Reports are delivered whole *)

\* The 4 bits of the sequence number are enough for every report.
SequenceSuffices == \A len \in Lens : len <= SEQ_MOD * CAN_MAX_DLEN

\* No frame waits in a mailbox, and no receive buffer is left half filled, while
\* its publisher goes through all the message numbers.
Recent ==
    \A a \in Nodes :
      /\ \A f \in mbox[a] : f.n > Len(pub[a]) - MSG_MOD
      /\ rx[a].used => rx[a].data[1][1] > Len(pub[a]) - MSG_MOD

\* The first q chunks of report n.
Cut(n, q) == [i \in 1 .. q |-> <<n, (i - 1) * CAN_MAX_DLEN>>]

\* The contexts of buffers in use that hold l bytes.
Ctx(l) == [used : {TRUE}, msg : 0 .. MSG_MOD - 1, seq : Nat, started : BOOLEAN,
           data : Seq(Nat \X Nat), len : {l}]

\* The buffer b has been opened for message m and holds the q chunks d.
Holds(b, m, q, d) == b \in Ctx(b.len) /\ b.started /\ b.msg = m /\ b.seq = q /\ b.data = d

\* The publisher sends the last report of its list, chunk by chunk.
SenderGood(a) ==
    /\ snd[a].pc = "idle" => snd[a].msg_no = Len(pub[a]) % MSG_MOD
    /\ snd[a].pc # "idle" =>
         /\ snd[a].n = Len(pub[a]) /\ snd[a].msg_no = (snd[a].n - 1) % MSG_MOD
         /\ snd[a].len = pub[a][snd[a].n].len /\ snd[a].pos = snd[a].seq * CAN_MAX_DLEN

\* A frame carries the numbers, the type and the chunk of a report.
FrameGood(p, f) ==
    /\ f.n \in DOMAIN p /\ f.msg = (f.n - 1) % MSG_MOD
    /\ f.seq \in 0 .. SEQ_MOD - 1 /\ f.pos = f.seq * CAN_MAX_DLEN
    /\ f.pos < p[f.n].len /\ f.type = MfType(p[f.n].len, f.pos)

\* A receive buffer in use holds the first chunks of one report, not all of them.
BufGood(p, b) ==
    \E n \in DOMAIN p, q \in 1 .. SEQ_MOD - 1 :
      /\ Holds(b, (n - 1) % MSG_MOD, q, Cut(n, q))
      /\ q * CAN_MAX_DLEN < p[n].len

\* What was delivered is a whole report.
Whole(p, data) == \E n \in DOMAIN p : data = Cut(n, NumChunks(p[n].len))

IsSeq(s) == \E S : s \in Seq(S)

WholeInv ==
    /\ rx = [a \in Nodes |-> rx[a]] /\ got = [a \in Nodes |-> got[a]]
    /\ \A a \in Nodes :
         /\ SenderGood(a)
         /\ \A f \in mbox[a] : FrameGood(pub[a], f)
         /\ rx[a] = NoBuf \/ BufGood(pub[a], rx[a])
         /\ IsSeq(got[a])
         /\ \A i \in DOMAIN got[a] : Whole(pub[a], got[a][i].data)

-----------------------------------------------------------------------------
(* Numbers *)

\* Quotient and remainder.
LEMMA DivMod ==
    ASSUME NEW m \in Nat, m > 0, NEW x \in Nat
    PROVE  x = m * (x \div m) + (x % m) /\ x \div m \in Nat /\ x % m \in 0 .. m - 1
  OBVIOUS

\* Numbers that are less than m apart differ modulo m.
LEMMA Wraps ==
    ASSUME NEW m \in Nat, m > 0, NEW x \in Nat, NEW y \in Nat, x % m = y % m, x - y < m, y - x < m
    PROVE  x = y
<1> DEFINE p == x \div m
           q == y \div m
<1>1. x = m * p + (x % m) /\ y = m * q + (y % m) /\ p \in Int /\ q \in Int /\ x % m \in Int
  BY DivMod
<1>2. x - y = m * (p - q) /\ p - q \in Int
  <2>1. m * (p - q) = m * p - m * q
    BY <1>1
  <2> QED
    BY <1>1, <2>1
<1> DEFINE d == p - q
<1>3. d \in Int /\ x - y = m * d
  BY <1>2
<1> HIDE DEF d, p, q
<1>4. d <= 0
  BY <1>3
<1>5. d >= 0
  BY <1>3
<1> QED
  BY <1>3, <1>4, <1>5

\* The next message number.
LEMMA NextNumber ==
    ASSUME NEW m \in Nat, m > 1, NEW x \in Nat
    PROVE  ((x % m) + 1) % m = (x + 1) % m
<1> DEFINE p == x \div m
           r == x % m
<1>1. x = m * p + r /\ p \in Nat /\ r \in 0 .. m - 1
  BY DivMod
<1> HIDE DEF p, r
<1>2. CASE r + 1 < m
  <2>1. x + 1 = m * p + (r + 1) /\ r + 1 \in 0 .. m - 1
    BY <1>1, <1>2
  <2>2. (x + 1) % m = r + 1
    BY <1>1, <2>1
  <2>3. (r + 1) % m = r + 1
    BY <1>1, <2>1
  <2> QED
    BY <2>2, <2>3 DEF r
<1>3. CASE r + 1 = m
  <2>1. x + 1 = m * (p + 1)
    BY <1>1, <1>3
  <2>2. (x + 1) % m = 0
    BY <1>1, <2>1
  <2>3. (r + 1) % m = 0
    BY <1>1, <1>3
  <2> QED
    BY <2>2, <2>3 DEF r
<1> QED
  BY <1>1, <1>2, <1>3

\* The number of chunks of a report whose chunk number q is the last.
LEMMA LastChunk ==
    ASSUME NEW d \in Nat, d > 0, NEW q \in Nat, NEW l \in Nat, q * d < l, l <= (q + 1) * d
    PROVE  (l + d - 1) \div d = q + 1
  OBVIOUS

\* The sequence number of a chunk in the middle of a report is not the last one.
LEMMA MiddleChunk ==
    ASSUME NEW d \in Nat, d > 0, NEW q \in Nat, NEW m \in Nat, NEW l \in Nat,
           q * d < l, l <= m * d
    PROVE  q < m
<1>1. SUFFICES ASSUME q >= m PROVE FALSE
  OBVIOUS
<1>2. (q - m) * d >= 0
  BY <1>1
<1>3. (q - m) * d = q * d - m * d
  OBVIOUS
<1> QED
  BY <1>2, <1>3

\* The offset of the next chunk.
LEMMA NextOffset ==
    ASSUME NEW d \in Nat, NEW q \in Nat
    PROVE  (q + 1) * d = q * d + d
  OBVIOUS

\* The offset 0 belongs to the first chunk only.
LEMMA FirstOffset ==
    ASSUME NEW d \in Nat, d > 0, NEW q \in Nat
    PROVE  q * d \in Nat /\ (q * d = 0 <=> q = 0)
<1>1. q # 0 => q * d >= d
  OBVIOUS
<1> QED
  BY <1>1

\* Sequences are equal when their elements are.
LEMMA SeqEqual ==
    ASSUME NEW S, NEW s \in Seq(S), NEW t \in Seq(S), Len(s) = Len(t),
           \A i \in 1 .. Len(s) : s[i] = t[i]
    PROVE  s = t
<1>1. DOMAIN s = 1 .. Len(s) /\ DOMAIN t = 1 .. Len(s)
  OBVIOUS
<1>2. s = [i \in 1 .. Len(s) |-> s[i]] /\ t = [i \in 1 .. Len(s) |-> t[i]]
  BY <1>1
<1> QED
  BY <1>2

\* No chunk yet.
LEMMA CutNone == \A n : Cut(n, 0) = <<>>
  BY DEF Cut

\* One chunk more.
LEMMA CutMore ==
    ASSUME NEW n \in Nat, NEW q \in Nat
    PROVE  /\ Cut(n, q) \in Seq(Nat \X Nat)
           /\ Append(Cut(n, q), <<n, q * CAN_MAX_DLEN>>) = Cut(n, q + 1)
<1>1. CAN_MAX_DLEN \in Nat
  BY ReportAssumptions DEF ReportAssumptions
<1>2. Cut(n, q) \in Seq(Nat \X Nat) /\ Cut(n, q + 1) \in Seq(Nat \X Nat)
  <2>1. \A i \in 1 .. q + 1 : (i - 1) * CAN_MAX_DLEN \in Nat
    BY <1>1
  <2> QED
    BY <2>1 DEF Cut
<1> DEFINE c == <<n, q * CAN_MAX_DLEN>>
           s == Cut(n, q)
           t == Cut(n, q + 1)
<1>3. Len(s) = q /\ Len(t) = q + 1 /\ c \in Nat \X Nat
  BY <1>1 DEF Cut
<1>4. \A i \in 1 .. q : s[i] = t[i]
  BY DEF Cut
<1>5. t[q + 1] = c
  BY DEF Cut
<1> HIDE DEF c, s, t
<1>6. Append(s, c) = t
  <2>1. s \in Seq(Nat \X Nat) /\ t \in Seq(Nat \X Nat)
    BY <1>2 DEF s, t
  <2>2. Append(s, c) \in Seq(Nat \X Nat) /\ Len(Append(s, c)) = q + 1
    BY <1>3, <2>1
  <2>3. \A i \in 1 .. q + 1 : Append(s, c)[i] = t[i]
    BY <1>3, <1>4, <1>5, <2>1
  <2> QED
    BY <1>3, <2>1, <2>2, <2>3, SeqEqual
<1> QED
  BY <1>2, <1>6 DEF s, t, c

-----------------------------------------------------------------------------
(* The receive callback *)

\* A context is a new one or holds the first chunks of a report.
LEMMA Context ==
    ASSUME WholeInv, NEW a \in Nodes, NEW b \in thingset_can_get_rx_buf(a)
    PROVE  \/ b \in NewContexts
           \/ rx[a].used /\ b = rx[a] /\ BufGood(pub[a], b)
<1>1. CASE rx[a].used
  <2>1. rx[a] # NoBuf
    BY <1>1 DEF NoBuf
  <2> QED
    BY <1>1, <2>1 DEF thingset_can_get_rx_buf, WholeInv
<1>2. CASE ~rx[a].used
  <2>1. b \in NewContexts
    BY <1>2 DEF thingset_can_get_rx_buf
  <2> QED
    BY <2>1
<1> QED
  BY <1>1, <1>2

\* A new context holds nothing.
LEMMA NewFields ==
    ASSUME NEW b \in NewContexts
    PROVE  b \in Ctx(b.len) /\ b.seq = 0 /\ b.data = <<>>
<1>1. PICK m \in 0 .. MSG_MOD - 1, st \in BOOLEAN :
        b = [used |-> TRUE, msg |-> m, seq |-> 0, started |-> st, data |-> <<>>, len |-> 0]
  BY DEF NewContexts
<1>2. b.seq = 0 /\ b.data = <<>> /\ b.len = 0
  BY <1>1
<1>3. b \in Ctx(0)
  BY <1>1 DEF Ctx
<1> QED
  BY <1>2, <1>3

\* The first frame of a report sets the message number of the context.
LEMMA OpenFields ==
    ASSUME NEW b, b \in Ctx(b.len), NEW f, f.msg \in 0 .. MSG_MOD - 1
    PROVE  LET o == Opened(b, f) IN
           /\ o \in Ctx(o.len) /\ o.seq = b.seq /\ o.data = b.data /\ o.len = b.len
           /\ IsFirst(f) => o.msg = f.msg /\ o.started
           /\ ~IsFirst(f) => o = b
<1> DEFINE l == b.len
           o == [b EXCEPT !.msg = f.msg, !.started = TRUE]
<1>1. b \in Ctx(l)
  OBVIOUS
<1> HIDE DEF l
<1>2. o \in Ctx(l) /\ o.seq = b.seq /\ o.data = b.data /\ o.msg = f.msg /\ o.started
  BY <1>1 DEF Ctx
<1>3. o.len = l
  BY <1>2 DEF Ctx
<1> QED
  BY <1>2, <1>3 DEF Opened, l

\* The chunk is appended.
LEMMA ExtendFields ==
    ASSUME NEW b, b \in Ctx(b.len), NEW f, f.n \in Nat, f.pos \in Nat
    PROVE  LET x == Extended(b, f) IN
           /\ x \in Ctx(x.len) /\ x.seq = b.seq + 1 /\ x.data = Append(b.data, <<f.n, f.pos>>)
           /\ x.msg = b.msg /\ x.started = b.started /\ x.len = b.len + f.bytes
<1> DEFINE l == b.len
           v == Append(b.data, <<f.n, f.pos>>)
           w == b.len + f.bytes
           z == b.seq + 1
           x == [b EXCEPT !.data = v, !.len = w, !.seq = z]
<1>1. Extended(b, f) = x /\ b \in Ctx(l)
  BY DEF Extended
<1>2. b.seq \in Nat /\ b.data \in Seq(Nat \X Nat)
  BY <1>1 DEF Ctx
<1>3. v \in Seq(Nat \X Nat) /\ z \in Nat
  BY <1>2
<1> HIDE DEF v, w, z, l
<1>4. x \in Ctx(w) /\ x.seq = z /\ x.data = v /\ x.msg = b.msg /\ x.started = b.started /\ x.len = w
  BY <1>1, <1>3 DEF Ctx
<1> QED
  BY <1>1, <1>4 DEF v, w, z

\* Two numbers modulo SEQ_MOD.
LEMMA SmallMod ==
    ASSUME NEW m \in Nat, m > 0, NEW x \in 0 .. m - 1
    PROVE  x % m = x
  OBVIOUS

\* A frame that is accepted is the next chunk of the report in the context: the
\* buffer holds the chunks of the frame's report up to and including this one.
LEMMA Accepted ==
    ASSUME TypeInv, WholeInv, Recent, NEW a \in Nodes, NEW f \in mbox[a],
           NEW b \in thingset_can_get_rx_buf(a), Fits(Opened(b, f), f)
    PROVE  LET x == Extended(Opened(b, f), f) IN
           Holds(x, (f.n - 1) % MSG_MOD, f.seq + 1, Cut(f.n, f.seq + 1))
<1> DEFINE o == Opened(b, f)
           x == Extended(o, f)
<1>1. /\ CAN_MAX_DLEN \in Nat /\ CAN_MAX_DLEN > 0 /\ SEQ_MOD \in Nat /\ SEQ_MOD > 1
      /\ MSG_MOD \in Nat /\ MSG_MOD > 1 /\ pub[a] \in Seq(Published)
  BY ReportAssumptions DEF ReportAssumptions, TypeInv
<1>2. FrameGood(pub[a], f)
  BY DEF WholeInv
<1>3. f.n \in DOMAIN pub[a] /\ f.n \in Nat /\ f.n > 0 /\ f.n <= Len(pub[a]) /\ Len(pub[a]) \in Nat
      /\ f.seq \in Nat /\ f.seq < SEQ_MOD
  BY <1>1, <1>2 DEF FrameGood
<1>4. o.msg = f.msg /\ o.started /\ o.seq % SEQ_MOD = f.seq /\ f.msg = (f.n - 1) % MSG_MOD
      /\ f.pos = f.seq * CAN_MAX_DLEN
  BY <1>2 DEF Fits, FrameGood
<1>5. /\ IsFirst(f) <=> f.seq = 0
      /\ f.pos \in Nat /\ f.msg \in 0 .. MSG_MOD - 1
  <2>1. (f.pos = 0 <=> f.seq = 0) /\ f.pos \in Nat
    BY <1>1, <1>3, <1>4, FirstOffset
  <2>2. f.type = MfType(pub[a][f.n].len, f.pos)
    BY <1>2 DEF FrameGood
  <2>3. f.n - 1 \in Nat
    BY <1>3
  <2>4. (f.n - 1) % MSG_MOD \in 0 .. MSG_MOD - 1
    BY <1>1, <2>3, DivMod
  <2> QED
    BY <1>4, <2>1, <2>2, <2>4 DEF IsFirst, MfType
<1>6. b \in Ctx(b.len) /\ b.seq \in 0 .. SEQ_MOD - 1
  <2>1. CASE b \in NewContexts
    BY <1>1, <2>1, NewFields
  <2>2. CASE BufGood(pub[a], b)
    BY <1>1, <2>2 DEF BufGood, Holds
  <2> QED
    BY <2>1, <2>2, Context
<1>7. o \in Ctx(o.len) /\ o.seq = b.seq /\ o.data = b.data
  BY <1>5, <1>6, OpenFields
<1>8. b.seq = f.seq
  <2>1. b.seq % SEQ_MOD = b.seq
    BY <1>1, <1>6, SmallMod
  <2> QED
    BY <1>4, <1>7, <2>1
<1>9. b.data = Cut(f.n, f.seq)
  <2>1. CASE f.seq = 0
    <3>1. ASSUME BufGood(pub[a], b) PROVE FALSE
      BY <1>8, <2>1, <3>1 DEF BufGood, Holds
    <3> QED
      BY <2>1, <3>1, Context, NewFields, CutNone
  <2>2. CASE f.seq # 0
    <3>1. rx[a].used /\ b = rx[a] /\ BufGood(pub[a], b)
      BY <1>8, <2>2, Context, NewFields
    <3>2. PICK n \in DOMAIN pub[a], q \in 1 .. SEQ_MOD - 1 : Holds(b, (n - 1) % MSG_MOD, q, Cut(n, q))
      BY <3>1 DEF BufGood
    <3>3. n \in Nat /\ n > 0 /\ n <= Len(pub[a])
      BY <1>1, <3>2
    <3>4. q = f.seq /\ b.data = Cut(n, q) /\ b.msg = (n - 1) % MSG_MOD
      BY <1>8, <3>2 DEF Holds
    <3>5. n > Len(pub[a]) - MSG_MOD
      <4>1. Cut(n, q)[1] = <<n, (1 - 1) * CAN_MAX_DLEN>>
        BY <1>1, <3>2 DEF Cut
      <4>2. Cut(n, q)[1][1] = n
        BY <4>1
      <4> QED
        BY <3>1, <3>4, <4>2 DEF Recent
    <3>6. f.n > Len(pub[a]) - MSG_MOD
      BY DEF Recent
    <3>7. n - 1 \in Nat /\ f.n - 1 \in Nat /\ (n - 1) - (f.n - 1) < MSG_MOD /\ (f.n - 1) - (n - 1) < MSG_MOD
      BY <1>1, <1>3, <3>3, <3>5, <3>6
    <3>8. (n - 1) % MSG_MOD = (f.n - 1) % MSG_MOD
      <4>1. o = b
        BY <1>5, <1>6, <2>2, OpenFields
      <4> QED
        BY <1>4, <3>4, <4>1
    <3>9. n - 1 = f.n - 1
      <4> DEFINE u == n - 1
                 v == f.n - 1
      <4>1. u \in Nat /\ v \in Nat /\ u - v < MSG_MOD /\ v - u < MSG_MOD /\ u % MSG_MOD = v % MSG_MOD
        BY <3>7, <3>8
      <4> HIDE DEF u, v
      <4>2. u = v
        BY <1>1, <4>1, Wraps
      <4> QED
        BY <4>2 DEF u, v
    <3>10. n = f.n
      BY <1>3, <3>3, <3>9
    <3> QED
      BY <3>4, <3>10
  <2> QED
    BY <2>1, <2>2
<1>10. /\ x \in Ctx(x.len) /\ x.seq = o.seq + 1 /\ x.data = Append(o.data, <<f.n, f.pos>>)
       /\ x.msg = o.msg /\ x.started = o.started
  BY <1>3, <1>5, <1>7, ExtendFields
<1>11. Append(Cut(f.n, f.seq), <<f.n, f.pos>>) = Cut(f.n, f.seq + 1)
  BY <1>3, <1>4, CutMore
<1> QED
  BY <1>4, <1>7, <1>8, <1>9, <1>10, <1>11 DEF Holds

\* The last chunk completes the report, any other leaves the buffer part of it.
LEMMA Completed ==
    ASSUME TypeInv, SequenceSuffices, WholeInv, NEW a \in Nodes, NEW f \in mbox[a], NEW x,
           Holds(x, (f.n - 1) % MSG_MOD, f.seq + 1, Cut(f.n, f.seq + 1))
    PROVE  /\ IsLast(f) => Whole(pub[a], x.data)
           /\ ~IsLast(f) => BufGood(pub[a], x)
<1> DEFINE l == pub[a][f.n].len
           q == f.seq
<1>1. /\ CAN_MAX_DLEN \in Nat /\ CAN_MAX_DLEN > 0 /\ SEQ_MOD \in Nat /\ SEQ_MOD > 1
      /\ pub[a] \in Seq(Published)
  BY ReportAssumptions DEF ReportAssumptions, TypeInv
<1>2. f.n \in DOMAIN pub[a] /\ q \in 0 .. SEQ_MOD - 1 /\ f.pos = q * CAN_MAX_DLEN /\ f.pos < l
      /\ f.type = MfType(l, f.pos) /\ l <= SEQ_MOD * CAN_MAX_DLEN
  BY LengthOf DEF WholeInv, FrameGood, SequenceSuffices
<1>3. l \in Nat /\ q \in Nat /\ f.pos \in Nat
  <2>1. l \in Nat
    BY <1>2, LengthOf
  <2>2. q \in Nat
    BY <1>1, <1>2
  <2>3. q * CAN_MAX_DLEN \in Nat
    BY <1>1, <2>2, FirstOffset
  <2> QED
    BY <1>2, <2>1, <2>2, <2>3
<1>4. (q + 1) * CAN_MAX_DLEN = f.pos + CAN_MAX_DLEN
  BY <1>1, <1>2, <1>3, NextOffset
<1>5. IsLast(f) <=> ~(l - f.pos > CAN_MAX_DLEN)
  BY <1>2 DEF IsLast, MfType
<1>6. x.data = Cut(f.n, q + 1)
  BY DEF Holds
<1> HIDE DEF l, q
<1>7. ASSUME IsLast(f) PROVE Whole(pub[a], x.data)
  <2>1. l <= (q + 1) * CAN_MAX_DLEN
    BY <1>1, <1>3, <1>4, <1>5, <1>7
  <2>2. q * CAN_MAX_DLEN < l
    BY <1>2
  <2>3. (l + CAN_MAX_DLEN - 1) \div CAN_MAX_DLEN = q + 1
    BY <1>1, <1>3, <2>1, <2>2, LastChunk
  <2>4. NumChunks(l) = q + 1
    BY <2>3 DEF NumChunks
  <2> QED
    BY <1>2, <1>6, <2>4 DEF Whole, l
<1>8. ASSUME ~IsLast(f) PROVE BufGood(pub[a], x)
  <2>1. (q + 1) * CAN_MAX_DLEN < l
    BY <1>1, <1>3, <1>4, <1>5, <1>8
  <2>2. q + 1 < SEQ_MOD
    <3>1. q + 1 \in Nat
      BY <1>3
    <3> QED
      BY <1>1, <1>2, <1>3, <2>1, <3>1, MiddleChunk
  <2>3. q + 1 \in 1 .. SEQ_MOD - 1
    BY <1>1, <1>3, <2>2
  <2>4. Holds(x, (f.n - 1) % MSG_MOD, q + 1, Cut(f.n, q + 1))
    BY DEF q
  <2> QED
    BY <1>2, <2>1, <2>3, <2>4 DEF BufGood, l
<1> QED
  BY <1>7, <1>8

-----------------------------------------------------------------------------
(* The invariant *)

\* Reports are added to the list and none is changed.
Grows(p, r) == DOMAIN p \subseteq DOMAIN r /\ \A i \in DOMAIN p : r[i].len = p[i].len

\* Frames, buffers and deliveries stay good when the list grows.
LEMMA StaysGood ==
    ASSUME NEW p, NEW r, Grows(p, r)
    PROVE  /\ \A f : FrameGood(p, f) => FrameGood(r, f)
           /\ \A b : BufGood(p, b) => BufGood(r, b)
           /\ \A d : Whole(p, d) => Whole(r, d)
<1>1. \A f : FrameGood(p, f) => FrameGood(r, f)
  BY DEF Grows, FrameGood
<1>2. ASSUME NEW b, BufGood(p, b) PROVE BufGood(r, b)
  BY <1>2 DEF Grows, BufGood
<1>3. \A d : Whole(p, d) => Whole(r, d)
  BY DEF Grows, Whole
<1> QED
  BY <1>1, <1>2, <1>3

\* No action takes a report from the list.
LEMMA PubGrows ==
    ASSUME TypeInv, Next
    PROVE  \A k \in Nodes : Grows(pub[k], pub'[k])
<1>0. PICK a \in Nodes : \/ \E len \in Lens : StartReport(a, len)
                         \/ SendFrame(a) \/ SemTaken(a) \/ FrameOnBus(a)
                         \/ SendEagain(a) \/ SendError(a) \/ SemTimeout(a)
                         \/ FrameLost(a) \/ FrameTxError(a)
  BY DEF Next, Progress
<1>1. CASE SamePub
  BY <1>1 DEF SamePub, Grows
<1>2. CASE pub' = pub
  BY <1>2 DEF Grows
<1>3. CASE \E len \in Lens : len # 0 /\ StartReport(a, len)
  <2>1. PICK len \in Lens : len # 0 /\ StartReport(a, len)
    BY <1>3
  <2>2. /\ pub' \in [Nodes -> Seq(Published)] /\ Len(pub'[a]) = Len(pub[a]) + 1
        /\ \A i \in DOMAIN pub[a] : pub'[a][i] = pub[a][i]
        /\ \A k \in Nodes : k # a => pub'[k] = pub[k]
    BY <2>1, StartStep
  <2>3. pub[a] \in Seq(Published) /\ pub'[a] \in Seq(Published)
    BY <2>2 DEF TypeInv
  <2>4. DOMAIN pub[a] \subseteq DOMAIN pub'[a]
    BY <2>2, <2>3
  <2> QED
    BY <2>2, <2>4 DEF Grows
<1> QED
  BY <1>0, <1>1, <1>2, <1>3, NothingStep, SendStep, CallbackStep, GiveUpStep, TakenStep DEF Same

\* The publisher of a node that takes no step.
LEMMA SenderOther ==
    ASSUME TypeInv, NEW k \in Nodes, SenderGood(k), snd'[k] = snd[k], pub'[k] = pub[k] \/ SamePub
    PROVE  SenderGood(k)'
<1>1. CASE pub'[k] = pub[k]
  BY <1>1 DEF SenderGood
<1>2. CASE SamePub
  <2>1. Len(pub'[k]) = Len(pub[k]) /\ DOMAIN pub'[k] = DOMAIN pub[k]
        /\ \A i \in DOMAIN pub[k] : pub'[k][i].len = pub[k][i].len
    BY <1>2 DEF SamePub
  <2>2. snd[k].pc # "idle" => snd[k].n \in DOMAIN pub[k]
    BY DEF TypeInv
  <2> QED
    BY <2>1, <2>2 DEF SenderGood
<1> QED
  BY <1>1, <1>2

\* The parts of the invariant about one node, from the step of another or of itself.
LEMMA WholeFrom ==
    ASSUME TypeInv, WholeInv, Next, NEW a \in Nodes, Others(a),
           rx' = [k \in Nodes |-> rx'[k]], got' = [k \in Nodes |-> got'[k]],
           \A k \in Nodes : k # a => /\ pub'[k] = pub[k] \/ SamePub
                                     /\ mbox'[k] = mbox[k] /\ rx'[k] = rx[k] /\ got'[k] = got[k],
           SenderGood(a)',
           \A f \in mbox'[a] : f \in mbox[a] \/ FrameGood(pub'[a], f),
           rx'[a] = rx[a] \/ rx'[a] = NoBuf \/ BufGood(pub[a], rx'[a]),
           \/ got'[a] = got[a]
           \/ \E r : got'[a] = Append(got[a], r) /\ Whole(pub[a], r.data)
    PROVE  WholeInv'
<1>1. \A k \in Nodes : Grows(pub[k], pub'[k])
  BY PubGrows
<1>2. ASSUME NEW k \in Nodes, k # a PROVE SenderGood(k)'
  <2>1. SenderGood(k) /\ snd'[k] = snd[k]
    BY <1>2 DEF WholeInv, Others
  <2> QED
    BY <1>2, <2>1, SenderOther
<1>3. ASSUME NEW k \in Nodes, NEW f \in mbox'[k] PROVE FrameGood(pub'[k], f)
  <2>1. f \in mbox[k] => FrameGood(pub[k], f)
    BY DEF WholeInv
  <2> QED
    BY <1>1, <1>3, <2>1, StaysGood
<1>4. ASSUME NEW k \in Nodes PROVE rx'[k] = NoBuf \/ BufGood(pub'[k], rx'[k])
  <2>1. rx[k] = NoBuf \/ BufGood(pub[k], rx[k])
    BY DEF WholeInv
  <2> QED
    BY <1>1, <2>1, StaysGood
<1>5. ASSUME NEW k \in Nodes
      PROVE  IsSeq(got'[k]) /\ \A i \in DOMAIN got'[k] : Whole(pub'[k], got'[k][i].data)
  <2>1. IsSeq(got[k]) /\ \A i \in DOMAIN got[k] : Whole(pub[k], got[k][i].data)
    BY DEF WholeInv
  <2>2. CASE got'[k] = got[k]
    BY <1>1, <2>1, <2>2, StaysGood
  <2>3. CASE \E r : got'[k] = Append(got[k], r) /\ Whole(pub[k], r.data)
    <3>1. PICK r : got'[k] = Append(got[k], r) /\ Whole(pub[k], r.data)
      BY <2>3
    <3>2. PICK S : got[k] \in Seq(S)
      BY <2>1 DEF IsSeq
    <3>3. got[k] \in Seq(S \cup {r}) /\ r \in S \cup {r}
      BY <3>2
    <3>4. got'[k] \in Seq(S \cup {r})
      BY <3>1, <3>3
    <3>5. \A i \in DOMAIN got'[k] : (i \in DOMAIN got[k] /\ got'[k][i] = got[k][i]) \/ got'[k][i] = r
      BY <3>1, <3>3
    <3>6. \A i \in DOMAIN got'[k] : Whole(pub[k], got'[k][i].data)
      BY <2>1, <3>1, <3>5
    <3> QED
      BY <1>1, <3>4, <3>6, StaysGood DEF IsSeq
  <2> QED
    BY <2>2, <2>3
<1> QED
  BY <1>2, <1>3, <1>4, <1>5 DEF WholeInv

\* Publisher a keeps its report and its place in it.
LEMMA SenderSame ==
    ASSUME TypeInv, NEW a \in Nodes, SenderGood(a), Same(a), snd'[a].pc = "idle" <=> snd[a].pc = "idle"
    PROVE  SenderGood(a)'
  BY DEF SenderGood, Same, SndStep

\* Publisher a comes to the end of its report.
LEMMA SenderDone ==
    ASSUME TypeInv, NEW a \in Nodes, SenderGood(a), SamePub, snd[a].pc # "idle", snd'[a].pc = "idle",
           snd'[a].msg_no = (snd[a].msg_no + 1) % MSG_MOD
    PROVE  SenderGood(a)'
<1>1. MSG_MOD \in Nat /\ MSG_MOD > 1 /\ pub[a] \in Seq(Published) /\ snd[a].n \in DOMAIN pub[a]
  BY ReportAssumptions DEF ReportAssumptions, TypeInv
<1>2. snd[a].n = Len(pub[a]) /\ snd[a].msg_no = (snd[a].n - 1) % MSG_MOD
  BY DEF SenderGood
<1>3. Len(pub[a]) - 1 \in Nat
  BY <1>1, <1>2
<1> DEFINE x == Len(pub[a]) - 1
<1>4. x \in Nat /\ snd[a].msg_no = x % MSG_MOD /\ x + 1 = Len(pub[a])
  BY <1>2, <1>3
<1> HIDE DEF x
<1>5. snd'[a].msg_no = (x + 1) % MSG_MOD
  BY <1>1, <1>4, NextNumber
<1>6. snd'[a].msg_no = Len(pub'[a]) % MSG_MOD
  BY <1>4, <1>5 DEF SamePub
<1> QED
  BY <1>6 DEF SenderGood

\* Publisher a goes on to its next chunk.
LEMMA SenderGoesOn ==
    ASSUME TypeInv, NEW a \in Nodes, SenderGood(a), SamePub, snd[a].pc # "idle",
           SndStep(a, "send", snd[a].len, snd[a].pos + CAN_MAX_DLEN, snd[a].seq + 1,
                   snd[a].msg_no, 0, snd[a].n)
    PROVE  SenderGood(a)'
<1>1. CAN_MAX_DLEN \in Nat /\ snd[a].n \in DOMAIN pub[a] /\ snd[a].seq \in Nat
  BY ReportAssumptions DEF ReportAssumptions, TypeInv, Sender
<1>2. snd[a].pos = snd[a].seq * CAN_MAX_DLEN
  BY DEF SenderGood
<1>3. snd'[a].pos = snd'[a].seq * CAN_MAX_DLEN
  BY <1>1, <1>2, NextOffset DEF SndStep
<1> QED
  BY <1>1, <1>3 DEF SenderGood, SamePub, SndStep

\* Publisher a starts a report.
LEMMA SenderStarts ==
    ASSUME TypeInv, NEW a \in Nodes, SenderGood(a), NEW len \in Lens, len # 0,
           StartReport(a, len)
    PROVE  SenderGood(a)'
<1>1. /\ SndStep(a, "send", len, 0, 0, snd[a].msg_no, 0, Len(pub[a]) + 1)
      /\ pub' \in [Nodes -> Seq(Published)]
      /\ Len(pub'[a]) = Len(pub[a]) + 1 /\ pub'[a][Len(pub[a]) + 1].len = len
      /\ \A i \in DOMAIN pub[a] : pub'[a][i] = pub[a][i]
  BY StartStep
<1>2. pub[a] \in Seq(Published) /\ pub'[a] \in Seq(Published) /\ CAN_MAX_DLEN \in Nat
  BY <1>1, ReportAssumptions DEF ReportAssumptions, TypeInv
<1>3. snd[a].msg_no = Len(pub[a]) % MSG_MOD
  BY DEF SenderGood, StartReport
<1>6. snd'[a].n = Len(pub'[a]) /\ snd'[a].len = pub'[a][snd'[a].n].len
  BY <1>1 DEF SndStep
<1>7. snd'[a].msg_no = (snd'[a].n - 1) % MSG_MOD
  <2>1. (Len(pub[a]) + 1) - 1 = Len(pub[a])
    BY <1>2
  <2> QED
    BY <1>1, <1>3, <2>1 DEF SndStep
<1>8. snd'[a].pos = snd'[a].seq * CAN_MAX_DLEN
  BY <1>1, <1>2 DEF SndStep
<1>9. snd'[a].pc = "send"
  BY <1>1 DEF SndStep
<1> QED
  BY <1>6, <1>7, <1>8, <1>9 DEF SenderGood

\* The frame handed to the driver.
LEMMA FrameIsGood ==
    ASSUME TypeInv, SequenceSuffices, NEW a \in Nodes, SenderGood(a), snd[a].pc # "idle"
    PROVE  FrameGood(pub[a], Frame(snd[a]))
<1> DEFINE s == snd[a]
<1>1. /\ CAN_MAX_DLEN \in Nat /\ CAN_MAX_DLEN > 0 /\ SEQ_MOD \in Nat /\ SEQ_MOD > 1
      /\ MSG_MOD \in Nat /\ MSG_MOD > 1
      /\ s.n \in DOMAIN pub[a] /\ s.pos < s.len
      /\ s.seq \in Nat /\ s.len \in Nat /\ s.msg_no \in 0 .. MSG_MOD - 1
  BY ReportAssumptions DEF ReportAssumptions, TypeInv, Sender
<1>2. /\ s.msg_no = (s.n - 1) % MSG_MOD /\ s.len = pub[a][s.n].len /\ s.pos = s.seq * CAN_MAX_DLEN
      /\ s.len <= SEQ_MOD * CAN_MAX_DLEN
  BY <1>1, LengthOf DEF SenderGood, SequenceSuffices
<1>3. s.seq < SEQ_MOD
  BY <1>1, <1>2, MiddleChunk
<1>4. s.seq % SEQ_MOD = s.seq /\ s.msg_no % MSG_MOD = s.msg_no
  BY <1>1, <1>3, SmallMod
<1>5. /\ Frame(s).msg = s.msg_no /\ Frame(s).type = MfType(s.len, s.pos) /\ Frame(s).seq = s.seq
      /\ Frame(s).n = s.n /\ Frame(s).pos = s.pos
  BY <1>4 DEF Frame
<1>6. s.seq \in 0 .. SEQ_MOD - 1
  BY <1>1, <1>3
<1> HIDE DEF s
<1>7. FrameGood(pub[a], Frame(s))
  BY <1>1, <1>2, <1>5, <1>6 DEF FrameGood
<1> QED
  BY <1>7 DEF s

\* The effect of the receive callback on its node, and that there is none on others.
LEMMA CallbackEffect ==
    ASSUME rx = [k \in Nodes |-> rx[k]], got = [k \in Nodes |-> got[k]],
           NEW a \in Nodes, NEW f, NEW b, thingset_can_report_rx_cb(a, b, f)
    PROVE  LET o == Opened(b, f)
               x == Extended(o, f)
           IN  /\ rx' = [k \in Nodes |-> rx'[k]] /\ got' = [k \in Nodes |-> got'[k]]
               /\ \A k \in Nodes : k # a => rx'[k] = rx[k] /\ got'[k] = got[k]
               /\ rx'[a] = IF Fits(o, f) /\ ~IsLast(f) THEN x ELSE NoBuf
               /\ got'[a] = IF Fits(o, f) /\ IsLast(f)
                              THEN Append(got[a], [data |-> x.data, len |-> x.len]) ELSE got[a]
<1> DEFINE o == Opened(b, f)
           x == Extended(o, f)
           r == [data |-> x.data, len |-> x.len]
<1>3. PICK v : rx' = [rx EXCEPT ![a] = v]
               /\ v = CASE ~Fits(o, f) -> NoBuf [] Fits(o, f) /\ IsLast(f) -> NoBuf [] OTHER -> x
  BY DEF thingset_can_report_rx_cb, Dropped
<1>4. got' = IF Fits(o, f) /\ IsLast(f) THEN [got EXCEPT ![a] = Append(got[a], r)] ELSE got
  BY DEF thingset_can_report_rx_cb
<1> HIDE DEF r, x, o
<1>5. v = IF Fits(o, f) /\ ~IsLast(f) THEN x ELSE NoBuf
  BY <1>3
<1>7. rx' = [k \in Nodes |-> rx'[k]] /\ rx'[a] = v /\ \A k \in Nodes : k # a => rx'[k] = rx[k]
  <2>1. rx' = [k \in Nodes |-> IF k = a THEN v ELSE rx[k]]
    BY <1>3, Zenon
  <2> QED
    BY <2>1
<1>8. CASE Fits(o, f) /\ IsLast(f)
  <2>1. got' = [got EXCEPT ![a] = Append(got[a], r)]
    BY <1>4, <1>8
  <2>2. got' = [k \in Nodes |-> IF k = a THEN Append(got[a], r) ELSE got[k]]
    BY <2>1, Zenon
  <2>3. /\ got' = [k \in Nodes |-> got'[k]] /\ got'[a] = Append(got[a], r)
        /\ \A k \in Nodes : k # a => got'[k] = got[k]
    BY <2>2
  <2> QED
    BY <1>5, <1>7, <1>8, <2>3 DEF o, x, r
<1>9. CASE ~(Fits(o, f) /\ IsLast(f))
  <2>1. got' = got
    BY <1>4, <1>9
  <2> QED
    BY <1>5, <1>7, <1>9, <2>1 DEF o, x, r
<1> QED
  BY <1>8, <1>9

\* The receive callback keeps the buffer good and delivers whole reports only.
LEMMA Callback ==
    ASSUME TypeInv, SequenceSuffices, WholeInv, Recent, NEW a \in Nodes, NEW f \in mbox[a],
           NEW b \in thingset_can_get_rx_buf(a), thingset_can_report_rx_cb(a, b, f)
    PROVE  /\ rx' = [k \in Nodes |-> rx'[k]] /\ got' = [k \in Nodes |-> got'[k]]
           /\ \A k \in Nodes : k # a => rx'[k] = rx[k] /\ got'[k] = got[k]
           /\ rx'[a] = NoBuf \/ BufGood(pub[a], rx'[a])
           /\ \/ got'[a] = got[a]
              \/ \E r : got'[a] = Append(got[a], r) /\ Whole(pub[a], r.data)
<1> DEFINE o == Opened(b, f)
           x == Extended(o, f)
           r == [data |-> x.data, len |-> x.len]
<1>1. rx = [k \in Nodes |-> rx[k]] /\ got = [k \in Nodes |-> got[k]]
  BY DEF WholeInv
<1>2. Fits(o, f) => /\ IsLast(f) => Whole(pub[a], x.data)
                    /\ ~IsLast(f) => BufGood(pub[a], x)
  <2>1. SUFFICES ASSUME Fits(o, f) PROVE (IsLast(f) => Whole(pub[a], x.data)) /\ (~IsLast(f) => BufGood(pub[a], x))
    OBVIOUS
  <2>2. Holds(x, (f.n - 1) % MSG_MOD, f.seq + 1, Cut(f.n, f.seq + 1))
    BY <2>1, Accepted
  <2> QED
    BY <2>2, Completed
<1>3. /\ rx' = [k \in Nodes |-> rx'[k]] /\ got' = [k \in Nodes |-> got'[k]]
      /\ \A k \in Nodes : k # a => rx'[k] = rx[k] /\ got'[k] = got[k]
      /\ rx'[a] = IF Fits(o, f) /\ ~IsLast(f) THEN x ELSE NoBuf
      /\ got'[a] = IF Fits(o, f) /\ IsLast(f) THEN Append(got[a], r) ELSE got[a]
  BY <1>1, CallbackEffect
<1>4. r.data = x.data
  OBVIOUS
<1> HIDE DEF r, x, o
<1> QED
  BY <1>2, <1>3, <1>4

\* The invariant holds initially ...
LEMMA WholeInit == Init => WholeInv
<1> SUFFICES ASSUME Init PROVE WholeInv
  OBVIOUS
<1>1. MSG_MOD \in Nat /\ MSG_MOD > 1
  BY ReportAssumptions DEF ReportAssumptions
<1>2. \A a \in Nodes : SenderGood(a)
  <2>1. 0 % MSG_MOD = 0
    BY <1>1, SmallMod
  <2>2. \A a \in Nodes : snd[a].pc = "idle" /\ snd[a].msg_no = 0 /\ pub[a] = <<>>
    BY DEF Init
  <2>3. \A a \in Nodes : Len(pub[a]) = 0 /\ DOMAIN pub[a] = {}
    BY <2>2
  <2> QED
    BY <2>1, <2>2, <2>3 DEF SenderGood
<1>3. rx = [a \in Nodes |-> rx[a]] /\ got = [a \in Nodes |-> got[a]]
  BY DEF Init
<1>4. \A a \in Nodes : mbox[a] = {} /\ rx[a] = NoBuf /\ got[a] = <<>>
  BY DEF Init
<1>5. IsSeq(<<>>) /\ DOMAIN <<>> = {}
  <2>1. <<>> \in Seq({})
    OBVIOUS
  <2> QED
    BY <2>1 DEF IsSeq
<1> QED
  BY <1>2, <1>3, <1>4, <1>5 DEF WholeInv

\* ... and is kept by every step, as long as the frames and buffers are recent.
LEMMA WholeNext ==
    ASSUME SequenceSuffices
    PROVE  TypeInv /\ WholeInv /\ Recent /\ [Next]_vars => WholeInv'
<1> SUFFICES ASSUME TypeInv, WholeInv, Recent, [Next]_vars PROVE WholeInv'
  OBVIOUS
<1>u. CASE UNCHANGED vars
  BY <1>u DEF vars, WholeInv, SenderGood
<1>n. CASE Next
  <2>0. PICK a \in Nodes : \/ \E len \in Lens : StartReport(a, len)
                           \/ SendFrame(a) \/ SemTaken(a) \/ FrameOnBus(a)
                           \/ SendEagain(a) \/ SendError(a) \/ SemTimeout(a)
                           \/ FrameLost(a) \/ FrameTxError(a)
    BY <1>n DEF Next, Progress
  <2>s. SenderGood(a) /\ rx = [k \in Nodes |-> rx[k]] /\ got = [k \in Nodes |-> got[k]]
        /\ mbox = [k \in Nodes |-> mbox[k]]
    BY DEF WholeInv, TypeInv
  <2>1. CASE \E len \in Lens : StartReport(a, len)
    <3>1. PICK len \in Lens : StartReport(a, len)
      BY <2>1
    <3>2. mbox' = mbox /\ rx' = rx /\ got' = got /\ snd[a].pc = "idle"
      BY <3>1 DEF StartReport
    <3>3. CASE len = 0
      <4>1. Same(a) /\ snd'[a].pc = "idle"
        BY <3>1, <3>3, NothingStep
      <4>2. SenderGood(a)'
        BY <2>s, <3>2, <4>1, SenderSame
      <4> QED
        BY <1>n, <2>s, <3>2, <4>1, <4>2, WholeFrom DEF Same, SndStep
    <3>4. CASE len # 0
      <4>1. Others(a) /\ \A k \in Nodes : k # a => pub'[k] = pub[k]
        BY <3>1, <3>4, StartStep DEF SndStep
      <4>2. SenderGood(a)'
        BY <2>s, <3>1, <3>4, SenderStarts
      <4> QED
        BY <1>n, <2>s, <3>2, <4>1, <4>2, WholeFrom
    <3> QED
      BY <3>3, <3>4
  <2>2. CASE SendFrame(a) \/ SendError(a)
    <3>1. Same(a) /\ snd[a].pc = "send" /\ snd'[a].pc = "wait"
      BY <2>2, SendStep
    <3>2. SenderGood(a)'
      BY <2>s, <3>1, SenderSame
    <3>3. rx' = rx /\ got' = got
      BY <2>2 DEF SendFrame, SendError
    <3>4. mbox' = mbox \/ mbox' = [mbox EXCEPT ![a] = mbox[a] \cup {Frame(snd[a])}]
      BY <2>2 DEF SendFrame, SendError
    <3>5. /\ \A k \in Nodes : k # a => mbox'[k] = mbox[k]
          /\ mbox'[a] \subseteq mbox[a] \cup {Frame(snd[a])}
      BY <2>s, <3>4
    <3>6. FrameGood(pub'[a], Frame(snd[a]))
      BY <2>s, <3>1, FrameIsGood DEF Same
    <3> QED
      BY <1>n, <2>s, <3>1, <3>2, <3>3, <3>5, <3>6, WholeFrom DEF Same, SndStep
  <2>3. CASE SendEagain(a) \/ SemTimeout(a)
    <3>1. /\ SamePub /\ mbox' = mbox /\ Others(a) /\ snd[a].pc # "idle" /\ snd'[a].pc = "idle"
          /\ snd'[a].msg_no = (snd[a].msg_no + 1) % MSG_MOD
      BY <2>3, GiveUpStep
    <3>2. SenderGood(a)'
      BY <2>s, <3>1, SenderDone
    <3>3. rx' = rx /\ got' = got
      BY <2>3 DEF SendEagain, SemTimeout
    <3> QED
      BY <1>n, <2>s, <3>1, <3>2, <3>3, WholeFrom
  <2>4. CASE SemTaken(a)
    <3>1. SamePub /\ mbox' = mbox /\ snd[a].pc = "wait" /\ Others(a)
      BY <2>4, TakenStep DEF SndStep
    <3>2. SenderGood(a)'
      BY <2>s, <2>4, TakenStep, SenderDone, SenderGoesOn
    <3>3. rx' = rx /\ got' = got
      BY <2>4 DEF SemTaken
    <3> QED
      BY <1>n, <2>s, <3>1, <3>2, <3>3, WholeFrom
  <2>5. CASE FrameOnBus(a) \/ FrameLost(a) \/ FrameTxError(a)
    <3>1. Same(a) /\ snd'[a].pc = snd[a].pc
      BY <2>5, CallbackStep
    <3>2. SenderGood(a)'
      BY <2>s, <3>1, SenderSame
    <3>3. PICK f \in mbox[a] :
            /\ mbox' = [mbox EXCEPT ![a] = mbox[a] \ {f}]
            /\ \/ rx' = rx /\ got' = got
               \/ \E b \in thingset_can_get_rx_buf(a) : thingset_can_report_rx_cb(a, b, f)
      BY <2>5 DEF FrameOnBus, FrameLost, FrameTxError
    <3>4. mbox'[a] \subseteq mbox[a] /\ \A k \in Nodes : k # a => mbox'[k] = mbox[k]
      BY <2>s, <3>3
    <3>5. CASE rx' = rx /\ got' = got
      BY <1>n, <2>s, <3>1, <3>2, <3>4, <3>5, WholeFrom DEF Same, SndStep
    <3>6. CASE \E b \in thingset_can_get_rx_buf(a) : thingset_can_report_rx_cb(a, b, f)
      BY <1>n, <3>1, <3>2, <3>4, <3>6, Callback, WholeFrom DEF Same, SndStep
    <3> QED
      BY <3>3, <3>5, <3>6
  <2> QED
    BY <2>0, <2>1, <2>2, <2>3, <2>4, <2>5
<1> QED
  BY <1>u, <1>n

\* The invariant is what the run checks.
LEMMA WholeMeans == WholeInv => DeliveredWhole
  BY DEF WholeInv, DeliveredWhole, Whole, Reports, Chunks, Cut

\* Whatever is lost, given up, delayed or refused, and however many reports are
\* published: thingset_can_report_rx_cb delivers whole reports only, as long as
\* no report needs more sequence numbers than there are and nothing older than
\* the message numbers can tell apart is left in a mailbox or a receive buffer.
THEOREM WholeWhileRecent ==
    SequenceSuffices => (Spec /\ []Recent => []DeliveredWhole)
<1> SUFFICES ASSUME SequenceSuffices PROVE Spec /\ []Recent => []DeliveredWhole
  OBVIOUS
<1>1. TypeInv /\ WholeInv /\ Recent /\ [Next]_vars => WholeInv'
  BY WholeNext
<1> QED
  BY <1>1, TypeInit, TypeNext, WholeInit, WholeMeans, PTL DEF Spec

\* No more reports than the bound.
PubBound == \A a \in Nodes : Len(pub[a]) <= MaxReports

\* The bound is a guard of StartReport.
LEMMA BoundKept == TypeInv /\ PubBound /\ [Next]_vars => PubBound'
<1> SUFFICES ASSUME TypeInv, PubBound, [Next]_vars PROVE PubBound'
  OBVIOUS
<1>u. CASE UNCHANGED vars
  BY <1>u DEF vars, PubBound
<1>n. CASE Next
  <2>0. PICK a \in Nodes : \/ \E len \in Lens : StartReport(a, len)
                           \/ SendFrame(a) \/ SemTaken(a) \/ FrameOnBus(a)
                           \/ SendEagain(a) \/ SendError(a) \/ SemTimeout(a)
                           \/ FrameLost(a) \/ FrameTxError(a)
    BY <1>n DEF Next, Progress
  <2>1. CASE SamePub \/ pub' = pub
    BY <2>1 DEF SamePub, PubBound
  <2>2. CASE \E len \in Lens : len # 0 /\ StartReport(a, len)
    <3>1. PICK len \in Lens : len # 0 /\ StartReport(a, len)
      BY <2>2
    <3>2. Len(pub'[a]) = Len(pub[a]) + 1 /\ Len(pub[a]) < MaxReports
          /\ \A k \in Nodes : k # a => pub'[k] = pub[k]
      BY <3>1, StartStep DEF StartReport
    <3>3. Len(pub[a]) \in Nat /\ MaxReports \in Nat
      BY ReportAssumptions DEF ReportAssumptions, TypeInv
    <3> QED
      BY <3>2, <3>3 DEF PubBound
  <2> QED
    BY <2>0, <2>1, <2>2, NothingStep, SendStep, CallbackStep, GiveUpStep, TakenStep DEF Same
<1> QED
  BY <1>u, <1>n

\* With no more reports than message numbers everything is recent.
LEMMA BoundMeansRecent ==
    ASSUME MaxReports <= MSG_MOD
    PROVE  TypeInv /\ WholeInv /\ PubBound => Recent
<1> SUFFICES ASSUME TypeInv, WholeInv, PubBound, NEW a \in Nodes
             PROVE  /\ \A f \in mbox[a] : f.n > Len(pub[a]) - MSG_MOD
                    /\ rx[a].used => rx[a].data[1][1] > Len(pub[a]) - MSG_MOD
  BY DEF Recent
<1>1. /\ Len(pub[a]) \in Nat /\ MSG_MOD \in Nat /\ MaxReports \in Nat /\ Len(pub[a]) <= MaxReports
      /\ \A n \in DOMAIN pub[a] : n \in Nat /\ n > 0
      /\ SEQ_MOD \in Nat
  <2>1. pub[a] \in Seq(Published)
    BY DEF TypeInv
  <2> QED
    BY <2>1, ReportAssumptions DEF ReportAssumptions, PubBound
<1>2. \A n \in DOMAIN pub[a] : n > Len(pub[a]) - MSG_MOD
  BY <1>1
<1>3. \A f \in mbox[a] : f.n \in DOMAIN pub[a]
  BY DEF WholeInv, FrameGood
<1>4. ASSUME rx[a].used PROVE rx[a].data[1][1] \in DOMAIN pub[a]
  <2>1. BufGood(pub[a], rx[a])
    BY <1>4 DEF WholeInv, NoBuf
  <2>2. PICK n \in DOMAIN pub[a], q \in 1 .. SEQ_MOD - 1 : rx[a].data = Cut(n, q)
    BY <2>1 DEF BufGood, Holds
  <2>3. Cut(n, q)[1] = <<n, (1 - 1) * CAN_MAX_DLEN>>
    BY <1>1, <2>2 DEF Cut
  <2> QED
    BY <2>2, <2>3
<1> QED
  BY <1>2, <1>3, <1>4

\* In particular the first MSG_MOD reports of every node are delivered whole or
\* not at all, whatever happens to their frames.
THEOREM ReportsAreWhole ==
    SequenceSuffices /\ MaxReports <= MSG_MOD => (Spec => []DeliveredWhole)
<1> SUFFICES ASSUME SequenceSuffices, MaxReports <= MSG_MOD PROVE Spec => []DeliveredWhole
  OBVIOUS
<1>1. Init => PubBound
  BY ReportAssumptions DEF Init, PubBound, ReportAssumptions
<1>2. TypeInv /\ WholeInv /\ PubBound /\ [Next]_vars => WholeInv'
  BY WholeNext, BoundMeansRecent
<1> QED
  BY <1>1, <1>2, TypeInit, TypeNext, WholeInit, BoundKept, WholeMeans, PTL DEF Spec

-----------------------------------------------------------------------------
(* Recovery *)

\* There is a receive buffer for every publishing node, and its size is a multiple
\* of a full frame: what the last frame is padded to does not exceed it.
EnoughBuffers ==
    /\ IsFiniteSet(Nodes) /\ Cardinality(Nodes) <= NUM_BUFFERS
    /\ \E k \in Nat : BUFFER_SIZE = k * CAN_MAX_DLEN

\* f is frame number q + 1 of a report; its sequence number may have wrapped.
FrameNo(p, f, q) ==
    /\ f.n \in DOMAIN p /\ f.pos = q * CAN_MAX_DLEN /\ f.pos < p[f.n].len
    /\ f.msg = (f.n - 1) % MSG_MOD /\ f.seq = q % SEQ_MOD
    /\ f.type = MfType(p[f.n].len, f.pos)
    /\ f.bytes = DlcBytes(ChunkLen(p[f.n].len, f.pos))

FrameSound(p, f) == \E q \in Nat : FrameNo(p, f, q)

\* The chunk c is the last one of its report.
EndsReport(p, c) == p[c[1]].len - c[2] <= CAN_MAX_DLEN

\* After the frame heard at k, which was the last of a report, the first q chunks of
\* report n were heard.
HeardAfter(p, h, k, n, q) ==
    EndsReport(p, h[k]) /\ \A i \in 1 .. q : h[k + i] = <<n, (i - 1) * CAN_MAX_DLEN>>

\* The buffer holds q full chunks of report n.
HoldsFull(b, n, q) ==
    Holds(b, (n - 1) % MSG_MOD, q, Cut(n, q)) /\ b.len = q * CAN_MAX_DLEN

\* What has been heard belongs to published reports.
HeardInv(a) ==
    /\ heard[a] \in Seq(Nat \X Nat)
    /\ \A i \in DOMAIN heard[a] : heard[a][i][1] \in DOMAIN pub[a]

\* The last frame of a report leaves no receive buffer behind ...
FreeInv(a) ==
    heard[a] # <<>> /\ EndsReport(pub[a], heard[a][Len(heard[a])]) => rx[a] = NoBuf

\* ... so that the frames after it are collected from the first one on ...
RunInv(a) ==
    \A n \in Fitting(a) : \A q \in 1 .. NumChunks(pub[a][n].len) - 1 :
      Len(heard[a]) > q /\ HeardAfter(pub[a], heard[a], Len(heard[a]) - q, n, q)
        => HoldsFull(rx[a], n, q)

\* ... and are delivered when the last of them has been heard.
DoneInv(a) ==
    \A n \in Fitting(a) : \A k \in 1 .. Len(heard[a]) - NumChunks(pub[a][n].len) :
      HeardAfter(pub[a], heard[a], k, n, NumChunks(pub[a][n].len)) => Delivered(a, n)

RecoverInv ==
    /\ rx = [a \in Nodes |-> rx[a]] /\ got = [a \in Nodes |-> got[a]]
    /\ heard = [a \in Nodes |-> heard[a]]
    /\ \A a \in Nodes :
         /\ SenderGood(a)
         /\ \A f \in mbox[a] : FrameSound(pub[a], f)
         /\ rx[a] = NoBuf \/ rx[a] \in Ctx(rx[a].len)
         /\ IsSeq(got[a])
         /\ HeardInv(a) /\ FreeInv(a) /\ RunInv(a) /\ DoneInv(a)

-----------------------------------------------------------------------------
(* Chunks and frame sizes *)

\* A set of natural numbers that is not empty has a least one.
LEMMA LeastExists ==
    ASSUME NEW T, T \subseteq Nat, T # {}
    PROVE  \E d \in T : \A e \in T : d <= e
<1> DEFINE R == {ss \in Nat \X Nat : ss[1] < ss[2]}
<1>0. IsWellFoundedOn(R, Nat)
  BY NatLessThanWellFounded DEF OpToRel
<1> HIDE DEF R
<1>1. PICK d \in T : \A e \in T : ~(<<e, d>> \in R)
  BY <1>0, WFMin
<1>2. \A e \in T : ~(e < d)
  BY <1>1 DEF R
<1> QED
  BY <1>2

\* A chunk is padded to the next size a DLC can express, at most a full frame.
LEMMA DlcFacts ==
    ASSUME NEW n \in Nat, n <= CAN_MAX_DLEN
    PROVE  /\ DlcBytes(n) \in DLC_SIZES /\ DlcBytes(n) \in Nat /\ DlcBytes(n) <= CAN_MAX_DLEN
           /\ n = CAN_MAX_DLEN => DlcBytes(n) = CAN_MAX_DLEN
<1> DEFINE T == {d \in DLC_SIZES : d >= n}
           P(d) == d >= n /\ \A e \in DLC_SIZES : e >= n => d <= e
<1>1. CAN_MAX_DLEN \in Nat /\ DLC_SIZES \subseteq 0 .. CAN_MAX_DLEN /\ CAN_MAX_DLEN \in DLC_SIZES
  BY ReportAssumptions DEF ReportAssumptions
<1>a. \A d \in DLC_SIZES : d \in Nat /\ d <= CAN_MAX_DLEN
  <2> TAKE d \in DLC_SIZES
  <2>1. d \in 0 .. CAN_MAX_DLEN
    BY <1>1
  <2> QED
    BY <1>1, <2>1
<1>2. T \subseteq Nat /\ CAN_MAX_DLEN \in T
  BY <1>1, <1>a
<1>3. \E d \in T : \A e \in T : d <= e
  BY <1>2, LeastExists
<1>4. \E d \in DLC_SIZES : P(d)
  BY <1>3
<1>5. DlcBytes(n) = CHOOSE d \in DLC_SIZES : P(d)
  BY DEF DlcBytes
<1>6. DlcBytes(n) \in DLC_SIZES /\ P(DlcBytes(n))
  BY <1>4, <1>5, Zenon
<1> DEFINE b == DlcBytes(n)
<1>8. b \in DLC_SIZES /\ b \in Nat /\ b <= CAN_MAX_DLEN /\ b >= n
  BY <1>6, <1>a
<1> HIDE DEF b
<1>9. n = CAN_MAX_DLEN => b = CAN_MAX_DLEN
  BY <1>1, <1>8
<1> QED
  BY <1>8, <1>9 DEF b

\* The number of chunks of a report.
LEMMA ChunkCount ==
    ASSUME NEW l \in Nat, l > 0
    PROVE  /\ NumChunks(l) \in Nat \ {0}
           /\ (NumChunks(l) - 1) * CAN_MAX_DLEN < l /\ l <= NumChunks(l) * CAN_MAX_DLEN
<1> DEFINE d == CAN_MAX_DLEN
           x == l + d - 1
           c == x \div d
           r == x % d
<1>1. d \in Nat /\ d > 0
  BY ReportAssumptions DEF ReportAssumptions
<1>2. x \in Nat
  BY <1>1
<1>3. x = d * c + r /\ c \in Nat /\ r \in 0 .. d - 1
  BY <1>1, <1>2, DivMod
<1>4. NumChunks(l) = c
  BY DEF NumChunks
<1> HIDE DEF c, r
<1>5. c # 0
  BY <1>1, <1>3
<1>6. d * c = c * d /\ (c - 1) * d = c * d - d
  BY <1>1, <1>3
<1>7. c * d >= l /\ (c - 1) * d < l
  BY <1>1, <1>3, <1>6
<1> QED
  BY <1>3, <1>4, <1>5, <1>7

\* Different chunks have different offsets.
LEMMA SameOffset ==
    ASSUME NEW d \in Nat, d > 0, NEW q \in Nat, NEW r \in Nat, q * d = r * d
    PROVE  q = r
<1>1. (q - r) * d = q * d - r * d
  OBVIOUS
<1> DEFINE k == q - r
<1>2. k \in Int /\ k * d = 0
  BY <1>1
<1> HIDE DEF k
<1>3. k = 0
  BY <1>2
<1> QED
  BY <1>3 DEF k

\* Chunk number q + 1 is the last one, or it is a full one and another follows.
LEMMA ChunkNo ==
    ASSUME NEW l \in Nat, l > 0, NEW q \in Nat, q * CAN_MAX_DLEN < l
    PROVE  LET c == NumChunks(l)
               p == q * CAN_MAX_DLEN
           IN  /\ q < c
               /\ l - p <= CAN_MAX_DLEN <=> q = c - 1
               /\ ChunkLen(l, p) \in Nat /\ ChunkLen(l, p) <= CAN_MAX_DLEN
               /\ q # c - 1 => ChunkLen(l, p) = CAN_MAX_DLEN
<1> DEFINE d == CAN_MAX_DLEN
           c == NumChunks(l)
           p == q * d
<1>1. d \in Nat /\ d > 0
  BY ReportAssumptions DEF ReportAssumptions
<1>2. c \in Nat \ {0} /\ (c - 1) * d < l /\ l <= c * d
  BY ChunkCount
<1>3. p \in Nat /\ p < l /\ (q + 1) * d = p + d
  BY <1>1, FirstOffset, NextOffset
<1>4. q < c
  BY <1>1, <1>2, MiddleChunk
<1>5. ASSUME l - p <= d PROVE q = c - 1
  <2>1. (l + d - 1) \div d = q + 1
    BY <1>1, <1>3, <1>5, LastChunk
  <2> QED
    BY <1>2, <2>1 DEF NumChunks
<1>6. ASSUME q = c - 1 PROVE l - p <= d
  <2>1. q + 1 = c
    BY <1>2, <1>6
  <2>2. l <= p + d
    BY <1>2, <1>3, <2>1
  <2> QED
    BY <1>1, <1>3, <2>2
<1>7. ChunkLen(l, p) \in Nat /\ ChunkLen(l, p) <= d /\ (l - p > d => ChunkLen(l, p) = d)
  BY <1>3, ChunkLenFacts
<1> HIDE DEF p, c
<1>8. l - p > d \/ l - p <= d
  BY <1>1, <1>3
<1> QED
  BY <1>4, <1>5, <1>6, <1>7, <1>8 DEF p, c

-----------------------------------------------------------------------------
(* Frames heard one after the other *)

\* A node without a receive buffer gets one.
LEMMA FreeBuffer ==
    ASSUME EnoughBuffers, NEW a \in Nodes, rx[a] = NoBuf
    PROVE  thingset_can_get_rx_buf(a) = NewContexts
<1> DEFINE U == {k \in Nodes : rx[k].used}
<1>1. ~rx[a].used
  BY DEF NoBuf
<1>2. IsFiniteSet(Nodes) /\ Cardinality(Nodes) <= NUM_BUFFERS /\ NUM_BUFFERS \in Nat
  BY ReportAssumptions DEF EnoughBuffers, ReportAssumptions
<1>3. U \in SUBSET Nodes /\ U # Nodes
  BY <1>1
<1>4. IsFiniteSet(U) /\ Cardinality(U) <= Cardinality(Nodes) /\ Cardinality(U) # Cardinality(Nodes)
  BY <1>2, <1>3, FS_Subset
<1>5. Cardinality(U) \in Nat /\ Cardinality(Nodes) \in Nat
  BY <1>2, <1>4, FS_CardinalityType
<1>6. NumUsed < NUM_BUFFERS
  BY <1>2, <1>4, <1>5 DEF NumUsed
<1> QED
  BY <1>1, <1>6 DEF thingset_can_get_rx_buf

\* The buffer before frame number q + 1 of report n, if it is to be delivered.
Ready(b, n, q) == IF q = 0 THEN b = NoBuf ELSE HoldsFull(b, n, q)

\* A buffer that is ready is there for the frame.
LEMMA ReadyBuffer ==
    ASSUME EnoughBuffers, NEW a \in Nodes, NEW n, NEW q \in Nat, Ready(rx[a], n, q)
    PROVE  /\ thingset_can_get_rx_buf(a) # {}
           /\ \A b \in thingset_can_get_rx_buf(a) : IF q = 0 THEN b \in NewContexts ELSE b = rx[a]
<1>1. CASE q = 0
  <2>1. thingset_can_get_rx_buf(a) = NewContexts
    BY <1>1, FreeBuffer DEF Ready
  <2>2. 0 \in 0 .. MSG_MOD - 1
    BY ReportAssumptions DEF ReportAssumptions
  <2>3. NewContexts # {}
    <3> DEFINE w(m, st) == [used |-> TRUE, msg |-> m, seq |-> 0, started |-> st, data |-> <<>>, len |-> 0]
    <3>1. NewContexts = {w(m, st) : m \in 0 .. MSG_MOD - 1, st \in BOOLEAN}
      BY DEF NewContexts
    <3>2. PICK st : st \in BOOLEAN
      OBVIOUS
    <3> HIDE DEF w
    <3>3. w(0, st) \in NewContexts
      BY <2>2, <3>1, <3>2
    <3> QED
      BY <3>3
  <2> QED
    BY <1>1, <2>1, <2>3
<1>2. CASE q # 0
  <2>1. rx[a] \in Ctx(rx[a].len)
    BY <1>2 DEF Ready, HoldsFull, Holds
  <2>2. rx[a].used
    BY <2>1 DEF Ctx
  <2> QED
    BY <1>2, <2>2 DEF thingset_can_get_rx_buf
<1> QED
  BY <1>1, <1>2

\* The frame that follows is accepted.
LEMMA Continues ==
    ASSUME TypeInv, EnoughBuffers, NEW a \in Nodes, NEW f, FrameSound(pub[a], f), f.n \in Fitting(a),
           NEW q \in Nat, f.pos = q * CAN_MAX_DLEN, Ready(rx[a], f.n, q),
           NEW b \in thingset_can_get_rx_buf(a)
    PROVE  LET c == NumChunks(pub[a][f.n].len)
               o == Opened(b, f)
               x == Extended(o, f)
           IN  /\ Fits(o, f) /\ q < c /\ (IsLast(f) <=> q = c - 1)
               /\ Holds(x, (f.n - 1) % MSG_MOD, q + 1, Cut(f.n, q + 1))
               /\ q # c - 1 => x.len = (q + 1) * CAN_MAX_DLEN
<1> DEFINE d == CAN_MAX_DLEN
           n == f.n
           l == pub[a][n].len
           c == NumChunks(l)
           o == Opened(b, f)
           x == Extended(o, f)
<1>1. /\ d \in Nat /\ d > 0 /\ SEQ_MOD \in Nat /\ SEQ_MOD > 1 /\ MSG_MOD \in Nat /\ MSG_MOD > 1
      /\ BUFFER_SIZE \in Nat
  BY ReportAssumptions DEF ReportAssumptions
<1>2. n \in DOMAIN pub[a] /\ l <= BUFFER_SIZE
  BY DEF Fitting, Reports
<1>3. l \in Nat /\ l > 0 /\ n \in Nat \ {0}
  BY <1>2, LengthOf
<1>4. f.pos \in Nat /\ (f.pos = 0 <=> q = 0)
  BY <1>1, FirstOffset
<1>5. FrameNo(pub[a], f, q)
  <2>1. PICK r \in Nat : FrameNo(pub[a], f, r)
    BY DEF FrameSound
  <2>2. r * d = q * d
    BY <2>1 DEF FrameNo
  <2>3. r = q
    BY <1>1, <2>2, SameOffset
  <2> QED
    BY <2>1, <2>3
<1>6. /\ q * d < l /\ f.msg = (n - 1) % MSG_MOD /\ f.seq = q % SEQ_MOD
      /\ f.type = MfType(l, f.pos) /\ f.bytes = DlcBytes(ChunkLen(l, q * d))
  BY <1>5 DEF FrameNo
<1>7. /\ q < c /\ (l - f.pos <= d <=> q = c - 1)
      /\ ChunkLen(l, q * d) \in Nat /\ ChunkLen(l, q * d) <= d /\ (q # c - 1 => ChunkLen(l, q * d) = d)
  BY <1>3, <1>6, ChunkNo
<1>8. f.bytes \in Nat /\ f.bytes <= d /\ (q # c - 1 => f.bytes = d)
  BY <1>6, <1>7, DlcFacts
<1>9. IsLast(f) <=> q = c - 1
  <2>1. l - f.pos > d <=> ~(l - f.pos <= d)
    BY <1>1, <1>3, <1>4
  <2> QED
    BY <1>6, <1>7, <2>1 DEF IsLast, MfType
<1>10. IsFirst(f) <=> q = 0
  BY <1>4, <1>6 DEF IsFirst, MfType
<1>11. f.msg \in 0 .. MSG_MOD - 1
  <2>1. n - 1 \in Nat
    BY <1>3
  <2> QED
    BY <1>1, <1>6, <2>1, DivMod
<1>12. c \in Nat \ {0} /\ c * d <= BUFFER_SIZE /\ (q + 1) * d <= c * d
  <2>1. c \in Nat \ {0} /\ (c - 1) * d < l /\ l <= c * d
    BY <1>3, ChunkCount
  <2>2. PICK k \in Nat : BUFFER_SIZE = k * d
    BY DEF EnoughBuffers
  <2>3. (c - 1) * d < k * d /\ c - 1 \in Nat /\ (c - 1) * d \in Nat
    BY <1>1, <1>2, <1>3, <2>1, <2>2, FirstOffset
  <2>4. c - 1 < k
    BY <1>1, <2>2, <2>3, MiddleChunk
  <2>5. (k - c) * d = k * d - c * d /\ (k - c) * d >= 0
    BY <1>1, <2>1, <2>4
  <2>6. (c - (q + 1)) * d = c * d - (q + 1) * d /\ (c - (q + 1)) * d >= 0
    BY <1>1, <1>7, <2>1
  <2>7. c * d \in Nat /\ k * d \in Nat /\ (q + 1) * d \in Nat
    BY <1>1, <2>1, <2>2
  <2> QED
    BY <2>1, <2>2, <2>5, <2>6, <2>7
<1> HIDE DEF n, l, c
<1>13. /\ o \in Ctx(o.len) /\ o.started /\ o.msg = f.msg /\ o.seq = q /\ o.data = Cut(n, q)
       /\ o.len = q * d
  <2>1. CASE q = 0
    <3>1. b \in NewContexts
      BY <2>1, ReadyBuffer
    <3>2. b \in Ctx(b.len) /\ b.seq = 0 /\ b.data = <<>> /\ b.len = 0
      BY <3>1, NewFields DEF NewContexts
    <3>3. /\ o \in Ctx(o.len) /\ o.seq = b.seq /\ o.data = b.data /\ o.len = b.len
          /\ o.msg = f.msg /\ o.started
      BY <1>10, <1>11, <2>1, <3>2, OpenFields
    <3>4. Cut(n, q) = <<>> /\ q * d = 0
      BY <1>1, <2>1, CutNone
    <3> QED
      BY <2>1, <3>2, <3>3, <3>4
  <2>2. CASE q # 0
    <3>1. b = rx[a]
      BY <2>2, ReadyBuffer
    <3>2. HoldsFull(b, n, q)
      BY <2>2, <3>1 DEF Ready, n
    <3>3. b \in Ctx(b.len) /\ b.started /\ b.msg = (n - 1) % MSG_MOD /\ b.seq = q
          /\ b.data = Cut(n, q) /\ b.len = q * d
      BY <3>2 DEF HoldsFull, Holds
    <3>4. o = b
      BY <1>10, <1>11, <2>2, <3>3, OpenFields
    <3> QED
      BY <1>6, <3>3, <3>4
  <2> QED
    BY <2>1, <2>2
<1> HIDE DEF o
<1>14. /\ x \in Ctx(x.len) /\ x.seq = q + 1 /\ x.data = Append(Cut(n, q), <<n, f.pos>>)
       /\ x.msg = f.msg /\ x.started /\ x.len = q * d + f.bytes
  <2>1. f.n \in Nat /\ f.pos \in Nat
    BY <1>3, <1>4 DEF n
  <2>2. /\ x \in Ctx(x.len) /\ x.seq = o.seq + 1 /\ x.data = Append(o.data, <<f.n, f.pos>>)
        /\ x.msg = o.msg /\ x.started = o.started /\ x.len = o.len + f.bytes
    BY <1>13, <2>1, ExtendFields
  <2> QED
    BY <1>13, <2>2 DEF n
<1> HIDE DEF x
<1>15. Fits(o, f)
  <2>1. (q + 1) * d = q * d + d /\ q * d \in Nat
    BY <1>1, FirstOffset, NextOffset
  <2>2. c * d \in Nat
    BY <1>1, <1>12
  <2>3. q * d + f.bytes <= BUFFER_SIZE
    BY <1>1, <1>8, <1>12, <2>1, <2>2
  <2> QED
    BY <1>6, <1>13, <2>3 DEF Fits
<1>16. Holds(x, (n - 1) % MSG_MOD, q + 1, Cut(n, q + 1))
  <2>1. Append(Cut(n, q), <<n, f.pos>>) = Cut(n, q + 1)
    BY <1>3, CutMore
  <2> QED
    BY <1>6, <1>14, <2>1 DEF Holds
<1>17. q # c - 1 => x.len = (q + 1) * d
  BY <1>1, <1>8, <1>14, NextOffset
<1> QED
  BY <1>7, <1>9, <1>15, <1>16, <1>17 DEF n, l, c, o, x

\* What was heard after k, up to and including the last frame, and what is in the
\* buffer before it.
LEMMA HeardLast ==
    ASSUME TypeInv, NEW a \in Nodes, HeardInv(a), FreeInv(a), RunInv(a), NEW n \in Fitting(a),
           NEW q \in Nat, q < NumChunks(pub[a][n].len), NEW k \in Nat \ {0}, k + q = Len(heard[a]),
           NEW c \in Nat \X Nat, HeardAfter(pub[a], Append(heard[a], c), k, n, q + 1)
    PROVE  c = <<n, q * CAN_MAX_DLEN>> /\ Ready(rx[a], n, q)
<1> DEFINE h == heard[a]
           g == Append(h, c)
           m == NumChunks(pub[a][n].len)
<1>1. h \in Seq(Nat \X Nat) /\ Len(h) \in Nat
  BY DEF HeardInv
<1>2. g[Len(h) + 1] = c /\ \A i \in 1 .. Len(h) : g[i] = h[i]
  BY <1>1
<1>3. EndsReport(pub[a], g[k]) /\ \A i \in 1 .. q + 1 : g[k + i] = <<n, (i - 1) * CAN_MAX_DLEN>>
  BY DEF HeardAfter
<1>4. n \in DOMAIN pub[a]
  BY DEF Fitting, Reports
<1>5. m \in Nat \ {0}
  BY <1>4, LengthOf, ChunkCount
<1>k. k + q = Len(h)
  OBVIOUS
<1>n. Len(h) \in Nat
  BY <1>1
<1>l. q < m
  OBVIOUS
<1> HIDE DEF g, h, m
<1>6. c = <<n, q * CAN_MAX_DLEN>>
  <2>1. q + 1 \in 1 .. q + 1 /\ k + (q + 1) = Len(h) + 1 /\ (q + 1) - 1 = q
    BY <1>n, <1>k
  <2> QED
    BY <1>2, <1>3, <2>1
<1>7. HeardAfter(pub[a], h, k, n, q)
  <2>1. k \in 1 .. Len(h)
    BY <1>n, <1>k
  <2>2. \A i \in 1 .. q : k + i \in 1 .. Len(h) /\ i \in 1 .. q + 1
    <3> TAKE i \in 1 .. q
    <3>1. i \in Nat /\ 1 <= i /\ i <= q
      OBVIOUS
    <3> QED
      BY <1>n, <1>k, <3>1
  <2>3. EndsReport(pub[a], h[k])
    BY <1>2, <1>3, <2>1
  <2>4. \A i \in 1 .. q : h[k + i] = <<n, (i - 1) * CAN_MAX_DLEN>>
    BY <1>2, <1>3, <2>2
  <2> QED
    BY <2>3, <2>4 DEF HeardAfter
<1>8. CASE q = 0
  <2>1. k = Len(h) /\ h # <<>>
    BY <1>1, <1>n, <1>8, <1>k
  <2>2. rx[a] = NoBuf
    BY <1>7, <2>1 DEF FreeInv, HeardAfter, h
  <2> QED
    BY <1>6, <1>8, <2>2 DEF Ready
<1>9. CASE q # 0
  <2>1. q \in 1 .. m - 1 /\ Len(h) > q /\ k = Len(h) - q
    BY <1>n, <1>5, <1>9, <1>k, <1>l
  <2>2. HoldsFull(rx[a], n, q)
    BY <1>7, <2>1 DEF RunInv, h, m
  <2> QED
    BY <1>6, <1>9, <2>2 DEF Ready
<1> QED
  BY <1>8, <1>9

\* What FrameOnBus does to the history of its node.
FrameHeard(a, f) ==
    LET Effect(b) ==
          LET o == Opened(b, f)
              x == Extended(o, f)
          IN  /\ rx'[a] = IF Fits(o, f) /\ ~IsLast(f) THEN x ELSE NoBuf
              /\ got'[a] = IF Fits(o, f) /\ IsLast(f)
                             THEN Append(got[a], [data |-> x.data, len |-> x.len]) ELSE got[a]
    IN  /\ heard'[a] = Append(heard[a], <<f.n, f.pos>>)
        /\ \/ thingset_can_get_rx_buf(a) = {} /\ rx'[a] = rx[a] /\ got'[a] = got[a]
           \/ \E b \in thingset_can_get_rx_buf(a) : Effect(b)

\* The frame that was awaited goes into the buffer, or completes the report.
LEMMA Collected ==
    ASSUME TypeInv, EnoughBuffers, NEW a \in Nodes, NEW f, FrameSound(pub[a], f), f.n \in Fitting(a),
           NEW q \in Nat, f.pos = q * CAN_MAX_DLEN, Ready(rx[a], f.n, q), FrameHeard(a, f)
    PROVE  LET c == NumChunks(pub[a][f.n].len) IN
           /\ q # c - 1 => HoldsFull(rx'[a], f.n, q + 1)
           /\ q = c - 1 => \E r : got'[a] = Append(got[a], r) /\ r.data = Cut(f.n, c)
<1> DEFINE c == NumChunks(pub[a][f.n].len)
           o(b) == Opened(b, f)
           x(b) == Extended(o(b), f)
           r(b) == [data |-> x(b).data, len |-> x(b).len]
<1>1. thingset_can_get_rx_buf(a) # {}
  BY ReadyBuffer
<1>2. PICK b \in thingset_can_get_rx_buf(a) :
        /\ rx'[a] = IF Fits(o(b), f) /\ ~IsLast(f) THEN x(b) ELSE NoBuf
        /\ got'[a] = IF Fits(o(b), f) /\ IsLast(f) THEN Append(got[a], r(b)) ELSE got[a]
  BY <1>1 DEF FrameHeard
<1>3. /\ Fits(o(b), f) /\ q < c /\ (IsLast(f) <=> q = c - 1)
      /\ Holds(x(b), (f.n - 1) % MSG_MOD, q + 1, Cut(f.n, q + 1))
      /\ q # c - 1 => x(b).len = (q + 1) * CAN_MAX_DLEN
  BY Continues
<1>4. ASSUME q # c - 1 PROVE HoldsFull(rx'[a], f.n, q + 1)
  BY <1>2, <1>3, <1>4 DEF HoldsFull
<1>5. ASSUME q = c - 1 PROVE \E v : got'[a] = Append(got[a], v) /\ v.data = Cut(f.n, c)
  <2>1. got'[a] = Append(got[a], r(b)) /\ r(b).data = x(b).data
    BY <1>2, <1>3, <1>5
  <2>2. x(b).data = Cut(f.n, q + 1)
    BY <1>3 DEF Holds
  <2>3. f.n \in DOMAIN pub[a]
    BY DEF Fitting, Reports
  <2>4. c \in Nat
    BY <2>3, LengthOf, ChunkCount
  <2>5. q + 1 = c
    BY <1>5, <2>4
  <2> QED
    BY <2>1, <2>2, <2>5
<1> QED
  BY <1>4, <1>5

\* What was delivered stays delivered.
LEMMA StaysDelivered ==
    ASSUME NEW a \in Nodes, NEW n \in DOMAIN pub[a], Delivered(a, n), Grows(pub[a], pub'[a]), IsSeq(got[a]),
           got'[a] = got[a] \/ \E r : got'[a] = Append(got[a], r)
    PROVE  Delivered(a, n)'
<1>1. Chunks(a, n)' = Chunks(a, n)
  BY DEF Chunks, Grows
<1>2. PICK i \in DOMAIN got[a] : got[a][i].data = Chunks(a, n)
  BY DEF Delivered
<1>3. i \in DOMAIN got'[a] /\ got'[a][i] = got[a][i]
  <2>1. CASE got'[a] = got[a]
    BY <2>1
  <2>2. CASE \E r : got'[a] = Append(got[a], r)
    <3>1. PICK r : got'[a] = Append(got[a], r)
      BY <2>2
    <3>2. PICK S : got[a] \in Seq(S)
      BY DEF IsSeq
    <3>3. got[a] \in Seq(S \cup {r}) /\ r \in S \cup {r}
      BY <3>2
    <3> QED
      BY <3>1, <3>3
  <2> QED
    BY <2>1, <2>2
<1> QED
  BY <1>1, <1>2, <1>3 DEF Delivered

\* The history of a node of which no frame is heard, while reports may be published.
LEMMA HistoryKept ==
    ASSUME TypeInv, TypeInv', NEW a \in Nodes, HeardInv(a), FreeInv(a), RunInv(a), DoneInv(a), IsSeq(got[a]),
           Grows(pub[a], pub'[a]), heard'[a] = heard[a], rx'[a] = rx[a], got'[a] = got[a]
    PROVE  HeardInv(a)' /\ FreeInv(a)' /\ RunInv(a)' /\ DoneInv(a)'
<1> DEFINE h == heard[a]
           N == Len(h)
<1>1. h \in Seq(Nat \X Nat) /\ N \in Nat /\ DOMAIN h = 1 .. N
      /\ \A i \in 1 .. N : h[i][1] \in DOMAIN pub[a]
  BY DEF HeardInv
<1>2. \A i \in 1 .. N : EndsReport(pub'[a], h[i]) <=> EndsReport(pub[a], h[i])
  BY <1>1 DEF EndsReport, Grows
<1>3. HeardInv(a)'
  BY DEF HeardInv, Grows
<1>4. FreeInv(a)'
  <2>1. h # <<>> => N \in 1 .. N
    BY <1>1
  <2> QED
    BY <1>2, <2>1 DEF FreeInv
<1>5. ASSUME NEW n \in DOMAIN pub'[a], NEW q \in Nat \ {0}, NEW k \in Nat \ {0}, k + q <= N,
             HeardAfter(pub'[a], h, k, n, q), pub'[a][n].len <= BUFFER_SIZE
      PROVE  n \in Fitting(a) /\ pub'[a][n].len = pub[a][n].len /\ HeardAfter(pub[a], h, k, n, q)
  <2>0. N \in Nat /\ k + q <= N
    BY <1>1, <1>5
  <2> HIDE DEF N
  <2>1. k \in 1 .. N /\ k + 1 \in 1 .. N /\ 1 \in 1 .. q
    BY <2>0
  <2>2. h[k + 1] = <<n, (1 - 1) * CAN_MAX_DLEN>>
    BY <1>5, <2>1 DEF HeardAfter
  <2>3. n \in DOMAIN pub[a]
    BY <1>1, <2>1, <2>2
  <2> QED
    BY <1>2, <1>5, <2>1, <2>3 DEF HeardAfter, Grows, Fitting, Reports
<1>6. ASSUME NEW n \in DOMAIN pub'[a] PROVE NumChunks(pub'[a][n].len) \in Nat \ {0}
  <2>1. pub'[a] \in Seq(Published)
    BY DEF TypeInv
  <2>2. pub'[a][n] \in Published
    BY <2>1
  <2>3. pub'[a][n].len \in Lens \ {0} /\ Lens \subseteq Nat
    BY <2>2, ReportAssumptions DEF Published, ReportAssumptions
  <2> DEFINE l == pub'[a][n].len
  <2>4. l \in Nat /\ l # 0
    BY <2>3
  <2> HIDE DEF l
  <2>5. l \in Nat /\ l > 0
    BY <2>4
  <2>6. NumChunks(l) \in Nat \ {0}
    BY <2>5, ChunkCount
  <2> QED
    BY <2>6 DEF l
<1> HIDE DEF h, N
<1>7. RunInv(a)'
  <2> SUFFICES ASSUME NEW n \in DOMAIN pub'[a], pub'[a][n].len <= BUFFER_SIZE,
                      NEW q \in 1 .. NumChunks(pub'[a][n].len) - 1,
                      N > q, HeardAfter(pub'[a], h, N - q, n, q)
               PROVE  HoldsFull(rx[a], n, q)
    BY DEF RunInv, Fitting, Reports, h, N
  <2>0. NumChunks(pub'[a][n].len) \in Nat /\ N \in Nat
    BY <1>1, <1>6
  <2>1. q \in Nat \ {0} /\ N - q \in Nat \ {0} /\ (N - q) + q <= N
    BY <2>0
  <2>2. n \in Fitting(a) /\ pub'[a][n].len = pub[a][n].len /\ HeardAfter(pub[a], h, N - q, n, q)
    BY <1>5, <2>1
  <2> QED
    BY <2>2 DEF RunInv, h, N
<1>8. DoneInv(a)'
  <2> SUFFICES ASSUME NEW n \in DOMAIN pub'[a], pub'[a][n].len <= BUFFER_SIZE,
                      NEW k \in 1 .. N - NumChunks(pub'[a][n].len),
                      HeardAfter(pub'[a], h, k, n, NumChunks(pub'[a][n].len))
               PROVE  Delivered(a, n)'
    BY DEF DoneInv, Fitting, Reports, h, N
  <2> DEFINE c == NumChunks(pub'[a][n].len)
  <2>0. c \in Nat \ {0}
    BY <1>6
  <2> HIDE DEF c
  <2>1. k \in Nat \ {0} /\ k + c <= N
    BY <1>1, <2>0 DEF c
  <2>2. n \in Fitting(a) /\ pub'[a][n].len = pub[a][n].len /\ HeardAfter(pub[a], h, k, n, c)
    BY <1>5, <2>0, <2>1 DEF c
  <2>3. Delivered(a, n)
    BY <2>2 DEF DoneInv, h, N, c
  <2> QED
    BY <2>2, <2>3, StaysDelivered DEF Fitting, Reports
<1> QED
  BY <1>3, <1>4, <1>7, <1>8

\* A node of which a frame is heard.
LEMMA HeardMore ==
    ASSUME TypeInv, EnoughBuffers, NEW a \in Nodes, NEW f, FrameSound(pub[a], f), pub' = pub,
           rx[a] = NoBuf \/ rx[a] \in Ctx(rx[a].len), IsSeq(got[a]),
           HeardInv(a), FreeInv(a), RunInv(a), DoneInv(a), FrameHeard(a, f)
    PROVE  HeardInv(a)' /\ FreeInv(a)' /\ RunInv(a)' /\ DoneInv(a)'
<1> DEFINE h == heard[a]
           N == Len(h)
           c == <<f.n, f.pos>>
           g == Append(h, c)
<1>1. h \in Seq(Nat \X Nat) /\ N \in Nat /\ DOMAIN h = 1 .. N
      /\ \A i \in 1 .. N : h[i][1] \in DOMAIN pub[a]
  BY DEF HeardInv
<1>2. PICK p \in Nat : FrameNo(pub[a], f, p)
  BY DEF FrameSound
<1>3. f.n \in DOMAIN pub[a] /\ f.n \in Nat /\ f.pos \in Nat /\ f.type = MfType(pub[a][f.n].len, f.pos)
  <2>1. CAN_MAX_DLEN \in Nat
    BY ReportAssumptions DEF ReportAssumptions
  <2>2. p * CAN_MAX_DLEN \in Nat
    BY <2>1
  <2> QED
    BY <1>2, <2>2, LengthOf DEF FrameNo
<1>4. c \in Nat \X Nat /\ c[1] = f.n /\ c[2] = f.pos
  BY <1>3
<1>5. heard'[a] = g
  BY DEF FrameHeard
<1> HIDE DEF c
<1>6. g \in Seq(Nat \X Nat) /\ Len(g) = N + 1 /\ g[N + 1] = c /\ \A i \in 1 .. N : g[i] = h[i]
  BY <1>1, <1>4
<1>n. N \in Nat
  BY <1>1
<1> HIDE DEF g, N
<1>7. HeardInv(a)'
  <2>1. \A i \in DOMAIN g : i \in 1 .. N \/ i = N + 1
    BY <1>6, <1>n
  <2>2. \A i \in DOMAIN g : g[i][1] \in DOMAIN pub[a]
    BY <1>1, <1>3, <1>4, <1>6, <2>1
  <2> QED
    BY <1>5, <1>6, <2>2 DEF HeardInv
<1>8. FreeInv(a)'
  <2> SUFFICES ASSUME EndsReport(pub[a], g[Len(g)]) PROVE rx'[a] = NoBuf
    BY <1>5 DEF FreeInv
  <2>1. pub[a][f.n].len - f.pos <= CAN_MAX_DLEN
    BY <1>4, <1>6 DEF EndsReport
  <2>2. IsLast(f)
    <3>1. pub[a][f.n].len \in Nat /\ CAN_MAX_DLEN \in Nat
      BY <1>3, LengthOf, ReportAssumptions DEF ReportAssumptions
    <3>2. ~(pub[a][f.n].len - f.pos > CAN_MAX_DLEN)
      BY <1>3, <2>1, <3>1
    <3> QED
      BY <1>3, <3>2 DEF IsLast, MfType
  <2>3. CASE thingset_can_get_rx_buf(a) = {} /\ rx'[a] = rx[a]
    <3>1. ~rx[a].used
      BY <2>3 DEF thingset_can_get_rx_buf
    <3> QED
      BY <2>3, <3>1 DEF Ctx
  <2> QED
    BY <2>2, <2>3 DEF FrameHeard
<1>9. ASSUME NEW n \in Fitting(a), NEW q \in Nat, q < NumChunks(pub[a][n].len), NEW k \in Nat \ {0},
             k + q = N, HeardAfter(pub[a], g, k, n, q + 1)
      PROVE  /\ q # NumChunks(pub[a][n].len) - 1 => HoldsFull(rx'[a], n, q + 1)
             /\ q = NumChunks(pub[a][n].len) - 1 =>
                  \E r : got'[a] = Append(got[a], r) /\ r.data = Cut(n, NumChunks(pub[a][n].len))
  <2>1. c = <<n, q * CAN_MAX_DLEN>> /\ Ready(rx[a], n, q)
    BY <1>4, <1>9, HeardLast DEF g, h, N
  <2>2. f.n = n /\ f.pos = q * CAN_MAX_DLEN
    BY <1>4, <2>1
  <2> QED
    BY <2>1, <2>2, Collected
<1>10. ASSUME NEW n \in Fitting(a) PROVE n \in DOMAIN pub[a] /\ NumChunks(pub[a][n].len) \in Nat \ {0}
  BY LengthOf, ChunkCount DEF Fitting, Reports
<1>11. RunInv(a)'
  <2> SUFFICES ASSUME NEW n \in Fitting(a), NEW q \in 1 .. NumChunks(pub[a][n].len) - 1,
                      Len(g) > q, HeardAfter(pub[a], g, Len(g) - q, n, q)
               PROVE  HoldsFull(rx'[a], n, q)
    BY <1>5 DEF RunInv, Fitting, Reports
  <2> DEFINE m == NumChunks(pub[a][n].len)
             k == Len(g) - q
             s == q - 1
  <2>1. m \in Nat
    BY <1>10
  <2>2. q < m
    BY <2>1
  <2> HIDE DEF m
  <2>3. s \in Nat /\ s < m /\ s # m - 1 /\ s + 1 = q /\ k \in Nat \ {0} /\ k + s = N
    BY <1>6, <1>n, <2>1, <2>2
  <2>4. HeardAfter(pub[a], g, k, n, s + 1)
    BY <2>3
  <2> HIDE DEF s, k
  <2>5. HoldsFull(rx'[a], n, s + 1)
    BY <1>9, <2>3, <2>4 DEF m
  <2> QED
    BY <2>3, <2>5
<1>12. DoneInv(a)'
  <2> SUFFICES ASSUME NEW n \in Fitting(a), NEW k \in 1 .. Len(g) - NumChunks(pub[a][n].len),
                      HeardAfter(pub[a], g, k, n, NumChunks(pub[a][n].len))
               PROVE  Delivered(a, n)'
    BY <1>5 DEF DoneInv, Fitting, Reports
  <2> DEFINE m == NumChunks(pub[a][n].len)
  <2>1. m \in Nat \ {0} /\ n \in DOMAIN pub[a]
    BY <1>10
  <2> HIDE DEF m
  <2>2. k \in Nat \ {0} /\ k + m <= N + 1
    BY <1>6, <1>n, <2>1 DEF m
  <2>3. CASE k + m <= N
    <3>1. k \in 1 .. N - m /\ k \in 1 .. N /\ \A i \in 1 .. m : k + i \in 1 .. N
      BY <1>n, <2>1, <2>2, <2>3
    <3>2. HeardAfter(pub[a], h, k, n, m)
      BY <1>6, <3>1 DEF HeardAfter, m
    <3>3. Delivered(a, n)
      BY <3>1, <3>2 DEF DoneInv, h, N, m
    <3>4. got'[a] = got[a] \/ \E r : got'[a] = Append(got[a], r)
      BY DEF FrameHeard
    <3> QED
      BY <2>1, <3>3, <3>4, StaysDelivered DEF Grows
  <2>4. CASE k + m = N + 1
    <3> DEFINE s == m - 1
    <3>1. s \in Nat /\ s < m /\ k + s = N /\ s + 1 = m
      BY <1>n, <2>1, <2>2, <2>4
    <3> HIDE DEF s
    <3>2. HeardAfter(pub[a], g, k, n, s + 1)
      BY <3>1 DEF m
    <3>3. PICK r : got'[a] = Append(got[a], r) /\ r.data = Cut(n, m)
      BY <1>9, <2>2, <3>1, <3>2 DEF m, s
    <3>4. PICK S : got[a] \in Seq(S)
      BY DEF IsSeq
    <3>5. got[a] \in Seq(S \cup {r}) /\ r \in S \cup {r}
      BY <3>4
    <3>6. Len(got[a]) + 1 \in DOMAIN got'[a] /\ got'[a][Len(got[a]) + 1] = r
      BY <3>3, <3>5
    <3>7. Chunks(a, n)' = Cut(n, m)
      BY DEF Chunks, Cut, m
    <3> QED
      BY <3>3, <3>6, <3>7 DEF Delivered
  <2> QED
    BY <1>n, <2>1, <2>2, <2>3, <2>4
<1> QED
  BY <1>7, <1>8, <1>11, <1>12

-----------------------------------------------------------------------------
(* The invariant is kept *)

\* The frame handed to the driver, however long the report is.
LEMMA FrameIsSound ==
    ASSUME TypeInv, NEW a \in Nodes, SenderGood(a), snd[a].pc # "idle"
    PROVE  FrameSound(pub[a], Frame(snd[a]))
<1> DEFINE s == snd[a]
<1>1. /\ s.n \in DOMAIN pub[a] /\ s.pos < s.len /\ s.seq \in Nat /\ s.msg_no \in 0 .. MSG_MOD - 1
      /\ MSG_MOD \in Nat /\ MSG_MOD > 0
  BY ReportAssumptions DEF ReportAssumptions, TypeInv, Sender
<1>2. s.msg_no = (s.n - 1) % MSG_MOD /\ s.len = pub[a][s.n].len /\ s.pos = s.seq * CAN_MAX_DLEN
  BY <1>1 DEF SenderGood
<1>3. s.msg_no % MSG_MOD = s.msg_no
  BY <1>1, SmallMod
<1>4. /\ Frame(s).msg = s.msg_no /\ Frame(s).type = MfType(s.len, s.pos)
      /\ Frame(s).seq = s.seq % SEQ_MOD /\ Frame(s).bytes = DlcBytes(ChunkLen(s.len, s.pos))
      /\ Frame(s).n = s.n /\ Frame(s).pos = s.pos
  BY <1>3 DEF Frame
<1> HIDE DEF s
<1>5. FrameNo(pub[a], Frame(s), s.seq)
  BY <1>1, <1>2, <1>4 DEF FrameNo
<1> QED
  BY <1>1, <1>5 DEF FrameSound, s

\* A frame stays sound when the list grows.
LEMMA StaysSound ==
    ASSUME NEW p, NEW r, Grows(p, r), NEW f, FrameSound(p, f)
    PROVE  FrameSound(r, f)
<1>1. PICK q \in Nat : FrameNo(p, f, q)
  BY DEF FrameSound
<1>2. FrameNo(r, f, q)
  BY <1>1 DEF FrameNo, Grows
<1> QED
  BY <1>2 DEF FrameSound

\* The receive callback leaves a buffer or none.
LEMMA HeardTyped ==
    ASSUME TypeInv, NEW a \in Nodes, NEW f, FrameSound(pub[a], f), FrameHeard(a, f),
           rx[a] = NoBuf \/ rx[a] \in Ctx(rx[a].len), IsSeq(got[a])
    PROVE  (rx'[a] = NoBuf \/ rx'[a] \in Ctx(rx'[a].len)) /\ IsSeq(got'[a])
<1>1. PICK p \in Nat : FrameNo(pub[a], f, p)
  BY DEF FrameSound
<1>2. f.n \in DOMAIN pub[a] /\ f.pos = p * CAN_MAX_DLEN /\ f.msg = (f.n - 1) % MSG_MOD
  BY <1>1 DEF FrameNo
<1>3. f.n \in Nat \ {0} /\ CAN_MAX_DLEN \in Nat /\ MSG_MOD \in Nat /\ MSG_MOD > 0
  BY <1>2, LengthOf, ReportAssumptions DEF ReportAssumptions
<1>4. f.n \in Nat /\ f.n - 1 \in Nat /\ f.pos \in Nat
  BY <1>2, <1>3
<1>5. f.msg \in 0 .. MSG_MOD - 1
  BY <1>2, <1>3, <1>4, DivMod
<1>6. ASSUME NEW b \in thingset_can_get_rx_buf(a)
      PROVE  Extended(Opened(b, f), f) \in Ctx(Extended(Opened(b, f), f).len)
  <2>1. CASE rx[a].used
    <3>1. b = rx[a] /\ rx[a] # NoBuf
      BY <2>1 DEF thingset_can_get_rx_buf, NoBuf
    <3> QED
      BY <1>4, <1>5, <3>1, OpenFields, ExtendFields
  <2>2. CASE ~rx[a].used
    <3>1. b \in NewContexts
      BY <2>2 DEF thingset_can_get_rx_buf
    <3>2. b \in Ctx(b.len)
      BY <3>1, NewFields
    <3> QED
      BY <1>4, <1>5, <3>2, OpenFields, ExtendFields
  <2> QED
    BY <2>1, <2>2
<1>7. rx'[a] = NoBuf \/ rx'[a] \in Ctx(rx'[a].len)
  BY <1>6 DEF FrameHeard
<1>8. IsSeq(got'[a])
  <2>1. got'[a] = got[a] \/ \E r : got'[a] = Append(got[a], r)
    BY DEF FrameHeard
  <2>2. CASE \E r : got'[a] = Append(got[a], r)
    <3>1. PICK r : got'[a] = Append(got[a], r)
      BY <2>2
    <3>2. PICK S : got[a] \in Seq(S)
      BY DEF IsSeq
    <3>3. got[a] \in Seq(S \cup {r}) /\ r \in S \cup {r}
      BY <3>2
    <3>4. got'[a] \in Seq(S \cup {r})
      BY <3>1, <3>3
    <3> QED
      BY <3>4 DEF IsSeq
  <2> QED
    BY <2>1, <2>2
<1> QED
  BY <1>7, <1>8

\* The parts of the invariant about one node, from the step of another or of itself.
LEMMA RecoverFrom ==
    ASSUME TypeInv, TypeInv', EnoughBuffers, RecoverInv, Next, NEW a \in Nodes, Others(a),
           rx' = [k \in Nodes |-> rx'[k]], got' = [k \in Nodes |-> got'[k]],
           heard' = [k \in Nodes |-> heard'[k]],
           \A k \in Nodes : k # a => /\ pub'[k] = pub[k] \/ SamePub
                                     /\ mbox'[k] = mbox[k] /\ rx'[k] = rx[k] /\ got'[k] = got[k]
                                     /\ heard'[k] = heard[k],
           SenderGood(a)',
           \A f \in mbox'[a] : f \in mbox[a] \/ FrameSound(pub'[a], f),
           \/ rx'[a] = rx[a] /\ got'[a] = got[a] /\ heard'[a] = heard[a]
           \/ pub' = pub /\ \E f \in mbox[a] : FrameHeard(a, f)
    PROVE  RecoverInv'
<1>1. \A k \in Nodes : Grows(pub[k], pub'[k])
  BY PubGrows
<1>2. ASSUME NEW k \in Nodes, k # a PROVE SenderGood(k)'
  <2>1. SenderGood(k) /\ snd'[k] = snd[k]
    BY <1>2 DEF RecoverInv, Others
  <2> QED
    BY <1>2, <2>1, SenderOther
<1>3. ASSUME NEW k \in Nodes, NEW f \in mbox'[k] PROVE FrameSound(pub'[k], f)
  <2>1. f \in mbox[k] => FrameSound(pub[k], f)
    BY DEF RecoverInv
  <2> QED
    BY <1>1, <1>3, <2>1, StaysSound
<1>4. ASSUME NEW k \in Nodes, rx'[k] = rx[k], got'[k] = got[k], heard'[k] = heard[k]
      PROVE  /\ rx'[k] = NoBuf \/ rx'[k] \in Ctx(rx'[k].len)
             /\ IsSeq(got'[k]) /\ HeardInv(k)' /\ FreeInv(k)' /\ RunInv(k)' /\ DoneInv(k)'
  <2>1. /\ rx[k] = NoBuf \/ rx[k] \in Ctx(rx[k].len)
        /\ IsSeq(got[k]) /\ HeardInv(k) /\ FreeInv(k) /\ RunInv(k) /\ DoneInv(k)
    BY DEF RecoverInv
  <2> QED
    BY <1>1, <1>4, <2>1, HistoryKept
<1>5. ASSUME pub' = pub, NEW f \in mbox[a], FrameHeard(a, f)
      PROVE  /\ rx'[a] = NoBuf \/ rx'[a] \in Ctx(rx'[a].len)
             /\ IsSeq(got'[a]) /\ HeardInv(a)' /\ FreeInv(a)' /\ RunInv(a)' /\ DoneInv(a)'
  <2>1. /\ rx[a] = NoBuf \/ rx[a] \in Ctx(rx[a].len)
        /\ IsSeq(got[a]) /\ HeardInv(a) /\ FreeInv(a) /\ RunInv(a) /\ DoneInv(a)
        /\ FrameSound(pub[a], f)
    BY DEF RecoverInv
  <2> QED
    BY <1>5, <2>1, HeardTyped, HeardMore
<1> QED
  BY <1>2, <1>3, <1>4, <1>5 DEF RecoverInv

\* The invariant holds initially ...
LEMMA RecoverInit == Init => RecoverInv
<1> SUFFICES ASSUME Init PROVE RecoverInv
  OBVIOUS
<1>1. MSG_MOD \in Nat /\ MSG_MOD > 1
  BY ReportAssumptions DEF ReportAssumptions
<1>2. rx = [a \in Nodes |-> rx[a]] /\ got = [a \in Nodes |-> got[a]] /\ heard = [a \in Nodes |-> heard[a]]
  BY DEF Init
<1>3. \A a \in Nodes : /\ mbox[a] = {} /\ rx[a] = NoBuf /\ got[a] = <<>> /\ heard[a] = <<>> /\ pub[a] = <<>>
                       /\ snd[a].pc = "idle" /\ snd[a].msg_no = 0
  BY DEF Init
<1>4. ASSUME NEW a \in Nodes PROVE SenderGood(a)
  <2>1. 0 % MSG_MOD = 0
    BY <1>1, SmallMod
  <2>2. Len(pub[a]) = 0
    BY <1>3
  <2> QED
    BY <1>3, <2>1, <2>2 DEF SenderGood
<1>5. IsSeq(<<>>)
  <2>1. <<>> \in Seq({})
    OBVIOUS
  <2> QED
    BY <2>1 DEF IsSeq
<1>6. ASSUME NEW a \in Nodes PROVE HeardInv(a) /\ FreeInv(a) /\ RunInv(a) /\ DoneInv(a)
  <2>0. DOMAIN <<>> = {}
    OBVIOUS
  <2>1. heard[a] = <<>> /\ DOMAIN heard[a] = {} /\ DOMAIN pub[a] = {}
    BY <1>3, <2>0
  <2>2. heard[a] \in Seq(Nat \X Nat)
    BY <2>1
  <2>3. Fitting(a) = {}
    BY <2>1 DEF Fitting, Reports
  <2> QED
    BY <2>1, <2>2, <2>3 DEF HeardInv, FreeInv, RunInv, DoneInv
<1> QED
  BY <1>2, <1>3, <1>4, <1>5, <1>6 DEF RecoverInv

\* ... and is kept by every step.
LEMMA RecoverNext ==
    ASSUME EnoughBuffers
    PROVE  TypeInv /\ RecoverInv /\ [Next]_vars => RecoverInv'
<1> SUFFICES ASSUME TypeInv, RecoverInv, [Next]_vars PROVE RecoverInv'
  OBVIOUS
<1>t. TypeInv'
  BY TypeNext
<1>u. CASE UNCHANGED vars
  <2>1. snd' = snd /\ mbox' = mbox /\ rx' = rx /\ pub' = pub /\ heard' = heard /\ got' = got
    BY <1>u DEF vars
  <2>2. ASSUME NEW a \in Nodes
        PROVE  SenderGood(a)' /\ HeardInv(a)' /\ FreeInv(a)' /\ RunInv(a)' /\ DoneInv(a)'
    <3>1. SenderGood(a) /\ HeardInv(a) /\ FreeInv(a) /\ RunInv(a) /\ DoneInv(a) /\ IsSeq(got[a])
      BY DEF RecoverInv
    <3>2. Grows(pub[a], pub'[a])
      BY <2>1 DEF Grows
    <3>3. SenderGood(a)'
      BY <2>1, <3>1 DEF SenderGood
    <3> QED
      BY <1>t, <2>1, <3>1, <3>2, <3>3, HistoryKept
  <2> QED
    BY <2>1, <2>2 DEF RecoverInv
<1>n. CASE Next
  <2>0. PICK a \in Nodes : \/ \E len \in Lens : StartReport(a, len)
                           \/ SendFrame(a) \/ SemTaken(a) \/ FrameOnBus(a)
                           \/ SendEagain(a) \/ SendError(a) \/ SemTimeout(a)
                           \/ FrameLost(a) \/ FrameTxError(a)
    BY <1>n DEF Next, Progress
  <2>s. SenderGood(a) /\ rx = [k \in Nodes |-> rx[k]] /\ got = [k \in Nodes |-> got[k]]
        /\ heard = [k \in Nodes |-> heard[k]] /\ mbox = [k \in Nodes |-> mbox[k]]
    BY DEF RecoverInv, TypeInv
  <2>1. CASE \E len \in Lens : StartReport(a, len)
    <3>1. PICK len \in Lens : StartReport(a, len)
      BY <2>1
    <3>2. mbox' = mbox /\ rx' = rx /\ got' = got /\ heard' = heard /\ snd[a].pc = "idle"
      BY <3>1 DEF StartReport
    <3>3. CASE len = 0
      <4>1. Same(a) /\ snd'[a].pc = "idle"
        BY <3>1, <3>3, NothingStep
      <4>2. SenderGood(a)'
        BY <2>s, <3>2, <4>1, SenderSame
      <4> QED
        BY <1>n, <1>t, <2>s, <3>2, <4>1, <4>2, RecoverFrom DEF Same, SndStep
    <3>4. CASE len # 0
      <4>1. Others(a) /\ \A k \in Nodes : k # a => pub'[k] = pub[k]
        BY <3>1, <3>4, StartStep DEF SndStep
      <4>2. SenderGood(a)'
        BY <2>s, <3>1, <3>4, SenderStarts
      <4> QED
        BY <1>n, <1>t, <2>s, <3>2, <4>1, <4>2, RecoverFrom
    <3> QED
      BY <3>3, <3>4
  <2>2. CASE SendFrame(a) \/ SendError(a)
    <3>1. Same(a) /\ snd[a].pc = "send" /\ snd'[a].pc = "wait"
      BY <2>2, SendStep
    <3>2. SenderGood(a)'
      BY <2>s, <3>1, SenderSame
    <3>3. rx' = rx /\ got' = got /\ heard' = heard
      BY <2>2 DEF SendFrame, SendError
    <3>4. mbox' = mbox \/ mbox' = [mbox EXCEPT ![a] = mbox[a] \cup {Frame(snd[a])}]
      BY <2>2 DEF SendFrame, SendError
    <3>5. /\ \A k \in Nodes : k # a => mbox'[k] = mbox[k]
          /\ mbox'[a] \subseteq mbox[a] \cup {Frame(snd[a])}
      BY <2>s, <3>4
    <3>6. FrameSound(pub'[a], Frame(snd[a]))
      BY <2>s, <3>1, FrameIsSound DEF Same
    <3> QED
      BY <1>n, <1>t, <2>s, <3>1, <3>2, <3>3, <3>5, <3>6, RecoverFrom DEF Same, SndStep
  <2>3. CASE SendEagain(a) \/ SemTimeout(a)
    <3>1. /\ SamePub /\ mbox' = mbox /\ Others(a) /\ snd[a].pc # "idle" /\ snd'[a].pc = "idle"
          /\ snd'[a].msg_no = (snd[a].msg_no + 1) % MSG_MOD
      BY <2>3, GiveUpStep
    <3>2. SenderGood(a)'
      BY <2>s, <3>1, SenderDone
    <3>3. rx' = rx /\ got' = got /\ heard' = heard
      BY <2>3 DEF SendEagain, SemTimeout
    <3> QED
      BY <1>n, <1>t, <2>s, <3>1, <3>2, <3>3, RecoverFrom
  <2>4. CASE SemTaken(a)
    <3>1. SamePub /\ mbox' = mbox /\ snd[a].pc = "wait" /\ Others(a)
      BY <2>4, TakenStep DEF SndStep
    <3>2. SenderGood(a)'
      BY <2>s, <2>4, TakenStep, SenderDone, SenderGoesOn
    <3>3. rx' = rx /\ got' = got /\ heard' = heard
      BY <2>4 DEF SemTaken
    <3> QED
      BY <1>n, <1>t, <2>s, <3>1, <3>2, <3>3, RecoverFrom
  <2>5. CASE FrameLost(a) \/ FrameTxError(a)
    <3>1. Same(a) /\ snd'[a].pc = snd[a].pc
      BY <2>5, CallbackStep
    <3>2. SenderGood(a)'
      BY <2>s, <3>1, SenderSame
    <3>3. rx' = rx /\ got' = got /\ heard' = heard
      BY <2>5 DEF FrameLost, FrameTxError
    <3>4. PICK f \in mbox[a] : mbox' = [mbox EXCEPT ![a] = mbox[a] \ {f}]
      BY <2>5 DEF FrameLost, FrameTxError
    <3>5. mbox'[a] \subseteq mbox[a] /\ \A k \in Nodes : k # a => mbox'[k] = mbox[k]
      BY <2>s, <3>4
    <3> QED
      BY <1>n, <1>t, <2>s, <3>1, <3>2, <3>3, <3>5, RecoverFrom DEF Same, SndStep
  <2>6. CASE FrameOnBus(a)
    <3>1. Same(a) /\ snd'[a].pc = snd[a].pc
      BY <2>6, CallbackStep
    <3>2. SenderGood(a)'
      BY <2>s, <3>1, SenderSame
    <3>3. PICK f \in mbox[a] :
            /\ mbox' = [mbox EXCEPT ![a] = mbox[a] \ {f}]
            /\ heard' = [heard EXCEPT ![a] = Append(heard[a], <<f.n, f.pos>>)]
            /\ \/ thingset_can_get_rx_buf(a) = {} /\ rx' = rx /\ got' = got
               \/ \E b \in thingset_can_get_rx_buf(a) : thingset_can_report_rx_cb(a, b, f)
      BY <2>6 DEF FrameOnBus
    <3>4. mbox'[a] \subseteq mbox[a] /\ \A k \in Nodes : k # a => mbox'[k] = mbox[k]
      BY <2>s, <3>3
    <3>5. /\ heard' = [k \in Nodes |-> heard'[k]] /\ heard'[a] = Append(heard[a], <<f.n, f.pos>>)
          /\ \A k \in Nodes : k # a => heard'[k] = heard[k]
      <4>1. heard' = [k \in Nodes |-> IF k = a THEN Append(heard[a], <<f.n, f.pos>>) ELSE heard[k]]
        BY <2>s, <3>3, Zenon
      <4> QED
        BY <4>1
    <3>6. /\ rx' = [k \in Nodes |-> rx'[k]] /\ got' = [k \in Nodes |-> got'[k]]
          /\ \A k \in Nodes : k # a => rx'[k] = rx[k] /\ got'[k] = got[k]
          /\ FrameHeard(a, f)
      <4>1. CASE thingset_can_get_rx_buf(a) = {} /\ rx' = rx /\ got' = got
        BY <2>s, <3>5, <4>1 DEF FrameHeard
      <4>2. CASE \E b \in thingset_can_get_rx_buf(a) : thingset_can_report_rx_cb(a, b, f)
        BY <2>s, <3>5, <4>2, CallbackEffect DEF FrameHeard
      <4> QED
        BY <3>3, <4>1, <4>2
    <3> QED
      BY <1>n, <1>t, <3>1, <3>2, <3>4, <3>5, <3>6, RecoverFrom DEF Same, SndStep
  <2> QED
    BY <2>0, <2>1, <2>2, <2>3, <2>4, <2>5, <2>6
<1> QED
  BY <1>u, <1>n

\* What the chunks of two reports are, one after the other.
OneAfterTheOther(m, u, n, w) ==
    LET both == Cut(m, u) \o Cut(n, w)
    IN  /\ Len(both) = u + w
        /\ both[u] = <<m, (u - 1) * CAN_MAX_DLEN>>
        /\ \A i \in 1 .. w : both[u + i] = <<n, (i - 1) * CAN_MAX_DLEN>>

\* The chunks of a report keep their places when those of the next one follow.
LEMMA CutsJoined ==
    ASSUME NEW m \in Nat, NEW u \in Nat \ {0}, NEW n \in Nat, NEW w \in Nat \ {0}
    PROVE  OneAfterTheOther(m, u, n, w)
<1> DEFINE Q == Nat \X Nat
           s == Cut(m, u)
           t == Cut(n, w)
<1>1. s \in Seq(Q) /\ t \in Seq(Q)
  BY CutMore
<1>2. /\ Len(s) = u /\ s[u] = <<m, (u - 1) * CAN_MAX_DLEN>>
      /\ Len(t) = w /\ \A i \in 1 .. w : t[i] = <<n, (i - 1) * CAN_MAX_DLEN>>
  BY DEF Cut
<1> HIDE DEF Q, s, t
<1>3. /\ Len(s \o t) = Len(s) + Len(t)
      /\ \A j \in 1 .. Len(s) + Len(t) : (s \o t)[j] = IF j <= Len(s) THEN s[j] ELSE t[j - Len(s)]
  BY <1>1
<1>4. (s \o t)[u] = s[u]
  <2>1. u \in 1 .. Len(s) + Len(t) /\ u <= Len(s)
    BY <1>2
  <2> QED
    BY <1>3, <2>1
<1>5. ASSUME NEW i \in 1 .. w PROVE (s \o t)[u + i] = t[i]
  <2>1. u + i \in 1 .. Len(s) + Len(t) /\ ~(u + i <= Len(s)) /\ (u + i) - Len(s) = i
    BY <1>2
  <2> QED
    BY <1>3, <2>1
<1>6. /\ Len(s \o t) = u + w
      /\ (s \o t)[u] = <<m, (u - 1) * CAN_MAX_DLEN>>
      /\ \A i \in 1 .. w : (s \o t)[u + i] = <<n, (i - 1) * CAN_MAX_DLEN>>
  BY <1>2, <1>3, <1>4, <1>5
<1> QED
  BY <1>6 DEF OneAfterTheOther, s, t

\* The invariant is what the run checks.
LEMMA RecoverMeans == TypeInv /\ RecoverInv => RecoversAfterOneReport
<1> SUFFICES ASSUME TypeInv, RecoverInv, NEW a \in Nodes, NEW n \in Fitting(a), n > 1,
                    HeardTogether(a, Chunks(a, n - 1) \o Chunks(a, n))
             PROVE  Delivered(a, n)
  BY DEF RecoversAfterOneReport
<1> DEFINE h == heard[a]
           N == Len(h)
           u == NumChunks(pub[a][n - 1].len)
           w == NumChunks(pub[a][n].len)
           s == Chunks(a, n - 1)
           t == Chunks(a, n)
<1>1. n \in DOMAIN pub[a] /\ n \in Nat /\ n - 1 \in DOMAIN pub[a] /\ n - 1 \in Nat
  <2>1. n \in DOMAIN pub[a] /\ pub[a] \in Seq(Published)
    BY DEF Fitting, Reports, TypeInv
  <2> QED
    BY <2>1
<1>2. u \in Nat \ {0} /\ w \in Nat \ {0} /\ pub[a][n - 1].len <= u * CAN_MAX_DLEN
      /\ pub[a][n - 1].len \in Nat
  BY <1>1, LengthOf, ChunkCount
<1>3. h \in Seq(Nat \X Nat) /\ N \in Nat /\ DoneInv(a)
  BY DEF RecoverInv, HeardInv
<1>4. /\ Len(s \o t) = u + w
      /\ (s \o t)[u] = <<n - 1, (u - 1) * CAN_MAX_DLEN>>
      /\ \A i \in 1 .. w : (s \o t)[u + i] = <<n, (i - 1) * CAN_MAX_DLEN>>
  <2>1. s = Cut(n - 1, u) /\ t = Cut(n, w)
    BY DEF Chunks, Cut
  <2>2. n - 1 \in Nat /\ n \in Nat /\ u \in Nat \ {0} /\ w \in Nat \ {0}
    BY <1>1, <1>2
  <2> HIDE DEF s, t, u, w
  <2>3. OneAfterTheOther(n - 1, u, n, w)
    BY <2>2, CutsJoined
  <2> QED
    BY <2>1, <2>3, Zenon DEF OneAfterTheOther
<1>5. PICK k \in 0 .. N - Len(s \o t) : SubSeq(h, k + 1, k + Len(s \o t)) = s \o t
  BY DEF HeardTogether
<1> HIDE DEF h, N, u, w, s, t
<1>6. k \in Nat /\ k + u + w <= N
  <2>1. k \in 0 .. N - (u + w)
    BY <1>4, <1>5
  <2> QED
    BY <1>2, <1>3, <2>1
<1>7. \A j \in 1 .. u + w : h[k + j] = (s \o t)[j]
  <2> TAKE j \in 1 .. u + w
  <2>1. j \in Nat /\ 1 <= j /\ j <= u + w
    BY <1>2
  <2>2. 1 <= k + 1 /\ k + (u + w) <= N /\ k + 1 \in Nat /\ k + (u + w) \in Nat
    BY <1>2, <1>6
  <2>3. SubSeq(h, k + 1, k + (u + w))[j] = h[k + j]
    BY <1>2, <1>3, <1>6, <2>1, <2>2 DEF N
  <2> QED
    BY <1>4, <1>5, <2>3
<1>8. EndsReport(pub[a], h[k + u])
  <2>1. u \in 1 .. u + w
    BY <1>2
  <2>2. h[k + u] = <<n - 1, (u - 1) * CAN_MAX_DLEN>>
    BY <1>4, <1>7, <2>1
  <2>3. CAN_MAX_DLEN \in Nat
    BY ReportAssumptions DEF ReportAssumptions
  <2>4. (u - 1) * CAN_MAX_DLEN = u * CAN_MAX_DLEN - CAN_MAX_DLEN
    BY <1>2, <2>3
  <2>5. u * CAN_MAX_DLEN \in Nat
    BY <1>2, <2>3
  <2>6. pub[a][n - 1].len - (u - 1) * CAN_MAX_DLEN <= CAN_MAX_DLEN
    BY <1>2, <2>3, <2>4, <2>5
  <2> QED
    BY <2>2, <2>6 DEF EndsReport
<1>9. \A i \in 1 .. w : h[(k + u) + i] = <<n, (i - 1) * CAN_MAX_DLEN>>
  <2> TAKE i \in 1 .. w
  <2>1. u + i \in 1 .. u + w /\ k + (u + i) = (k + u) + i
    BY <1>2, <1>6
  <2> QED
    BY <1>4, <1>7, <2>1
<1>10. k + u \in 1 .. N - w
  BY <1>2, <1>3, <1>6
<1>11. HeardAfter(pub[a], h, k + u, n, w)
  BY <1>8, <1>9 DEF HeardAfter
<1> QED
  BY <1>3, <1>10, <1>11 DEF DoneInv, h, N, w

\* However many frames are lost, delayed or refused, and whatever is left in the
\* receive buffers: with a buffer for every publisher, of a size that a padded
\* last frame does not exceed, thingset_can_report_rx_cb delivers a report that
\* fits and is heard whole after the whole report before it.
THEOREM OneReportIsEnough ==
    EnoughBuffers => (Spec => []RecoversAfterOneReport)
<1> SUFFICES ASSUME EnoughBuffers PROVE Spec => []RecoversAfterOneReport
  OBVIOUS
<1>1. TypeInv /\ RecoverInv /\ [Next]_vars => RecoverInv'
  BY RecoverNext
<1> QED
  BY <1>1, TypeInit, TypeNext, RecoverInit, RecoverMeans, PTL DEF Spec

-----------------------------------------------------------------------------
(* The ranges *)

FrameTyped(f) == /\ f.msg \in 0 .. MSG_MOD - 1 /\ f.seq \in 0 .. SEQ_MOD - 1
                 /\ f.bytes \in DLC_SIZES /\ f.n \in Nat /\ f.pos \in Nat
BufTyped(b) == b = NoBuf \/ (b \in Ctx(b.len) /\ b.len \in 0 .. BUFFER_SIZE)
InUse == {a \in Nodes : rx[a].used}

\* The buffers in use are finitely many whatever the number of nodes: each has been
\* taken from the pool.
RangeInv ==
    /\ rx = [a \in Nodes |-> rx[a]]
    /\ \A a \in Nodes :
         /\ snd[a].pos <= snd[a].len /\ BufTyped(rx[a])
         /\ \A f \in mbox[a] : FrameTyped(f)
    /\ IsFiniteSet(InUse) /\ Cardinality(InUse) <= NUM_BUFFERS

\* The ranges are those of the type invariant.
LEMMA RangeMeans == TypeInv /\ RangeInv => TypeOK
<1> SUFFICES ASSUME TypeInv, RangeInv PROVE TypeOK
  OBVIOUS
<1>1. NumUsed <= NUM_BUFFERS
  BY DEF NumUsed, InUse, RangeInv
<1>2. ASSUME NEW a \in Nodes
      PROVE  /\ snd[a].pc \in {"idle", "send", "wait"} /\ snd[a].sem \in 0 .. 1
             /\ snd[a].msg_no \in 0 .. MSG_MOD - 1 /\ snd[a].pos \in 0 .. snd[a].len
  <2>1. snd[a] \in Sender /\ snd[a].pos <= snd[a].len
    BY DEF TypeInv, RangeInv
  <2> QED
    BY <2>1 DEF Sender
<1>3. ASSUME NEW a \in Nodes, rx[a].used PROVE rx[a].len \in 0 .. BUFFER_SIZE
  BY <1>3 DEF RangeInv, BufTyped, NoBuf
<1>4. \A a \in Nodes : \A f \in mbox[a] : f.seq \in 0 .. SEQ_MOD - 1 /\ f.bytes \in DLC_SIZES
  BY DEF RangeInv, FrameTyped
<1> QED
  BY <1>1, <1>2, <1>3, <1>4 DEF TypeOK

\* At the start no buffer is in use.
LEMMA RangeInit == Init => RangeInv
<1> SUFFICES ASSUME Init PROVE RangeInv
  OBVIOUS
<1>1. /\ \A a \in Nodes : rx[a] = NoBuf /\ mbox[a] = {} /\ snd[a].pos = 0 /\ snd[a].len = 0
      /\ rx = [a \in Nodes |-> rx[a]]
  BY DEF Init
<1>2. InUse = {}
  BY <1>1 DEF InUse, NoBuf
<1>3. IsFiniteSet(InUse) /\ Cardinality(InUse) = 0
  BY <1>2, FS_EmptySet
<1> QED
  BY <1>1, <1>3, ReportAssumptions DEF RangeInv, BufTyped, ReportAssumptions

\* The thread never goes beyond the end of its report.
LEMMA PosKept ==
    ASSUME TypeInv, Next, \A a \in Nodes : snd[a].pos <= snd[a].len
    PROVE  \A a \in Nodes : snd'[a].pos <= snd'[a].len
<1>1. PICK a \in Nodes : \/ \E len \in Lens : StartReport(a, len)
                         \/ SendFrame(a) \/ SemTaken(a) \/ FrameOnBus(a)
                         \/ SendEagain(a) \/ SendError(a) \/ SemTimeout(a)
                         \/ FrameLost(a) \/ FrameTxError(a)
  BY DEF Next, Progress
<1>2. snd \in [Nodes -> Sender] /\ snd[a] \in Sender
  BY DEF TypeInv
<1>3. CASE Same(a)
  BY <1>3 DEF Same, SndStep, Others
<1>4. CASE \E len \in Lens : len # 0 /\ StartReport(a, len)
  <2>1. PICK len \in Lens : len # 0 /\ StartReport(a, len)
    BY <1>4
  <2>2. SndStep(a, "send", len, 0, 0, snd[a].msg_no, 0, Len(pub[a]) + 1)
    BY <2>1, StartStep
  <2>3. len >= 0
    BY ReportAssumptions DEF ReportAssumptions
  <2> QED
    BY <2>2, <2>3 DEF SndStep, Others
<1>5. CASE SendEagain(a) \/ SemTimeout(a)
  <2>1. snd' = [snd EXCEPT ![a] = Return(snd[a])]
    BY <1>5 DEF SendEagain, SemTimeout
  <2>2. Return(snd[a]).pos = snd[a].pos /\ Return(snd[a]).len = snd[a].len
    BY <1>2 DEF Return, Sender
  <2> QED
    BY <1>2, <2>1, <2>2
<1>6. CASE SemTaken(a)
  <2> DEFINE s == snd[a]
             p == s.pos + ChunkLen(s.len, s.pos)
             t == [s EXCEPT !.sem = 0, !.pos = p, !.seq = @ + 1]
  <2>1. s.pos < s.len /\ s.len \in Nat /\ s.pos \in Nat
    BY <1>2, <1>6 DEF SemTaken, TypeInv, Sender
  <2>2. p <= s.len
    BY <2>1, ChunkLenFacts
  <2>3. t.pos = p /\ t.len = s.len
    BY <1>2 DEF Sender
  <2>4. AfterSem(s) = IF s.len - p > 0 THEN [t EXCEPT !.pc = "send"] ELSE Return(t)
    BY DEF AfterSem
  <2>5. AfterSem(s).pos = t.pos /\ AfterSem(s).len = t.len
    BY <1>2, <2>4 DEF Return, Sender
  <2>6. snd' = [snd EXCEPT ![a] = AfterSem(s)]
    BY <1>6 DEF SemTaken
  <2>7. PICK x : x = AfterSem(s)
    OBVIOUS
  <2>8. x.pos <= x.len /\ snd' = [snd EXCEPT ![a] = x]
    BY <2>2, <2>3, <2>5, <2>6, <2>7
  <2> QED
    BY <1>2, <2>8
<1> QED
  BY <1>1, <1>3, <1>4, <1>5, <1>6, NothingStep, SendStep, CallbackStep

\* What is handed to the driver is a frame with a size that a DLC can express.
LEMMA MailsTyped ==
    ASSUME TypeInv, Next, \A a \in Nodes : \A f \in mbox[a] : FrameTyped(f)
    PROVE  \A a \in Nodes : \A f \in mbox'[a] : FrameTyped(f)
<1>1. PICK a \in Nodes : \/ \E len \in Lens : StartReport(a, len)
                         \/ SendFrame(a) \/ SemTaken(a) \/ FrameOnBus(a)
                         \/ SendEagain(a) \/ SendError(a) \/ SemTimeout(a)
                         \/ FrameLost(a) \/ FrameTxError(a)
  BY DEF Next, Progress
<1>2. SendFrame(a) \/ mbox' = mbox \/ \E f : mbox' = [mbox EXCEPT ![a] = @ \ {f}]
  <2>1. CASE FrameOnBus(a)
    BY <2>1, Zenon DEF FrameOnBus
  <2>2. CASE FrameLost(a)
    BY <2>2, Zenon DEF FrameLost
  <2>3. CASE FrameTxError(a)
    BY <2>3, Zenon DEF FrameTxError
  <2>4. ASSUME NEW len \in Lens, StartReport(a, len) PROVE mbox' = mbox
    BY <2>4 DEF StartReport
  <2>5. CASE SemTaken(a) \/ SendEagain(a) \/ SendError(a) \/ SemTimeout(a)
    <3>1. mbox' = mbox
      BY <2>5 DEF SemTaken, SendEagain, SendError, SemTimeout
    <3> QED
      BY <3>1
  <2> QED
    BY <1>1, <2>1, <2>2, <2>3, <2>4, <2>5, Zenon
<1>3. mbox = [k \in Nodes |-> mbox[k]]
  BY DEF TypeInv
<1>4. CASE SendFrame(a)
  <2> DEFINE s == snd[a]
  <2>1. s \in Sender /\ s.pos < s.len /\ s.len \in Nat /\ s.pos \in Nat /\ s.seq \in Nat /\ s.n \in Nat /\ s.msg_no \in Nat
    BY <1>4, ReportAssumptions DEF SendFrame, TypeInv, Sender, ReportAssumptions
  <2>2. DlcBytes(ChunkLen(s.len, s.pos)) \in DLC_SIZES
    <3>1. PICK l \in Nat : l = ChunkLen(s.len, s.pos) /\ l <= CAN_MAX_DLEN
      BY <2>1, ChunkLenFacts
    <3> QED
      BY <3>1, DlcFacts
  <2>3. s.msg_no % MSG_MOD \in 0 .. MSG_MOD - 1 /\ s.seq % SEQ_MOD \in 0 .. SEQ_MOD - 1
    BY <2>1, ReportAssumptions DEF ReportAssumptions
  <2>4. FrameTyped(Frame(s))
    BY <2>1, <2>2, <2>3 DEF FrameTyped, Frame
  <2>5. mbox' = [k \in Nodes |-> IF k = a THEN mbox[a] \cup {Frame(s)} ELSE mbox[k]]
    BY <1>3, <1>4, Zenon DEF SendFrame
  <2> QED
    BY <2>4, <2>5
<1>5. CASE \E f : mbox' = [mbox EXCEPT ![a] = @ \ {f}]
  <2>1. PICK f : mbox' = [mbox EXCEPT ![a] = @ \ {f}]
    BY <1>5
  <2>2. mbox' = [k \in Nodes |-> IF k = a THEN mbox[a] \ {f} ELSE mbox[k]]
    BY <1>3, <2>1, Zenon
  <2> QED
    BY <2>2
<1>6. CASE mbox' = mbox
  BY <1>6
<1> QED
  BY <1>2, <1>4, <1>5, <1>6

\* The context after a frame: given back, or within its buffer.
LEMMA BufKept ==
    ASSUME NEW a \in Nodes, NEW b, b \in Ctx(b.len), b.len \in Nat, NEW f, FrameTyped(f),
           rx = [k \in Nodes |-> rx[k]], thingset_can_report_rx_cb(a, b, f)
    PROVE  \E c : rx' = [rx EXCEPT ![a] = c] /\ BufTyped(c)
<1> DEFINE o == Opened(b, f)
           x == Extended(o, f)
           c == CASE ~Fits(o, f) -> Dropped(o) [] Fits(o, f) /\ IsLast(f) -> NoBuf [] OTHER -> x
<1>1. o \in Ctx(o.len) /\ o.len = b.len
  BY OpenFields DEF FrameTyped
<1>2. x \in Ctx(x.len) /\ x.len = o.len + f.bytes
  <2> HIDE DEF o
  <2> QED
    BY <1>1, ExtendFields DEF FrameTyped
<1>3. rx' = [rx EXCEPT ![a] = c]
  BY DEF thingset_can_report_rx_cb
<1>4. f.bytes \in Nat /\ BUFFER_SIZE \in Nat
  <2>1. f.bytes \in 0 .. CAN_MAX_DLEN
    BY ReportAssumptions DEF FrameTyped, ReportAssumptions
  <2> QED
    BY <2>1, ReportAssumptions DEF ReportAssumptions
<1>5. Fits(o, f) => x.len \in 0 .. BUFFER_SIZE
  BY <1>1, <1>2, <1>4 DEF Fits
<1>6. c = NoBuf \/ (c = x /\ Fits(o, f))
  BY DEF Dropped
<1> HIDE DEF c, x
<1>7. BufTyped(c)
  BY <1>2, <1>5, <1>6 DEF BufTyped
<1> QED
  BY <1>3, <1>7

\* A frame takes one more buffer at most, and only if the pool has one left.
LEMMA PoolKept ==
    ASSUME TypeInv, RangeInv, Next
    PROVE  /\ rx' = [a \in Nodes |-> rx'[a]] /\ \A a \in Nodes : BufTyped(rx'[a])
           /\ IsFiniteSet(InUse') /\ Cardinality(InUse') <= NUM_BUFFERS
<1>1. PICK a \in Nodes : \/ \E len \in Lens : StartReport(a, len)
                         \/ SendFrame(a) \/ SemTaken(a) \/ FrameOnBus(a)
                         \/ SendEagain(a) \/ SendError(a) \/ SemTimeout(a)
                         \/ FrameLost(a) \/ FrameTxError(a)
  BY DEF Next, Progress
<1>2. rx' = rx \/ \E f \in mbox[a] : \E b \in thingset_can_get_rx_buf(a) : thingset_can_report_rx_cb(a, b, f)
  <2>1. CASE FrameOnBus(a)
    BY <2>1, Zenon DEF FrameOnBus
  <2>2. CASE FrameLost(a)
    BY <2>2, Zenon DEF FrameLost
  <2>3. CASE FrameTxError(a)
    BY <2>3, Zenon DEF FrameTxError
  <2>4. ASSUME NEW len \in Lens, StartReport(a, len) PROVE rx' = rx
    BY <2>4 DEF StartReport
  <2>5. CASE SendFrame(a) \/ SemTaken(a) \/ SendEagain(a) \/ SendError(a) \/ SemTimeout(a)
    <3>1. rx' = rx
      BY <2>5 DEF SendFrame, SemTaken, SendEagain, SendError, SemTimeout
    <3> QED
      BY <3>1
  <2> QED
    BY <1>1, <2>1, <2>2, <2>3, <2>4, <2>5, Zenon
<1>3. rx = [k \in Nodes |-> rx[k]] /\ NUM_BUFFERS \in Nat /\ IsFiniteSet(InUse) /\ Cardinality(InUse) \in Nat
      /\ Cardinality(InUse) <= NUM_BUFFERS
  BY FS_CardinalityType, ReportAssumptions DEF RangeInv, ReportAssumptions
<1>4. CASE rx' = rx
  BY <1>4 DEF RangeInv, InUse
<1>5. CASE \E f \in mbox[a] : \E b \in thingset_can_get_rx_buf(a) : thingset_can_report_rx_cb(a, b, f)
  <2>1. PICK f \in mbox[a], b \in thingset_can_get_rx_buf(a) : thingset_can_report_rx_cb(a, b, f)
    BY <1>5
  <2>2. FrameTyped(f)
    BY <2>1 DEF RangeInv
  <2>3. b \in Ctx(b.len) /\ b.len \in Nat /\ (a \in InUse \/ Cardinality(InUse) < NUM_BUFFERS)
    <3>1. CASE rx[a].used
      <4>1. b = rx[a] /\ a \in InUse
        BY <2>1, <3>1 DEF thingset_can_get_rx_buf, InUse
      <4>2. b # NoBuf
        BY <3>1, <4>1 DEF NoBuf
      <4> QED
        BY <4>1, <4>2 DEF RangeInv, BufTyped
    <3>2. CASE ~rx[a].used
      <4>1. NumUsed < NUM_BUFFERS /\ b \in NewContexts
        BY <2>1, <3>2 DEF thingset_can_get_rx_buf
      <4>2. b \in Ctx(b.len) /\ b.len = 0
        BY <4>1, NewFields DEF NewContexts
      <4> QED
        BY <4>1, <4>2 DEF NumUsed, InUse
    <3> QED
      BY <3>1, <3>2
  <2>4. PICK c : rx' = [rx EXCEPT ![a] = c] /\ BufTyped(c)
    BY <1>3, <2>1, <2>2, <2>3, BufKept
  <2>5. rx' = [k \in Nodes |-> IF k = a THEN c ELSE rx[k]]
    BY <1>3, <2>4, Zenon
  <2>6. InUse' = InUse \cup {a} \/ InUse' = InUse \ {a}
    <3>1. CASE c.used
      BY <2>5, <3>1 DEF InUse
    <3>2. CASE ~c.used
      BY <2>5, <3>2 DEF InUse
    <3> QED
      BY <3>1, <3>2
  <2>7. IsFiniteSet(InUse') /\ Cardinality(InUse') <= NUM_BUFFERS
    <3>1. CASE InUse' = InUse \cup {a}
      <4>1. IsFiniteSet(InUse') /\ Cardinality(InUse') = IF a \in InUse THEN Cardinality(InUse) ELSE Cardinality(InUse) + 1
        BY <1>3, <3>1, FS_AddElement
      <4> QED
        BY <1>3, <2>3, <4>1
    <3>2. CASE InUse' = InUse \ {a}
      <4>1. IsFiniteSet(InUse') /\ Cardinality(InUse') = IF a \in InUse THEN Cardinality(InUse) - 1 ELSE Cardinality(InUse)
        BY <1>3, <3>2, FS_RemoveElement
      <4> QED
        BY <1>3, <4>1
    <3> QED
      BY <2>6, <3>1, <3>2
  <2>8. rx' = [k \in Nodes |-> rx'[k]] /\ \A k \in Nodes : BufTyped(rx'[k])
    BY <2>4, <2>5 DEF RangeInv
  <2> QED
    BY <2>7, <2>8
<1> QED
  BY <1>2, <1>4, <1>5

\* The ranges are inductive.
LEMMA RangeNext == TypeInv /\ RangeInv /\ [Next]_vars => RangeInv'
<1> SUFFICES ASSUME TypeInv, RangeInv, [Next]_vars PROVE RangeInv'
  OBVIOUS
<1>1. CASE UNCHANGED vars
  BY <1>1 DEF vars, RangeInv, InUse
<1>2. CASE Next
  <2>1. \A a \in Nodes : snd'[a].pos <= snd'[a].len
    BY <1>2, PosKept DEF RangeInv
  <2>2. \A a \in Nodes : \A f \in mbox'[a] : FrameTyped(f)
    BY <1>2, MailsTyped DEF RangeInv
  <2> QED
    BY <1>2, <2>1, <2>2, PoolKept DEF RangeInv
<1> QED
  BY <1>1, <1>2

\* Publishers, mailboxes and receive buffers keep to their ranges, and no more
\* buffers are in use than the pool has, whatever is lost and for any number of nodes.
THEOREM TypeCorrect == Spec => []TypeOK
<1> QED
  BY TypeInit, TypeNext, RangeInit, RangeNext, RangeMeans, PTL DEF Spec
=============================================================================
