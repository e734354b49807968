--------------------------- MODULE StorageProofs ---------------------------
(***************************************************************************)
(* Theorems about Storage, for every number of units, attempts, updates,   *)
(* failures and disturbed reads, and every build.                          *)
(***************************************************************************)
EXTENDS Storage, TLAPS

-----------------------------------------------------------------------------
(* The operators of the model *)

\* What the proofs use of the constants and of the build.
LEMMA BuildFacts ==
    ASSUME build \in Builds
    PROVE  /\ NVS \in BOOLEAN /\ PROGRESSIVE \in BOOLEAN /\ DUPLICATE \in BOOLEAN
           /\ INHIBIT \in BOOLEAN /\ BIG \in BOOLEAN
           /\ Sections \subseteq {1, 2} /\ 1 \in Sections
           /\ 2 \in Sections <=> DUPLICATE
           /\ DUPLICATE => Sections = {1, 2}
           /\ ~DUPLICATE => Sections = {1}
           /\ NVS => ~PROGRESSIVE /\ ~DUPLICATE
  BY StorageAssumptions
  DEF StorageAssumptions, Kconfig, NVS, PROGRESSIVE, DUPLICATE, INHIBIT, BIG, Sections

\* The number of writes of a section, and which units each of them is for.
LEMMA OrderFacts ==
    ASSUME build \in Builds
    PROVE  /\ NVS => Len(Order) = 1
           /\ ~NVS => Len(Order) = NCHUNKS + 1
           /\ Len(Order) \in 1 .. NCHUNKS + 1
           /\ NVS => Order[1] = 0 .. NCHUNKS
           /\ ~NVS => \A k \in 1 .. NCHUNKS + 1 :
                        Order[k] = {IF ~PROGRESSIVE THEN k - 1 ELSE IF k <= NCHUNKS THEN k ELSE 0}
  BY StorageAssumptions DEF StorageAssumptions, Order

\* A write leaves a section.
LEMMA WrittenType ==
    ASSUME TypeOK, NEW s \in Section, NEW units, NEW good \in BOOLEAN
    PROVE  Written(s, units, good) \in Section
<1>1. sbuf \in Data
  BY DEF TypeOK
<1>2. [kind |-> "ok", crc |-> sbuf] \in Hdr /\ Invalid \in Hdr
  BY <1>1 DEF Hdr, Invalid
<1>3. s.hdr \in Hdr /\ s.data \in Data
  BY DEF Section
<1>4. CASE NVS
  BY <1>1, <1>2, <1>4 DEF Written, FlashWritten, Section
<1>5. CASE ~NVS
  <2> DEFINE d == [u \in Units |-> IF u \notin units THEN s.data[u]
                                   ELSE IF good THEN sbuf[u] ELSE Garbage]
             h == IF 0 \notin units THEN s.hdr
                  ELSE IF good THEN [kind |-> "ok", crc |-> sbuf] ELSE Invalid
  <2>1. d \in Data
    BY <1>1, <1>3 DEF Data, Cells
  <2>2. h \in Hdr
    BY <1>2, <1>3
  <2>3. Written(s, units, good) = [hdr |-> h, data |-> d]
    BY <1>5 DEF Written
  <2> QED
    BY <2>1, <2>2, <2>3 DEF Section
<1> QED
  BY <1>4, <1>5

\* A read leaves a section, and whatever it disturbs, a header that still has a
\* checksum has the one that is stored.
LEMMA ReadsFacts ==
    ASSUME TypeOK, NEW s \in Section, NEW r \in Reads(s)
    PROVE  /\ r \in Section
           /\ r.hdr.kind = "ok" => r.hdr = s.hdr
           /\ r.hdr = Empty => s.hdr = Empty
           /\ r # s => noise < MaxNoise
<1>1. Uniform(Garbage) \in Data /\ Invalid \in Hdr
  BY DEF Uniform, Data, Cells, Hdr, Invalid
<1> QED
  BY <1>1 DEF Reads, Section, Invalid, Empty

\* Loading a section works or does not.
LEMMA LoadOkType == ASSUME build \in Builds, NEW s PROVE LoadOk(s) \in BOOLEAN
  BY BuildFacts DEF LoadOk, FlashLoadOk, Valid

\* Loading leaves the data objects with data.
LEMMA ImportedType ==
    ASSUME ram \in Data, NEW s \in Section, NEW d \in Imported(s)
    PROVE  d \in Data
<1>1. s.data \in Data
  BY DEF Section
<1>2. ASSUME NEW n \in 0 .. NCHUNKS
      PROVE  [u \in Units |-> IF u <= n THEN s.data[u] ELSE ram[u]] \in Data
  BY <1>1 DEF Data
<1> QED
  BY <1>1, <1>2 DEF Imported

-----------------------------------------------------------------------------
(* Type correctness *)

\* The type invariant.
THEOREM TypeCorrect == Spec => []TypeOK
<1>1. Init => TypeOK
  <2> SUFFICES ASSUME Init PROVE TypeOK
    OBVIOUS
  <2>1. Uniform(Default) \in Data /\ Uniform(Garbage) \in Data
    BY StorageAssumptions DEF StorageAssumptions, Uniform, Data, Cells
  <2>2. Empty \in Hdr /\ Invalid \in Hdr
    BY DEF Hdr, Empty, Invalid
  <2>3. mem \in [{1, 2} -> Section]
    BY <2>1, <2>2 DEF Init, Section
  <2>4. Boot \in Pc
    BY StorageAssumptions DEF StorageAssumptions, Boot, Pc
  <2> QED
    <3>1. updates \in 0 .. MaxUpdates /\ failures \in 0 .. MaxFailures /\ noise \in 0 .. MaxNoise
      BY StorageAssumptions DEF StorageAssumptions, Init
    <3>2. allowed \in BOOLEAN
      BY BuildFacts DEF Init
    <3> QED
      BY <2>1, <2>3, <2>4, <3>1, <3>2 DEF Init, TypeOK
<1>2. TypeOK /\ [Next]_vars => TypeOK'
  <2> SUFFICES ASSUME TypeOK, [Next]_vars PROVE TypeOK'
    OBVIOUS
  <2> USE StorageAssumptions DEF StorageAssumptions
  <2>a. /\ build \in Builds /\ mem \in [{1, 2} -> Section] /\ ram \in Data /\ sbuf \in Data
        /\ pc \in Pc /\ recent \subseteq Data
    BY DEF TypeOK
  <2>b. pc.op \in {"run", "load", "save"}
    BY <2>a DEF Pc, Run
  <2>c. pc.op \in {"load", "save"} => pc.sec \in {1, 2} /\ mem[pc.sec] \in Section
    BY <2>a DEF Pc, Run
  <2>d. Run \in Pc /\ Boot \in Pc /\ Uniform(Default) \in Data
    BY DEF Pc, Boot, Uniform, Data, Cells
  <2>e. \A sec \in {1, 2} : [op |-> "save", sec |-> sec, k |-> 1] \in Pc
    BY DEF Pc
  <2>f. ASSUME NEW good \in BOOLEAN, pc.op = "save"
        PROVE  [mem EXCEPT ![pc.sec] = Written(@, Order[pc.k], good)] \in [{1, 2} -> Section]
    BY <2>a, <2>c, <2>f, WrittenType
  <2>1. CASE LoadSection
    <3>1. PICK s \in Reads(mem[pc.sec]) :
             /\ noise' = IF s = mem[pc.sec] THEN noise ELSE noise + 1
             /\ ram' \in Imported(s)
             /\ pc' = IF LoadOk(s) THEN Run ELSE NextTry
             /\ allowed' = IF pc' = Run THEN InitAllowed(LoadOk(s)) ELSE allowed
             /\ loaded' = LoadOk(s)
      BY <2>1 DEF LoadSection
    <3>2. s \in Section /\ (s # mem[pc.sec] => noise < MaxNoise)
      BY <2>1, <2>c, ReadsFacts DEF LoadSection
    <3>3. ram' \in Data
      BY <2>a, <3>1, <3>2, ImportedType
    <3>4. NextTry \in Pc
      <4>1. pc \in [op : {"load"}, sec : {1, 2}, try : 1 .. LOAD_ATTEMPTS]
        BY <2>1, <2>a DEF LoadSection, Pc, Run
      <4> QED
        <5>1. [pc EXCEPT !.sec = 2] \in Pc
          BY <4>1 DEF Pc
        <5>2. pc.try < LOAD_ATTEMPTS => pc.try + 1 \in 1 .. LOAD_ATTEMPTS
          BY <4>1
        <5>3. \A n \in 1 .. LOAD_ATTEMPTS : [pc EXCEPT !.sec = 1, !.try = n] \in Pc
          BY <4>1 DEF Pc
        <5> QED
          BY <5>1, <5>2, <5>3, <2>d DEF NextTry
    <3>5. LoadOk(s) \in BOOLEAN /\ InitAllowed(LoadOk(s)) \in BOOLEAN
      BY <2>a, LoadOkType DEF TypeOK, InitAllowed
    <3> QED
      BY <2>1, <2>d, <3>1, <3>2, <3>3, <3>4, <3>5 DEF LoadSection, TypeOK
  <2>2. CASE SaveNot
    BY <2>2 DEF SaveNot, TypeOK
  <2>3. CASE SaveStart
    BY <2>3, <2>e DEF SaveStart, Export, TypeOK
  <2>4. CASE WriteUnit
    <3>1. mem' \in [{1, 2} -> Section]
      BY <2>4, <2>a, <2>c, WrittenType DEF WriteUnit
    <3>2. pc \in [op : {"save"}, sec : {1, 2}, k : 1 .. NCHUNKS + 1]
      BY <2>4, <2>a DEF WriteUnit, Pc, Run
    <3>3. CASE pc.k < Len(Order)
      <4>1. pc' \in Pc
        <5>1. pc.k + 1 \in 1 .. NCHUNKS + 1
          BY <2>a, <3>2, <3>3, OrderFacts
        <5>2. [pc EXCEPT !.k = @ + 1] \in Pc
          BY <3>2, <5>1 DEF Pc
        <5> QED
          BY <2>4, <3>3, <5>2 DEF WriteUnit
      <4> QED
        BY <2>4, <3>1, <3>3, <4>1 DEF WriteUnit, TypeOK
    <3>4. CASE ~(pc.k < Len(Order)) /\ AnotherSection(pc.sec)
      BY <2>4, <2>e, <3>1, <3>4 DEF WriteUnit, Export, TypeOK
    <3>5. CASE ~(pc.k < Len(Order)) /\ ~AnotherSection(pc.sec)
      <4>1. recent' = {s.data : s \in {mem'[i] : i \in Sections}}
        BY <2>4, <3>5 DEF WriteUnit
      <4>2. recent' \subseteq Data
        BY <2>a, <3>1, <4>1, BuildFacts DEF Section
      <4> QED
        <5>1. failures' \in 0 .. MaxFailures
          BY <2>4, <3>5 DEF WriteUnit
        <5> QED
          BY <2>4, <2>d, <3>1, <3>5, <4>2, <5>1 DEF WriteUnit, TypeOK
    <3> QED
      BY <3>3, <3>4, <3>5
  <2>5. CASE Autosave
    BY <2>5 DEF Autosave, TypeOK
  <2>6. CASE WriteError
    <3>1. mem' \in [{1, 2} -> Section]
      BY <2>6, <2>a, <2>f DEF WriteError
    <3> QED
      BY <2>6, <2>d, <3>1 DEF WriteError, TypeOK
  <2>7. CASE PowerFailure
    <3>1. mem' \in [{1, 2} -> Section]
      BY <2>7, <2>a, <2>f DEF PowerFailure
    <3>2. INHIBIT \in BOOLEAN
      BY <2>a, BuildFacts
    <3>3. failures' \in 0 .. MaxFailures
      BY <2>7 DEF PowerFailure, TypeOK
    <3> QED
      BY <2>7, <2>d, <3>1, <3>2, <3>3 DEF PowerFailure, TypeOK
  <2>8. ASSUME NEW v \in Values, Update(v) PROVE TypeOK'
    <3>1. Uniform(v) \in Data
      BY DEF Uniform, Data, Cells
    <3>2. updates' \in 0 .. MaxUpdates
      BY <2>8 DEF Update, TypeOK
    <3> QED
      BY <2>8, <3>1, <3>2 DEF Update, Queue, TypeOK
  <2>9. ASSUME NEW force \in BOOLEAN, SaveQueued(force) PROVE TypeOK'
    BY <2>9 DEF SaveQueued, Queue, TypeOK
  <2>10. CASE UNCHANGED vars
    BY <2>10 DEF vars, TypeOK
  <2> QED
    BY <2>1, <2>2, <2>3, <2>4, <2>5, <2>6, <2>7, <2>8, <2>9, <2>10 DEF Next, Node
<1> QED
  BY <1>1, <1>2, PTL DEF Spec

-----------------------------------------------------------------------------
(* Overwriting only what could be loaded *)

\* While the node loads, INHIBIT_OVERWRITE leaves saving disallowed; afterwards
\* saving is allowed only if the load worked or a save was forced, and a save that
\* is under way was allowed.
OverwriteInv ==
    INHIBIT => /\ pc.op = "load" => ~allowed /\ ~forced
               /\ pc.op # "load" /\ allowed => loaded \/ forced
               /\ pc.op = "save" => allowed

\* The invariant holds when the node starts ...
LEMMA OverwriteInvInit == Init => OverwriteInv
  BY BuildFacts DEF Init, Boot, OverwriteInv

\* ... and every step preserves it.
LEMMA OverwriteInvNext == TypeOK /\ OverwriteInv /\ [Next]_vars => OverwriteInv'
<1> SUFFICES ASSUME TypeOK, OverwriteInv, [Next]_vars, INHIBIT'
             PROVE  /\ pc'.op = "load" => ~allowed' /\ ~forced'
                    /\ pc'.op # "load" /\ allowed' => loaded' \/ forced'
                    /\ pc'.op = "save" => allowed'
  BY DEF OverwriteInv
<1>0. INHIBIT
  BY DEF Next, Node, vars, INHIBIT, LoadSection, SaveNot, SaveStart, WriteUnit, Autosave,
         WriteError, PowerFailure, Update, SaveQueued
<1>a. pc.op \in {"run", "load", "save"}
  BY DEF TypeOK, Pc, Run
<1>1. CASE LoadSection
  <2>1. PICK s \in Reads(mem[pc.sec]) :
           /\ pc' = IF LoadOk(s) THEN Run ELSE NextTry
           /\ allowed' = IF pc' = Run THEN InitAllowed(LoadOk(s)) ELSE allowed
           /\ loaded' = LoadOk(s)
    BY <1>1 DEF LoadSection
  <2>2. pc.op = "load" /\ ~allowed /\ ~forced /\ ~forced'
    BY <1>0, <1>1 DEF LoadSection, OverwriteInv
  <2>3. pc \in [op : {"load"}, sec : {1, 2}, try : 1 .. LOAD_ATTEMPTS]
    BY <2>2 DEF TypeOK, Pc, Run
  <2>4. pc' = Run \/ (pc'.op = "load" /\ pc' # Run)
    BY <2>1, <2>3 DEF NextTry, Run
  <2>5. CASE pc' = Run
    BY <2>1, <2>2, <2>5, LoadOkType DEF InitAllowed, Run, TypeOK
  <2>6. CASE pc'.op = "load" /\ pc' # Run
    BY <2>1, <2>2, <2>6
  <2> QED
    BY <2>4, <2>5, <2>6
<1>2. CASE SaveNot
  BY <1>0, <1>2 DEF SaveNot, OverwriteInv
<1>3. CASE SaveStart
  <2>1. pc.op = "run" /\ pc'.op = "save"
    BY <1>3 DEF SaveStart, Run, Export
  <2> QED
    BY <1>0, <1>3, <2>1 DEF SaveStart, OverwriteInv
<1>4. CASE WriteUnit
  <2>1. pc.op = "save" /\ pc'.op \in {"save", "run"}
    <3>1. pc.op = "save" /\ pc \in Pc
      BY <1>4 DEF WriteUnit, TypeOK
    <3>2. pc' \in {[pc EXCEPT !.k = @ + 1], [op |-> "save", sec |-> 2, k |-> 1], Run}
      BY <1>4 DEF WriteUnit, Export
    <3> QED
      BY <3>1, <3>2 DEF Pc, Run
  <2> QED
    BY <1>0, <1>4, <2>1 DEF WriteUnit, OverwriteInv
<1>5. CASE Autosave
  BY <1>0, <1>5 DEF Autosave, OverwriteInv
<1>6. CASE WriteError
  <2>1. pc.op = "save" /\ pc'.op = "run"
    BY <1>6 DEF WriteError, Run
  <2> QED
    BY <1>0, <1>6, <2>1 DEF WriteError, OverwriteInv
<1>7. CASE PowerFailure
  BY <1>0, <1>7 DEF PowerFailure, Boot
<1>8. ASSUME NEW v \in Values, Update(v)
      PROVE  /\ pc'.op = "load" => ~allowed' /\ ~forced'
             /\ pc'.op # "load" /\ allowed' => loaded' \/ forced'
             /\ pc'.op = "save" => allowed'
  BY <1>0, <1>8 DEF Update, Queue, OverwriteInv
<1>9. ASSUME NEW force \in BOOLEAN, SaveQueued(force)
      PROVE  /\ pc'.op = "load" => ~allowed' /\ ~forced'
             /\ pc'.op # "load" /\ allowed' => loaded' \/ forced'
             /\ pc'.op = "save" => allowed'
  BY <1>0, <1>9 DEF SaveQueued, Queue, OverwriteInv
<1>10. CASE UNCHANGED vars
  BY <1>0, <1>10 DEF vars, OverwriteInv
<1> QED
  BY <1>1, <1>2, <1>3, <1>4, <1>5, <1>6, <1>7, <1>8, <1>9, <1>10 DEF Next, Node

\* CONFIG_THINGSET_STORAGE_INHIBIT_OVERWRITE keeps its promise: see
\* OverwriteInhibited.
THEOREM OverwritesOnlyWhatItLoaded == Spec => OverwriteInhibited
<1>1. TypeOK /\ OverwriteInv /\ [Next]_vars
        => [INHIBIT /\ pc.op = "save" /\ mem' # mem => loaded \/ forced]_vars
  BY DEF OverwriteInv
<1> QED
  BY <1>1, TypeCorrect, OverwriteInvInit, OverwriteInvNext, PTL DEF Spec, OverwriteInhibited

-----------------------------------------------------------------------------
(* One of two sections is valid *)

\* The header that goes with some data.
OkHdr(d) == [kind |-> "ok", crc |-> d]

\* The section being saved after the write of unit pc.k, and with that unit spoilt.
Good   == Written(mem[pc.sec], Order[pc.k], TRUE)
Spoilt == Written(mem[pc.sec], Order[pc.k], FALSE)

\* How far a save has come: the second section is written only when the first is
\* valid, and what precedes unit pc.k is in its place.
SaveInv ==
    /\ pc.op \in {"load", "save"} => pc.sec \in Sections
    /\ pc.op = "save" =>
         /\ BIG => PROGRESSIVE
         /\ pc.sec = 2 => Valid(mem[1])
         /\ NVS => pc.k = 1
         /\ ~NVS /\ ~PROGRESSIVE /\ pc.k > 1 =>
              /\ mem[pc.sec].hdr = OkHdr(sbuf)
              /\ \A u \in Units : u < pc.k - 1 => mem[pc.sec].data[u] = sbuf[u]
         /\ ~NVS /\ PROGRESSIVE =>
              \A u \in Units : u < pc.k => mem[pc.sec].data[u] = sbuf[u]

\* Once a save has been completed: without a failure since, the section that is
\* not being written is valid; after one failure, one of the two is.
CopiesInv ==
    done /\ DUPLICATE =>
      /\ failures = 0 => /\ pc.op # "load"
                         /\ pc.op = "run" => Valid(mem[1]) /\ Valid(mem[2])
                         /\ pc.op = "save" /\ pc.sec = 1 => Valid(mem[2])
      /\ failures = 1 /\ pc.op # "save" => Valid(mem[1]) \/ Valid(mem[2])

\* The build stays the same.
LEMMA BuildFixed ==
    ASSUME [Next]_vars
    PROVE  /\ build' = build /\ Sections' = Sections
           /\ NVS' = NVS /\ PROGRESSIVE' = PROGRESSIVE /\ DUPLICATE' = DUPLICATE /\ BIG' = BIG
<1>1. build' = build
  BY DEF Next, Node, vars, LoadSection, SaveNot, SaveStart, WriteUnit, Autosave,
         WriteError, PowerFailure, Update, SaveQueued
<1> QED
  BY <1>1 DEF NVS, PROGRESSIVE, DUPLICATE, BIG, Sections

\* What the program counter of a node that saves, or loads, is made of.
LEMMA PcFacts ==
    ASSUME TypeOK
    PROVE  /\ pc.op \in {"run", "load", "save"}
           /\ pc.op = "run" <=> pc = Run
           /\ pc.op = "load" => pc \in [op : {"load"}, sec : {1, 2}, try : 1 .. LOAD_ATTEMPTS]
           /\ pc.op = "save" => /\ pc \in [op : {"save"}, sec : {1, 2}, k : 1 .. NCHUNKS + 1]
                                /\ pc.sec \in {1, 2} /\ pc.k \in 1 .. NCHUNKS + 1
                                /\ mem[pc.sec] \in Section
  BY DEF TypeOK, Pc, Run

\* A write that is not the last of its section.
LEMMA WriteContinues ==
    ASSUME TypeOK, SaveInv, pc.op = "save", pc.k < Len(Order)
    PROVE  /\ ~NVS
           /\ ~PROGRESSIVE => /\ Good.hdr = OkHdr(sbuf)
                              /\ \A u \in Units : u < pc.k => Good.data[u] = sbuf[u]
           /\ PROGRESSIVE => /\ Good.hdr = mem[pc.sec].hdr
                             /\ \A u \in Units : u < pc.k + 1 => Good.data[u] = sbuf[u]
<1> USE StorageAssumptions DEF StorageAssumptions
<1>1. build \in Builds /\ pc.k \in 1 .. NCHUNKS + 1
  BY PcFacts DEF TypeOK
<1>2. ~NVS
  <2> SUFFICES ASSUME NVS PROVE FALSE
    OBVIOUS
  <2>1. pc.k = 1 /\ Len(Order) = 1
    BY <1>1, OrderFacts DEF SaveInv
  <2> QED
    BY <2>1
<1>3. pc.k <= NCHUNKS
  BY <1>1, <1>2, OrderFacts
<1>4. Good.hdr = IF 0 \notin Order[pc.k] THEN mem[pc.sec].hdr ELSE OkHdr(sbuf)
  BY <1>2 DEF Good, Written, OkHdr
<1>5. \A u \in Units : Good.data[u] = IF u \notin Order[pc.k] THEN mem[pc.sec].data[u] ELSE sbuf[u]
  BY <1>2 DEF Good, Written
<1>6. CASE ~PROGRESSIVE
  <2>1. Order[pc.k] = {pc.k - 1}
    BY <1>1, <1>2, <1>6, OrderFacts
  <2>2. Good.hdr = OkHdr(sbuf)
    BY <1>1, <1>2, <1>4, <1>6, <2>1 DEF SaveInv
  <2>3. ASSUME NEW u \in Units, u < pc.k PROVE Good.data[u] = sbuf[u]
    BY <1>1, <1>2, <1>5, <1>6, <2>1, <2>3 DEF SaveInv, Units
  <2> QED
    BY <1>2, <1>6, <2>2, <2>3
<1>7. CASE PROGRESSIVE
  <2>1. Order[pc.k] = {pc.k}
    BY <1>1, <1>2, <1>3, <1>7, OrderFacts
  <2>2. ASSUME NEW u \in Units, u < pc.k + 1 PROVE Good.data[u] = sbuf[u]
    BY <1>1, <1>2, <1>5, <1>7, <2>1, <2>2 DEF SaveInv, Units
  <2>3. Good.hdr = mem[pc.sec].hdr
    BY <1>1, <1>4, <2>1
  <2> QED
    BY <1>2, <1>7, <2>2, <2>3
<1> QED
  BY <1>6, <1>7

\* The last write of a section makes it valid.
LEMMA WriteFinishes ==
    ASSUME TypeOK, SaveInv, pc.op = "save", ~(pc.k < Len(Order))
    PROVE  Good.hdr = OkHdr(sbuf) /\ Good.data = sbuf /\ Valid(Good)
<1> USE StorageAssumptions DEF StorageAssumptions
<1>1. build \in Builds /\ pc.k \in 1 .. NCHUNKS + 1 /\ sbuf \in Data
  BY PcFacts DEF TypeOK
<1>2. CASE NVS
  BY <1>2 DEF Good, Written, FlashWritten, OkHdr, Valid
<1>3. CASE ~NVS
  <2>1. pc.k = NCHUNKS + 1
    BY <1>1, <1>3, OrderFacts
  <2>2. Good.hdr = IF 0 \notin Order[pc.k] THEN mem[pc.sec].hdr ELSE OkHdr(sbuf)
    BY <1>3 DEF Good, Written, OkHdr
  <2>3. /\ \A u \in Units : Good.data[u] = IF u \notin Order[pc.k] THEN mem[pc.sec].data[u] ELSE sbuf[u]
        /\ Good.data = [u \in Units |-> Good.data[u]]
    BY <1>3 DEF Good, Written
  <2>4. CASE ~PROGRESSIVE
    <3>1. Order[pc.k] = {NCHUNKS}
      BY <1>1, <1>3, <2>1, <2>4, OrderFacts
    <3>2. Good.hdr = OkHdr(sbuf)
      BY <1>3, <2>1, <2>2, <2>4, <3>1 DEF SaveInv
    <3>3. \A u \in Units : Good.data[u] = sbuf[u]
      BY <1>1, <1>3, <2>1, <2>3, <2>4, <3>1 DEF SaveInv, Units
    <3>4. Good.data = sbuf
      BY <1>1, <2>3, <3>3 DEF Data
    <3> QED
      BY <3>2, <3>4 DEF Valid, OkHdr
  <2>5. CASE PROGRESSIVE
    <3>1. Order[pc.k] = {0}
      BY <1>1, <1>3, <2>1, <2>5, OrderFacts
    <3>2. Good.hdr = OkHdr(sbuf)
      BY <2>2, <3>1
    <3>3. \A u \in Units : Good.data[u] = sbuf[u]
      BY <1>1, <1>3, <2>1, <2>3, <2>5, <3>1 DEF SaveInv, Units
    <3>4. Good.data = sbuf
      BY <1>1, <2>3, <3>3 DEF Data
    <3> QED
      BY <3>2, <3>4 DEF Valid, OkHdr
  <2> QED
    BY <2>4, <2>5
<1> QED
  BY <1>2, <1>3

\* What the steps that write do to the sections.
LEMMA WriteUnitMem ==
    ASSUME TypeOK, WriteUnit
    PROVE  mem' = [mem EXCEPT ![pc.sec] = Good]
  BY DEF WriteUnit, Good

\* What a write error or a power failure does to them.
LEMMA FailureMem ==
    ASSUME TypeOK, WriteError \/ PowerFailure
    PROVE  mem' = mem \/ (pc.op = "save" /\ mem' = [mem EXCEPT ![pc.sec] = Spoilt])
  BY DEF WriteError, PowerFailure, Spoilt

\* A node starts by loading its first section ...
LEMMA SaveInvInit == Init => SaveInv
  BY BuildFacts DEF Init, Boot, SaveInv

\* ... and every step preserves SaveInv: the writes of a section build on each other.
LEMMA SaveInvNext == TypeOK /\ SaveInv /\ [Next]_vars => SaveInv'
<1> SUFFICES ASSUME TypeOK, SaveInv, [Next]_vars PROVE SaveInv'
  OBVIOUS
<1> USE StorageAssumptions DEF StorageAssumptions
<1>a. build \in Builds /\ 1 \in Sections /\ Sections \subseteq {1, 2} /\ mem \in [{1, 2} -> Section]
  BY BuildFacts DEF TypeOK
<1>1. CASE LoadSection
  <2>1. pc' = Run \/ pc' = NextTry
    BY <1>1 DEF LoadSection
  <2>2. pc \in [op : {"load"}, sec : {1, 2}, try : 1 .. LOAD_ATTEMPTS]
    BY <1>1, PcFacts DEF LoadSection
  <2>3. pc'.op # "save" /\ (pc'.op = "load" => pc'.sec \in Sections)
    <3>1. CASE pc' = [pc EXCEPT !.sec = 2] /\ DUPLICATE
      BY <1>a, <2>2, <3>1, BuildFacts
    <3>2. CASE pc' = [pc EXCEPT !.sec = 1, !.try = @ + 1]
      BY <1>a, <2>2, <3>2
    <3>3. CASE pc' = Run
      BY <3>3 DEF Run
    <3> QED
      BY <2>1, <3>1, <3>2, <3>3 DEF NextTry
  <2> QED
    BY <2>3, BuildFixed DEF SaveInv
<1>2. CASE SaveStart
  <2>1. pc' = [op |-> "save", sec |-> 1, k |-> 1] /\ mem' = mem /\ (BIG => PROGRESSIVE)
    BY <1>2 DEF SaveStart, Export
  <2> QED
    BY <1>a, <2>1, BuildFixed DEF SaveInv, Units
<1>3. CASE WriteUnit
  <2>1. mem' = [mem EXCEPT ![pc.sec] = Good] /\ pc.op = "save"
    BY <1>3, WriteUnitMem DEF WriteUnit
  <2>2. /\ pc \in [op : {"save"}, sec : {1, 2}, k : 1 .. NCHUNKS + 1]
        /\ pc.sec \in Sections /\ (BIG => PROGRESSIVE) /\ (pc.sec = 2 => Valid(mem[1]))
    BY <2>1, PcFacts DEF SaveInv
  <2>3. mem'[pc.sec] = Good /\ (pc.sec = 2 => mem'[1] = mem[1])
    BY <1>a, <2>1, <2>2
  <2>4. CASE pc.k < Len(Order)
    <3>1. pc' = [pc EXCEPT !.k = @ + 1] /\ sbuf' = sbuf
      BY <1>3, <2>4 DEF WriteUnit
    <3>2. pc'.op = "save" /\ pc'.sec = pc.sec /\ pc'.k = pc.k + 1 /\ pc.k \in 1 .. NCHUNKS + 1
      BY <2>2, <3>1
    <3>3. /\ ~NVS
          /\ ~PROGRESSIVE => /\ Good.hdr = OkHdr(sbuf)
                             /\ \A u \in Units : u < pc.k => Good.data[u] = sbuf[u]
          /\ PROGRESSIVE => \A u \in Units : u < pc.k + 1 => Good.data[u] = sbuf[u]
      BY <2>1, <2>4, WriteContinues
    <3>4. pc'.sec = 2 => Valid(mem'[1])
      BY <2>2, <2>3, <3>2
    <3>5. Units' = Units /\ OkHdr(sbuf)' = OkHdr(sbuf)
      BY <3>1 DEF Units, OkHdr
    <3>6. ~PROGRESSIVE => /\ mem'[pc'.sec].hdr = OkHdr(sbuf)
                          /\ \A u \in Units : u < pc'.k - 1 => mem'[pc'.sec].data[u] = sbuf'[u]
      BY <2>3, <3>1, <3>2, <3>3 DEF Units
    <3>7. PROGRESSIVE => \A u \in Units : u < pc'.k => mem'[pc'.sec].data[u] = sbuf'[u]
      BY <2>3, <3>1, <3>2, <3>3 DEF Units
    <3> QED
      BY <2>2, <3>2, <3>3, <3>4, <3>5, <3>6, <3>7, BuildFixed DEF SaveInv, Valid
  <2>5. CASE ~(pc.k < Len(Order)) /\ AnotherSection(pc.sec)
    <3>1. pc' = [op |-> "save", sec |-> 2, k |-> 1]
      BY <1>3, <2>5 DEF WriteUnit, Export
    <3>2. pc.sec = 1 /\ 2 \in Sections
      BY <1>a, <2>5, BuildFacts DEF AnotherSection
    <3>3. Valid(Good)
      BY <2>1, <2>5, WriteFinishes
    <3> QED
      BY <2>2, <2>3, <3>1, <3>2, <3>3, BuildFixed DEF SaveInv, Valid, Units
  <2>6. CASE ~(pc.k < Len(Order)) /\ ~AnotherSection(pc.sec)
    <3>1. pc' = Run
      BY <1>3, <2>6 DEF WriteUnit
    <3> QED
      BY <3>1 DEF SaveInv, Run
  <2> QED
    BY <2>4, <2>5, <2>6
<1>4. CASE WriteError
  BY <1>4 DEF WriteError, SaveInv, Run
<1>5. CASE PowerFailure
  BY <1>a, <1>5, BuildFixed DEF PowerFailure, SaveInv, Boot
<1>6. ASSUME pc' = pc, mem' = mem, sbuf' = sbuf PROVE SaveInv'
  BY <1>6, BuildFixed DEF SaveInv, Units, OkHdr, Valid
<1>7. CASE SaveNot \/ Autosave \/ UNCHANGED vars
  BY <1>6, <1>7 DEF SaveNot, Autosave, vars
<1>8. ASSUME NEW v \in Values, Update(v) PROVE SaveInv'
  BY <1>6, <1>8 DEF Update
<1>9. ASSUME NEW force \in BOOLEAN, SaveQueued(force) PROVE SaveInv'
  BY <1>6, <1>9 DEF SaveQueued
<1> QED
  BY <1>1, <1>2, <1>3, <1>4, <1>5, <1>7, <1>8, <1>9 DEF Next, Node

\* No save has been completed when the node starts ...
LEMMA CopiesInvInit == Init => CopiesInv
  BY DEF Init, CopiesInv

\* ... and every step preserves CopiesInv: a save touches one section at a time.
LEMMA CopiesInvNext == TypeOK /\ SaveInv /\ CopiesInv /\ [Next]_vars => CopiesInv'
<1> SUFFICES ASSUME TypeOK, SaveInv, CopiesInv, [Next]_vars, done', DUPLICATE'
             PROVE  /\ failures' = 0 => /\ pc'.op # "load"
                                        /\ pc'.op = "run" => Valid(mem'[1]) /\ Valid(mem'[2])
                                        /\ pc'.op = "save" /\ pc'.sec = 1 => Valid(mem'[2])
                    /\ failures' = 1 /\ pc'.op # "save" => Valid(mem'[1]) \/ Valid(mem'[2])
  BY DEF CopiesInv, Valid
<1> DEFINE Goal == /\ failures' = 0 => /\ pc'.op # "load"
                                       /\ pc'.op = "run" => Valid(mem'[1]) /\ Valid(mem'[2])
                                       /\ pc'.op = "save" /\ pc'.sec = 1 => Valid(mem'[2])
                   /\ failures' = 1 /\ pc'.op # "save" => Valid(mem'[1]) \/ Valid(mem'[2])
<1>a. DUPLICATE /\ build \in Builds /\ failures \in Nat /\ mem \in [{1, 2} -> Section]
  <2>1. DUPLICATE
    BY BuildFixed
  <2> QED
    BY <2>1 DEF TypeOK
<1>1. CASE LoadSection
  <2>1. pc.op = "load" /\ mem' = mem /\ failures' = failures /\ done
    BY <1>1 DEF LoadSection
  <2>2. pc \in [op : {"load"}, sec : {1, 2}, try : 1 .. LOAD_ATTEMPTS]
    BY <2>1, PcFacts
  <2>3. pc'.op # "save"
    BY <1>1, <2>2 DEF LoadSection, NextTry, Run
  <2> QED
    BY <1>a, <2>1, <2>3 DEF CopiesInv
<1>2. CASE SaveStart
  <2>1. pc' = [op |-> "save", sec |-> 1, k |-> 1] /\ mem' = mem /\ failures' = failures /\ done
    BY <1>2 DEF SaveStart, Export
  <2>2. pc.op = "run"
    BY <1>2 DEF SaveStart, Run
  <2> QED
    BY <1>a, <2>1, <2>2 DEF CopiesInv
<1>3. CASE WriteUnit
  <2>1. mem' = [mem EXCEPT ![pc.sec] = Good] /\ pc.op = "save" /\ pc.sec \in {1, 2}
    BY <1>3, WriteUnitMem, PcFacts DEF WriteUnit
  <2>2. /\ pc \in [op : {"save"}, sec : {1, 2}, k : 1 .. NCHUNKS + 1]
        /\ pc.sec = 2 => Valid(mem[1])
    BY <2>1, PcFacts DEF SaveInv
  <2>3. mem'[pc.sec] = Good /\ (pc.sec = 2 => mem'[1] = mem[1]) /\ (pc.sec = 1 => mem'[2] = mem[2])
    BY <1>a, <2>1
  <2>4. CASE pc.k < Len(Order)
    <3>1. pc' = [pc EXCEPT !.k = @ + 1] /\ failures' = failures /\ done
      BY <1>3, <2>4 DEF WriteUnit
    <3>2. pc'.op = "save" /\ pc'.sec = pc.sec
      BY <2>2, <3>1
    <3> QED
      BY <1>a, <2>1, <2>3, <3>1, <3>2 DEF CopiesInv
  <2>5. CASE ~(pc.k < Len(Order)) /\ AnotherSection(pc.sec)
    <3>1. pc'.op = "save" /\ pc'.sec = 2
      BY <1>3, <2>5 DEF WriteUnit, Export
    <3> QED
      BY <3>1
  <2>6. CASE ~(pc.k < Len(Order)) /\ ~AnotherSection(pc.sec)
    <3>1. pc' = Run /\ failures' = 0
      BY <1>3, <2>6 DEF WriteUnit
    <3>2. pc.sec = 2
      BY <1>a, <2>1, <2>6 DEF AnotherSection
    <3>3. Valid(Good)
      BY <2>1, <2>6, WriteFinishes
    <3> QED
      BY <2>2, <2>3, <3>1, <3>2, <3>3 DEF Run
  <2> QED
    BY <2>4, <2>5, <2>6
<1>4. CASE WriteError \/ PowerFailure
  <2>1. failures' = failures + 1 /\ done
    BY <1>4 DEF WriteError, PowerFailure
  <2>2. ASSUME failures' = 1 PROVE Valid(mem'[1]) \/ Valid(mem'[2])
    <3>1. failures = 0 /\ pc.op \in {"run", "save"}
      BY <1>a, <2>1, <2>2, PcFacts DEF CopiesInv
    <3>2. CASE pc.op = "run"
      BY <1>a, <1>4, <2>1, <3>1, <3>2, FailureMem DEF CopiesInv
    <3>3. CASE pc.op = "save"
      <4>1. pc.sec \in {1, 2}
        BY <3>3, PcFacts
      <4>2. \E i \in {1, 2} : i # pc.sec /\ Valid(mem[i])
        BY <1>a, <2>1, <3>1, <3>3, <4>1 DEF SaveInv, CopiesInv
      <4>3. \A i \in {1, 2} : i # pc.sec => mem'[i] = mem[i]
        BY <1>a, <1>4, <4>1, FailureMem
      <4> QED
        BY <4>2, <4>3
    <3> QED
      BY <3>1, <3>2, <3>3
  <2> QED
    BY <1>a, <2>1, <2>2
<1>5. ASSUME pc' = pc, mem' = mem, failures' = failures, done PROVE Goal
  BY <1>a, <1>5 DEF CopiesInv
<1>6. CASE SaveNot \/ Autosave \/ UNCHANGED vars
  BY <1>5, <1>6 DEF SaveNot, Autosave, vars
<1>7. ASSUME NEW v \in Values, Update(v) PROVE Goal
  BY <1>5, <1>7 DEF Update
<1>8. ASSUME NEW force \in BOOLEAN, SaveQueued(force) PROVE Goal
  BY <1>5, <1>8 DEF SaveQueued
<1> QED
  BY <1>1, <1>2, <1>3, <1>4, <1>6, <1>7, <1>8 DEF Next, Node

\* CONFIG_THINGSET_STORAGE_EEPROM_DUPLICATE keeps its promise as long as only one
\* write is cut short between two completed saves: see SurvivesPowerFailure.
THEOREM PowerFailureIsSurvived == Spec => []SurvivesPowerFailure
<1>1. TypeOK /\ CopiesInv => SurvivesPowerFailure
  <2> SUFFICES ASSUME TypeOK, CopiesInv, failures <= 1, done, DUPLICATE, pc = Boot
               PROVE  \E i \in Sections : Valid(mem[i])
    BY DEF SurvivesPowerFailure, OneSectionValid
  <2>1. failures \in {0, 1} /\ Sections = {1, 2}
    BY BuildFacts, StorageAssumptions DEF StorageAssumptions, TypeOK
  <2> QED
    BY <2>1 DEF CopiesInv, Boot
<1> QED
  BY <1>1, TypeCorrect, SaveInvInit, SaveInvNext, CopiesInvInit, CopiesInvNext, PTL DEF Spec

-----------------------------------------------------------------------------
(* A node starts from one save as a whole *)

SomeEmpty  == \E i \in Sections : mem[i].hdr = Empty
OkSections == {i \in Sections : mem[i].hdr.kind = "ok"}

\* A checksum in the EEPROM belongs to a save that counts as recent, and so do the
\* defaults as long as a section has never been written.
RecentInv ==
    /\ pc.op = "save" => sbuf \in recent /\ (fresh => sbuf = ram)
    /\ \A i \in OkSections : mem[i].hdr.crc \in recent
    /\ SomeEmpty => Uniform(Default) \in recent

\* Until loading works, what fits the buffer leaves the defaults alone.
DefaultsInv ==
    /\ pc.op = "load" => ~loaded
    /\ ~BIG /\ fresh /\ ~loaded => ram = Uniform(Default)

\* What does not fit the buffer is imported before its checksum is known.  As long
\* as a section is empty, no section has a header before the first failure and none
\* has one with the wrong checksum after it, so that nothing is imported by halves.
HalfImportInv ==
    BIG /\ SomeEmpty =>
      /\ failures = 0 /\ (pc.op = "save" => pc.sec = 1) => OkSections = {}
      /\ failures <= 1 /\ pc.op # "save" => \A i \in OkSections : Valid(mem[i])
      /\ pc.op = "load" /\ fresh /\ noise = 0 /\ failures <= 1 => ram = Uniform(Default)

\* Headers are told apart by their kind.
LEMMA HdrFacts ==
    /\ Empty.kind = "empty" /\ Invalid.kind = "invalid" /\ Invalid # Empty
    /\ \A d : OkHdr(d).kind = "ok" /\ OkHdr(d).crc = d /\ OkHdr(d) # Empty
    /\ \A d \in Section : Valid(d) => d.hdr.kind = "ok" /\ d.hdr # Empty
  BY DEF Empty, Invalid, OkHdr, Valid

\* What a write, and a write cut short, make of the header.
LEMMA WrittenHdr ==
    ASSUME TypeOK, pc.op = "save"
    PROVE  /\ Good.hdr = mem[pc.sec].hdr \/ Good.hdr = OkHdr(sbuf)
           /\ Spoilt.hdr = mem[pc.sec].hdr \/ Spoilt.hdr = Invalid
           /\ NVS => Spoilt = mem[pc.sec]
<1>1. CASE NVS
  BY <1>1 DEF Good, Spoilt, Written, FlashWritten, OkHdr
<1>2. CASE ~NVS
  BY <1>2 DEF Good, Spoilt, Written, OkHdr
<1> QED
  BY <1>1, <1>2

\* When a save is completed, every section is valid.
LEMMA SaveCompletes ==
    ASSUME TypeOK, SaveInv, WriteUnit, ~(pc.k < Len(Order)), ~AnotherSection(pc.sec)
    PROVE  /\ \A i \in Sections : Valid(mem'[i])
           /\ pc.sec \in Sections /\ mem'[pc.sec].data = sbuf
<1>1. mem' = [mem EXCEPT ![pc.sec] = Good] /\ pc.op = "save" /\ pc.sec \in {1, 2}
  BY WriteUnitMem, PcFacts DEF WriteUnit
<1>2. pc.sec \in Sections /\ (pc.sec = 2 => Valid(mem[1]))
  BY <1>1 DEF SaveInv
<1>3. Valid(Good) /\ Good.data = sbuf
  BY <1>1, WriteFinishes
<1>4. mem \in [{1, 2} -> Section] /\ build \in Builds
  BY DEF TypeOK
<1>5. mem'[pc.sec] = Good
  BY <1>1, <1>4
<1>6. CASE DUPLICATE
  <2>1. pc.sec = 2 /\ Sections = {1, 2}
    BY <1>1, <1>4, <1>6, BuildFacts DEF AnotherSection
  <2>2. mem'[1] = mem[1]
    BY <1>1, <1>4, <2>1
  <2> QED
    BY <1>2, <1>3, <1>5, <2>1, <2>2
<1>7. CASE ~DUPLICATE
  <2>1. Sections = {1}
    BY <1>4, <1>7, BuildFacts
  <2> QED
    BY <1>2, <1>3, <1>5, <2>1
<1> QED
  BY <1>6, <1>7

\* No section of a new EEPROM has a checksum ...
LEMMA RecentInvInit == Init => RecentInv
<1> SUFFICES ASSUME Init PROVE RecentInv
  OBVIOUS
<1>1. \A i \in Sections : mem[i].hdr \in {Empty, Invalid}
  BY BuildFacts DEF Init
<1>2. OkSections = {}
  BY <1>1 DEF OkSections, Empty, Invalid
<1> QED
  BY <1>2 DEF Init, RecentInv, Boot

\* ... and every step preserves RecentInv.
LEMMA RecentInvNext == TypeOK /\ SaveInv /\ RecentInv /\ [Next]_vars => RecentInv'
<1> SUFFICES ASSUME TypeOK, SaveInv, RecentInv, [Next]_vars PROVE RecentInv'
  OBVIOUS
<1>a. build \in Builds /\ Sections \subseteq {1, 2} /\ mem \in [{1, 2} -> Section] /\ Sections' = Sections
  BY BuildFacts, BuildFixed DEF TypeOK
<1>b. Uniform(Default)' = Uniform(Default)
  BY DEF Uniform, Units
<1>c. ASSUME /\ pc'.op = "save" => sbuf' \in recent' /\ (fresh' => sbuf' = ram'),
             recent \subseteq recent',
             \A i \in Sections : \/ mem'[i].hdr = mem[i].hdr
                                 \/ mem'[i].hdr = Invalid
                                 \/ mem'[i].hdr = OkHdr(sbuf) /\ sbuf \in recent
      PROVE  RecentInv'
  <2>1. ASSUME NEW i \in Sections, mem'[i].hdr.kind = "ok" PROVE mem'[i].hdr.crc \in recent'
    BY <1>c, <2>1, HdrFacts DEF RecentInv, OkSections
  <2>2. SomeEmpty' => SomeEmpty
    BY <1>a, <1>c, HdrFacts DEF SomeEmpty
  <2> QED
    BY <1>a, <1>b, <1>c, <2>1, <2>2 DEF RecentInv, OkSections
<1>1. CASE LoadSection
  <2>1. pc \in [op : {"load"}, sec : {1, 2}, try : 1 .. LOAD_ATTEMPTS]
    BY <1>1, PcFacts DEF LoadSection
  <2>2. pc'.op # "save"
    BY <1>1, <2>1 DEF LoadSection, NextTry, Run
  <2> QED
    BY <1>1, <1>c, <2>2 DEF LoadSection
<1>2. CASE SaveStart
  BY <1>2, <1>c DEF SaveStart, Export
<1>3. CASE WriteUnit
  <2>1. mem' = [mem EXCEPT ![pc.sec] = Good] /\ pc.op = "save" /\ ram' = ram /\ fresh' = fresh
    BY <1>3, WriteUnitMem DEF WriteUnit
  <2>2. sbuf \in recent /\ (fresh => sbuf = ram)
    BY <2>1 DEF RecentInv
  <2>3. \A i \in Sections : \/ mem'[i].hdr = mem[i].hdr
                            \/ mem'[i].hdr = OkHdr(sbuf) /\ sbuf \in recent
    BY <1>a, <2>1, <2>2, WrittenHdr
  <2>4. CASE pc.k < Len(Order)
    <3>1. sbuf' = sbuf /\ recent' = recent
      BY <1>3, <2>4 DEF WriteUnit
    <3> QED
      BY <1>c, <2>1, <2>2, <2>3, <3>1
  <2>5. CASE ~(pc.k < Len(Order)) /\ AnotherSection(pc.sec)
    BY <1>3, <1>c, <2>1, <2>2, <2>3, <2>5 DEF WriteUnit, Export
  <2>6. CASE ~(pc.k < Len(Order)) /\ ~AnotherSection(pc.sec)
    <3>1. pc' = Run /\ recent' = {s.data : s \in {mem'[i] : i \in Sections}}
      BY <1>3, <2>6 DEF WriteUnit
    <3>2. \A i \in Sections : Valid(mem'[i])
      BY <1>3, <2>6, SaveCompletes
    <3>3. \A i \in Sections : mem'[i].hdr.crc \in recent' /\ mem'[i].hdr # Empty
      BY <3>1, <3>2 DEF Valid, Empty
    <3> QED
      BY <1>a, <3>1, <3>3 DEF RecentInv, Run, OkSections, SomeEmpty, Empty
  <2> QED
    BY <2>4, <2>5, <2>6
<1>4. CASE WriteError \/ PowerFailure
  <2>1. \A i \in Sections : mem'[i].hdr = mem[i].hdr \/ mem'[i].hdr = Invalid
    BY <1>a, <1>4, FailureMem, WrittenHdr
  <2>2. pc' \in {Run, Boot} /\ recent' = recent
    BY <1>4 DEF WriteError, PowerFailure
  <2>3. pc'.op # "save"
    BY <2>2 DEF Run, Boot
  <2> QED
    BY <1>c, <2>1, <2>2, <2>3
<1>5. CASE SaveNot \/ Autosave \/ UNCHANGED vars
  BY <1>5, <1>c DEF SaveNot, Autosave, vars, RecentInv
<1>6. ASSUME NEW v \in Values, Update(v) PROVE RecentInv'
  BY <1>6, <1>c DEF Update, RecentInv
<1>7. ASSUME NEW force \in BOOLEAN, SaveQueued(force) PROVE RecentInv'
  BY <1>7, <1>c DEF SaveQueued, RecentInv
<1> QED
  BY <1>1, <1>2, <1>3, <1>4, <1>5, <1>6, <1>7 DEF Next, Node

\* The data objects start with the defaults ...
LEMMA DefaultsInvInit == Init => DefaultsInv
  BY DEF Init, Boot, DefaultsInv

\* ... and every step preserves DefaultsInv: what fits the buffer is validated before it
\* is imported.
LEMMA DefaultsInvNext == TypeOK /\ DefaultsInv /\ [Next]_vars => DefaultsInv'
<1> SUFFICES ASSUME TypeOK, DefaultsInv, [Next]_vars PROVE DefaultsInv'
  OBVIOUS
<1>a. build \in Builds /\ BIG' = BIG /\ Uniform(Default)' = Uniform(Default)
  BY BuildFixed DEF TypeOK, Uniform, Units
<1>b. ASSUME pc'.op = "load" => pc.op = "load", loaded' = loaded, fresh' = fresh, ram' = ram
      PROVE  DefaultsInv'
  BY <1>a, <1>b DEF DefaultsInv
<1>1. CASE LoadSection
  <2>1. PICK s \in Reads(mem[pc.sec]) :
           /\ ram' \in Imported(s)
           /\ pc' = IF LoadOk(s) THEN Run ELSE NextTry
           /\ loaded' = LoadOk(s)
    BY <1>1 DEF LoadSection
  <2>2. ~loaded /\ fresh' = fresh
    BY <1>1 DEF LoadSection, DefaultsInv
  <2>3. ~LoadOk(s) /\ ~BIG => ram' = ram
    BY <1>a, <2>1, BuildFacts DEF LoadOk, FlashLoadOk, Imported
  <2>4. pc'.op = "load" => ~loaded'
    BY <2>1 DEF Run
  <2> QED
    BY <1>a, <2>1, <2>2, <2>3, <2>4 DEF DefaultsInv
<1>2. CASE SaveStart
  BY <1>2, <1>b DEF SaveStart, Export
<1>3. CASE WriteUnit
  <2>1. pc.op = "save" /\ loaded' = loaded /\ fresh' = fresh /\ ram' = ram
    BY <1>3 DEF WriteUnit
  <2>2. pc \in [op : {"save"}, sec : {1, 2}, k : 1 .. NCHUNKS + 1]
    BY <2>1, PcFacts
  <2>3. pc' \in {[pc EXCEPT !.k = @ + 1], [op |-> "save", sec |-> 2, k |-> 1], Run}
    BY <1>3 DEF WriteUnit, Export
  <2>4. pc'.op # "load"
    BY <2>2, <2>3 DEF Run
  <2> QED
    BY <1>b, <2>1, <2>4
<1>4. CASE WriteError
  BY <1>4, <1>b DEF WriteError, Run
<1>5. CASE PowerFailure
  BY <1>a, <1>5 DEF PowerFailure, DefaultsInv
<1>6. CASE SaveNot \/ Autosave \/ UNCHANGED vars
  BY <1>6, <1>b DEF SaveNot, Autosave, vars
<1>7. ASSUME NEW v \in Values, Update(v) PROVE DefaultsInv'
  BY <1>7 DEF Update, DefaultsInv
<1>8. ASSUME NEW force \in BOOLEAN, SaveQueued(force) PROVE DefaultsInv'
  BY <1>8, <1>b DEF SaveQueued
<1> QED
  BY <1>1, <1>2, <1>3, <1>4, <1>5, <1>6, <1>7, <1>8 DEF Next, Node

\* A new EEPROM has no header with a checksum ...
LEMMA HalfImportInvInit == Init => HalfImportInv
<1> SUFFICES ASSUME Init PROVE HalfImportInv
  OBVIOUS
<1>1. \A i \in Sections : mem[i].hdr \in {Empty, Invalid}
  BY BuildFacts DEF Init
<1>2. OkSections = {}
  BY <1>1 DEF OkSections, Empty, Invalid
<1> QED
  BY <1>2 DEF Init, HalfImportInv

\* ... and every step preserves HalfImportInv.
LEMMA HalfImportInvNext ==
    TypeOK /\ SaveInv /\ HalfImportInv /\ [Next]_vars => HalfImportInv'
<1> SUFFICES ASSUME TypeOK, SaveInv, HalfImportInv, [Next]_vars, BIG', SomeEmpty'
             PROVE  /\ failures' = 0 /\ (pc'.op = "save" => pc'.sec = 1) => OkSections' = {}
                    /\ failures' <= 1 /\ pc'.op # "save" => \A i \in OkSections' : Valid(mem'[i])
                    /\ pc'.op = "load" /\ fresh' /\ noise' = 0 /\ failures' <= 1
                         => ram' = Uniform(Default)
  BY DEF HalfImportInv, Valid, Uniform, Units
<1> DEFINE Goal == /\ failures' = 0 /\ (pc'.op = "save" => pc'.sec = 1) => OkSections' = {}
                   /\ failures' <= 1 /\ pc'.op # "save" => \A i \in OkSections' : Valid(mem'[i])
                   /\ pc'.op = "load" /\ fresh' /\ noise' = 0 /\ failures' <= 1
                        => ram' = Uniform(Default)
<1>a. build \in Builds /\ Sections \subseteq {1, 2} /\ mem \in [{1, 2} -> Section] /\ Sections' = Sections
  BY BuildFacts, BuildFixed DEF TypeOK
<1>b. BIG
  BY BuildFixed
<1>c. failures \in Nat /\ noise \in Nat
  BY DEF TypeOK
<1>d. ASSUME mem' = mem PROVE SomeEmpty /\ OkSections' = OkSections
  BY <1>a, <1>d DEF SomeEmpty, OkSections, Empty
<1>1. CASE LoadSection
  <2>1. PICK s \in Reads(mem[pc.sec]) :
           /\ noise' = IF s = mem[pc.sec] THEN noise ELSE noise + 1
           /\ ram' \in Imported(s)
           /\ pc' = IF LoadOk(s) THEN Run ELSE NextTry
    BY <1>1 DEF LoadSection
  <2>2. pc.op = "load" /\ mem' = mem /\ failures' = failures /\ fresh' = fresh
    BY <1>1 DEF LoadSection
  <2>3. SomeEmpty /\ OkSections' = OkSections
    BY <1>d, <2>2
  <2>4. ASSUME pc'.op = "load", fresh', noise' = 0, failures' <= 1
        PROVE  ram' = Uniform(Default)
    <3>1. ~LoadOk(s)
      BY <2>1, <2>4 DEF Run
    <3>2. s = mem[pc.sec] /\ noise = 0
      BY <1>c, <2>1, <2>4
    <3>3. ram = Uniform(Default)
      BY <1>b, <2>2, <2>3, <2>4, <3>2 DEF HalfImportInv
    <3>4. pc.sec \in Sections
      BY <2>2 DEF SaveInv
    <3>5. s.hdr.kind = "ok" => Valid(s)
      BY <1>b, <2>2, <2>3, <2>4, <3>2, <3>4 DEF HalfImportInv, OkSections
    <3>6. s.hdr.kind = "ok" => ~PROGRESSIVE
      BY <1>a, <3>1, <3>5, BuildFacts DEF LoadOk
    <3>7. Imported(s) = {ram}
      BY <1>b, <3>6 DEF Imported
    <3> QED
      BY <2>1, <3>3, <3>7
  <2> QED
    BY <1>b, <2>2, <2>3, <2>4 DEF HalfImportInv
<1>2. CASE SaveStart
  <2>1. mem' = mem /\ failures' = failures /\ pc.op = "run" /\ pc'.op = "save"
    BY <1>2 DEF SaveStart, Export, Run
  <2> QED
    BY <1>b, <1>d, <2>1 DEF HalfImportInv
<1>3. CASE WriteUnit
  <2>1. mem' = [mem EXCEPT ![pc.sec] = Good] /\ pc.op = "save" /\ PROGRESSIVE
    BY <1>3, <1>b, WriteUnitMem DEF WriteUnit, SaveInv
  <2>2. pc \in [op : {"save"}, sec : {1, 2}, k : 1 .. NCHUNKS + 1]
    BY <2>1, PcFacts
  <2>3. CASE pc.k < Len(Order)
    <3>1. pc' = [pc EXCEPT !.k = @ + 1] /\ failures' = failures
      BY <1>3, <2>3 DEF WriteUnit
    <3>2. pc'.op = "save" /\ pc'.sec = pc.sec
      BY <2>2, <3>1
    <3>3. Good.hdr = mem[pc.sec].hdr
      BY <2>1, <2>3, WriteContinues
    <3>4. \A i \in Sections : mem'[i].hdr = mem[i].hdr
      BY <1>a, <2>1, <3>3
    <3>5. SomeEmpty /\ OkSections' = OkSections
      BY <1>a, <3>4 DEF SomeEmpty, OkSections, Empty
    <3> QED
      BY <1>b, <2>1, <3>1, <3>2, <3>5 DEF HalfImportInv
  <2>4. CASE ~(pc.k < Len(Order)) /\ AnotherSection(pc.sec)
    <3>1. pc' = [op |-> "save", sec |-> 2, k |-> 1]
      BY <1>3, <2>4 DEF WriteUnit, Export
    <3> QED
      BY <3>1
  <2>5. CASE ~(pc.k < Len(Order)) /\ ~AnotherSection(pc.sec)
    <3>1. \A i \in Sections : Valid(mem'[i])
      BY <1>3, <2>5, SaveCompletes
    <3> QED
      BY <1>a, <3>1 DEF Valid, SomeEmpty, Empty
  <2> QED
    BY <2>3, <2>4, <2>5
<1>4. CASE WriteError \/ PowerFailure
  <2>1. failures' = failures + 1 /\ (pc' = Boot => ram' = Uniform(Default)) /\ pc' \in {Run, Boot}
    <3>1. Run # Boot
      BY DEF Run, Boot
    <3>2. CASE WriteError
      BY <3>1, <3>2 DEF WriteError
    <3>3. CASE PowerFailure
      BY <3>3 DEF PowerFailure
    <3> QED
      BY <1>4, <3>2, <3>3
  <2>2. pc'.op = "load" => pc' = Boot
    BY <2>1 DEF Run, Boot
  <2>3. ASSUME failures' <= 1, NEW i \in Sections, mem'[i].hdr.kind = "ok" PROVE Valid(mem'[i])
    <3>1. failures = 0
      BY <1>c, <2>1, <2>3
    <3>2. mem'[i].hdr = mem[i].hdr
      BY <1>a, <1>4, <2>3, FailureMem, WrittenHdr, HdrFacts
    <3>3. SomeEmpty
      BY <1>a, <1>4, FailureMem, WrittenHdr, HdrFacts DEF SomeEmpty
    <3>4. i \in OkSections
      BY <2>3, <3>2 DEF OkSections
    <3>5. pc.op = "save" /\ pc.sec # 1
      BY <1>b, <3>1, <3>3, <3>4 DEF HalfImportInv
    <3>6. pc.sec = 2 /\ Valid(mem[1])
      BY <3>5, PcFacts DEF SaveInv
    <3>7. mem'[1] = mem[1]
      BY <1>a, <1>4, <3>6, FailureMem
    <3>8. i = 1
      <4>1. mem'[1].hdr # Empty
        BY <3>6, <3>7 DEF Valid, Empty
      <4>2. mem'[2].hdr = Empty
        BY <1>a, <4>1 DEF SomeEmpty, Empty
      <4> QED
        BY <1>a, <2>3, <4>2 DEF Empty
    <3> QED
      BY <3>6, <3>7, <3>8
  <2>4. \A i \in OkSections' : i \in Sections /\ mem'[i].hdr.kind = "ok"
    BY <1>a DEF OkSections
  <2> QED
    BY <1>c, <2>1, <2>2, <2>3, <2>4
<1>5. ASSUME pc' = pc, mem' = mem, failures' = failures, noise' = noise,
             fresh' => fresh /\ ram' = ram
      PROVE  Goal
  BY <1>5, <1>b, <1>d DEF HalfImportInv
<1>6. CASE SaveNot \/ Autosave \/ UNCHANGED vars
  BY <1>5, <1>6 DEF SaveNot, Autosave, vars
<1>7. ASSUME NEW v \in Values, Update(v) PROVE Goal
  BY <1>5, <1>7 DEF Update
<1>8. ASSUME NEW force \in BOOLEAN, SaveQueued(force) PROVE Goal
  BY <1>5, <1>8 DEF SaveQueued
<1> QED
  BY <1>1, <1>2, <1>3, <1>4, <1>6, <1>7, <1>8 DEF Next, Node

\* Nothing is loaded when the node starts ...
LEMMA RecoversASaveInit == Init => RecoversASave
  BY DEF Init, RecoversASave

\* ... and with the invariants above RecoversASave is inductive.
LEMMA RecoversASaveNext ==
    /\ TypeOK /\ SaveInv /\ RecentInv /\ DefaultsInv /\ HalfImportInv /\ RecoversASave
    /\ [Next]_vars
    => RecoversASave'
<1> SUFFICES ASSUME TypeOK, SaveInv, RecentInv, DefaultsInv, HalfImportInv, RecoversASave,
                    [Next]_vars, fresh', loaded', pc' = Run, BIG' => noise' = 0 /\ failures' <= 1
             PROVE  ram' \in recent'
  BY DEF RecoversASave, Run
<1>a. build \in Builds /\ Sections \subseteq {1, 2} /\ mem \in [{1, 2} -> Section] /\ BIG' = BIG
  BY BuildFacts, BuildFixed DEF TypeOK
<1>b. failures \in Nat /\ noise \in Nat
  BY DEF TypeOK
<1>1. CASE LoadSection
  <2>1. PICK s \in Reads(mem[pc.sec]) :
           /\ noise' = IF s = mem[pc.sec] THEN noise ELSE noise + 1
           /\ ram' \in Imported(s)
           /\ loaded' = LoadOk(s)
    BY <1>1 DEF LoadSection
  <2>2. pc.op = "load" /\ failures' = failures /\ fresh /\ recent' = recent /\ LoadOk(s)
    BY <1>1, <2>1 DEF LoadSection
  <2>3. pc.sec \in Sections /\ pc.sec \in {1, 2} /\ ~loaded
    BY <1>a, <2>2 DEF SaveInv, DefaultsInv
  <2>4. /\ s \in Section
        /\ s.hdr.kind = "ok" => s.hdr = mem[pc.sec].hdr
        /\ s.hdr = Empty => mem[pc.sec].hdr = Empty
    BY <1>a, <2>3, ReadsFacts
  <2>5. CASE Valid(s)
    <3>1. BIG => PROGRESSIVE
      BY <1>a, <2>2, <2>5, BuildFacts DEF LoadOk, FlashLoadOk, Valid, Empty
    <3>2. ram' = s.data
      BY <2>1, <2>5, <3>1 DEF Imported, Valid
    <3>3. s.data = mem[pc.sec].hdr.crc /\ pc.sec \in OkSections
      BY <2>3, <2>4, <2>5 DEF Valid, OkSections
    <3> QED
      BY <2>2, <3>2, <3>3 DEF RecentInv
  <2>6. CASE ~Valid(s)
    <3>1. s.hdr = Empty
      BY <1>a, <2>2, <2>6, BuildFacts DEF LoadOk, FlashLoadOk
    <3>2. SomeEmpty /\ ram' = ram
      BY <2>1, <2>3, <2>4, <3>1 DEF SomeEmpty, Imported, Empty
    <3>3. CASE BIG
      <4>1. noise = 0 /\ failures <= 1
        BY <1>a, <1>b, <2>1, <2>2, <3>3
      <4> QED
        BY <2>2, <3>2, <3>3, <4>1 DEF HalfImportInv, RecentInv
    <3>4. CASE ~BIG
      BY <2>2, <2>3, <3>2, <3>4 DEF DefaultsInv, RecentInv
    <3> QED
      BY <3>3, <3>4
  <2> QED
    BY <2>5, <2>6
<1>2. CASE SaveStart
  BY <1>2 DEF SaveStart, Export, Run
<1>3. CASE WriteUnit
  <2>1. pc.op = "save" /\ ram' = ram /\ fresh
    BY <1>3 DEF WriteUnit
  <2>2. pc \in [op : {"save"}, sec : {1, 2}, k : 1 .. NCHUNKS + 1]
    BY <2>1, PcFacts
  <2>3. [pc EXCEPT !.k = @ + 1] # Run /\ [op |-> "save", sec |-> 2, k |-> 1] # Run
    BY <2>2 DEF Run
  <2>4. ~(pc.k < Len(Order)) /\ ~AnotherSection(pc.sec)
    BY <1>3, <2>3 DEF WriteUnit, Export
  <2>5. recent' = {s.data : s \in {mem'[i] : i \in Sections}}
    BY <1>3, <2>4 DEF WriteUnit
  <2>6. pc.sec \in Sections /\ mem'[pc.sec].data = sbuf
    BY <1>3, <2>4, SaveCompletes
  <2>7. sbuf = ram
    BY <2>1 DEF RecentInv
  <2> QED
    BY <2>1, <2>5, <2>6, <2>7
<1>4. CASE WriteError
  BY <1>4 DEF WriteError, RecentInv
<1>5. CASE PowerFailure
  BY <1>5 DEF PowerFailure, Boot, Run
<1>6. CASE SaveNot \/ Autosave \/ UNCHANGED vars
  <2>1. /\ pc' = pc /\ ram' = ram /\ recent' = recent /\ noise' = noise /\ failures' = failures
        /\ fresh /\ loaded
    BY <1>6 DEF SaveNot, Autosave, vars
  <2> QED
    BY <1>a, <2>1 DEF RecoversASave
<1>7. ASSUME NEW v \in Values, Update(v) PROVE ram' \in recent'
  BY <1>7 DEF Update
<1>8. ASSUME NEW force \in BOOLEAN, SaveQueued(force) PROVE ram' \in recent'
  BY <1>8, <1>a DEF SaveQueued, RecoversASave
<1> QED
  BY <1>1, <1>2, <1>3, <1>4, <1>5, <1>6, <1>7, <1>8 DEF Next, Node

\* Whatever is cut short, a node starts from one save or from its defaults, never
\* from a mixture: see LoadIsAllOrNothing.
THEOREM LoadsAllOrNothing == Spec => []LoadIsAllOrNothing
<1>1. DefaultsInv => FailedLoadKeepsDefaults
  BY DEF DefaultsInv, FailedLoadKeepsDefaults
<1> QED
  BY <1>1, TypeCorrect, SaveInvInit, SaveInvNext, RecentInvInit, RecentInvNext,
     DefaultsInvInit, DefaultsInvNext, HalfImportInvInit, HalfImportInvNext,
     RecoversASaveInit, RecoversASaveNext, PTL DEF Spec, LoadIsAllOrNothing
=============================================================================
