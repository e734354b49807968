------------------------------ MODULE Storage ------------------------------
(***************************************************************************)
(* Non-volatile storage of ThingSet data: src/storage_common.c (when data  *)
(* is loaded and saved) over src/storage_eeprom.c (how an EEPROM section   *)
(* is written and validated) or src/storage_flash.c (one record of an NVS  *)
(* file system), with the power failing between or inside the writes.      *)
(*                                                                         *)
(* A section is a header and NCHUNKS units of data.  The CRC is ideal: it  *)
(* is the data it was computed over.  What ThingSet exports and imports    *)
(* (thingset_export_subsets, thingset_import_data) is the function `ram`   *)
(* from units to values.  NVS writes a record as a whole or not at all,    *)
(* and checks it when it is read.                                          *)
(***************************************************************************)
EXTENDS Integers, Sequences, FiniteSets

CONSTANTS
    Values,         \* what a unit of data may hold
    Default,        \* the value compiled into the firmware
    NCHUNKS,        \* units of data in a section
    LOAD_ATTEMPTS,  \* CONFIG_THINGSET_STORAGE_LOAD_ATTEMPTS
    Builds,         \* the builds of the firmware: see Kconfig
    MaxUpdates,     \* bound: changes of the data
    MaxFailures,    \* bound: power failures and write errors between two
                    \* completed saves
    MaxNoise        \* bound: disturbed reads

\* What a build decides; the second and the third option are of storage_eeprom.c.
Kconfig == {b \in [nvs : BOOLEAN,          \* CONFIG_THINGSET_STORAGE_FLASH, else _EEPROM
                   progressive : BOOLEAN,  \* CONFIG_THINGSET_STORAGE_EEPROM_PROGRESSIVE_IMPORT_EXPORT
                   duplicate : BOOLEAN,    \* CONFIG_THINGSET_STORAGE_EEPROM_DUPLICATE
                   inhibit : BOOLEAN,      \* CONFIG_THINGSET_STORAGE_INHIBIT_OVERWRITE
                   big : BOOLEAN] :        \* the data is larger than the shared buffer
                b.nvs => ~b.progressive /\ ~b.duplicate}

ASSUME StorageAssumptions ==
    /\ Default \in Values
    /\ NCHUNKS \in Nat \ {0} /\ LOAD_ATTEMPTS \in Nat \ {0}
    /\ Builds \subseteq Kconfig
    /\ MaxUpdates \in Nat /\ MaxFailures \in Nat /\ MaxNoise \in Nat

VARIABLES
    build,     \* the build that runs, chosen once and for all
    mem,       \* the EEPROM's sections
    ram,       \* the data objects of TS_SUBSET_NVM
    allowed,   \* storage_save_allowed
    queued,    \* storage_work is scheduled
    pc,        \* what the node is doing
    sbuf,      \* the shared buffer: the data being written
    updates, failures, noise,   \* how much of the bounds is used up
    loaded,    \* history: loading at boot succeeded
    forced,    \* history: a save was forced since the node started
    fresh,     \* history: no change of the data since the node started
    done,      \* history: a save has been completed
    recent     \* history: contents of the last completed save and of those
               \* begun since

vars   == <<build, mem, ram, allowed, queued, pc, sbuf, updates, failures, noise,
            loaded, forced, fresh, done, recent>>

Garbage  == "garbage"              \* a unit whose write was cut short
Cells    == Values \cup {Garbage}
Units    == 1 .. NCHUNKS
Data     == [Units -> Cells]
NVS         == build.nvs
PROGRESSIVE == build.progressive
DUPLICATE   == build.duplicate
INHIBIT     == build.inhibit
BIG         == build.big

Sections == IF DUPLICATE THEN {1, 2} ELSE {1}
Uniform(v) == [u \in Units |-> v]

\* A header: that of an empty EEPROM, one that makes no sense or is of another
\* data version, or one with the CRC of some data.
Hdr == [kind : {"empty", "invalid"}] \cup [kind : {"ok"}, crc : Data]
Empty   == [kind |-> "empty"]
Invalid == [kind |-> "invalid"]

Section == [hdr : Hdr, data : Data]
Valid(s) == s.hdr.kind = "ok" /\ s.hdr.crc = s.data

Run  == [op |-> "run"]
Boot == [op |-> "load", sec |-> 1, try |-> 1]
Pc   == {Run} \cup [op : {"load"}, sec : {1, 2}, try : 1 .. LOAD_ATTEMPTS]
              \cup [op : {"save"}, sec : {1, 2}, k : 1 .. NCHUNKS + 1]

-----------------------------------------------------------------------------
(* Loading: thingset_storage_init at boot *)

\* What eeprom_read returns for a section: what is stored, or with noise on the
\* bus something that fails validation.
Reads(s) ==
    {s} \cup {r \in {[s EXCEPT !.data = Uniform(Garbage)], [s EXCEPT !.hdr = Invalid]} :
                noise < MaxNoise /\ (NVS => r.hdr = Invalid)}

\* Mutant: the CRC is not compared.
LoadOk_NoCrc(s) == s.hdr.kind # "invalid"

\* thingset_storage_load from flash returns 0: there is a record of this version
\* (if there is none nvs_read fails, and so does loading).
FlashLoadOk(s) == Valid(s) /\ ~BIG

\* The same for what was read from the EEPROM: one never written counts as loaded.
LoadOk(s) == IF NVS THEN FlashLoadOk(s)
             ELSE s.hdr = Empty \/ (Valid(s) /\ (BIG => PROGRESSIVE))

\* ... and what the data objects hold afterwards.  Data larger than the buffer
\* is imported piece by piece before its CRC is known.
Imported(s) ==
    IF s.hdr.kind # "ok" \/ (BIG /\ ~PROGRESSIVE) THEN {ram}
    ELSE IF Valid(s) THEN {s.data}
    ELSE IF BIG THEN {[u \in Units |-> IF u <= n THEN s.data[u] ELSE ram[u]] : n \in 0 .. NCHUNKS}
    ELSE {ram}

\* Mutant: saving is allowed whether or not loading worked.
InitAllowed_Always(ok) == TRUE

\* The end of thingset_storage_init: storage_save_allowed.
InitAllowed(ok) == allowed \/ ok

\* thingset_storage_load tries the second section if the first one fails, and
\* thingset_storage_init tries it all LOAD_ATTEMPTS times.
NextTry == IF DUPLICATE /\ pc.sec = 1 THEN [pc EXCEPT !.sec = 2]
           ELSE IF pc.try < LOAD_ATTEMPTS THEN [pc EXCEPT !.sec = 1, !.try = @ + 1]
           ELSE Run

LoadSection ==
    /\ pc.op = "load"
    /\ \E s \in Reads(mem[pc.sec]) :
         /\ noise' = IF s = mem[pc.sec] THEN noise ELSE noise + 1
         /\ ram' \in Imported(s)
         /\ pc' = IF LoadOk(s) THEN Run ELSE NextTry
         /\ allowed' = IF pc' = Run THEN InitAllowed(LoadOk(s)) ELSE allowed
         /\ loaded' = LoadOk(s)
    /\ UNCHANGED <<build, mem, queued, sbuf, updates, failures, forced, fresh, done, recent>>

-----------------------------------------------------------------------------
(* Saving *)

\* thingset_storage_save_queued(force)
Queue(force) == /\ allowed' = (allowed \/ force)
                /\ forced' = (forced \/ force)
                /\ queued' = TRUE

\* A ThingSet request changes the data; thingset_storage_update_handler queues a
\* save.  A progressive export holds ThingSet's lock until it is through.
Update(v) ==
    /\ pc.op # "load" /\ (PROGRESSIVE => pc.op = "run")
    /\ updates < MaxUpdates /\ ram # Uniform(v)
    /\ updates' = updates + 1 /\ fresh' = FALSE
    /\ ram' = Uniform(v)
    /\ Queue(allowed)
    /\ UNCHANGED <<build, mem, pc, sbuf, failures, noise, loaded, done, recent>>

\* The application asks for a save, by force or not.
SaveQueued(force) ==
    /\ pc.op # "load" /\ updates < MaxUpdates
    /\ updates' = updates + 1
    /\ Queue(force)
    /\ UNCHANGED <<build, mem, ram, pc, sbuf, failures, noise, loaded, fresh, done, recent>>

\* The autosave interval has passed.
Autosave ==
    /\ pc.op # "load" /\ ~queued
    /\ queued' = TRUE
    /\ UNCHANGED <<build, mem, ram, allowed, pc, sbuf, updates, failures, noise, loaded, forced, fresh,
                   done, recent>>

\* The units that thingset_eeprom_save writes one after the other; 0 is the
\* header.  The header precedes its data only without progressive export.
\* nvs_write writes version and data at once.
Order == IF NVS THEN <<0 .. NCHUNKS>>
         ELSE [k \in 1 .. NCHUNKS + 1 |->
                  {IF ~PROGRESSIVE THEN k - 1 ELSE IF k <= NCHUNKS THEN k ELSE 0}]

Export(sec) ==
    /\ pc' = [op |-> "save", sec |-> sec, k |-> 1]
    /\ sbuf' = ram
    /\ recent' = recent \cup {ram}

\* thingset_storage_save_handler: not allowed, or the export does not fit.
SaveNot ==
    /\ pc = Run /\ queued
    /\ ~allowed \/ (BIG /\ ~PROGRESSIVE)
    /\ queued' = FALSE
    /\ UNCHANGED <<build, mem, ram, allowed, pc, sbuf, updates, failures, noise, loaded, forced, fresh,
                   done, recent>>

SaveStart ==
    /\ pc = Run /\ queued
    /\ allowed /\ (BIG => PROGRESSIVE)
    /\ queued' = FALSE
    /\ Export(1)
    /\ UNCHANGED <<build, mem, ram, allowed, updates, failures, noise, loaded, forced, fresh, done>>

\* nvs_write of the whole record: the old one stays until the new one is complete.
FlashWritten(s, good) == IF good THEN [hdr |-> [kind |-> "ok", crc |-> sbuf], data |-> sbuf] ELSE s

\* A section after some of its units were written, or spoilt.
Written(s, units, good) ==
    IF NVS THEN FlashWritten(s, good) ELSE
    [hdr  |-> IF 0 \notin units THEN s.hdr
              ELSE IF good THEN [kind |-> "ok", crc |-> sbuf] ELSE Invalid,
     data |-> [u \in Units |-> IF u \notin units THEN s.data[u]
                               ELSE IF good THEN sbuf[u] ELSE Garbage]]

\* Mutant: the second section is never written.
AnotherSection_Never(sec) == FALSE

\* What follows the last unit of a section: the second section is exported anew.
AnotherSection(sec) == DUPLICATE /\ sec = 1

WriteUnit ==
    /\ pc.op = "save"
    /\ mem' = [mem EXCEPT ![pc.sec] = Written(@, Order[pc.k], TRUE)]
    /\ IF pc.k < Len(Order)
       THEN /\ pc' = [pc EXCEPT !.k = @ + 1]
            /\ UNCHANGED <<sbuf, recent, failures, done>>
       ELSE IF AnotherSection(pc.sec)
       THEN Export(2) /\ UNCHANGED <<failures, done>>
       ELSE /\ pc' = Run
            /\ recent' = {s.data : s \in {mem'[i] : i \in Sections}}
            /\ failures' = 0 /\ done' = TRUE /\ sbuf' = sbuf
    /\ UNCHANGED <<build, ram, allowed, queued, updates, noise, loaded, forced, fresh>>

\* eeprom_write fails (after the retries, where there are any), nvs_write fails or
\* NVS cannot be mounted: the unit is as it was or, in an EEPROM, spoilt, and the
\* save is given up.
WriteError ==
    /\ pc.op = "save" /\ failures < MaxFailures
    /\ mem' \in {mem, [mem EXCEPT ![pc.sec] = Written(@, Order[pc.k], FALSE)]}
    /\ pc' = Run /\ failures' = failures + 1
    /\ UNCHANGED <<build, ram, allowed, queued, sbuf, updates, noise, loaded, forced, fresh, done, recent>>

\* The power fails, possibly in the middle of a write, and comes back.
PowerFailure ==
    /\ failures < MaxFailures
    /\ mem' \in {mem} \cup (IF pc.op = "save"
                THEN {[mem EXCEPT ![pc.sec] = Written(@, Order[pc.k], FALSE)]} ELSE {})
    /\ ram' = Uniform(Default) /\ fresh' = TRUE
    /\ allowed' = ~INHIBIT /\ loaded' = FALSE /\ forced' = FALSE
    /\ queued' = FALSE /\ pc' = Boot
    /\ failures' = failures + 1
    /\ UNCHANGED <<build, sbuf, updates, noise, done, recent>>

-----------------------------------------------------------------------------

\* The node starts with an EEPROM never written, or one left by other firmware.
Init ==
    /\ build \in Builds
    /\ \E h \in {Empty, Invalid} :
         mem = [i \in {1, 2} |-> [hdr |-> h, data |-> Uniform(Garbage)]]
    /\ ram = Uniform(Default) /\ sbuf = Uniform(Default)
    /\ allowed = ~INHIBIT /\ queued = FALSE /\ pc = Boot
    /\ updates = 0 /\ failures = 0 /\ noise = 0
    /\ loaded = FALSE /\ forced = FALSE /\ fresh = TRUE /\ done = FALSE /\ recent = {Uniform(Default)}

Node == LoadSection \/ SaveNot \/ SaveStart \/ WriteUnit

Next == \/ Node \/ Autosave \/ WriteError \/ PowerFailure
        \/ \E v \in Values : Update(v)
        \/ \E force \in BOOLEAN : SaveQueued(force)

Spec == Init /\ [][Next]_vars

\* The node runs, and the autosave timer expires again and again.
FairSpec == Spec /\ WF_vars(Node) /\ WF_vars(Autosave)

-----------------------------------------------------------------------------
(* Properties *)

\* Every variable has its type.
TypeOK ==
    /\ build \in Builds /\ mem \in [{1, 2} -> Section] /\ ram \in Data /\ sbuf \in Data
    /\ pc \in Pc /\ allowed \in BOOLEAN /\ queued \in BOOLEAN /\ loaded \in BOOLEAN
    /\ forced \in BOOLEAN /\ fresh \in BOOLEAN /\ done \in BOOLEAN
    /\ updates \in 0 .. MaxUpdates /\ failures \in 0 .. MaxFailures
    /\ noise \in 0 .. MaxNoise /\ recent \subseteq Data

\* With two sections a node that starts finds a valid one once a save has been
\* completed: "at least one section will always have valid data".
OneSectionValid == done /\ DUPLICATE /\ pc = Boot => \E i \in Sections : Valid(mem[i])

\* It does as long as only one write was cut short since the last complete save.
SurvivesPowerFailure == failures <= 1 => OneSectionValid

\* A node that loaded its data at boot has the contents of the last completed
\* save or of one begun since, never an older one and never a mixture.  (A
\* progressive import has no way back: a read that fails its CRC has already
\* changed the data objects, and an empty second section then counts as loaded.)
RecoversASave ==
    fresh /\ loaded /\ pc = Run /\ (BIG => noise = 0 /\ failures <= 1) => ram \in recent

\* If loading fails, the data objects keep the firmware's defaults (except after a
\* progressive import, see above).
FailedLoadKeepsDefaults == ~BIG /\ fresh /\ ~loaded /\ pc = Run => ram = Uniform(Default)

\* A node starts from one save as a whole or, if there is none it can read, from
\* its defaults as a whole.
LoadIsAllOrNothing == RecoversASave /\ FailedLoadKeepsDefaults

\* With INHIBIT_OVERWRITE a memory that is empty is written all the same: "Only
\* empty EEPROM data will be overwritten."
EmptyIsWritten == INHIBIT /\ pc = Run /\ mem[1].hdr = Empty /\ noise = 0 => allowed

\* With INHIBIT_OVERWRITE, what is in the EEPROM is overwritten only by a node
\* that could load it, or by force.
OverwriteInhibited == [][INHIBIT /\ pc.op = "save" /\ mem' # mem => loaded \/ forced]_vars

\* Unless power failures and write errors go on for ever, EEPROM or flash end up
\* with the current data.
UpdatesReachStorage ==
    \/ []<><<failures' > failures>>_vars
    \/ <>[](allowed /\ (BIG => PROGRESSIVE) =>
             \A i \in Sections : Valid(mem[i]) /\ mem[i].data = ram)
=============================================================================
