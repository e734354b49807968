------------------------- MODULE CanAddrClaimProofs -------------------------
(***************************************************************************)
(* Theorems about CanAddrClaim, for every number of nodes, every address   *)
(* range and every bus.                                                    *)
(***************************************************************************)
EXTENDS CanAddrClaim, TLAPS

-----------------------------------------------------------------------------
(* Types *)

Addrs == ADDR_MIN .. ADDR_MAX
Pcs   == {"off", "discover", "sleep", "wait_used", "wait_sent", "check", "listen", "done", "failed"}
Frame == [kind : {"discovery", "claim"}, from : Nodes, addr : Addrs]
NodeState == [pc : Pcs, addr : Addrs, events : SUBSET Events, timer : BOOLEAN, work : BOOLEAN,
              filter : BOOLEAN, errs : BOOLEAN, owners : SUBSET Nodes, claimed : Addrs \cup {0}]

\* The type invariant with what TypeOK leaves out: the timer runs only in the loop,
\* and the owners a node has seen are still on the bus.
TypeInv ==
    /\ env \in Env
    /\ node \in [Nodes -> NodeState]
    /\ air \subseteq Frame
    /\ \A n \in Nodes :
         /\ node[n].timer => Claiming(n) /\ node[n].pc # "listen"
         /\ node[n].filter <=> node[n].pc = "done"
         /\ n \notin node[n].owners
         /\ \A m \in node[n].owners : node[m].pc = "done"

\* Who has, or may have, a claim of its own address on the way.
MayClaim(n) == node[n].pc \in {"wait_sent", "failed", "done"}
NoClaimOf(n) == \A f \in air : ~(f.kind = "claim" /\ f.from = n)

\* A claim on the way is for the address its node has now, the event that reports its
\* transmission is that of the claim being waited for, and there is one of
\* work, claim and event at a time.
ClaimsAreOwn == \A f \in air : f.kind = "claim" => f.addr = node[f.from].addr /\ MayClaim(f.from)
OneClaim(n) ==
    /\ node[n].work => MayClaim(n)
    /\ node[n].pc = "wait_used" => Sent \notin node[n].events
    /\ node[n].pc = "wait_sent" /\ node[n].work => Sent \notin node[n].events /\ NoClaimOf(n)
    /\ node[n].pc = "wait_sent" /\ Sent \in node[n].events =>
         NoClaimOf(n) /\ node[n].claimed = node[n].addr
    /\ node[n].pc \in {"check", "listen", "done"} => node[n].claimed = node[n].addr

OwnClaimInv == ~LateFrames => ClaimsAreOwn /\ \A n \in Nodes : OneClaim(n)

\* While n waits for claims of its address, an owner m of that address has not got the
\* discovery yet, is about to answer, has answered, or the wait is over; and n goes on
\* with an address that m does not have.
Answered(n, m) ==
    node[n].pc = "wait_used" /\ node[m].addr = node[n].addr =>
      \/ Used \in node[n].events \/ TimedOut \in node[n].events
      \/ Discovery(n, node[n].addr) \in air
      \/ node[m].work = TRUE
      \/ Claim(m, node[n].addr) \in air
Avoided(n, m) ==
    node[n].pc \in {"wait_sent", "check", "listen", "done"} => node[n].addr # node[m].addr

AnswerInv ==
    ~LateFrames /\ ~SendFails =>
      \A n \in Nodes : \A m \in node[n].owners : Answered(n, m) /\ Avoided(n, m)

\* Nodes that are switched on one after the other claim one at a time, and the one
\* that does has seen all that are done.
SoloInv ==
    Overlap = {} =>
      \A n, m \in Nodes :
        /\ Claiming(n) /\ Claiming(m) => n = m
        /\ node[n].pc \in {"wait_used", "wait_sent", "check", "listen"} /\ node[m].pc = "done" =>
             m \in node[n].owners

-----------------------------------------------------------------------------
(* The steps of one node *)

Others(n) == \A k \in Nodes : k # n => node'[k] = node[k]

\* One node changes to the state s.
LEMMA NodeUpdate ==
    ASSUME TypeInv, NEW n \in Nodes, NEW s \in NodeState, node' = [node EXCEPT ![n] = s]
    PROVE  node' \in [Nodes -> NodeState] /\ Others(n) /\ node'[n] = s
<1>1. node \in [Nodes -> NodeState]
  BY DEF TypeInv
<1> QED
  BY <1>1 DEF Others

\* Its fields, but for errs, which no invariant is about.
Becomes(n, p, a, e, t, w, f, o, c) ==
    /\ node' \in [Nodes -> NodeState] /\ Others(n)
    /\ node'[n].pc = p /\ node'[n].addr = a /\ node'[n].events = e /\ node'[n].timer = t
    /\ node'[n].work = w /\ node'[n].filter = f /\ node'[n].owners = o /\ node'[n].claimed = c

\* What SendDiscovery does.
LEMMA SendDiscoveryStep ==
    ASSUME TypeInv, NEW n \in Nodes, SendDiscovery(n)
    PROVE  Becomes(n, "wait_used", node[n].addr, node[n].events \ {Used, Sent, Finished}, node[n].timer,
                   node[n].work, node[n].filter, {m \in Nodes : node[m].pc = "done"}, node[n].claimed)
<1> DEFINE e == node[n].events \ {Used, Sent, Finished}
           o == {m \in Nodes : node[m].pc = "done"}
<1> DEFINE s == [node[n] EXCEPT !.events = e, !.pc = "wait_used", !.owners = o]
<1>1. e \in SUBSET Events /\ o \in SUBSET Nodes /\ node[n] \in NodeState /\ node \in [Nodes -> NodeState]
  BY DEF TypeInv, NodeState, Events
<1>2. node' = [node EXCEPT ![n].events = e, ![n].pc = "wait_used", ![n].owners = o]
  BY DEF SendDiscovery
<1> HIDE DEF e, o
<1>3. node' = [node EXCEPT ![n] = s]
  BY <1>1, <1>2
<1>4. /\ s \in NodeState /\ s.pc = "wait_used" /\ s.addr = node[n].addr /\ s.events = e /\ s.timer = node[n].timer
      /\ s.work = node[n].work /\ s.filter = node[n].filter /\ s.owners = o /\ s.claimed = node[n].claimed
  BY <1>1 DEF NodeState, Pcs
<1> HIDE DEF s
<1> QED
  BY <1>3, <1>4, NodeUpdate DEF Becomes, e, o

\* What DiscoveryFails does.
LEMMA DiscoveryFailsStep ==
    ASSUME TypeInv, NEW n \in Nodes, DiscoveryFails(n)
    PROVE  Becomes(n, "sleep", node[n].addr, node[n].events \ {Used, Sent, Finished}, node[n].timer,
                   node[n].work, node[n].filter, node[n].owners, node[n].claimed)
<1> DEFINE e == node[n].events \ {Used, Sent, Finished}
<1> DEFINE s == [node[n] EXCEPT !.events = e, !.pc = "sleep"]
<1>1. e \in SUBSET Events /\ node[n] \in NodeState /\ node \in [Nodes -> NodeState]
  BY DEF TypeInv, NodeState, Events
<1>2. node' = [node EXCEPT ![n].events = e, ![n].pc = "sleep"]
  BY DEF DiscoveryFails
<1> HIDE DEF e
<1>3. node' = [node EXCEPT ![n] = s]
  BY <1>1, <1>2
<1>4. /\ s \in NodeState /\ s.pc = "sleep" /\ s.addr = node[n].addr /\ s.events = e /\ s.timer = node[n].timer
      /\ s.work = node[n].work /\ s.filter = node[n].filter /\ s.owners = node[n].owners /\ s.claimed = node[n].claimed
  BY <1>1 DEF NodeState, Pcs
<1> HIDE DEF s
<1> QED
  BY <1>3, <1>4, NodeUpdate DEF Becomes, e

\* What Wake does.
LEMMA WakeStep ==
    ASSUME TypeInv, NEW n \in Nodes, Wake(n)
    PROVE  Becomes(n, "discover", node[n].addr, node[n].events, node[n].timer,
                   node[n].work, node[n].filter, node[n].owners, node[n].claimed)
<1> DEFINE s == [node[n] EXCEPT !.pc = "discover"]
<1>1. node[n] \in NodeState /\ node \in [Nodes -> NodeState]
  BY DEF TypeInv, NodeState, Events
<1>2. node' = [node EXCEPT ![n].pc = "discover"]
  BY DEF Wake
<1>3. node' = [node EXCEPT ![n] = s]
  BY <1>1, <1>2
<1>4. /\ s \in NodeState /\ s.pc = "discover" /\ s.addr = node[n].addr /\ s.events = node[n].events /\ s.timer = node[n].timer
      /\ s.work = node[n].work /\ s.filter = node[n].filter /\ s.owners = node[n].owners /\ s.claimed = node[n].claimed
  BY <1>1 DEF NodeState, Pcs
<1> HIDE DEF s
<1> QED
  BY <1>3, <1>4, NodeUpdate DEF Becomes

\* What NotUsed does.
LEMMA NotUsedStep ==
    ASSUME TypeInv, NEW n \in Nodes, NotUsed(n)
    PROVE  Becomes(n, "wait_sent", node[n].addr, node[n].events, node[n].timer,
                   TRUE, node[n].filter, node[n].owners, node[n].claimed)
<1> DEFINE s == [node[n] EXCEPT !.work = TRUE, !.errs = FALSE, !.pc = "wait_sent"]
<1>1. node[n] \in NodeState /\ node \in [Nodes -> NodeState]
  BY DEF TypeInv, NodeState, Events
<1>2. node' = [node EXCEPT ![n].work = TRUE, ![n].errs = FALSE, ![n].pc = "wait_sent"]
  BY DEF NotUsed
<1>3. node' = [node EXCEPT ![n] = s]
  BY <1>1, <1>2
<1>4. /\ s \in NodeState /\ s.pc = "wait_sent" /\ s.addr = node[n].addr /\ s.events = node[n].events /\ s.timer = node[n].timer
      /\ s.work = TRUE /\ s.filter = node[n].filter /\ s.owners = node[n].owners /\ s.claimed = node[n].claimed
  BY <1>1 DEF NodeState, Pcs
<1> HIDE DEF s
<1> QED
  BY <1>3, <1>4, NodeUpdate DEF Becomes

\* What GiveUp does.
LEMMA GiveUpStep ==
    ASSUME TypeInv, NEW n \in Nodes, GiveUp(n)
    PROVE  Becomes(n, "failed", node[n].addr, node[n].events, FALSE,
                   node[n].work, node[n].filter, node[n].owners, node[n].claimed)
<1> DEFINE s == [node[n] EXCEPT !.pc = "failed", !.timer = FALSE]
<1>1. node[n] \in NodeState /\ node \in [Nodes -> NodeState]
  BY DEF TypeInv, NodeState, Events
<1>2. node' = [node EXCEPT ![n].pc = "failed", ![n].timer = FALSE]
  BY DEF GiveUp
<1>3. node' = [node EXCEPT ![n] = s]
  BY <1>1, <1>2
<1>4. /\ s \in NodeState /\ s.pc = "failed" /\ s.addr = node[n].addr /\ s.events = node[n].events /\ s.timer = FALSE
      /\ s.work = node[n].work /\ s.filter = node[n].filter /\ s.owners = node[n].owners /\ s.claimed = node[n].claimed
  BY <1>1 DEF NodeState, Pcs
<1> HIDE DEF s
<1> QED
  BY <1>3, <1>4, NodeUpdate DEF Becomes

\* What ClaimSent does.
LEMMA ClaimSentStep ==
    ASSUME TypeInv, NEW n \in Nodes, ClaimSent(n)
    PROVE  Becomes(n, "check", node[n].addr, node[n].events, node[n].timer,
                   node[n].work, node[n].filter, node[n].owners, node[n].claimed)
<1> DEFINE s == [node[n] EXCEPT !.pc = "check"]
<1>1. node[n] \in NodeState /\ node \in [Nodes -> NodeState]
  BY DEF TypeInv, NodeState, Events
<1>2. node' = [node EXCEPT ![n].pc = "check"]
  BY DEF ClaimSent
<1>3. node' = [node EXCEPT ![n] = s]
  BY <1>1, <1>2
<1>4. /\ s \in NodeState /\ s.pc = "check" /\ s.addr = node[n].addr /\ s.events = node[n].events /\ s.timer = node[n].timer
      /\ s.work = node[n].work /\ s.filter = node[n].filter /\ s.owners = node[n].owners /\ s.claimed = node[n].claimed
  BY <1>1 DEF NodeState, Pcs
<1> HIDE DEF s
<1> QED
  BY <1>3, <1>4, NodeUpdate DEF Becomes

\* What ClaimNotSent does.
LEMMA ClaimNotSentStep ==
    ASSUME TypeInv, NEW n \in Nodes, ClaimNotSent(n)
    PROVE  Becomes(n, "sleep", node[n].addr, node[n].events, node[n].timer,
                   node[n].work, node[n].filter, node[n].owners, node[n].claimed)
<1> DEFINE s == [node[n] EXCEPT !.pc = "sleep"]
<1>1. node[n] \in NodeState /\ node \in [Nodes -> NodeState]
  BY DEF TypeInv, NodeState, Events
<1>2. node' = [node EXCEPT ![n].pc = "sleep"]
  BY DEF ClaimNotSent
<1>3. node' = [node EXCEPT ![n] = s]
  BY <1>1, <1>2
<1>4. /\ s \in NodeState /\ s.pc = "sleep" /\ s.addr = node[n].addr /\ s.events = node[n].events /\ s.timer = node[n].timer
      /\ s.work = node[n].work /\ s.filter = node[n].filter /\ s.owners = node[n].owners /\ s.claimed = node[n].claimed
  BY <1>1 DEF NodeState, Pcs
<1> HIDE DEF s
<1> QED
  BY <1>3, <1>4, NodeUpdate DEF Becomes

\* What AddFilter does.
LEMMA AddFilterStep ==
    ASSUME TypeInv, NEW n \in Nodes, AddFilter(n)
    PROVE  Becomes(n, "done", node[n].addr, node[n].events, node[n].timer,
                   node[n].work, TRUE, node[n].owners, node[n].claimed)
<1> DEFINE s == [node[n] EXCEPT !.filter = TRUE, !.pc = "done"]
<1>1. node[n] \in NodeState /\ node \in [Nodes -> NodeState]
  BY DEF TypeInv, NodeState, Events
<1>2. node' = [node EXCEPT ![n].filter = TRUE, ![n].pc = "done"]
  BY DEF AddFilter
<1>3. node' = [node EXCEPT ![n] = s]
  BY <1>1, <1>2
<1>4. /\ s \in NodeState /\ s.pc = "done" /\ s.addr = node[n].addr /\ s.events = node[n].events /\ s.timer = node[n].timer
      /\ s.work = node[n].work /\ s.filter = TRUE /\ s.owners = node[n].owners /\ s.claimed = node[n].claimed
  BY <1>1 DEF NodeState, Pcs
<1> HIDE DEF s
<1> QED
  BY <1>3, <1>4, NodeUpdate DEF Becomes

\* What TimerExpires does.
LEMMA TimerExpiresStep ==
    ASSUME TypeInv, NEW n \in Nodes, TimerExpires(n)
    PROVE  Becomes(n, node[n].pc, node[n].addr, {TimedOut}, FALSE,
                   node[n].work, node[n].filter, node[n].owners, node[n].claimed)
<1> DEFINE e == {TimedOut}
<1> DEFINE s == [node[n] EXCEPT !.events = e, !.timer = FALSE]
<1>1. e \in SUBSET Events /\ node[n] \in NodeState /\ node \in [Nodes -> NodeState]
  BY DEF TypeInv, NodeState, Events
<1>2. node' = [node EXCEPT ![n].events = e, ![n].timer = FALSE]
  BY DEF TimerExpires
<1> HIDE DEF e
<1>3. node' = [node EXCEPT ![n] = s]
  BY <1>1, <1>2
<1>4. /\ s \in NodeState /\ s.pc = node[n].pc /\ s.addr = node[n].addr /\ s.events = e /\ s.timer = FALSE
      /\ s.work = node[n].work /\ s.filter = node[n].filter /\ s.owners = node[n].owners /\ s.claimed = node[n].claimed
  BY <1>1 DEF NodeState, Pcs
<1> HIDE DEF s
<1> QED
  BY <1>3, <1>4, NodeUpdate DEF Becomes, e

\* What AddrInUse does: the new address is in range.
LEMMA AddrInUseStep ==
    ASSUME TypeInv, NEW n \in Nodes, AddrInUse(n)
    PROVE  \E a \in Addrs :
             Becomes(n, "discover", a, node[n].events, node[n].timer,
                     node[n].work, node[n].filter, node[n].owners, node[n].claimed)
<1>1. PICK a \in RandomAddrs : node' = [node EXCEPT ![n].addr = a, ![n].pc = "discover"]
  BY DEF AddrInUse
<1>2. a \in Addrs
  BY ClaimAssumptions DEF ClaimAssumptions, RandomAddrs, Addrs
<1> DEFINE s == [node[n] EXCEPT !.addr = a, !.pc = "discover"]
<1>3. node[n] \in NodeState /\ node \in [Nodes -> NodeState]
  BY DEF TypeInv
<1>4. node' = [node EXCEPT ![n] = s]
  BY <1>1, <1>3
<1>5. /\ s \in NodeState /\ s.pc = "discover" /\ s.addr = a /\ s.events = node[n].events /\ s.timer = node[n].timer
      /\ s.work = node[n].work /\ s.filter = node[n].filter /\ s.owners = node[n].owners /\ s.claimed = node[n].claimed
  BY <1>2, <1>3 DEF NodeState, Pcs
<1> HIDE DEF s
<1> QED
  BY <1>2, <1>4, <1>5, NodeUpdate DEF Becomes

\* What CheckErrors does in its two cases.
LEMMA CheckErrorsStep ==
    ASSUME TypeInv, NEW n \in Nodes, CheckErrors(n)
    PROVE  \/ Becomes(n, "discover", node[n].addr, node[n].events, node[n].timer,
                      node[n].work, node[n].filter, node[n].owners, node[n].claimed)
           \/ Becomes(n, "listen", node[n].addr, node[n].events \cup {Finished}, FALSE,
                      node[n].work, node[n].filter, node[n].owners, node[n].claimed)
<1> DEFINE e == node[n].events \cup {Finished}
           s == [node[n] EXCEPT !.pc = "discover"]
           u == [node[n] EXCEPT !.events = e, !.timer = FALSE, !.pc = "listen"]
<1>1. e \in SUBSET Events /\ node[n] \in NodeState /\ node \in [Nodes -> NodeState]
  BY DEF TypeInv, NodeState, Events
<1>2. \/ node' = [node EXCEPT ![n].pc = "discover"]
      \/ node' = [node EXCEPT ![n].events = e, ![n].timer = FALSE, ![n].pc = "listen"]
  BY DEF CheckErrors
<1> HIDE DEF e
<1>3. node' = [node EXCEPT ![n] = s] \/ node' = [node EXCEPT ![n] = u]
  <2>1. CASE node' = [node EXCEPT ![n].pc = "discover"]
    BY <1>1, <2>1
  <2>2. CASE node' = [node EXCEPT ![n].events = e, ![n].timer = FALSE, ![n].pc = "listen"]
    BY <1>1, <2>2
  <2> QED
    BY <1>2, <2>1, <2>2
<1>4. /\ s \in NodeState /\ s.pc = "discover" /\ s.addr = node[n].addr /\ s.events = node[n].events /\ s.timer = node[n].timer
      /\ s.work = node[n].work /\ s.filter = node[n].filter /\ s.owners = node[n].owners /\ s.claimed = node[n].claimed
  BY <1>1 DEF NodeState, Pcs
<1>5. /\ u \in NodeState /\ u.pc = "listen" /\ u.addr = node[n].addr /\ u.events = e /\ u.timer = FALSE
      /\ u.work = node[n].work /\ u.filter = node[n].filter /\ u.owners = node[n].owners /\ u.claimed = node[n].claimed
  BY <1>1 DEF NodeState, Pcs
<1> HIDE DEF s, u
<1>6. CASE node' = [node EXCEPT ![n] = s]
  BY <1>4, <1>6, NodeUpdate DEF Becomes
<1>7. CASE node' = [node EXCEPT ![n] = u]
  <2>1. node' \in [Nodes -> NodeState] /\ Others(n) /\ node'[n] = u
    BY <1>5, <1>7, NodeUpdate
  <2> QED
    BY <1>5, <2>1 DEF Becomes, e
<1> QED
  BY <1>3, <1>6, <1>7

\* What the work that sends the claim does, whether can_send takes the frame or not.
LEMMA ClaimWorkStep ==
    ASSUME TypeInv, NEW n \in Nodes, ClaimWork(n) \/ ClaimWorkFails(n)
    PROVE  Becomes(n, node[n].pc, node[n].addr, node[n].events, node[n].timer,
                   FALSE, node[n].filter, node[n].owners, node[n].claimed)
<1> DEFINE s == [node[n] EXCEPT !.work = FALSE]
<1>1. node[n] \in NodeState /\ node \in [Nodes -> NodeState]
  BY DEF TypeInv
<1>2. node' = [node EXCEPT ![n].work = FALSE]
  BY DEF ClaimWork, ClaimWorkFails
<1>3. node' = [node EXCEPT ![n] = s]
  BY <1>1, <1>2
<1>4. /\ s \in NodeState /\ s.pc = node[n].pc /\ s.addr = node[n].addr /\ s.events = node[n].events /\ s.timer = node[n].timer
      /\ s.work = FALSE /\ s.filter = node[n].filter /\ s.owners = node[n].owners /\ s.claimed = node[n].claimed
  BY <1>1 DEF NodeState
<1> HIDE DEF s
<1> QED
  BY <1>3, <1>4, NodeUpdate DEF Becomes

\* A node that is off.
LEMMA OffState ==
    ASSUME NEW a \in Addrs
    PROVE  /\ Off(a) \in NodeState
           /\ Off(a).pc = "off" /\ Off(a).addr = a /\ Off(a).events = {} /\ Off(a).timer = FALSE
           /\ Off(a).work = FALSE /\ Off(a).filter = FALSE /\ Off(a).owners = {} /\ Off(a).claimed = 0
  BY DEF Off, NodeState, Pcs

\* What Boot does.
LEMMA BootStep ==
    ASSUME TypeInv, NEW n \in Nodes, Boot(n)
    PROVE  Becomes(n, "discover", node[n].addr, {}, Timeouts, FALSE, FALSE, {}, 0)
<1> DEFINE t == Timeouts
           o == Off(node[n].addr)
           s == [o EXCEPT !.pc = "discover", !.timer = t]
<1>1. /\ node[n].addr \in Addrs /\ t \in BOOLEAN
  BY DEF TypeInv, NodeState, Env, Timeouts
<1>2. o \in NodeState /\ o.addr = node[n].addr /\ o.events = {} /\ o.work = FALSE /\ o.filter = FALSE
      /\ o.owners = {} /\ o.claimed = 0
  BY <1>1, OffState
<1>3. node' = [node EXCEPT ![n] = s]
  BY DEF Boot
<1> HIDE DEF t, o
<1>4. s \in NodeState
  BY <1>1, <1>2 DEF NodeState, Pcs
<1>5. /\ s.pc = "discover" /\ s.addr = node[n].addr /\ s.events = {} /\ s.timer = t
      /\ s.work = FALSE /\ s.filter = FALSE /\ s.owners = {} /\ s.claimed = 0
  BY <1>1, <1>2 DEF NodeState
<1> HIDE DEF s
<1>6. node' \in [Nodes -> NodeState] /\ Others(n) /\ node'[n] = s
  BY <1>3, <1>4, NodeUpdate
<1> QED
  BY <1>5, <1>6 DEF Becomes, t

\* What Reboot does: the others forget that the node was done.
LEMMA RebootStep ==
    ASSUME TypeInv, NEW n \in Nodes, Reboot(n)
    PROVE  /\ node' \in [Nodes -> NodeState]
           /\ node'[n].pc = "off" /\ node'[n].events = {} /\ node'[n].timer = FALSE /\ node'[n].work = FALSE
           /\ node'[n].filter = FALSE /\ node'[n].owners = {}
           /\ \A k \in Nodes \ {n} :
                /\ node'[k].pc = node[k].pc /\ node'[k].addr = node[k].addr /\ node'[k].events = node[k].events
                /\ node'[k].timer = node[k].timer /\ node'[k].work = node[k].work
                /\ node'[k].filter = node[k].filter /\ node'[k].claimed = node[k].claimed
                /\ node'[k].owners = node[k].owners \ {n}
<1>1. PICK a \in InitAddrs \cup {node[n].addr} :
         node' = [m \in Nodes |-> IF m = n THEN Off(a) ELSE [node[m] EXCEPT !.owners = @ \ {n}]]
  BY DEF Reboot
<1>2. a \in Addrs
  BY ClaimAssumptions DEF ClaimAssumptions, Addrs, TypeInv, NodeState
<1>3. node'[n] = Off(a)
  BY <1>1
<1>4. \A k \in Nodes \ {n} : node'[k] = [node[k] EXCEPT !.owners = node[k].owners \ {n}]
  BY <1>1
<1>5. ASSUME NEW k \in Nodes \ {n}
      PROVE  LET s == [node[k] EXCEPT !.owners = node[k].owners \ {n}] IN
             /\ s \in NodeState
             /\ s.pc = node[k].pc /\ s.addr = node[k].addr /\ s.events = node[k].events
             /\ s.timer = node[k].timer /\ s.work = node[k].work
             /\ s.filter = node[k].filter /\ s.claimed = node[k].claimed
             /\ s.owners = node[k].owners \ {n}
  <2>1. node[k] \in NodeState
    BY DEF TypeInv
  <2> DEFINE o == node[k].owners \ {n}
  <2>2. o \in SUBSET Nodes
    BY <2>1 DEF NodeState
  <2> HIDE DEF o
  <2>3. [node[k] EXCEPT !.owners = o] \in NodeState
    BY <2>1, <2>2 DEF NodeState
  <2>4. LET s == [node[k] EXCEPT !.owners = o] IN
             /\ s.pc = node[k].pc /\ s.addr = node[k].addr /\ s.events = node[k].events
             /\ s.timer = node[k].timer /\ s.work = node[k].work
             /\ s.filter = node[k].filter /\ s.claimed = node[k].claimed
             /\ s.owners = o
    BY <2>1, <2>2 DEF NodeState
  <2> QED
    BY <2>3, <2>4 DEF o
<1>6. Off(a) \in NodeState
  BY <1>2, OffState
<1>7. node' \in [Nodes -> NodeState]
  <2>1. \A k \in Nodes : node'[k] \in NodeState
    BY <1>3, <1>4, <1>5, <1>6
  <2>2. node' = [k \in Nodes |-> node'[k]]
    BY <1>1
  <2> QED
    BY <2>1, <2>2
<1>8. node'[n].pc = "off" /\ node'[n].events = {} /\ node'[n].timer = FALSE /\ node'[n].work = FALSE
      /\ node'[n].filter = FALSE /\ node'[n].owners = {}
  BY <1>2, <1>3, OffState
<1> QED
  BY <1>4, <1>5, <1>7, <1>8

\* The bus leaves threads, addresses, timers, filters and owners alone.
BusStep(f) ==
    /\ air' = air \ {f} /\ node' \in [Nodes -> NodeState]
    /\ \A k \in Nodes : /\ node'[k].pc = node[k].pc /\ node'[k].addr = node[k].addr
                        /\ node'[k].timer = node[k].timer /\ node'[k].filter = node[k].filter
                        /\ node'[k].owners = node[k].owners

\* What a discovery frame does: whoever has its address and the filter will answer.
LEMMA DiscoveryStep ==
    ASSUME TypeInv, DiscoveryOnBus
    PROVE  \E f \in air :
             /\ f.kind = "discovery" /\ BusStep(f)
             /\ \A k \in Nodes :
                  /\ node'[k].events = node[k].events /\ node'[k].claimed = node[k].claimed
                  /\ k # f.from /\ node[k].filter /\ node[k].addr = f.addr => node'[k].work = TRUE
                  /\ node'[k].work = node[k].work \/ (node[k].filter /\ node'[k].work = TRUE)
<1>1. PICK f \in air : f.kind = "discovery" /\ air' = air \ {f} /\ thingset_can_addr_discovery_rx_cb(f)
  BY DEF DiscoveryOnBus
<1>2. \A k \in Nodes : node[k] \in NodeState
  BY DEF TypeInv
<1>3. node' = [m \in Nodes |-> IF m # f.from /\ Answers(m, f) THEN [node[m] EXCEPT !.work = TRUE] ELSE node[m]]
  BY <1>1 DEF thingset_can_addr_discovery_rx_cb
<1>4. ASSUME NEW k \in Nodes
      PROVE  /\ node'[k] \in NodeState
             /\ node'[k].pc = node[k].pc /\ node'[k].addr = node[k].addr
             /\ node'[k].timer = node[k].timer /\ node'[k].filter = node[k].filter
             /\ node'[k].owners = node[k].owners
             /\ node'[k].events = node[k].events /\ node'[k].claimed = node[k].claimed
             /\ k # f.from /\ node[k].filter /\ node[k].addr = f.addr => node'[k].work = TRUE
             /\ node'[k].work = node[k].work \/ (node[k].filter /\ node'[k].work = TRUE)
  <2>1. CASE k # f.from /\ Answers(k, f)
    <3>1. node'[k] = [node[k] EXCEPT !.work = TRUE]
      BY <1>3, <2>1
    <3>2. node'[k] \in NodeState
      BY <1>2, <3>1 DEF NodeState
    <3> QED
      BY <1>2, <2>1, <3>1, <3>2 DEF NodeState, Answers
  <2>2. CASE ~(k # f.from /\ Answers(k, f))
    <3>1. node'[k] = node[k]
      BY <1>3, <2>2
    <3> QED
      BY <1>2, <2>2, <3>1 DEF Answers
  <2> QED
    BY <2>1, <2>2
<1>5. node' \in [Nodes -> NodeState]
  <2>1. node' = [k \in Nodes |-> node'[k]]
    BY <1>3
  <2> QED
    BY <1>4, <2>1
<1> QED
  BY <1>1, <1>4, <1>5 DEF BusStep

\* What a claim frame does: its sender learns that it has been sent, and whoever
\* has its address that the address is in use.
LEMMA ClaimStep ==
    ASSUME TypeInv, ClaimOnBus
    PROVE  \E f \in air :
             /\ f.kind = "claim" /\ BusStep(f)
             /\ node'[f.from].events = node[f.from].events \cup {Sent}
             /\ node'[f.from].claimed = f.addr
             /\ \A k \in Nodes :
                  /\ node'[k].work = node[k].work
                  /\ k # f.from => /\ node'[k].claimed = node[k].claimed
                                   /\ node'[k].events \in {node[k].events, node[k].events \cup {Used}}
                                   /\ node[k].pc # "off" /\ node[k].addr = f.addr =>
                                        Used \in node'[k].events
<1>1. PICK f \in air :
         /\ f.kind = "claim" /\ air' = air \ {f}
         /\ node' = [m \in Nodes |-> IF m = f.from THEN thingset_can_addr_claim_tx_cb(f)
                                     ELSE thingset_can_addr_claim_rx_cb(m, f)]
  BY DEF ClaimOnBus
<1>2. f.from \in Nodes /\ f.addr \in Addrs /\ \A k \in Nodes : node[k] \in NodeState
  BY DEF TypeInv, Frame
<1>3. ASSUME NEW r \in NodeState, NEW e \in Events
      PROVE  LET s == [r EXCEPT !.events = r.events \cup {e}] IN
             /\ s \in NodeState /\ s.pc = r.pc /\ s.addr = r.addr /\ s.timer = r.timer /\ s.filter = r.filter
             /\ s.owners = r.owners /\ s.work = r.work /\ s.claimed = r.claimed /\ s.events = r.events \cup {e}
  <2> DEFINE v == r.events \cup {e}
  <2>1. v \in SUBSET Events
    BY DEF NodeState
  <2> HIDE DEF v
  <2>2. LET s == [r EXCEPT !.events = v] IN
          /\ s \in NodeState /\ s.pc = r.pc /\ s.addr = r.addr /\ s.timer = r.timer /\ s.filter = r.filter
          /\ s.owners = r.owners /\ s.work = r.work /\ s.claimed = r.claimed /\ s.events = v
    BY <2>1 DEF NodeState
  <2> QED
    BY <2>2 DEF v
<1>4. ASSUME NEW r \in NodeState, NEW a \in Addrs
      PROVE  LET s == [r EXCEPT !.events = r.events \cup {Sent}, !.claimed = a] IN
             /\ s \in NodeState /\ s.pc = r.pc /\ s.addr = r.addr /\ s.timer = r.timer /\ s.filter = r.filter
             /\ s.owners = r.owners /\ s.work = r.work /\ s.claimed = a /\ s.events = r.events \cup {Sent}
  <2> DEFINE v == r.events \cup {Sent}
  <2>1. v \in SUBSET Events
    BY DEF NodeState, Events
  <2> HIDE DEF v
  <2>2. LET s == [r EXCEPT !.events = v, !.claimed = a] IN
          /\ s \in NodeState /\ s.pc = r.pc /\ s.addr = r.addr /\ s.timer = r.timer /\ s.filter = r.filter
          /\ s.owners = r.owners /\ s.work = r.work /\ s.claimed = a /\ s.events = v
    BY <2>1 DEF NodeState
  <2> QED
    BY <2>2 DEF v
<1> DEFINE Same(k) == /\ node'[k] \in NodeState
                      /\ node'[k].pc = node[k].pc /\ node'[k].addr = node[k].addr
                      /\ node'[k].timer = node[k].timer /\ node'[k].filter = node[k].filter
                      /\ node'[k].owners = node[k].owners /\ node'[k].work = node[k].work
<1>5. Same(f.from) /\ node'[f.from].events = node[f.from].events \cup {Sent} /\ node'[f.from].claimed = f.addr
  <2>1. node'[f.from] = [node[f.from] EXCEPT !.events = node[f.from].events \cup {Sent}, !.claimed = f.addr]
    BY <1>1, <1>2 DEF thingset_can_addr_claim_tx_cb
  <2>2. node[f.from] \in NodeState
    BY <1>2
  <2>3. LET s == [node[f.from] EXCEPT !.events = node[f.from].events \cup {Sent}, !.claimed = f.addr] IN
          /\ s \in NodeState /\ s.pc = node[f.from].pc /\ s.addr = node[f.from].addr
          /\ s.timer = node[f.from].timer /\ s.filter = node[f.from].filter
          /\ s.owners = node[f.from].owners /\ s.work = node[f.from].work
          /\ s.claimed = f.addr /\ s.events = node[f.from].events \cup {Sent}
    BY <1>2, <1>4, <2>2, Zenon
  <2> QED
    BY <2>1, <2>3, Zenon
<1>6. ASSUME NEW k \in Nodes, k # f.from
      PROVE  /\ Same(k) /\ node'[k].claimed = node[k].claimed
             /\ node'[k].events \in {node[k].events, node[k].events \cup {Used}}
             /\ node[k].pc # "off" /\ node[k].addr = f.addr => Used \in node'[k].events
  <2>1. CASE Hears(k) /\ node[k].addr = f.addr
    <3>1. node'[k] = [node[k] EXCEPT !.events = node[k].events \cup {Used}]
      BY <1>1, <1>6, <2>1 DEF thingset_can_addr_claim_rx_cb
    <3>2. Used \in Events
      BY DEF Events
    <3> QED
      BY <1>2, <1>3, <3>1, <3>2
  <2>2. CASE ~(Hears(k) /\ node[k].addr = f.addr)
    <3>1. node'[k] = node[k]
      BY <1>1, <1>6, <2>2 DEF thingset_can_addr_claim_rx_cb
    <3> QED
      BY <1>2, <2>2, <3>1 DEF Hears
  <2> QED
    BY <2>1, <2>2
<1>7. node' \in [Nodes -> NodeState]
  <2>1. node' = [k \in Nodes |-> node'[k]]
    BY <1>1
  <2>2. \A k \in Nodes : node'[k] \in NodeState
    BY <1>2, <1>5, <1>6
  <2> QED
    BY <2>1, <2>2
<1>8. \A k \in Nodes : Same(k)
  BY <1>5, <1>6
<1>9. BusStep(f)
  BY <1>1, <1>7, <1>8 DEF BusStep
<1>10. \A k \in Nodes :
         /\ node'[k].work = node[k].work
         /\ k # f.from => /\ node'[k].claimed = node[k].claimed
                          /\ node'[k].events \in {node[k].events, node[k].events \cup {Used}}
                          /\ node[k].pc # "off" /\ node[k].addr = f.addr => Used \in node'[k].events
  BY <1>6, <1>8
<1> QED
  BY <1>1, <1>5, <1>9, <1>10, Zenon

\* What a collision does: nothing but for errs.
LEMMA CollisionStep ==
    ASSUME TypeInv, Collision
    PROVE  /\ air' = air /\ node' \in [Nodes -> NodeState]
           /\ \A k \in Nodes :
                /\ node'[k].pc = node[k].pc /\ node'[k].addr = node[k].addr
                /\ node'[k].timer = node[k].timer /\ node'[k].filter = node[k].filter
                /\ node'[k].owners = node[k].owners /\ node'[k].work = node[k].work
                /\ node'[k].events = node[k].events /\ node'[k].claimed = node[k].claimed
<1>1. PICK f, g \in air :
         /\ node' = [m \in Nodes |->
              IF m \in {f.from, g.from} THEN [node[m] EXCEPT !.errs = TRUE] ELSE node[m]]
         /\ air' = air
  BY DEF Collision
<1>2. \A k \in Nodes : node[k] \in NodeState
  BY DEF TypeInv
<1>3. ASSUME NEW r \in NodeState
      PROVE  LET s == [r EXCEPT !.errs = TRUE] IN
             /\ s \in NodeState /\ s.pc = r.pc /\ s.addr = r.addr /\ s.timer = r.timer /\ s.filter = r.filter
             /\ s.owners = r.owners /\ s.work = r.work /\ s.events = r.events /\ s.claimed = r.claimed
  BY DEF NodeState
<1>4. \A k \in Nodes : node'[k] = node[k] \/ node'[k] = [node[k] EXCEPT !.errs = TRUE]
  BY <1>1
<1>5. \A k \in Nodes :
        /\ node'[k] \in NodeState
        /\ node'[k].pc = node[k].pc /\ node'[k].addr = node[k].addr
        /\ node'[k].timer = node[k].timer /\ node'[k].filter = node[k].filter
        /\ node'[k].owners = node[k].owners /\ node'[k].work = node[k].work
        /\ node'[k].events = node[k].events /\ node'[k].claimed = node[k].claimed
  <2> TAKE k \in Nodes
  <2>1. CASE node'[k] = node[k]
    BY <1>2, <2>1
  <2>2. CASE node'[k] = [node[k] EXCEPT !.errs = TRUE]
    BY <1>2, <1>3, <2>2, Zenon
  <2> QED
    BY <1>4, <2>1, <2>2
<1>6. node' = [k \in Nodes |-> node'[k]]
  BY <1>1
<1> QED
  BY <1>1, <1>5, <1>6

\* What is fixed stays fixed.
LEMMA EnvFixed == ASSUME [Next]_vars PROVE env' = env
  BY DEF Next, vars, Boot, Reboot, Loop, SendDiscovery, DiscoveryFails, AddrInUse, NotUsed, GiveUp, Wake,
     ClaimSent, ClaimNotSent, CheckErrors, AddFilter, TimerExpires, ClaimWork, ClaimWorkFails,
     DiscoveryOnBus, ClaimOnBus, Collision

-----------------------------------------------------------------------------
(* Type correctness *)

\* A step of one node that is not a restart keeps the type invariant when it keeps
\* the node's own part of it.
LEMMA LocalType ==
    ASSUME TypeInv, NEW n \in Nodes, env' = env, air' \subseteq Frame,
           node' \in [Nodes -> NodeState], Others(n),
           node'[n].timer => node'[n].pc \in {"discover", "sleep", "wait_used", "wait_sent", "check"},
           node'[n].filter <=> node'[n].pc = "done",
           n \notin node'[n].owners, \A m \in node'[n].owners : node[m].pc = "done",
           node[n].pc = "done" => node'[n].pc = "done"
    PROVE  TypeInv'
<1>1. \A k \in Nodes : k # n => node'[k] = node[k]
  BY DEF Others
<1>2. \A k \in Nodes : node[k].pc = "done" => node'[k].pc = "done"
  BY <1>1
<1>3. ASSUME NEW k \in Nodes
      PROVE  /\ node'[k].timer => Claiming(k)' /\ node'[k].pc # "listen"
             /\ node'[k].filter <=> node'[k].pc = "done"
             /\ k \notin node'[k].owners
             /\ \A m \in node'[k].owners : node'[m].pc = "done"
  <2>1. CASE k = n
    <3>1. node'[n].owners \subseteq Nodes
      BY DEF NodeState
    <3> QED
      BY <1>2, <2>1, <3>1 DEF Claiming
  <2>2. CASE k # n
    <3>1. node[k].owners \subseteq Nodes
      BY DEF TypeInv, NodeState
    <3> QED
      BY <1>1, <1>2, <2>2, <3>1 DEF Claiming, TypeInv
  <2> QED
    BY <2>1, <2>2
<1> QED
  BY <1>3 DEF TypeInv

\* What holds in the initial state.
LEMMA TypeInit == Init => TypeInv
<1> SUFFICES ASSUME Init PROVE TypeInv
  OBVIOUS
<1>1. \A n \in Nodes : \E a \in Addrs : node[n] = Off(a)
  BY ClaimAssumptions DEF Init, ClaimAssumptions, Addrs
<1>2. \A n \in Nodes : node[n] \in NodeState /\ node[n].pc = "off" /\ node[n].timer = FALSE
                       /\ node[n].filter = FALSE /\ node[n].owners = {}
  <2> TAKE n \in Nodes
  <2>1. PICK a \in Addrs : node[n] = Off(a)
    BY <1>1
  <2> QED
    BY <2>1, OffState
<1>3. node \in [Nodes -> NodeState]
  <2>1. node = [k \in Nodes |-> node[k]]
    BY DEF Init
  <2> QED
    BY <1>2, <2>1
<1>4. env \in Env /\ air = {}
  BY ClaimAssumptions DEF Init, ClaimAssumptions
<1> QED
  BY <1>2, <1>3, <1>4 DEF TypeInv

\* Every step keeps it.
LEMMA TypeNext == TypeInv /\ [Next]_vars => TypeInv'
<1> SUFFICES ASSUME TypeInv, [Next]_vars PROVE TypeInv'
  OBVIOUS
<1>1. \A n \in Nodes : node[n] \in NodeState
  BY DEF TypeInv
<1>2. \A n \in Nodes :
        /\ node[n].pc \in Pcs /\ node[n].addr \in Addrs /\ node[n].owners \subseteq Nodes
        /\ node[n].timer \in BOOLEAN /\ node[n].work \in BOOLEAN /\ node[n].filter \in BOOLEAN
  BY <1>1 DEF NodeState
<1>3. \A n \in Nodes :
         /\ node[n].timer => node[n].pc \in {"discover", "sleep", "wait_used", "wait_sent", "check"}
         /\ node[n].filter <=> node[n].pc = "done"
         /\ n \notin node[n].owners
         /\ \A m \in node[n].owners : node[m].pc = "done"
  BY DEF TypeInv, Claiming
<1>4. air \subseteq Frame
  BY DEF TypeInv
<1>5. \A n \in Nodes : Discovery(n, node[n].addr) \in Frame /\ Claim(n, node[n].addr) \in Frame
  BY <1>2 DEF Discovery, Claim, Frame
<1>6. Timeouts \in BOOLEAN
  BY DEF TypeInv, Env, Timeouts
<1>b. ASSUME NEW n \in Nodes, Boot(n) PROVE TypeInv'
  <2>1. env' = env /\ air' = air /\ node[n].pc = "off"
    BY <1>b DEF Boot
  <2>2. Becomes(n, "discover", node[n].addr, {}, Timeouts, FALSE, FALSE, {}, 0)
    BY <1>b, BootStep
  <2> QED
    BY <1>4, <1>6, <2>1, <2>2, LocalType DEF Becomes
<1>r. ASSUME NEW n \in Nodes, Reboot(n) PROVE TypeInv'
  <2>1. env' = env /\ air' \subseteq air
    BY <1>r DEF Reboot
  <2>0. \A k \in Nodes : k # n =>
          /\ node'[k].pc = node[k].pc /\ node'[k].timer = node[k].timer
          /\ node'[k].filter = node[k].filter /\ node'[k].owners = node[k].owners \ {n}
    BY <1>r, RebootStep
  <2>2. ASSUME NEW k \in Nodes
        PROVE  /\ node'[k].timer => Claiming(k)' /\ node'[k].pc # "listen"
               /\ node'[k].filter <=> node'[k].pc = "done"
               /\ k \notin node'[k].owners
               /\ \A m \in node'[k].owners : node'[m].pc = "done"
    <3>1. CASE k = n
      BY <1>r, <3>1, RebootStep
    <3>2. CASE k # n
      <4>1. \A m \in node'[k].owners : m \in Nodes \ {n} /\ node'[m].pc = "done"
        BY <1>2, <1>3, <2>0, <3>2
      <4> QED
        BY <1>2, <1>3, <2>0, <3>2, <4>1 DEF Claiming
    <3> QED
      BY <3>1, <3>2
  <2>3. node' \in [Nodes -> NodeState]
    BY <1>r, RebootStep
  <2> QED
    BY <1>4, <2>1, <2>2, <2>3 DEF TypeInv
<1>sd. ASSUME NEW n \in Nodes, SendDiscovery(n) PROVE TypeInv'
  <2>1. env' = env /\ air' \subseteq Frame /\ node[n].pc = "discover"
    BY <1>4, <1>5, <1>sd DEF SendDiscovery
  <2>2. Becomes(n, "wait_used", node[n].addr, node[n].events \ {Used, Sent, Finished}, node[n].timer,
                node[n].work, node[n].filter, {m \in Nodes : node[m].pc = "done"}, node[n].claimed)
    BY <1>sd, SendDiscoveryStep
  <2>3. n \notin {m \in Nodes : node[m].pc = "done"}
    BY <2>1
  <2> QED
    BY <1>2, <1>3, <2>1, <2>2, <2>3, LocalType DEF Becomes
<1>df. ASSUME NEW n \in Nodes, DiscoveryFails(n) PROVE TypeInv'
  <2>1. env' = env /\ air' = air /\ node[n].pc = "discover"
    BY <1>df DEF DiscoveryFails
  <2> QED
    BY <1>2, <1>3, <1>4, <1>df, <2>1, DiscoveryFailsStep, LocalType DEF Becomes
<1>wk. ASSUME NEW n \in Nodes, Wake(n) PROVE TypeInv'
  <2>1. env' = env /\ air' = air /\ node[n].pc = "sleep"
    BY <1>wk DEF Wake
  <2> QED
    BY <1>2, <1>3, <1>4, <1>wk, <2>1, WakeStep, LocalType DEF Becomes
<1>ai. ASSUME NEW n \in Nodes, AddrInUse(n) PROVE TypeInv'
  <2>1. env' = env /\ air' = air /\ node[n].pc = "wait_used"
    BY <1>ai DEF AddrInUse
  <2> QED
    BY <1>2, <1>3, <1>4, <1>ai, <2>1, AddrInUseStep, LocalType DEF Becomes
<1>nu. ASSUME NEW n \in Nodes, NotUsed(n) PROVE TypeInv'
  <2>1. env' = env /\ air' = air /\ node[n].pc = "wait_used"
    BY <1>nu DEF NotUsed
  <2>2. /\ node' \in [Nodes -> NodeState] /\ Others(n) /\ node'[n].pc = "wait_sent"
        /\ node'[n].timer = node[n].timer /\ node'[n].filter = node[n].filter /\ node'[n].owners = node[n].owners
    BY <1>nu, NotUsedStep DEF Becomes
  <2>3. /\ node' \in [Nodes -> NodeState] /\ Others(n)
        /\ node'[n].timer => node'[n].pc \in {"discover", "sleep", "wait_used", "wait_sent", "check"}
        /\ node'[n].filter <=> node'[n].pc = "done"
        /\ node'[n].owners = node[n].owners
    BY <1>3, <2>1, <2>2
  <2> QED
    BY <1>2, <1>3, <1>4, <2>1, <2>3, LocalType
<1>gu. ASSUME NEW n \in Nodes, GiveUp(n) PROVE TypeInv'
  <2>1. env' = env /\ air' = air /\ node[n].pc \in {"wait_used", "wait_sent"}
    BY <1>gu DEF GiveUp
  <2> QED
    BY <1>2, <1>3, <1>4, <1>gu, <2>1, GiveUpStep, LocalType DEF Becomes
<1>cs. ASSUME NEW n \in Nodes, ClaimSent(n) PROVE TypeInv'
  <2>1. env' = env /\ air' = air /\ node[n].pc = "wait_sent"
    BY <1>cs DEF ClaimSent
  <2> QED
    BY <1>2, <1>3, <1>4, <1>cs, <2>1, ClaimSentStep, LocalType DEF Becomes
<1>cn. ASSUME NEW n \in Nodes, ClaimNotSent(n) PROVE TypeInv'
  <2>1. env' = env /\ air' = air /\ node[n].pc = "wait_sent"
    BY <1>cn DEF ClaimNotSent
  <2> QED
    BY <1>2, <1>3, <1>4, <1>cn, <2>1, ClaimNotSentStep, LocalType DEF Becomes
<1>ce. ASSUME NEW n \in Nodes, CheckErrors(n) PROVE TypeInv'
  <2>1. env' = env /\ air' = air /\ node[n].pc = "check"
    BY <1>ce DEF CheckErrors
  <2> QED
    BY <1>2, <1>3, <1>4, <1>ce, <2>1, CheckErrorsStep, LocalType DEF Becomes
<1>af. ASSUME NEW n \in Nodes, AddFilter(n) PROVE TypeInv'
  <2>1. env' = env /\ air' = air /\ node[n].pc = "listen"
    BY <1>af DEF AddFilter
  <2>2. /\ node' \in [Nodes -> NodeState] /\ Others(n) /\ node'[n].pc = "done"
        /\ node'[n].timer = node[n].timer /\ node'[n].filter = TRUE /\ node'[n].owners = node[n].owners
    BY <1>af, AddFilterStep DEF Becomes
  <2>3. /\ node' \in [Nodes -> NodeState] /\ Others(n)
        /\ node'[n].timer => node'[n].pc \in {"discover", "sleep", "wait_used", "wait_sent", "check"}
        /\ node'[n].filter <=> node'[n].pc = "done"
        /\ node'[n].owners = node[n].owners
    BY <1>3, <2>1, <2>2
  <2> QED
    BY <1>2, <1>3, <1>4, <2>1, <2>3, LocalType
<1>te. ASSUME NEW n \in Nodes, TimerExpires(n) PROVE TypeInv'
  <2>1. env' = env /\ air' = air
    BY <1>te DEF TimerExpires
  <2> QED
    BY <1>2, <1>3, <1>4, <1>te, <2>1, TimerExpiresStep, LocalType DEF Becomes
<1>cw. ASSUME NEW n \in Nodes, ClaimWork(n) \/ ClaimWorkFails(n) PROVE TypeInv'
  <2>1. env' = env /\ air' \subseteq Frame
    BY <1>4, <1>5, <1>cw DEF ClaimWork, ClaimWorkFails
  <2> QED
    BY <1>2, <1>3, <1>cw, <2>1, ClaimWorkStep, LocalType DEF Becomes
<1>bus. CASE DiscoveryOnBus \/ ClaimOnBus
  <2>1. PICK f \in air : BusStep(f)
    BY <1>bus, DiscoveryStep, ClaimStep
  <2>2. env' = env
    BY <1>bus DEF DiscoveryOnBus, ClaimOnBus
  <2> QED
    BY <1>2, <1>3, <1>4, <2>1, <2>2 DEF BusStep, TypeInv, Claiming
<1>co. CASE Collision
  <2>1. env' = env
    BY <1>co DEF Collision
  <2> QED
    BY <1>2, <1>3, <1>4, <1>co, <2>1, CollisionStep DEF TypeInv, Claiming
<1>un. CASE UNCHANGED vars
  BY <1>un DEF vars, TypeInv, Claiming
<1> QED
  BY <1>b, <1>r, <1>sd, <1>df, <1>wk, <1>ai, <1>nu, <1>gu, <1>cs, <1>cn, <1>ce, <1>af, <1>te, <1>cw,
     <1>bus, <1>co, <1>un DEF Next, Loop

\* Whatever the bus does, a node stays within the address range, its timer runs
\* only while it claims and it has the discovery filter exactly when it is done.
THEOREM TypeCorrect == Spec => []TypeOK
<1>1. TypeInv => TypeOK
  BY DEF TypeInv, TypeOK, NodeState, Addrs
<1> QED
  BY <1>1, TypeInit, TypeNext, PTL DEF Spec

-----------------------------------------------------------------------------
(* A node that is done has claimed its address *)

\* Which frames a step of one node may leave on the way.
NoNewClaim == \A f \in air' : f.kind = "claim" => f \in air

\* A step of one node that sends no claim.
LEMMA LocalClaim ==
    ASSUME TypeInv, ClaimsAreOwn, \A k \in Nodes : OneClaim(k),
           NEW n \in Nodes, Others(n), NoNewClaim,
           NoClaimOf(n) \/ (node'[n].addr = node[n].addr /\ MayClaim(n)'), OneClaim(n)'
    PROVE  ClaimsAreOwn' /\ \A k \in Nodes : OneClaim(k)'
<1>1. \A k \in Nodes : k # n => node'[k] = node[k]
  BY DEF Others
<1>2. ASSUME NEW f \in air', f.kind = "claim" PROVE f.addr = node'[f.from].addr /\ MayClaim(f.from)'
  <2>1. f \in air /\ f.from \in Nodes /\ f.addr = node[f.from].addr /\ MayClaim(f.from)
    BY <1>2 DEF NoNewClaim, ClaimsAreOwn, TypeInv, Frame
  <2>2. CASE f.from = n
    BY <1>2, <2>1, <2>2 DEF NoClaimOf
  <2>3. CASE f.from # n
    BY <1>1, <2>1, <2>3 DEF MayClaim
  <2> QED
    BY <2>2, <2>3
<1>3. \A k \in Nodes : NoClaimOf(k) => NoClaimOf(k)'
  BY DEF NoClaimOf, NoNewClaim
<1>4. ASSUME NEW k \in Nodes, k # n PROVE OneClaim(k)'
  BY <1>1, <1>3, <1>4 DEF OneClaim, MayClaim
<1> QED
  BY <1>2, <1>4 DEF ClaimsAreOwn

\* Nothing of a node is on the way while it does not claim.
LEMMA Silent ==
    ASSUME TypeInv, ClaimsAreOwn, NEW n \in Nodes, OneClaim(n),
           node[n].pc \notin {"wait_sent", "failed", "done"}
    PROVE  NoClaimOf(n) /\ node[n].work = FALSE
<1>1. node[n].work \in BOOLEAN
  BY DEF TypeInv, NodeState
<1>2. NoClaimOf(n)
  BY DEF ClaimsAreOwn, NoClaimOf, MayClaim
<1> QED
  BY <1>1, <1>2 DEF OneClaim, MayClaim

\* What holds in the initial state.
LEMMA OwnClaimInit == Init => OwnClaimInv
<1> SUFFICES ASSUME Init PROVE ClaimsAreOwn /\ \A n \in Nodes : OneClaim(n)
  BY DEF OwnClaimInv
<1>1. ClaimsAreOwn
  BY DEF Init, ClaimsAreOwn
<1>2. ASSUME NEW n \in Nodes PROVE OneClaim(n)
  <2>1. PICK a \in Addrs : node[n] = Off(a)
    BY ClaimAssumptions DEF Init, ClaimAssumptions, Addrs
  <2>2. node[n].pc = "off" /\ node[n].work = FALSE
    BY <2>1, OffState
  <2> QED
    BY <2>2 DEF OneClaim
<1> QED
  BY <1>1, <1>2

\* Every step keeps it.
LEMMA OwnClaimNext == TypeInv /\ OwnClaimInv /\ [Next]_vars => OwnClaimInv'
<1> SUFFICES ASSUME TypeInv, OwnClaimInv, [Next]_vars, ~LateFrames'
             PROVE  ClaimsAreOwn' /\ \A n \in Nodes : OneClaim(n)'
  BY DEF OwnClaimInv
<1>1. ~LateFrames
  BY EnvFixed DEF LateFrames
<1>2. ClaimsAreOwn /\ \A n \in Nodes : OneClaim(n)
  BY <1>1 DEF OwnClaimInv
<1> DEFINE Inv == ClaimsAreOwn /\ \A n \in Nodes : OneClaim(n)
<1>b. ASSUME NEW n \in Nodes, Boot(n) PROVE Inv'
  <2>1. air' = air /\ node[n].pc = "off"
    BY <1>b DEF Boot
  <2>2. Others(n) /\ node'[n].pc = "discover" /\ node'[n].work = FALSE
    BY <1>b, BootStep DEF Becomes
  <2>3. OneClaim(n)'
    BY <2>2 DEF OneClaim
  <2> QED
    BY <1>2, <2>1, <2>2, <2>3, Silent, LocalClaim DEF NoNewClaim
<1>r. ASSUME NEW n \in Nodes, Reboot(n) PROVE Inv'
  <2>1. air' = {f \in air : f.from # n}
    BY <1>r DEF Reboot
  <2>2. node'[n].pc = "off" /\ node'[n].work = FALSE
    BY <1>r, RebootStep
  <2>3. \A k \in Nodes : k # n =>
          /\ node'[k].pc = node[k].pc /\ node'[k].addr = node[k].addr /\ node'[k].events = node[k].events
          /\ node'[k].work = node[k].work /\ node'[k].claimed = node[k].claimed
    BY <1>r, RebootStep
  <2>4. ClaimsAreOwn'
    BY <1>2, <2>1, <2>3 DEF ClaimsAreOwn, MayClaim, TypeInv, Frame
  <2>5. OneClaim(n)'
    BY <2>2 DEF OneClaim
  <2>6. ASSUME NEW k \in Nodes, k # n PROVE OneClaim(k)'
    <3>1. NoClaimOf(k) => NoClaimOf(k)'
      BY <2>1 DEF NoClaimOf
    <3> QED
      BY <1>2, <2>3, <2>6, <3>1 DEF OneClaim, MayClaim
  <2> QED
    BY <2>4, <2>5, <2>6
<1>sd. ASSUME NEW n \in Nodes, SendDiscovery(n) PROVE Inv'
  <2>1. node[n].pc = "discover" /\ air' = air \cup {Discovery(n, node[n].addr)}
    BY <1>sd DEF SendDiscovery
  <2>2. Discovery(n, node[n].addr).kind = "discovery"
    BY DEF Discovery
  <2>3. NoNewClaim
    BY <2>1, <2>2 DEF NoNewClaim
  <2>4. NoClaimOf(n) /\ node[n].work = FALSE
    BY <1>2, <2>1, Silent
  <2>5. Others(n) /\ node'[n].pc = "wait_used" /\ node'[n].work = FALSE /\ Sent \notin node'[n].events
    BY <1>sd, <2>4, SendDiscoveryStep DEF Becomes
  <2>6. OneClaim(n)'
    BY <2>5 DEF OneClaim
  <2> QED
    BY <1>2, <2>3, <2>4, <2>5, <2>6, LocalClaim
<1>df. ASSUME NEW n \in Nodes, DiscoveryFails(n) \/ Wake(n) \/ AddrInUse(n) PROVE Inv'
  <2>1. node[n].pc \in {"discover", "sleep", "wait_used"} /\ air' = air
    BY <1>df DEF DiscoveryFails, Wake, AddrInUse
  <2>2. NoClaimOf(n) /\ node[n].work = FALSE
    BY <1>2, <2>1, Silent
  <2>3. Others(n) /\ node'[n].pc \in {"discover", "sleep"} /\ node'[n].work = FALSE
    BY <1>df, <2>2, DiscoveryFailsStep, WakeStep, AddrInUseStep DEF Becomes
  <2>4. OneClaim(n)'
    BY <2>3 DEF OneClaim
  <2> QED
    BY <1>2, <2>1, <2>2, <2>3, <2>4, LocalClaim DEF NoNewClaim
<1>nu. ASSUME NEW n \in Nodes, NotUsed(n) PROVE Inv'
  <2>1. node[n].pc = "wait_used" /\ air' = air
    BY <1>nu DEF NotUsed
  <2>2. NoClaimOf(n) /\ Sent \notin node[n].events
    BY <1>2, <2>1, Silent DEF OneClaim
  <2>3. Others(n) /\ node'[n].pc = "wait_sent" /\ Sent \notin node'[n].events
    BY <1>nu, <2>2, NotUsedStep DEF Becomes
  <2>4. OneClaim(n)'
    BY <2>1, <2>2, <2>3 DEF OneClaim, MayClaim, NoClaimOf
  <2> QED
    BY <1>2, <2>1, <2>2, <2>3, <2>4, LocalClaim DEF NoNewClaim
<1>gu. ASSUME NEW n \in Nodes, GiveUp(n) PROVE Inv'
  <2>1. air' = air
    BY <1>gu DEF GiveUp
  <2>2. Others(n) /\ node'[n].pc = "failed" /\ node'[n].addr = node[n].addr
    BY <1>gu, GiveUpStep DEF Becomes
  <2>3. OneClaim(n)' /\ MayClaim(n)'
    BY <2>2 DEF OneClaim, MayClaim
  <2> QED
    BY <1>2, <2>1, <2>2, <2>3, LocalClaim DEF NoNewClaim
<1>cs. ASSUME NEW n \in Nodes, ClaimSent(n) PROVE Inv'
  <2>1. node[n].pc = "wait_sent" /\ Sent \in node[n].events /\ air' = air
    BY <1>cs DEF ClaimSent
  <2>2. NoClaimOf(n) /\ ~node[n].work /\ node[n].claimed = node[n].addr
    BY <1>2, <2>1 DEF OneClaim
  <2>3. Others(n) /\ node'[n].pc = "check" /\ ~node'[n].work /\ node'[n].claimed = node'[n].addr
    BY <1>cs, <2>2, ClaimSentStep DEF Becomes
  <2>4. OneClaim(n)'
    BY <2>3 DEF OneClaim
  <2> QED
    BY <1>2, <2>1, <2>2, <2>3, <2>4, LocalClaim DEF NoNewClaim
<1>cn. ASSUME NEW n \in Nodes, ClaimNotSent(n) PROVE Inv'
  <2>1. ~node[n].work /\ Claim(n, node[n].addr) \notin air /\ air' = air
    BY <1>1, <1>cn DEF ClaimNotSent
  <2>2. NoClaimOf(n)
    <3> SUFFICES ASSUME NEW f \in air, f.kind = "claim", f.from = n PROVE FALSE
      BY DEF NoClaimOf
    <3>1. f = Claim(n, node[n].addr)
      BY <1>2 DEF ClaimsAreOwn, TypeInv, Frame, Claim
    <3> QED
      BY <2>1, <3>1
  <2>3. Others(n) /\ node'[n].pc = "sleep" /\ ~node'[n].work
    BY <1>cn, <2>1, ClaimNotSentStep DEF Becomes
  <2>4. OneClaim(n)'
    BY <2>3 DEF OneClaim
  <2> QED
    BY <1>2, <2>1, <2>2, <2>3, <2>4, LocalClaim DEF NoNewClaim
<1>ce. ASSUME NEW n \in Nodes, CheckErrors(n) PROVE Inv'
  <2>1. node[n].pc = "check" /\ air' = air
    BY <1>ce DEF CheckErrors
  <2>2. NoClaimOf(n) /\ node[n].work = FALSE /\ node[n].claimed = node[n].addr
    BY <1>2, <2>1, Silent DEF OneClaim
  <2>3. /\ Others(n) /\ node'[n].pc \in {"discover", "listen"} /\ node'[n].work = FALSE
        /\ node'[n].claimed = node'[n].addr
    BY <1>ce, <2>2, CheckErrorsStep DEF Becomes
  <2>4. OneClaim(n)'
    BY <2>3 DEF OneClaim
  <2> QED
    BY <1>2, <2>1, <2>2, <2>3, <2>4, LocalClaim DEF NoNewClaim
<1>af. ASSUME NEW n \in Nodes, AddFilter(n) PROVE Inv'
  <2>1. node[n].pc = "listen" /\ air' = air
    BY <1>af DEF AddFilter
  <2>2. NoClaimOf(n) /\ node[n].claimed = node[n].addr
    BY <1>2, <2>1, Silent DEF OneClaim
  <2>3. Others(n) /\ node'[n].pc = "done" /\ node'[n].claimed = node'[n].addr
    BY <1>af, <2>2, AddFilterStep DEF Becomes
  <2>4. OneClaim(n)'
    BY <2>3 DEF OneClaim, MayClaim
  <2> QED
    BY <1>2, <2>1, <2>2, <2>3, <2>4, LocalClaim DEF NoNewClaim
<1>te. ASSUME NEW n \in Nodes, TimerExpires(n) PROVE Inv'
  <2>1. air' = air
    BY <1>te DEF TimerExpires
  <2>0. Sent \notin {TimedOut}
    BY DEF Sent, TimedOut
  <2>2. /\ Others(n) /\ node'[n].pc = node[n].pc /\ node'[n].addr = node[n].addr /\ Sent \notin node'[n].events
        /\ node'[n].work = node[n].work /\ node'[n].claimed = node[n].claimed
    BY <1>te, <2>0, TimerExpiresStep DEF Becomes
  <2>3. OneClaim(n)'
    BY <1>2, <2>1, <2>2 DEF OneClaim, MayClaim, NoClaimOf
  <2>4. NoClaimOf(n) \/ MayClaim(n)'
    BY <1>2, <2>2 DEF ClaimsAreOwn, NoClaimOf, MayClaim
  <2> QED
    BY <1>2, <2>1, <2>2, <2>3, <2>4, LocalClaim DEF NoNewClaim
<1>cf. ASSUME NEW n \in Nodes, ClaimWorkFails(n) PROVE Inv'
  <2>1. air' = air /\ node[n].work
    BY <1>cf DEF ClaimWorkFails
  <2>2. /\ Others(n) /\ node'[n].pc = node[n].pc /\ node'[n].addr = node[n].addr
        /\ node'[n].events = node[n].events /\ ~node'[n].work /\ node'[n].claimed = node[n].claimed
    BY <1>cf, ClaimWorkStep DEF Becomes
  <2>3. OneClaim(n)' /\ MayClaim(n)'
    BY <1>2, <2>1, <2>2 DEF OneClaim, MayClaim, NoClaimOf
  <2> QED
    BY <1>2, <2>1, <2>2, <2>3, LocalClaim DEF NoNewClaim
<1>cw. ASSUME NEW n \in Nodes, ClaimWork(n) PROVE Inv'
  <2> DEFINE c == Claim(n, node[n].addr)
  <2>1. air' = air \cup {c} /\ node[n].work
    BY <1>cw DEF ClaimWork
  <2>2. /\ Others(n) /\ node'[n].pc = node[n].pc /\ node'[n].addr = node[n].addr
        /\ node'[n].events = node[n].events /\ ~node'[n].work /\ node'[n].claimed = node[n].claimed
    BY <1>cw, ClaimWorkStep DEF Becomes
  <2>3. c.from = n /\ c.addr = node[n].addr
    BY DEF Claim
  <2> HIDE DEF c
  <2>4. MayClaim(n) /\ MayClaim(n)'
    BY <1>2, <2>1, <2>2 DEF OneClaim, MayClaim
  <2>5. \A k \in Nodes : k # n => node'[k] = node[k]
    BY <2>2 DEF Others
  <2>6. ClaimsAreOwn'
    <3> SUFFICES ASSUME NEW f \in air', f.kind = "claim"
                 PROVE  f.addr = node'[f.from].addr /\ MayClaim(f.from)'
      BY DEF ClaimsAreOwn
    <3>1. CASE f = c
      BY <2>2, <2>3, <2>4, <3>1
    <3>2. CASE f \in air
      <4>1. f.from \in Nodes /\ f.addr = node[f.from].addr /\ MayClaim(f.from)
        BY <1>2, <3>2 DEF ClaimsAreOwn, TypeInv, Frame
      <4> QED
        BY <2>2, <2>5, <4>1 DEF MayClaim
    <3> QED
      BY <2>1, <3>1, <3>2
  <2>7. OneClaim(n)'
    BY <1>2, <2>1, <2>2, <2>4 DEF OneClaim
  <2>8. ASSUME NEW k \in Nodes, k # n PROVE OneClaim(k)'
    <3>1. NoClaimOf(k) => NoClaimOf(k)'
      BY <2>1, <2>3, <2>8 DEF NoClaimOf
    <3> QED
      BY <1>2, <2>5, <2>8, <3>1 DEF OneClaim, MayClaim
  <2> QED
    BY <2>6, <2>7, <2>8
<1>dis. CASE DiscoveryOnBus
  <2>1. PICK f \in air :
          /\ f.kind = "discovery" /\ BusStep(f)
          /\ \A k \in Nodes :
               /\ node'[k].events = node[k].events /\ node'[k].claimed = node[k].claimed
               /\ node'[k].work = node[k].work \/ (node[k].filter /\ node'[k].work = TRUE)
    BY <1>dis, DiscoveryStep
  <2>2. air' \subseteq air /\ \A k \in Nodes : node'[k].pc = node[k].pc /\ node'[k].addr = node[k].addr
    BY <2>1 DEF BusStep
  <2>3. ClaimsAreOwn'
    BY <1>2, <2>2 DEF ClaimsAreOwn, MayClaim, TypeInv, Frame
  <2>4. ASSUME NEW k \in Nodes PROVE OneClaim(k)'
    <3>1. NoClaimOf(k) => NoClaimOf(k)'
      BY <2>2 DEF NoClaimOf
    <3>2. node[k].filter => node[k].pc = "done"
      BY DEF TypeInv
    <3>3. node'[k].work = node[k].work \/ node[k].pc = "done"
      BY <2>1, <3>2
    <3>4. OneClaim(k)
      BY <1>2
    <3> QED
      BY <2>1, <2>2, <3>1, <3>3, <3>4 DEF OneClaim, MayClaim
  <2> QED
    BY <2>3, <2>4
<1>cl. CASE ClaimOnBus
  <2>1. PICK f \in air :
             /\ f.kind = "claim" /\ BusStep(f)
             /\ node'[f.from].events = node[f.from].events \cup {Sent}
             /\ node'[f.from].claimed = f.addr
             /\ \A k \in Nodes :
                  /\ node'[k].work = node[k].work
                  /\ k # f.from => /\ node'[k].claimed = node[k].claimed
                                   /\ node'[k].events \in {node[k].events, node[k].events \cup {Used}}
    BY <1>cl, ClaimStep
  <2>2. air' = air \ {f} /\ \A k \in Nodes : node'[k].pc = node[k].pc /\ node'[k].addr = node[k].addr
    BY <2>1 DEF BusStep
  <2>3. ClaimsAreOwn'
    BY <1>2, <2>2 DEF ClaimsAreOwn, MayClaim, TypeInv, Frame
  <2>4. f.from \in Nodes /\ f.addr = node[f.from].addr /\ MayClaim(f.from)
    BY <1>2, <2>1 DEF ClaimsAreOwn, TypeInv, Frame
  <2>5. (NoClaimOf(f.from))'
    <3> SUFFICES ASSUME NEW g \in air', g.kind = "claim", g.from = f.from PROVE FALSE
      BY DEF NoClaimOf
    <3>1. g \in air /\ g # f
      BY <2>2
    <3>2. g.addr = node[f.from].addr /\ g \in Frame /\ f \in Frame
      BY <1>2, <3>1 DEF ClaimsAreOwn, TypeInv
    <3>3. g = f
      BY <2>1, <2>4, <3>2 DEF Frame
    <3> QED
      BY <3>1, <3>3
  <2>6. OneClaim(f.from)'
    <3>1. ~NoClaimOf(f.from)
      BY <2>1 DEF NoClaimOf
    <3>2. node[f.from].work \in BOOLEAN
      BY <2>4 DEF TypeInv, NodeState
    <3>3. OneClaim(f.from)
      BY <1>2, <2>4
    <3>4. node[f.from].pc = "wait_sent" => node[f.from].work = FALSE
      BY <3>1, <3>2, <3>3 DEF OneClaim
    <3> QED
      BY <2>1, <2>2, <2>4, <2>5, <3>3, <3>4 DEF OneClaim, MayClaim
  <2>7. ASSUME NEW k \in Nodes, k # f.from PROVE OneClaim(k)'
    <3>1. NoClaimOf(k) => NoClaimOf(k)'
      BY <2>2 DEF NoClaimOf
    <3>2. Sent \in node'[k].events <=> Sent \in node[k].events
      BY <2>1, <2>7 DEF Sent, Used
    <3>3. OneClaim(k)
      BY <1>2
    <3> QED
      BY <2>1, <2>2, <2>7, <3>1, <3>2, <3>3 DEF OneClaim, MayClaim
  <2> QED
    BY <2>3, <2>6, <2>7
<1>co. CASE Collision \/ UNCHANGED vars
  <2>1. /\ air' = air
        /\ \A k \in Nodes :
             /\ node'[k].pc = node[k].pc /\ node'[k].addr = node[k].addr
             /\ node'[k].work = node[k].work
             /\ node'[k].events = node[k].events /\ node'[k].claimed = node[k].claimed
    BY <1>co, CollisionStep DEF vars
  <2>2. ClaimsAreOwn'
    BY <1>2, <2>1 DEF ClaimsAreOwn, MayClaim, TypeInv, Frame
  <2>3. ASSUME NEW k \in Nodes PROVE OneClaim(k)'
    <3>1. NoClaimOf(k)' = NoClaimOf(k)
      BY <2>1 DEF NoClaimOf
    <3> QED
      BY <1>2, <2>1, <3>1 DEF OneClaim, MayClaim
  <2> QED
    BY <2>2, <2>3
<1> QED
  BY <1>b, <1>r, <1>sd, <1>df, <1>nu, <1>gu, <1>cs, <1>cn, <1>ce, <1>af, <1>te, <1>cf, <1>cw,
     <1>dis, <1>cl, <1>co DEF Next, Loop

\* Every node works only under an address that its own claim has carried to the
\* others, whatever fails and however many nodes claim at once, if claims are not late.
THEOREM ClaimedWhenDone == Spec => []DoneMeansClaimed
<1>1. Init => TypeInv /\ OwnClaimInv
  BY TypeInit, OwnClaimInit
<1>2. TypeInv /\ OwnClaimInv /\ [Next]_vars => (TypeInv /\ OwnClaimInv)'
  BY TypeNext, OwnClaimNext
<1>3. TypeInv /\ OwnClaimInv => DoneMeansClaimed
  BY DEF OwnClaimInv, OneClaim, DoneMeansClaimed, ClaimSeen
<1> QED
  BY <1>1, <1>2, <1>3, PTL DEF Spec

-----------------------------------------------------------------------------
(* Owners keep their address *)

\* A step of a node that is not done, and so nobody's owner.
LEMMA LocalAnswer ==
    ASSUME TypeInv, \A k \in Nodes : \A m \in node[k].owners : Answered(k, m) /\ Avoided(k, m),
           NEW n \in Nodes, node[n].pc # "done", Others(n), air \subseteq air',
           \A m \in node'[n].owners : (Answered(n, m) /\ Avoided(n, m))'
    PROVE  \A k \in Nodes : \A m \in node'[k].owners : (Answered(k, m) /\ Avoided(k, m))'
<1> SUFFICES ASSUME NEW k \in Nodes, k # n, NEW m \in node'[k].owners
             PROVE  (Answered(k, m) /\ Avoided(k, m))'
  OBVIOUS
<1>1. node'[k] = node[k]
  BY DEF Others
<1>2. m \in node[k].owners /\ m \in Nodes /\ node[m].pc = "done"
  BY <1>1 DEF TypeInv, NodeState
<1>3. node'[m] = node[m]
  BY <1>2 DEF Others
<1>4. Answered(k, m) /\ Avoided(k, m)
  BY <1>2
<1> QED
  BY <1>1, <1>3, <1>4 DEF Answered, Avoided

\* What holds in the initial state.
LEMMA AnswerInit == Init => AnswerInv
<1> SUFFICES ASSUME Init PROVE \A n \in Nodes : node[n].owners = {}
  BY DEF AnswerInv
<1>1. ASSUME NEW n \in Nodes PROVE node[n].owners = {}
  <2>1. PICK a \in Addrs : node[n] = Off(a)
    BY ClaimAssumptions DEF Init, ClaimAssumptions, Addrs
  <2> QED
    BY <2>1, OffState
<1> QED
  BY <1>1

\* Every step keeps it.
LEMMA AnswerNext == TypeInv /\ AnswerInv /\ [Next]_vars => AnswerInv'
<1> SUFFICES ASSUME TypeInv, AnswerInv, [Next]_vars, ~LateFrames', ~SendFails'
             PROVE  \A n \in Nodes : \A m \in node'[n].owners : (Answered(n, m) /\ Avoided(n, m))'
  BY DEF AnswerInv
<1>1. ~LateFrames /\ ~SendFails
  BY EnvFixed DEF LateFrames, SendFails
<1>2. \A n \in Nodes : \A m \in node[n].owners : Answered(n, m) /\ Avoided(n, m)
  BY <1>1 DEF AnswerInv
<1>3. \A n \in Nodes : \A m \in node[n].owners : m \in Nodes /\ m # n /\ node[m].pc = "done"
  BY DEF TypeInv, NodeState
<1> DEFINE Inv == \A n \in Nodes : \A m \in node[n].owners : Answered(n, m) /\ Avoided(n, m)
<1>b. ASSUME NEW n \in Nodes, Boot(n) PROVE Inv'
  <2>1. air' = air /\ node[n].pc = "off"
    BY <1>b DEF Boot
  <2>2. Others(n) /\ node'[n].owners = {}
    BY <1>b, BootStep DEF Becomes
  <2> QED
    BY <1>2, <2>1, <2>2, LocalAnswer
<1>r. ASSUME NEW n \in Nodes, Reboot(n) PROVE Inv'
  <2>1. air' = {f \in air : f.from # n}
    BY <1>r DEF Reboot
  <2>2. node'[n].owners = {}
    BY <1>r, RebootStep
  <2>3. \A k \in Nodes : k # n =>
          /\ node'[k].pc = node[k].pc /\ node'[k].addr = node[k].addr /\ node'[k].events = node[k].events
          /\ node'[k].work = node[k].work /\ node'[k].owners = node[k].owners \ {n}
    BY <1>r, RebootStep
  <2> SUFFICES ASSUME NEW k \in Nodes, NEW m \in node'[k].owners PROVE (Answered(k, m) /\ Avoided(k, m))'
    OBVIOUS
  <2>4. k # n /\ m \in node[k].owners /\ m # n /\ m \in Nodes
    BY <1>3, <2>2, <2>3
  <2>5. Answered(k, m) /\ Avoided(k, m)
    BY <1>2, <2>4
  <2>6. Discovery(k, node[k].addr).from = k /\ Claim(m, node[k].addr).from = m
    BY DEF Discovery, Claim
  <2> QED
    BY <2>1, <2>3, <2>4, <2>5, <2>6 DEF Answered, Avoided
<1>sd. ASSUME NEW n \in Nodes, SendDiscovery(n) PROVE Inv'
  <2>1. node[n].pc = "discover" /\ air' = air \cup {Discovery(n, node[n].addr)}
    BY <1>sd DEF SendDiscovery
  <2>2. Others(n) /\ node'[n].pc = "wait_used" /\ node'[n].addr = node[n].addr
    BY <1>sd, SendDiscoveryStep DEF Becomes
  <2>3. Discovery(n, node'[n].addr) \in air'
    BY <2>1, <2>2
  <2>4. \A m \in node'[n].owners : (Answered(n, m) /\ Avoided(n, m))'
    BY <2>2, <2>3 DEF Answered, Avoided
  <2> QED
    BY <1>2, <2>1, <2>2, <2>4, LocalAnswer
<1>df. ASSUME NEW n \in Nodes, DiscoveryFails(n) \/ Wake(n) \/ AddrInUse(n) \/ GiveUp(n) \/ ClaimNotSent(n)
       PROVE  Inv'
  <2>1. node[n].pc # "done" /\ air' = air
    BY <1>df DEF DiscoveryFails, Wake, AddrInUse, GiveUp, ClaimNotSent
  <2>2. Others(n) /\ node'[n].pc \in {"discover", "sleep", "failed"}
    BY <1>df, DiscoveryFailsStep, WakeStep, AddrInUseStep, GiveUpStep, ClaimNotSentStep DEF Becomes
  <2>3. \A m \in node'[n].owners : (Answered(n, m) /\ Avoided(n, m))'
    BY <2>2 DEF Answered, Avoided
  <2> QED
    BY <1>2, <2>1, <2>2, <2>3, LocalAnswer
<1>nu. ASSUME NEW n \in Nodes, NotUsed(n) PROVE Inv'
  <2>1. /\ node[n].pc = "wait_used" /\ air' = air /\ ~Answering(n)
        /\ Used \notin node[n].events /\ TimedOut \notin node[n].events
    BY <1>1, <1>nu DEF NotUsed
  <2>2. Others(n) /\ node'[n].pc = "wait_sent" /\ node'[n].addr = node[n].addr /\ node'[n].owners = node[n].owners
    BY <1>nu, NotUsedStep DEF Becomes
  <2>3. ASSUME NEW m \in node'[n].owners PROVE (Answered(n, m) /\ Avoided(n, m))'
    <3>1. m \in node[n].owners /\ m \in Nodes /\ m # n /\ node'[m] = node[m]
      BY <1>3, <2>2 DEF Others
    <3>2. Answered(n, m)
      BY <1>2, <3>1
    <3>3. node[m].addr # node[n].addr
      BY <2>1, <3>1, <3>2 DEF Answered, Answering
    <3> QED
      BY <2>2, <3>1, <3>3 DEF Answered, Avoided
  <2> QED
    BY <1>2, <2>1, <2>2, <2>3, LocalAnswer
<1>cs. ASSUME NEW n \in Nodes, ClaimSent(n) \/ CheckErrors(n) \/ AddFilter(n) PROVE Inv'
  <2>1. node[n].pc \in {"wait_sent", "check", "listen"} /\ air' = air
    BY <1>cs DEF ClaimSent, CheckErrors, AddFilter
  <2>2. /\ Others(n) /\ node'[n].pc # "wait_used"
        /\ node'[n].addr = node[n].addr /\ node'[n].owners = node[n].owners
    BY <1>cs, ClaimSentStep, CheckErrorsStep, AddFilterStep DEF Becomes
  <2>3. ASSUME NEW m \in node'[n].owners PROVE (Answered(n, m) /\ Avoided(n, m))'
    <3>1. m \in node[n].owners /\ m \in Nodes /\ m # n /\ node'[m] = node[m]
      BY <1>3, <2>2 DEF Others
    <3>2. Avoided(n, m)
      BY <1>2, <3>1
    <3> QED
      BY <2>1, <2>2, <3>1, <3>2 DEF Answered, Avoided
  <2> QED
    BY <1>2, <2>1, <2>2, <2>3, LocalAnswer
<1>te. ASSUME NEW n \in Nodes, TimerExpires(n) PROVE Inv'
  <2>1. air' = air /\ node[n].pc # "done"
    BY <1>te DEF TimerExpires, TypeInv, Claiming
  <2>2. /\ Others(n) /\ node'[n].pc = node[n].pc /\ node'[n].addr = node[n].addr /\ node'[n].owners = node[n].owners
        /\ node'[n].events = {TimedOut}
    BY <1>te, TimerExpiresStep DEF Becomes
  <2>3. TimedOut \in node'[n].events
    BY <2>2
  <2>4. ASSUME NEW m \in node'[n].owners PROVE (Answered(n, m) /\ Avoided(n, m))'
    <3>1. m \in node[n].owners /\ m \in Nodes /\ m # n /\ node'[m] = node[m]
      BY <1>3, <2>2 DEF Others
    <3>2. Avoided(n, m)
      BY <1>2, <3>1
    <3>3. Avoided(n, m)'
      BY <2>2, <3>1, <3>2 DEF Avoided
    <3>4. Answered(n, m)'
      BY <2>3 DEF Answered
    <3> QED
      BY <3>3, <3>4
  <2> QED
    BY <1>2, <2>1, <2>2, <2>4, LocalAnswer
<1>cf. ASSUME NEW n \in Nodes, ClaimWorkFails(n) PROVE FALSE
  BY <1>1, <1>cf DEF ClaimWorkFails
<1>cw. ASSUME NEW n \in Nodes, ClaimWork(n) PROVE Inv'
  <2>1. air' = air \cup {Claim(n, node[n].addr)}
    BY <1>cw DEF ClaimWork
  <2>2. Becomes(n, node[n].pc, node[n].addr, node[n].events, node[n].timer,
                FALSE, node[n].filter, node[n].owners, node[n].claimed)
    BY <1>cw, ClaimWorkStep
  <2>3. /\ \A k \in Nodes :
             /\ node'[k].pc = node[k].pc /\ node'[k].addr = node[k].addr
             /\ node'[k].events = node[k].events /\ node'[k].owners = node[k].owners
        /\ \A k \in Nodes : k # n => node'[k].work = node[k].work
    BY <2>2 DEF Becomes, Others
  <2> SUFFICES ASSUME NEW k \in Nodes, NEW m \in node'[k].owners PROVE (Answered(k, m) /\ Avoided(k, m))'
    OBVIOUS
  <2>4. m \in node[k].owners /\ m \in Nodes /\ Answered(k, m) /\ Avoided(k, m)
    BY <1>2, <1>3, <2>3
  <2>5. Avoided(k, m)'
    BY <2>3, <2>4 DEF Avoided
  <2>6. CASE m = n
    BY <2>1, <2>3, <2>4, <2>5, <2>6 DEF Answered
  <2>7. CASE m # n
    BY <2>1, <2>3, <2>4, <2>5, <2>7 DEF Answered
  <2> QED
    BY <2>6, <2>7
<1>dis. CASE DiscoveryOnBus
  <2>1. PICK f \in air :
          /\ BusStep(f)
          /\ f.kind = "discovery"
          /\ \A k \in Nodes :
               /\ node'[k].events = node[k].events
               /\ k # f.from /\ node[k].filter /\ node[k].addr = f.addr => node'[k].work = TRUE
               /\ node'[k].work = node[k].work \/ (node[k].filter /\ node'[k].work = TRUE)
    BY <1>dis, DiscoveryStep
  <2>2. /\ air' = air \ {f}
        /\ \A k \in Nodes : /\ node'[k].pc = node[k].pc /\ node'[k].addr = node[k].addr
                            /\ node'[k].owners = node[k].owners
    BY <2>1 DEF BusStep
  <2> SUFFICES ASSUME NEW k \in Nodes, NEW m \in node'[k].owners PROVE (Answered(k, m) /\ Avoided(k, m))'
    OBVIOUS
  <2>3. m \in node[k].owners /\ m \in Nodes /\ m # k /\ node[m].pc = "done" /\ Answered(k, m) /\ Avoided(k, m)
    BY <1>2, <1>3, <2>2
  <2>4. Avoided(k, m)'
    BY <2>2, <2>3 DEF Avoided
  <2>5. node[m].filter
    BY <2>3 DEF TypeInv
  <2>6. node[m].work = TRUE => node'[m].work = TRUE
    BY <2>1, <2>3
  <2>7. Claim(m, node[k].addr) # f
    <3>1. Claim(m, node[k].addr).kind = "claim"
      BY DEF Claim
    <3> QED
      BY <2>1, <3>1
  <2>8. Discovery(k, node[k].addr) = f /\ node[m].addr = node[k].addr => node'[m].work = TRUE
    <3>1. Discovery(k, node[k].addr).from = k /\ Discovery(k, node[k].addr).addr = node[k].addr
      BY DEF Discovery
    <3> QED
      BY <2>1, <2>3, <2>5, <3>1
  <2>9. Answered(k, m)'
    BY <2>1, <2>2, <2>3, <2>6, <2>7, <2>8 DEF Answered
  <2> QED
    BY <2>4, <2>9
<1>cl. CASE ClaimOnBus
  <2>1. PICK f \in air :
             /\ f.kind = "claim" /\ BusStep(f)
             /\ node'[f.from].events = node[f.from].events \cup {Sent}
             /\ \A k \in Nodes :
                  /\ node'[k].work = node[k].work
                  /\ k # f.from => /\ node'[k].events \in {node[k].events, node[k].events \cup {Used}}
                                   /\ node[k].pc # "off" /\ node[k].addr = f.addr =>
                                        Used \in node'[k].events
    BY <1>cl, ClaimStep
  <2>2. /\ air' = air \ {f}
        /\ \A k \in Nodes : /\ node'[k].pc = node[k].pc /\ node'[k].addr = node[k].addr
                            /\ node'[k].owners = node[k].owners
    BY <2>1 DEF BusStep
  <2> SUFFICES ASSUME NEW k \in Nodes, NEW m \in node'[k].owners PROVE (Answered(k, m) /\ Avoided(k, m))'
    OBVIOUS
  <2>3. m \in node[k].owners /\ m \in Nodes /\ m # k /\ Answered(k, m) /\ Avoided(k, m)
    BY <1>2, <1>3, <2>2
  <2>4. Avoided(k, m)'
    BY <2>2, <2>3 DEF Avoided
  <2>5. node[k].events \subseteq node'[k].events
    <3>1. CASE k = f.from
      BY <2>1, <3>1
    <3>2. CASE k # f.from
      BY <2>1, <3>2
    <3> QED
      BY <3>1, <3>2
  <2>6. Discovery(k, node[k].addr) # f
    <3>1. Discovery(k, node[k].addr).kind = "discovery"
      BY DEF Discovery
    <3> QED
      BY <2>1, <3>1
  <2>7. Claim(m, node[k].addr) = f /\ node[k].pc = "wait_used" => Used \in node'[k].events
    <3>1. Claim(m, node[k].addr).from = m /\ Claim(m, node[k].addr).addr = node[k].addr
      BY DEF Claim
    <3> QED
      BY <2>1, <2>3, <3>1
  <2>8. Answered(k, m)'
    BY <2>1, <2>2, <2>3, <2>5, <2>6, <2>7 DEF Answered
  <2> QED
    BY <2>4, <2>8
<1>co. CASE Collision \/ UNCHANGED vars
  <2>1. /\ air' = air
        /\ \A k \in Nodes :
             /\ node'[k].pc = node[k].pc /\ node'[k].addr = node[k].addr
             /\ node'[k].work = node[k].work /\ node'[k].owners = node[k].owners
             /\ node'[k].events = node[k].events
    BY <1>co, CollisionStep DEF vars
  <2> SUFFICES ASSUME NEW k \in Nodes, NEW m \in node'[k].owners PROVE (Answered(k, m) /\ Avoided(k, m))'
    OBVIOUS
  <2>2. m \in node[k].owners /\ m \in Nodes /\ Answered(k, m) /\ Avoided(k, m)
    BY <1>2, <1>3, <2>1
  <2> QED
    BY <2>1, <2>2 DEF Answered, Avoided
<1> QED
  BY <1>b, <1>r, <1>sd, <1>df, <1>nu, <1>cs, <1>te, <1>cf, <1>cw, <1>dis, <1>cl, <1>co DEF Next, Loop

\* A node that had finished when another one sent its discovery never loses its
\* address to it, however many nodes claim at the same time and whoever restarts.
THEOREM OwnersAreSafe == Spec => []OwnersKeepTheirAddress
<1>1. Init => TypeInv /\ AnswerInv
  BY TypeInit, AnswerInit
<1>2. TypeInv /\ AnswerInv /\ [Next]_vars => (TypeInv /\ AnswerInv)'
  BY TypeNext, AnswerNext
<1>3. AnswerInv => OwnersKeepTheirAddress
  BY DEF AnswerInv, Avoided, OwnersKeepTheirAddress
<1> QED
  BY <1>1, <1>2, <1>3, PTL DEF Spec

-----------------------------------------------------------------------------
(* Addresses are unique *)

Seen == {"wait_used", "wait_sent", "check", "listen"}
Loops == {"discover", "sleep"} \cup Seen

\* A node k that neither enters the loop nor sends its discovery nor leaves the loop.
Quiet(k) ==
    /\ node'[k].pc \in Loops => node[k].pc \in Loops
    /\ node'[k].pc \in Seen => node[k].pc \in Seen /\ node'[k].owners = node[k].owners
    /\ node'[k].pc = "done" <=> node[k].pc = "done"
    /\ node[k].pc = "done" => node'[k].addr = node[k].addr

\* Most steps are quiet for all nodes.
LEMMA QuietSteps ==
    ASSUME TypeInv,
           \/ \E n \in Nodes : \/ DiscoveryFails(n) \/ AddrInUse(n) \/ NotUsed(n) \/ GiveUp(n) \/ Wake(n)
                               \/ ClaimSent(n) \/ ClaimNotSent(n) \/ CheckErrors(n) \/ TimerExpires(n)
                               \/ ClaimWork(n) \/ ClaimWorkFails(n)
           \/ DiscoveryOnBus \/ ClaimOnBus \/ Collision \/ UNCHANGED vars
    PROVE  \A k \in Nodes : Quiet(k)
<1>1. ASSUME NEW n \in Nodes,
             \/ DiscoveryFails(n) \/ AddrInUse(n) \/ NotUsed(n) \/ GiveUp(n) \/ Wake(n)
             \/ ClaimSent(n) \/ ClaimNotSent(n) \/ CheckErrors(n)
      PROVE  \A k \in Nodes : Quiet(k)
  <2>1. node[n].pc \in Loops /\ node[n].pc # "done"
    BY <1>1 DEF DiscoveryFails, AddrInUse, NotUsed, GiveUp, Wake, ClaimSent, ClaimNotSent, CheckErrors, Loops, Seen
  <2>2. CASE DiscoveryFails(n) \/ AddrInUse(n) \/ GiveUp(n) \/ Wake(n) \/ ClaimNotSent(n)
    <3>1. Others(n) /\ node'[n].pc \in {"sleep", "discover", "failed"}
      BY <2>2, DiscoveryFailsStep, AddrInUseStep, GiveUpStep, WakeStep, ClaimNotSentStep DEF Becomes
    <3> QED
      BY <2>1, <3>1 DEF Others, Quiet, Loops, Seen
  <2>3. CASE NotUsed(n) \/ ClaimSent(n) \/ CheckErrors(n)
    <3>1. /\ Others(n) /\ node'[n].pc \in {"wait_sent", "check", "listen", "discover"}
          /\ node'[n].owners = node[n].owners
      BY <2>3, NotUsedStep, ClaimSentStep, CheckErrorsStep DEF Becomes
    <3>2. node[n].pc \in Seen
      BY <2>3 DEF NotUsed, ClaimSent, CheckErrors, Seen
    <3> QED
      BY <2>1, <3>1, <3>2 DEF Others, Quiet
  <2> QED
    BY <1>1, <2>2, <2>3
<1>2. ASSUME NEW n \in Nodes, TimerExpires(n) \/ ClaimWork(n) \/ ClaimWorkFails(n)
      PROVE  \A k \in Nodes : Quiet(k)
  <2>1. Others(n) /\ node'[n].pc = node[n].pc /\ node'[n].addr = node[n].addr /\ node'[n].owners = node[n].owners
    BY <1>2, TimerExpiresStep, ClaimWorkStep DEF Becomes
  <2> QED
    BY <2>1 DEF Others, Quiet
<1>3. CASE DiscoveryOnBus \/ ClaimOnBus \/ Collision \/ UNCHANGED vars
  <2>1. \A k \in Nodes : node'[k].pc = node[k].pc /\ node'[k].addr = node[k].addr /\ node'[k].owners = node[k].owners
    BY <1>3, DiscoveryStep, ClaimStep, CollisionStep DEF BusStep, vars
  <2> QED
    BY <2>1 DEF Quiet
<1> QED
  BY <1>1, <1>2, <1>3

\* The invariants behind UniqueAddresses.
LEMMA UniqueNext ==
    ASSUME TypeInv, AnswerInv, SoloInv, UniqueAddresses, [Next]_vars
    PROVE  SoloInv' /\ UniqueAddresses'
<1>1. env' = env
  BY EnvFixed
<1>2. (Overlap = {} => \A n, m \in Nodes :
                         /\ node[n].pc \in Loops /\ node[m].pc \in Loops => n = m
                         /\ node[n].pc \in Seen /\ node[m].pc = "done" => m \in node[n].owners)
      /\ Overlap' = Overlap
  BY <1>1 DEF SoloInv, Claiming, Loops, Seen, Overlap
<1>3. SUFFICES /\ Overlap = {} => \A n, m \in Nodes :
                                    /\ node'[n].pc \in Loops /\ node'[m].pc \in Loops => n = m
                                    /\ node'[n].pc \in Seen /\ node'[m].pc = "done" => m \in node'[n].owners
               /\ Overlap = {} /\ ~LateFrames /\ ~SendFails => DifferentAddresses'
  <2>1. SoloInv'
    BY <1>2, <1>3 DEF SoloInv, Claiming, Loops, Seen
  <2>2. UniqueAddresses'
    BY <1>1, <1>2, <1>3 DEF UniqueAddresses, LateFrames, SendFails
  <2> QED
    BY <2>1, <2>2
<1>4. SUFFICES ASSUME Overlap = {}
               PROVE  /\ \A n, m \in Nodes :
                           /\ node'[n].pc \in Loops /\ node'[m].pc \in Loops => n = m
                           /\ node'[n].pc \in Seen /\ node'[m].pc = "done" => m \in node'[n].owners
                      /\ ~LateFrames /\ ~SendFails => DifferentAddresses'
  OBVIOUS
<1>5. \A n, m \in Nodes :
        /\ node[n].pc \in Loops /\ node[m].pc \in Loops => n = m
        /\ node[n].pc \in Seen /\ node[m].pc = "done" => m \in node[n].owners
  BY <1>2, <1>4
<1>6. ~LateFrames /\ ~SendFails => DifferentAddresses
  BY <1>4 DEF UniqueAddresses
<1> DEFINE Goal == /\ \A n, m \in Nodes :
                        /\ node'[n].pc \in Loops /\ node'[m].pc \in Loops => n = m
                        /\ node'[n].pc \in Seen /\ node'[m].pc = "done" => m \in node'[n].owners
                   /\ ~LateFrames /\ ~SendFails => DifferentAddresses'
<1>q. ASSUME \A k \in Nodes : Quiet(k) PROVE Goal
  <2>1. ~LateFrames /\ ~SendFails => DifferentAddresses'
    BY <1>6, <1>q DEF Quiet, DifferentAddresses
  <2> QED
    BY <1>5, <1>q, <2>1 DEF Quiet
<1>b. ASSUME NEW n \in Nodes, Boot(n) PROVE Goal
  <2>1. \A m \in Nodes : node[m].pc \notin Loops
    BY <1>4, <1>b DEF Boot, Claiming, Loops, Seen
  <2>2. Others(n) /\ node'[n].pc = "discover"
    BY <1>b, BootStep DEF Becomes
  <2>3. ~LateFrames /\ ~SendFails => DifferentAddresses'
    BY <1>6, <2>2 DEF Others, DifferentAddresses
  <2> QED
    BY <2>1, <2>2, <2>3 DEF Others, Loops, Seen
<1>r. ASSUME NEW n \in Nodes, Reboot(n) PROVE Goal
  <2>1. node'[n].pc = "off"
    BY <1>r, RebootStep
  <2>2. \A k \in Nodes : k # n =>
          node'[k].pc = node[k].pc /\ node'[k].addr = node[k].addr /\ node'[k].owners = node[k].owners \ {n}
    BY <1>r, RebootStep
  <2>3. ~LateFrames /\ ~SendFails => DifferentAddresses'
    BY <1>6, <2>1, <2>2 DEF DifferentAddresses
  <2> QED
    BY <1>5, <2>1, <2>2, <2>3 DEF Loops, Seen
<1>sd. ASSUME NEW n \in Nodes, SendDiscovery(n) PROVE Goal
  <2>1. node[n].pc = "discover"
    BY <1>sd DEF SendDiscovery
  <2>2. Others(n) /\ node'[n].pc = "wait_used" /\ node'[n].owners = {m \in Nodes : node[m].pc = "done"}
    BY <1>sd, SendDiscoveryStep DEF Becomes
  <2>3. ~LateFrames /\ ~SendFails => DifferentAddresses'
    BY <1>6, <2>2 DEF Others, DifferentAddresses
  <2> QED
    BY <1>5, <2>1, <2>2, <2>3 DEF Others, Loops, Seen
<1>af. ASSUME NEW n \in Nodes, AddFilter(n) PROVE Goal
  <2>1. node[n].pc = "listen"
    BY <1>af DEF AddFilter
  <2>2. Others(n) /\ node'[n].pc = "done" /\ node'[n].addr = node[n].addr
    BY <1>af, AddFilterStep DEF Becomes
  <2>3. \A k \in Nodes : node'[k].pc \notin Loops
    BY <1>5, <2>1, <2>2 DEF Others, Loops, Seen
  <2>4. ASSUME ~LateFrames, ~SendFails PROVE DifferentAddresses'
    <3>1. \A m \in Nodes : node[m].pc = "done" => node[n].addr # node[m].addr
      BY <1>5, <2>1, <2>4 DEF AnswerInv, Avoided, Seen
    <3> QED
      BY <1>6, <2>2, <2>4, <3>1 DEF Others, DifferentAddresses
  <2> QED
    BY <2>3, <2>4 DEF Loops
<1> QED
  BY <1>q, <1>b, <1>r, <1>sd, <1>af, QuietSteps DEF Next, Loop

\* Nodes that are switched on or restarted one after the other, in any order and any
\* number, on a bus that carries their frames in time, never share an address.
THEOREM AddressesAreUnique == Spec => []UniqueAddresses
<1>1. Init => TypeInv /\ AnswerInv /\ SoloInv /\ UniqueAddresses
  <2> SUFFICES ASSUME Init PROVE SoloInv /\ UniqueAddresses
    BY TypeInit, AnswerInit
  <2>1. \A n \in Nodes : node[n].pc = "off"
    <3> TAKE n \in Nodes
    <3>1. PICK a \in Addrs : node[n] = Off(a)
      BY ClaimAssumptions DEF Init, ClaimAssumptions, Addrs
    <3> QED
      BY <3>1, OffState
  <2> QED
    BY <2>1 DEF SoloInv, UniqueAddresses, DifferentAddresses, Claiming
<1>2. TypeInv /\ AnswerInv /\ SoloInv /\ UniqueAddresses /\ [Next]_vars =>
        (TypeInv /\ AnswerInv /\ SoloInv /\ UniqueAddresses)'
  BY TypeNext, AnswerNext, UniqueNext
<1> QED
  BY <1>1, <1>2, PTL DEF Spec
=============================================================================
