---------------------------- MODULE CanAddrClaim ----------------------------
(***************************************************************************)
(* Node address claiming (src/src/can.c, thingset_can_init_inst and the    *)
(* network management callbacks): every node on the bus runs the loop      *)
(*                                                                         *)
(*   discover - wait for a claim of another node - claim - wait for the    *)
(*   transmission - look at the transmit error counter                     *)
(*                                                                         *)
(* in its initialisation thread, next to the receive callbacks (interrupt),*)
(* the delayable work that sends the claim (SDK work queue) and the timer  *)
(* that bounds the initialisation.  Threads and callbacks meet in the      *)
(* k_event object, here a set of event names.                              *)
(*                                                                         *)
(* A frame handed to the driver stays in `air` until the bus carries it to *)
(* every other node that has a matching filter.                            *)
(***************************************************************************)
EXTENDS Integers, FiniteSets

CONSTANTS
    Nodes,       \* the nodes of the bus
    ADDR_MIN, ADDR_MAX,  \* THINGSET_CAN_ADDR_MIN (0x01), THINGSET_CAN_ADDR_MAX (0xFD)
    InitAddrs,   \* addresses a node may start with (preset or from storage)
    Envs         \* the buses to consider: see Env

\* What is fixed for a behaviour.
Env == [nodes : SUBSET Nodes,      \* the nodes that are ever switched on
        timeouts : BOOLEAN,        \* the initialisation timeout is not K_FOREVER
        sendFails : BOOLEAN,       \* can_send may fail (bus off, no free mailbox)
        lateFrames : BOOLEAN,      \* a frame may take longer than a node waits for it
        overlap : SUBSET Nodes,    \* the nodes that may be claiming at the same time
        maxReboots : Nat]          \* bound: restarts of nodes

ASSUME ClaimAssumptions ==
    /\ ADDR_MIN \in Nat /\ ADDR_MAX \in Nat /\ ADDR_MIN < ADDR_MAX
    /\ InitAddrs \subseteq ADDR_MIN..ADDR_MAX
    /\ Envs \subseteq Env

VARIABLES
    env,      \* one of Envs
    node,     \* per node: thread, node_addr, events, timer, addr_claim_work, discovery
              \* filter, whether tx_err_cnt has risen since the claim was started and, as
              \* history, the nodes that were done when the last discovery was sent and
              \* the address of its last claim on the bus
    air,      \* frames handed to the drivers and not yet on the bus
    reboots   \* restarts so far

vars == <<env, node, air, reboots>>

Timeouts   == env.timeouts
SendFails  == env.sendFails
LateFrames == env.lateFrames
Overlap    == env.overlap
MaxReboots == env.maxReboots

Used == "ALREADY_USED"
Sent == "CLAIM_MSG_SENT"
Finished == "CLAIMING_FINISHED"
TimedOut == "CLAIM_TIMED_OUT"
Events == {Used, Sent, Finished, TimedOut}

Discovery(n, a) == [kind |-> "discovery", from |-> n, addr |-> a]
Claim(n, a) == [kind |-> "claim", from |-> n, addr |-> a]

Off(a) == [pc |-> "off", addr |-> a, events |-> {}, timer |-> FALSE, work |-> FALSE,
           filter |-> FALSE, errs |-> FALSE, owners |-> {}, claimed |-> 0]

Init ==
    /\ env \in Envs
    /\ node \in [Nodes -> {Off(a) : a \in InitAddrs}]
    /\ air = {}
    /\ reboots = 0

Claiming(n) == node[n].pc \in {"discover", "sleep", "wait_used", "wait_sent", "check", "listen"}

\* The start of thingset_can_init_inst: objects initialised, timer started,
\* filter for address claims added.
Boot(n) ==
    /\ n \in env.nodes /\ node[n].pc = "off"
    /\ \A m \in Nodes : Claiming(m) => {n, m} \subseteq Overlap
    /\ node' = [node EXCEPT ![n] = [Off(@.addr) EXCEPT !.pc = "discover", !.timer = Timeouts]]
    /\ UNCHANGED <<env, air, reboots>>

\* The node restarts with its preset address, or with the one it was using when
\* that has been saved.
Reboot(n) ==
    /\ node[n].pc # "off"
    /\ \A m \in Nodes \ {n} : Claiming(m) => {n, m} \subseteq Overlap
    /\ reboots < MaxReboots
    /\ reboots' = reboots + 1
    /\ \E a \in InitAddrs \cup {node[n].addr} :
         /\ a \in InitAddrs \/ node[n].pc = "done"
         /\ node' = [m \in Nodes |-> IF m = n THEN Off(a)
                                     ELSE [node[m] EXCEPT !.owners = @ \ {n}]]
    /\ air' = {f \in air : f.from # n}
    /\ UNCHANGED env

\* Mutant: the loop clears the time-out event as well.
SendDiscovery_ClearsAll(n) ==
    /\ node[n].pc = "discover"
    /\ node' = [node EXCEPT ![n].events = {}, ![n].pc = "wait_used",
                            ![n].owners = {m \in Nodes : node[m].pc = "done"}]
    /\ air' = air \cup {Discovery(n, node[n].addr)}
    /\ UNCHANGED <<env, reboots>>

\* Events cleared, discovery frame handed to the driver.
SendDiscovery(n) ==
    /\ node[n].pc = "discover"
    /\ node' = [node EXCEPT ![n].events = @ \ {Used, Sent, Finished}, ![n].pc = "wait_used",
                            ![n].owners = {m \in Nodes : node[m].pc = "done"}]
    /\ air' = air \cup {Discovery(n, node[n].addr)}
    /\ UNCHANGED <<env, reboots>>

\* can_send failed: sleep and start over.
DiscoveryFails(n) ==
    /\ SendFails
    /\ node[n].pc = "discover"
    /\ node' = [node EXCEPT ![n].events = @ \ {Used, Sent, Finished}, ![n].pc = "sleep"]
    /\ UNCHANGED <<env, air, reboots>>

Wake(n) ==
    /\ node[n].pc = "sleep"
    /\ node' = [node EXCEPT ![n].pc = "discover"]
    /\ UNCHANGED <<env, air, reboots>>

\* The address belongs to another node: another one, at random.
RandomAddrs == ADDR_MIN..ADDR_MAX - 1

\* Mutant: the node tries the same address again.
AddrInUse_SameAddr(n) ==
    /\ node[n].pc = "wait_used"
    /\ Used \in node[n].events
    /\ node' = [node EXCEPT ![n].pc = "discover"]
    /\ UNCHANGED <<env, air, reboots>>

AddrInUse(n) ==
    /\ node[n].pc = "wait_used"
    /\ Used \in node[n].events
    /\ \E a \in RandomAddrs :
         node' = [node EXCEPT ![n].addr = a, ![n].pc = "discover"]
    /\ UNCHANGED <<env, air, reboots>>

\* Frames and work that the answer to a discovery still depends on.
Answering(n) ==
    \/ Discovery(n, node[n].addr) \in air
    \/ \E m \in Nodes \ {n} : node[m].addr = node[n].addr
         /\ (node[m].work \/ Claim(m, node[n].addr) \in air)

\* Mutant: the tx callback of the discovery frame posts the event of the claim.
NotUsed_SentAssumed(n) ==
    /\ node[n].pc = "wait_used"
    /\ node[n].events \cap {Used, TimedOut} = {}
    /\ LateFrames \/ ~Answering(n)
    /\ node' = [node EXCEPT ![n].work = TRUE, ![n].errs = FALSE, ![n].pc = "wait_sent",
                            ![n].events = @ \cup {Sent}]
    /\ UNCHANGED <<env, air, reboots>>

\* Nothing heard within 500 ms, which is longer than a node on the bus takes
\* to answer: the claim is left to the work queue.
NotUsed(n) ==
    /\ node[n].pc = "wait_used"
    /\ node[n].events \cap {Used, TimedOut} = {}
    /\ LateFrames \/ ~Answering(n)
    /\ node' = [node EXCEPT ![n].work = TRUE, ![n].errs = FALSE, ![n].pc = "wait_sent"]
    /\ UNCHANGED <<env, air, reboots>>

\* Both waits return when the timer has expired; in the first one a claim of
\* another node comes first.
GiveUp(n) ==
    /\ \/ node[n].pc = "wait_used" /\ Used \notin node[n].events
       \/ node[n].pc = "wait_sent"
    /\ TimedOut \in node[n].events
    /\ node' = [node EXCEPT ![n].pc = "failed", ![n].timer = FALSE]
    /\ UNCHANGED <<env, air, reboots>>

\* The claim was transmitted.
ClaimSent(n) ==
    /\ node[n].pc = "wait_sent"
    /\ Sent \in node[n].events
    /\ TimedOut \notin node[n].events
    /\ node' = [node EXCEPT ![n].pc = "check"]
    /\ UNCHANGED <<env, air, reboots>>

\* It was not transmitted within 100 ms: sleep and start over.
ClaimNotSent(n) ==
    /\ node[n].pc = "wait_sent"
    /\ node[n].events \cap {Sent, TimedOut} = {}
    /\ LateFrames \/ ~(node[n].work \/ Claim(n, node[n].addr) \in air)
    /\ node' = [node EXCEPT ![n].pc = "sleep"]
    /\ UNCHANGED <<env, air, reboots>>

\* The transmit error counter tells whether two claims collided.
CheckErrors(n) ==
    /\ node[n].pc = "check"
    /\ \/ node[n].errs /\ node' = [node EXCEPT ![n].pc = "discover"]
       \/ ~node[n].errs /\ node' = [node EXCEPT ![n].events = @ \cup {Finished},
                                               ![n].timer = FALSE, ![n].pc = "listen"]
    /\ UNCHANGED <<env, air, reboots>>

\* The filter for discovery frames is added and the node goes to work.
AddFilter(n) ==
    /\ node[n].pc = "listen"
    /\ node' = [node EXCEPT ![n].filter = TRUE, ![n].pc = "done"]
    /\ UNCHANGED <<env, air, reboots>>

\* thingset_can_timeout_timer_expired: k_event_set replaces all other events.
TimerExpires(n) ==
    /\ node[n].timer
    /\ node' = [node EXCEPT ![n].events = {TimedOut}, ![n].timer = FALSE]
    /\ UNCHANGED <<env, air, reboots>>

\* thingset_can_addr_claim_tx_handler on the work queue.
ClaimWork(n) ==
    /\ node[n].work
    /\ node' = [node EXCEPT ![n].work = FALSE]
    /\ air' = air \cup {Claim(n, node[n].addr)}
    /\ UNCHANGED <<env, reboots>>

ClaimWorkFails(n) ==
    /\ SendFails
    /\ node[n].work
    /\ node' = [node EXCEPT ![n].work = FALSE]
    /\ UNCHANGED <<env, air, reboots>>

-----------------------------------------------------------------------------
(* The bus and the receive callbacks.                                      *)

\* Mutant: the discovery filter is set up for the wrong address field.
Answers_Never(m, f) == FALSE

\* thingset_can_addr_discovery_rx_cb of a node that has the filter.
Answers(m, f) == node[m].filter /\ node[m].addr = f.addr
thingset_can_addr_discovery_rx_cb(f) ==
    node' = [m \in Nodes |->
      IF m # f.from /\ Answers(m, f) THEN [node[m] EXCEPT !.work = TRUE] ELSE node[m]]

\* thingset_can_addr_claim_rx_cb of the other nodes that run.
Hears(m) == node[m].pc # "off"
thingset_can_addr_claim_rx_cb(m, f) ==
    IF Hears(m) /\ node[m].addr = f.addr
      THEN [node[m] EXCEPT !.events = @ \cup {Used}]
      ELSE node[m]

\* thingset_can_addr_claim_tx_cb of the sender.
thingset_can_addr_claim_tx_cb(f) ==
    [node[f.from] EXCEPT !.events = @ \cup {Sent}, !.claimed = f.addr]

DiscoveryOnBus ==
    \E f \in air :
      /\ f.kind = "discovery"
      /\ air' = air \ {f}
      /\ thingset_can_addr_discovery_rx_cb(f)
      /\ UNCHANGED <<env, reboots>>

ClaimOnBus ==
    \E f \in air :
      /\ f.kind = "claim"
      /\ air' = air \ {f}
      /\ node' = [m \in Nodes |-> IF m = f.from THEN thingset_can_addr_claim_tx_cb(f)
                                  ELSE thingset_can_addr_claim_rx_cb(m, f)]
      /\ UNCHANGED <<env, reboots>>

\* Two claims with the same CAN ID and different data start in the same bit
\* time: both transmitters see an error and try again.
Collision ==
    \E f, g \in air :
      /\ f.kind = "claim" /\ g.kind = "claim" /\ f.from # g.from /\ f.addr = g.addr
      /\ node' = [m \in Nodes |->
           IF m \in {f.from, g.from} THEN [node[m] EXCEPT !.errs = TRUE] ELSE node[m]]
      /\ UNCHANGED <<env, air, reboots>>

Loop(n) ==
    \/ SendDiscovery(n) \/ DiscoveryFails(n) \/ AddrInUse(n) \/ NotUsed(n) \/ GiveUp(n)
    \/ Wake(n) \/ ClaimSent(n) \/ ClaimNotSent(n) \/ CheckErrors(n) \/ AddFilter(n)

Next ==
    \/ \E n \in Nodes :
         \/ Boot(n) \/ Reboot(n) \/ Loop(n) \/ TimerExpires(n)
         \/ ClaimWork(n) \/ ClaimWorkFails(n)
    \/ DiscoveryOnBus \/ ClaimOnBus \/ Collision

Spec == Init /\ [][Next]_vars

\* The random number generator does not name occupied addresses for ever.
FreshAddr(n) == AddrInUse(n) /\ \A m \in Nodes \ {n} : node[m].addr # node'[n].addr

\* Threads, the work queue and the bus make progress, and can_send does not fail
\* for ever.
FairSpec ==
    /\ Spec
    /\ WF_vars(DiscoveryOnBus) /\ WF_vars(ClaimOnBus)
    /\ \A n \in Nodes : /\ WF_vars(Loop(n)) /\ WF_vars(ClaimWork(n) \/ ClaimWorkFails(n))
                        /\ SF_vars(FreshAddr(n)) /\ SF_vars(SendDiscovery(n))

\* The same without the last assumption: the driver may refuse every frame.
BusOffSpec ==
    /\ Spec
    /\ WF_vars(DiscoveryOnBus) /\ WF_vars(ClaimOnBus)
    /\ \A n \in Nodes : /\ WF_vars(Loop(n)) /\ WF_vars(ClaimWork(n) \/ ClaimWorkFails(n))
                        /\ SF_vars(FreshAddr(n))

-----------------------------------------------------------------------------
(* Properties.                                                             *)

\* The claiming loop keeps every node within the address range and its events,
\* its timer and its filters in step with where the thread is.
TypeOK ==
    \A n \in Nodes :
      /\ node[n].addr \in ADDR_MIN..ADDR_MAX
      /\ node[n].events \subseteq Events
      /\ node[n].timer => Claiming(n)
      /\ node[n].filter <=> node[n].pc = "done"
      /\ node[n].owners \subseteq Nodes \ {n}

\* Two nodes that have finished claiming have different addresses.
DifferentAddresses ==
    \A n, m \in Nodes :
      n # m /\ node[n].pc = "done" /\ node[m].pc = "done" => node[n].addr # node[m].addr

\* They have when nodes are switched on or restarted one after the other
\* and the driver takes every frame.
UniqueAddresses == Overlap = {} /\ ~LateFrames /\ ~SendFails => DifferentAddresses

\* A node that was up and answering when another one sent its discovery keeps its
\* address to itself, however many nodes claim at the same time, as long as its
\* answer is not refused by the driver.
OwnersKeepTheirAddress ==
    \A n \in Nodes : \A m \in node[n].owners :
      ~LateFrames /\ ~SendFails /\ node[n].pc \in {"wait_sent", "check", "listen", "done"}
      => node[n].addr # node[m].addr

\* A node works under an address only after its claim of that very address has
\* crossed the bus, so that the others have been told.
ClaimSeen == \A n \in Nodes : node[n].pc = "done" => node[n].claimed = node[n].addr

\* It does as long as claims get through while a node waits for them.
DoneMeansClaimed == ~LateFrames => ClaimSeen

\* A node that starts up alone, on a bus that works, gets an address (or is
\* restarted, or times out).
EveryNodeGetsAnAddress ==
    \A n \in Nodes : (Overlap = {} /\ ~SendFails /\ ~LateFrames /\ Claiming(n))
                        ~> node[n].pc \in {"done", "failed", "off"}

\* Once the initialisation timeout has passed thingset_can_init_inst returns, even
\* if can_send fails now and then.
InitIsBounded ==
    \A n \in Nodes : (Claiming(n) /\ TimedOut \in node[n].events) ~> ~Claiming(n)
=============================================================================
