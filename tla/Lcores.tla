------------------------------- MODULE Lcores -------------------------------
(***************************************************************************)
(* The rest of main() of src/main.c: the check of the core counts, the     *)
(* assignment of RX queues, the launch of the lcores, their polling loops  *)
(* and the shutdown.  What the LAN lcores share while they poll is         *)
(* last_arp_time, the static timestamp that limits the ARP requests of     *)
(* resolve_next_hop (src/wan_tunnel.c).                                    *)
(*                                                                         *)
(* A packet of the LAN reaches resolve_next_hop on its way to the WAN port *)
(* (wan_fwd_roce, wan_fwd_passthrough); the lookup in the ARP cache before *)
(* it always fails, because nothing calls arp_cache_add.  What else is     *)
(* done with a packet is the business of Processor and Reassembly.         *)
(*                                                                         *)
(* rte_eal_wait_lcore waits for one lcore, and main() calls it without its *)
(* argument: which one it waits for is arbitrary, and does not change.     *)
(*                                                                         *)
(* A WAN lcore that has to create a context of the jitter buffer takes     *)
(* global_lock twice (Reassembly!SelfDeadlock) and spins for ever.         *)
(***************************************************************************)
EXTENDS Startup

CONSTANTS
  EalLcores,    \* the sets of lcore ids EAL may be started with
  LanCores,     \* g_lan_core_count
  WanCores,     \* g_wan_core_count
  ArpInterval,  \* rte_get_timer_hz() * 5, in ticks of the model's clock
  TSC_MOD,      \* rte_rdtsc() is a uint64_t: 2^64
  MaxTime       \* bound: where the clock stops

ASSUME LcoresAssumption ==
  /\ \A eal \in EalLcores : eal \subseteq Nat /\ IsFiniteSet(eal) /\ eal # {}
  /\ LanCores \in Nat \ {0}
  /\ WanCores \in Nat \ {0}
  /\ ArpInterval \in Nat
  /\ MaxTime \in Nat
  /\ TSC_MOD \in Nat
  /\ TSC_MOD > MaxTime

VARIABLES
  eal,            \* the lcores EAL was started with
  waited,         \* the lcore rte_eal_wait_lcore() happens to wait for
  to_launch,      \* those RTE_LCORE_FOREACH_SLAVE has yet to visit
  pc,             \* pc[l]: what lcore l is doing
  g_running,
  pool,           \* g_mbuf_pool exists
  clock,          \* rte_rdtsc()
  now,            \* now[l]: what lcore l has read from it
  last_arp_time,
  asked           \* ARP requests since the clock last advanced

lcoreVars == <<eal, waited, to_launch, pc, g_running, pool, clock, now, last_arp_time, asked>>
mainVars  == <<vars, lcoreVars>>

TotalCores  == LanCores + WanCores
AllLcores   == UNION EalLcores
Master      == Min(eal)          \* the first lcore runs main()
IsLan(l)    == l < LanCores

MainInit ==
  /\ Init
  /\ eal \in EalLcores
  /\ waited \in eal
  /\ to_launch = {}
  /\ pc = [l \in AllLcores |-> "off"]
  /\ g_running = TRUE
  /\ pool = FALSE
  /\ clock = 0
  /\ now = [l \in AllLcores |-> 0]
  /\ last_arp_time = 0
  /\ asked = 0

----------------------------------------------------------------------------
(* main() *)

\* total_cores_needed > available_cores, among the reasons to give up.
Refuse == Abort /\ UNCHANGED lcoreVars

\* Mutant: the lcores are taken to be numbered from 0 without a gap.
Start_NoGap ==
  /\ TotalCores <= Cardinality(eal)
  /\ Launch
  /\ pool' = TRUE
  /\ to_launch' = (0 .. TotalCores - 1) \ {Master}
  /\ UNCHANGED <<eal, waited, pc, g_running, clock, now, last_arp_time, asked>>

\* Every check has passed; the pool and the ports are there.
Start ==
  /\ TotalCores <= Cardinality(eal)
  /\ Launch
  /\ pool' = TRUE
  /\ to_launch' = eal \ {Master}
  /\ UNCHANGED <<eal, waited, pc, g_running, clock, now, last_arp_time, asked>>

\* rte_eal_remote_launch of the next lcore; those without a role are skipped.
LaunchLcore ==
  /\ stage = "running"
  /\ to_launch # {}
  /\ LET l == Min(to_launch) IN
       /\ to_launch' = to_launch \ {l}
       /\ pc' = IF l < TotalCores THEN [pc EXCEPT ![l] = "polling"] ELSE pc
  /\ UNCHANGED <<vars, eal, waited, g_running, pool, clock, now, last_arp_time, asked>>

\* It fails: main returns, and the process ends with the lcores it has.
LaunchFails ==
  /\ stage = "running"
  /\ to_launch # {}
  /\ Min(to_launch) < TotalCores
  /\ stage' = "exited"
  /\ pc' = [l \in AllLcores |-> "off"]
  /\ UNCHANGED <<pm, given, eal, waited, to_launch, g_running, pool, clock, now, last_arp_time, asked>>

\* Mutant: the master goes on to the shutdown while the others poll.
MasterLoop_Skipped ==
  /\ stage = "running"
  /\ to_launch = {}
  /\ pc[Master] = "off"
  /\ pc' = [pc EXCEPT ![Master] = "left"]
  /\ UNCHANGED <<vars, eal, waited, to_launch, g_running, pool, clock, now, last_arp_time, asked>>

\* The master enters the loop of its own role, if it has one.
MasterLoop ==
  /\ stage = "running"
  /\ to_launch = {}
  /\ pc[Master] = "off"
  /\ pc' = [pc EXCEPT ![Master] = IF Master < TotalCores THEN "polling" ELSE "left"]
  /\ UNCHANGED <<vars, eal, waited, to_launch, g_running, pool, clock, now, last_arp_time, asked>>

\* rte_eal_wait_lcore(), which returns at once for the lcore it is called on
\* and for one that runs nothing; then the ports are stopped and the pool is
\* freed.  Nobody has waited for the other lcores.
Shutdown ==
  /\ stage = "running"
  /\ pool
  /\ pc[Master] = "left"
  /\ pc[waited] \in {"off", "left"}
  /\ pool' = FALSE
  /\ UNCHANGED <<vars, eal, waited, to_launch, pc, g_running, clock, now, last_arp_time, asked>>

\* main() returns, and the process ends with the lcores it has.
ProcessEnds ==
  /\ stage = "running"
  /\ ~pool
  /\ stage' = "exited"
  /\ pc' = [l \in AllLcores |-> "off"]
  /\ UNCHANGED <<pm, given, eal, waited, to_launch, g_running, pool, clock, now, last_arp_time, asked>>

\* signal_handler
Signal ==
  /\ stage = "running"
  /\ g_running
  /\ g_running' = FALSE
  /\ UNCHANGED <<vars, eal, waited, to_launch, pc, pool, clock, now, last_arp_time, asked>>

----------------------------------------------------------------------------
(* The loops.  rte_eth_rx_burst on the queue of the lcore. *)

\* Mutant: a WAN lcore reads the queue with its own number.
Queue_OwnNumber(l) == [port |-> IF IsLan(l) THEN "LAN" ELSE "WAN", id |-> l]

\* lcore_args[l]
Queue(l) == IF IsLan(l) THEN [port |-> "LAN", id |-> l]
                        ELSE [port |-> "WAN", id |-> l - LanCores]


\* lan_main_loop, wan_main_loop: while (g_running)
LeaveLoop(l) ==
  /\ pc[l] = "polling"
  /\ ~g_running
  /\ pc' = [pc EXCEPT ![l] = "left"]
  /\ UNCHANGED <<vars, eal, waited, to_launch, g_running, pool, clock, now, last_arp_time, asked>>

\* proc_process_wan_rx does not return from a WRITE segment whose QP has no
\* context in the jitter buffer.
Hang(l) ==
  /\ pc[l] = "polling"
  /\ ~IsLan(l)
  /\ pc' = [pc EXCEPT ![l] = "hung"]
  /\ UNCHANGED <<vars, eal, waited, to_launch, g_running, pool, clock, now, last_arp_time, asked>>

\* A packet for the WAN: resolve_next_hop reads the clock,
ReadClock(l) ==
  /\ pc[l] = "polling"
  /\ g_running
  /\ IsLan(l)
  /\ now' = [now EXCEPT ![l] = clock]
  /\ pc' = [pc EXCEPT ![l] = "testing"]
  /\ UNCHANGED <<vars, eal, waited, to_launch, g_running, pool, clock, last_arp_time, asked>>

\* compares it with last_arp_time, in uint64_t arithmetic,
TestInterval(l) ==
  /\ pc[l] = "testing"
  /\ pc' = [pc EXCEPT ![l] =
       IF (now[l] - last_arp_time) % TSC_MOD > ArpInterval THEN "asking" ELSE "polling"]
  /\ now' = IF pc'[l] = "polling" THEN [now EXCEPT ![l] = 0] ELSE now
  /\ UNCHANGED <<vars, eal, waited, to_launch, g_running, pool, clock, last_arp_time, asked>>

\* Mutant: the time of the request is not noted.
AskArp_NoStamp(l) ==
  /\ pc[l] = "asking"
  /\ \E sent \in {0, 1} : asked' = asked + sent
  /\ pc' = [pc EXCEPT ![l] = "polling"]
  /\ now' = [now EXCEPT ![l] = 0]
  /\ UNCHANGED <<vars, eal, waited, to_launch, g_running, pool, clock, last_arp_time>>

\* and notes the time; send_arp_request may find no mbuf or be refused by the
\* NIC, which is not noticed.  The packet is sent in any case.
AskArp(l) ==
  /\ pc[l] = "asking"
  /\ last_arp_time' = now[l]
  /\ \E sent \in {0, 1} : asked' = asked + sent
  /\ pc' = [pc EXCEPT ![l] = "polling"]
  /\ now' = [now EXCEPT ![l] = 0]
  /\ UNCHANGED <<vars, eal, waited, to_launch, g_running, pool, clock>>

Tick ==
  /\ clock < MaxTime
  /\ stage = "running"
  /\ clock' = clock + 1
  /\ asked' = 0
  /\ UNCHANGED <<vars, eal, waited, to_launch, pc, g_running, pool, now, last_arp_time>>

LcoreStep(l) == LeaveLoop(l) \/ ReadClock(l) \/ TestInterval(l) \/ AskArp(l)

MainStep == LaunchLcore \/ LaunchFails \/ MasterLoop \/ Shutdown \/ ProcessEnds

MainNext ==
  \/ \E option \in PeerOptions : ParsePeer(option) /\ UNCHANGED lcoreVars
  \/ \E peer \in Peers : ParseDefault(peer) /\ UNCHANGED lcoreVars
  \/ Refuse
  \/ Start
  \/ MainStep
  \/ Signal
  \/ \E l \in eal : LcoreStep(l) \/ Hang(l)
  \/ Tick

\* main() and the loops make progress, except in an lcore that hangs; the
\* signal need not come.
MainSpec ==
  /\ MainInit
  /\ [][MainNext]_mainVars
  /\ WF_mainVars(MainStep)
  /\ \A l \in AllLcores : WF_mainVars(LcoreStep(l))

----------------------------------------------------------------------------
(* Properties. *)

LcoresTypeOK ==
  /\ eal \in EalLcores
  /\ waited \in eal
  /\ to_launch \subseteq eal
  /\ pc \in [AllLcores -> {"off", "polling", "testing", "asking", "hung", "left"}]
  /\ g_running \in BOOLEAN
  /\ pool \in BOOLEAN
  /\ clock \in 0 .. MaxTime
  /\ now \in [AllLcores -> 0 .. MaxTime]
  /\ last_arp_time \in 0 .. MaxTime
  /\ asked \in Nat

\* The lcores that have entered their loop and not left it.
InLoop == {l \in AllLcores : pc[l] \in {"polling", "testing", "asking", "hung"}}

Queues == [port: {"LAN"}, id: 0 .. LanCores - 1] \cup [port: {"WAN"}, id: 0 .. WanCores - 1]

Started == stage = "running" /\ g_running /\ pc[Master] # "off"

\* While the gateway runs no RX queue has two lcores, no lcore has a queue the
\* port does not have, and, if EAL numbers the lcores from 0 without a gap,
\* every queue has an lcore in its loop once the launch is over.
QueuesServed ==
  /\ \A l \in InLoop : Queue(l) \in Queues /\ \A k \in InLoop : Queue(k) = Queue(l) => k = l
  /\ Started /\ 0 .. TotalCores - 1 \subseteq eal
     => \A q \in Queues : \E l \in InLoop : Queue(l) = q

\* Every queue the ports were given has an lcore that reads it, whichever
\* lcores EAL was started with.  It fails: main() counts the lcores and uses
\* their ids, so an id that is missing below the total leaves its queue alone.
EveryQueueRead == Started => \A q \in Queues : \E l \in InLoop : Queue(l) = q

\* Until the signal comes the mbufs are there for every lcore in its loop,
\* although main() waits for no more than one of them: what keeps it from
\* freeing the pool is that the master has a role whenever another lcore has.
PoolUntilSignal == g_running /\ InLoop # {} => pool

\* However the LAN lcores race for last_arp_time, and although a stale clock
\* reading sets it back and the difference can underflow, the requests sent
\* before the clock advances are bounded by the number of lcores, not by the
\* number of packets: each of n lcores may hold one stale reading, and after
\* the k-th stale stamp at most k of them find the interval over again.
ArpRequestsBounded == asked <= (LanCores * (LanCores + 3)) \div 2


=============================================================================
