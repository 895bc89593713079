---------------------------- MODULE LcoresProofs ----------------------------
(***************************************************************************)
(* What the lcores of a gateway share: their launch and shutdown, the ARP  *)
(* clock, the peers and the tables of the CRC, for every number of LAN and *)
(* WAN cores, every set of lcore ids and every list of options.            *)
(***************************************************************************)
EXTENDS Lcores, Icrc, FiniteSetTheorems, WellFoundedInduction, TLAPS

\* A set of numbers has a smallest member, which is what Min returns.
LEMMA LeastMember ==
  ASSUME NEW S, S \subseteq Nat, S # {}
  PROVE  \E x \in S : \A y \in S : x <= y
<1> DEFINE R == {pair \in Nat \X Nat : pair[1] < pair[2]}
<1>1. IsWellFoundedOn(R, Nat)
  BY NatLessThanWellFounded, Zenon DEF OpToRel
<1>2. PICK x \in S : \A y \in S : <<y, x>> \notin R
  BY <1>1, WFMin, Zenon
<1>3. ASSUME NEW y \in S PROVE x <= y
  <2>1. x \in Nat /\ y \in Nat
    OBVIOUS
  <2>2. ~(y < x)
    BY <1>2, <2>1
  <2>3. QED
    BY <2>1, <2>2
<1>4. QED
  BY <1>3

LEMMA MinLeast ==
  ASSUME NEW S, S \subseteq Nat, S # {}
  PROVE  Min(S) \in S /\ \A y \in S : Min(S) <= y
BY LeastMember, Zenon DEF Min

----------------------------------------------------------------------------
(* The inductive invariant. *)

Typed ==
  /\ stage \in {"parsing", "running", "exited"}
  /\ eal \in EalLcores
  /\ waited \in eal
  /\ to_launch \subseteq eal \ {Master}
  /\ pc \in [AllLcores -> {"off", "polling", "testing", "asking", "hung", "left"}]

\* A loop is run by an lcore of EAL that has a role, in a gateway that runs.
LoopsBelong ==
  /\ \A l \in InLoop : l \in eal /\ l < TotalCores /\ stage = "running"
  /\ stage = "parsing" => \A l \in AllLcores : pc[l] = "off"

\* The master enters its loop last, and the pool stays until it has left it.
MasterLast ==
  /\ (stage = "running" /\ pc[Master] # "off") => to_launch = {}
  /\ (stage = "running" /\ pc[Master] # "left") => pool

\* Until the signal, whoever has a role and has been launched is in its loop.
Launched ==
  (stage = "running" /\ g_running) =>
    \A l \in eal : (/\ l < TotalCores
                    /\ l \notin to_launch
                    /\ l # Master \/ pc[Master] # "off") => l \in InLoop

IInv == Typed /\ LoopsBelong /\ MasterLast /\ Launched

\* The lcore main() runs on is one of EAL's.
LEMMA MasterIsLcore ==
  ASSUME eal \in EalLcores
  PROVE  Master \in eal /\ eal \subseteq AllLcores /\ eal \subseteq Nat
<1>1. eal \subseteq Nat /\ eal # {}
  BY LcoresAssumption
<1>2. Master \in eal
  BY <1>1, MinLeast DEF Master
<1>3. QED
  BY <1>1, <1>2 DEF AllLcores

\* main() starts with no lcore launched.
LEMMA InitIInv == MainInit => IInv
<1> SUFFICES ASSUME MainInit PROVE IInv
  OBVIOUS
<1>1. stage = "parsing" /\ eal \in EalLcores /\ waited \in eal /\ to_launch = {}
      /\ pc = [l \in AllLcores |-> "off"]
  BY DEF MainInit, Init
<1>2. InLoop = {}
  BY <1>1 DEF InLoop
<1>3. QED
  BY <1>1, <1>2 DEF IInv, Typed, LoopsBelong, MasterLast, Launched

\* A step that leaves the launch alone keeps the invariant.
LEMMA OutsideStep ==
  ASSUME IInv, UNCHANGED <<eal, waited, to_launch, pc>>,
         pool' = pool \/ pc[Master] = "left", stage' = stage, g_running' = g_running \/ g_running' = FALSE
  PROVE  IInv'
<1>1. Master' = Master /\ InLoop' = InLoop
  BY DEF Master, InLoop
<1>2. QED
  BY <1>1 DEF IInv, Typed, LoopsBelong, MasterLast, Launched

\* Before the launch and after the end there is nothing to keep.
LEMMA NotRunningStep ==
  ASSUME IInv, UNCHANGED <<eal, waited>>, stage' = "exited",
         to_launch' = to_launch,
         \/ pc' = [l \in AllLcores |-> "off"]
         \/ pc' = pc /\ InLoop = {}
  PROVE  IInv'
<1>1. Master' = Master
  BY DEF Master
<1>2. InLoop' = {}
  BY DEF InLoop
<1>3. pc' \in [AllLcores -> {"off", "polling", "testing", "asking", "hung", "left"}]
  BY DEF IInv, Typed
<1>4. QED
  BY <1>1, <1>2, <1>3 DEF IInv, Typed, LoopsBelong, MasterLast, Launched

\* main() gives up before anything was launched.
LEMMA RefuseStep == IInv /\ Refuse => IInv'
<1> SUFFICES ASSUME IInv, Refuse PROVE IInv'
  OBVIOUS
<1>1. stage = "parsing" /\ stage' = "exited" /\ UNCHANGED <<eal, waited, to_launch, pc>>
  BY DEF Refuse, Abort, lcoreVars
<1>2. InLoop = {}
  BY <1>1 DEF IInv, LoopsBelong, InLoop
<1>3. QED
  BY <1>1, <1>2, NotRunningStep

\* The checks have passed: every lcore but the master is to be launched.
LEMMA StartStep == IInv /\ Start => IInv'
<1> SUFFICES ASSUME IInv, Start PROVE IInv'
  OBVIOUS
<1>1. /\ stage = "parsing" /\ stage' = "running" /\ pool'
      /\ to_launch' = eal \ {Master} /\ UNCHANGED <<eal, waited, pc>>
  BY DEF Start, Launch
<1>2. Master' = Master /\ Master \in AllLcores
  BY <1>1, MasterIsLcore DEF Master, IInv, Typed
<1>3. \A l \in AllLcores : pc[l] = "off"
  BY <1>1 DEF IInv, LoopsBelong
<1>4. InLoop' = {}
  BY <1>1, <1>3 DEF InLoop
<1>5. QED
  BY <1>1, <1>2, <1>3, <1>4 DEF IInv, Typed, LoopsBelong, MasterLast, Launched

\* rte_eal_remote_launch puts one more lcore into its loop.
LEMMA LaunchLcoreStep == IInv /\ LaunchLcore => IInv'
<1> SUFFICES ASSUME IInv, LaunchLcore PROVE IInv'
  OBVIOUS
<1> DEFINE l == Min(to_launch)
<1>1. /\ stage = "running" /\ to_launch # {} /\ to_launch' = to_launch \ {l}
      /\ pc' = (IF l < TotalCores THEN [pc EXCEPT ![l] = "polling"] ELSE pc)
      /\ UNCHANGED <<stage, eal, waited, pool, g_running>>
  BY DEF LaunchLcore, vars
<1>2. Master \in eal /\ eal \subseteq AllLcores /\ eal \subseteq Nat /\ Master' = Master
  BY <1>1, MasterIsLcore DEF Master, IInv, Typed
<1>3. l \in to_launch /\ l # Master /\ l \in eal
  <2>1. to_launch \subseteq Nat
    BY <1>2 DEF IInv, Typed
  <2>2. l \in to_launch
    BY <1>1, <2>1, MinLeast
  <2>3. QED
    BY <2>2 DEF IInv, Typed
<1> HIDE DEF l
<1>4. pc[Master] = "off" /\ pc'[Master] = "off"
  BY <1>1, <1>2, <1>3 DEF IInv, MasterLast, Typed
<1>5. InLoop' = IF l < TotalCores THEN InLoop \cup {l} ELSE InLoop
  <2>1. CASE l < TotalCores
    BY <1>1, <1>2, <1>3, <2>1 DEF InLoop, IInv, Typed
  <2>2. CASE ~(l < TotalCores)
    BY <1>1, <2>2 DEF InLoop
  <2>3. QED
    BY <2>1, <2>2
<1>6. Typed'
  BY <1>1, <1>2, <1>3 DEF IInv, Typed
<1>7. LoopsBelong'
  BY <1>1, <1>3, <1>5 DEF IInv, LoopsBelong
<1>8. MasterLast'
  BY <1>1, <1>2, <1>4 DEF IInv, MasterLast
<1>9. Launched'
  BY <1>1, <1>2, <1>3, <1>4, <1>5 DEF IInv, Launched
<1>10. QED
  BY <1>6, <1>7, <1>8, <1>9 DEF IInv

\* The master enters its loop when all the others have been launched.
LEMMA MasterLoopStep == IInv /\ MasterLoop => IInv'
<1> SUFFICES ASSUME IInv, MasterLoop PROVE IInv'
  OBVIOUS
<1>1. /\ stage = "running" /\ to_launch = {} /\ pc[Master] = "off"
      /\ pc' = [pc EXCEPT ![Master] = IF Master < TotalCores THEN "polling" ELSE "left"]
      /\ UNCHANGED <<stage, eal, waited, to_launch, pool, g_running>>
  BY DEF MasterLoop, vars
<1>2. Master \in eal /\ eal \subseteq AllLcores /\ Master' = Master
  BY <1>1, MasterIsLcore DEF Master, IInv, Typed
<1>3. InLoop' = IF Master < TotalCores THEN InLoop \cup {Master} ELSE InLoop
  <2>1. CASE Master < TotalCores
    BY <1>1, <1>2, <2>1 DEF InLoop, IInv, Typed
  <2>2. CASE ~(Master < TotalCores)
    BY <1>1, <1>2, <2>2 DEF InLoop, IInv, Typed
  <2>3. QED
    BY <2>1, <2>2
<1>4. Typed'
  BY <1>1, <1>2 DEF IInv, Typed
<1>5. LoopsBelong'
  BY <1>1, <1>2, <1>3 DEF IInv, LoopsBelong
<1>6. MasterLast'
  BY <1>1, <1>2 DEF IInv, MasterLast
<1>7. Launched'
  BY <1>1, <1>2, <1>3 DEF IInv, Launched
<1>8. QED
  BY <1>4, <1>5, <1>6, <1>7 DEF IInv

\* A step of an lcore that stays in its loop, or leaves it after the signal.
LEMMA LoopStep ==
  ASSUME IInv, NEW l \in InLoop,
         NEW next \in {"polling", "testing", "asking", "hung", "left"},
         next = "left" => ~g_running,
         pc' = [pc EXCEPT ![l] = next],
         UNCHANGED <<stage, eal, waited, to_launch, pool, g_running>>
  PROVE  IInv'
<1>1. l \in AllLcores /\ pc[l] # "off" /\ Master' = Master
  BY DEF InLoop, Master
<1>2. Master \in AllLcores
  BY MasterIsLcore DEF IInv, Typed
<1>3. /\ pc'[Master] # "off" <=> pc[Master] # "off"
      /\ pc[Master] = "left" => pc'[Master] = "left"
  BY <1>1, <1>2 DEF InLoop, IInv, Typed
<1>4. InLoop' \subseteq InLoop /\ (g_running => InLoop' = InLoop)
  BY <1>1 DEF InLoop, IInv, Typed
<1>5. Typed'
  BY <1>1 DEF IInv, Typed
<1>6. LoopsBelong'
  BY <1>1, <1>4 DEF IInv, LoopsBelong
<1>7. MasterLast'
  BY <1>1, <1>3 DEF IInv, MasterLast
<1>8. Launched'
  BY <1>1, <1>3, <1>4 DEF IInv, Launched
<1>9. QED
  BY <1>5, <1>6, <1>7, <1>8 DEF IInv

\* One iteration of a loop keeps the lcore in it, unless the signal has come.
LEMMA LcoreStepStep ==
  ASSUME IInv, NEW l \in eal, LcoreStep(l)
  PROVE  IInv'
<1>1. l \in AllLcores
  BY MasterIsLcore DEF IInv, Typed
<1>2. CASE LeaveLoop(l)
  <2>1. l \in InLoop
    BY <1>1, <1>2 DEF LeaveLoop, InLoop
  <2>2. QED
    BY <1>2, <2>1, LoopStep DEF LeaveLoop, vars
<1>3. CASE ReadClock(l)
  <2>1. l \in InLoop
    BY <1>1, <1>3 DEF ReadClock, InLoop
  <2>2. QED
    BY <1>3, <2>1, LoopStep DEF ReadClock, vars
<1>4. CASE TestInterval(l)
  <2>1. l \in InLoop
    BY <1>1, <1>4 DEF TestInterval, InLoop
  <2>2. PICK next \in {"polling", "asking"} : pc' = [pc EXCEPT ![l] = next]
    BY <1>4 DEF TestInterval
  <2>3. UNCHANGED <<stage, eal, waited, to_launch, pool, g_running>>
    BY <1>4 DEF TestInterval, vars
  <2>4. QED
    BY <2>1, <2>2, <2>3, LoopStep
<1>5. CASE AskArp(l)
  <2>1. l \in InLoop
    BY <1>1, <1>5 DEF AskArp, InLoop
  <2>2. QED
    BY <1>5, <2>1, LoopStep DEF AskArp, vars
<1>6. QED
  BY <1>2, <1>3, <1>4, <1>5 DEF LcoreStep

\* An lcore that hangs does not leave its loop.
LEMMA HangStep ==
  ASSUME IInv, NEW l \in eal, Hang(l)
  PROVE  IInv'
<1>1. l \in InLoop
  BY MasterIsLcore DEF IInv, Typed, Hang, InLoop
<1>2. QED
  BY <1>1, LoopStep DEF Hang, vars

\* Every step of main() and of the lcores keeps the invariant.
LEMMA NextIInv == IInv /\ [MainNext]_mainVars => IInv'
<1> SUFFICES ASSUME IInv, [MainNext]_mainVars PROVE IInv'
  OBVIOUS
<1>1. ASSUME NEW option \in PeerOptions, ParsePeer(option), UNCHANGED lcoreVars PROVE IInv'
  BY <1>1, OutsideStep DEF ParsePeer, lcoreVars
<1>2. ASSUME NEW peer \in Peers, ParseDefault(peer), UNCHANGED lcoreVars PROVE IInv'
  BY <1>2, OutsideStep DEF ParseDefault, lcoreVars
<1>3. CASE Refuse
  BY <1>3, RefuseStep
<1>4. CASE Start
  BY <1>4, StartStep
<1>5. CASE LaunchLcore
  BY <1>5, LaunchLcoreStep
<1>6. CASE LaunchFails
  BY <1>6, NotRunningStep DEF LaunchFails
<1>7. CASE MasterLoop
  BY <1>7, MasterLoopStep
<1>8. CASE Shutdown
  BY <1>8, OutsideStep DEF Shutdown, vars
<1>9. CASE Signal
  BY <1>9, OutsideStep DEF Signal, vars
<1>10. ASSUME NEW l \in eal, LcoreStep(l) PROVE IInv'
  BY <1>10, LcoreStepStep
<1>11. CASE Tick
  BY <1>11, OutsideStep DEF Tick, vars
<1>12. CASE UNCHANGED mainVars
  BY <1>12, OutsideStep DEF mainVars, vars, lcoreVars
<1>13. CASE ProcessEnds
  BY <1>13, NotRunningStep DEF ProcessEnds
<1>14. ASSUME NEW l \in eal, Hang(l) PROVE IInv'
  BY <1>14, HangStep
<1>15. QED
  BY <1>1, <1>2, <1>3, <1>4, <1>5, <1>6, <1>7, <1>8, <1>9, <1>10, <1>11, <1>12,
     <1>13, <1>14 DEF MainNext, MainStep

----------------------------------------------------------------------------
\* The invariant holds throughout; fairness is not needed.
LEMMA Invariance == MainSpec => []IInv
<1>1. MainSpec => MainInit /\ [][MainNext]_mainVars
  BY PTL DEF MainSpec
<1>2. QED
  BY <1>1, InitIInv, NextIInv, PTL

\* Until the signal comes the pool of mbufs exists for every lcore in its
\* loop, for every set of lcore ids, every choice of the lcore main() waits for
\* and whichever launch fails: the master is the least of the ids, so it has a
\* role when any lcore has, and stays in its own loop until the signal.
THEOREM PoolSafe == MainSpec => []PoolUntilSignal
<1>1. ASSUME IInv, g_running, NEW l \in InLoop PROVE pool
  <2>1. l \in eal /\ l < TotalCores /\ stage = "running"
    BY <1>1 DEF IInv, LoopsBelong
  <2>2. eal \subseteq Nat /\ Master \in eal /\ Master <= l /\ TotalCores \in Nat
    <3>1. eal \subseteq Nat /\ eal # {}
      BY <1>1, LcoresAssumption DEF IInv, Typed
    <3>2. Master \in eal /\ Master <= l
      BY <2>1, <3>1, MinLeast DEF Master
    <3>3. QED
      BY <3>1, <3>2, LcoresAssumption DEF TotalCores
  <2>3. Master < TotalCores
    BY <2>1, <2>2
  <2>4. CASE pc[Master] = "off"
    BY <1>1, <2>1, <2>4 DEF IInv, MasterLast
  <2>5. CASE pc[Master] # "off"
    <3>1. Master \in InLoop
      BY <1>1, <2>1, <2>2, <2>3, <2>5 DEF IInv, Launched, Typed
    <3>2. QED
      BY <1>1, <2>1, <3>1 DEF IInv, MasterLast, InLoop
  <2>6. QED
    BY <2>4, <2>5
<1>2. IInv => PoolUntilSignal
  BY <1>1 DEF PoolUntilSignal
<1>3. QED
  BY <1>2, Invariance, PTL

\* No RX queue ever has two lcores or is one the port does not have, and once
\* the launch is over every queue has its lcore, for every number of LAN and
\* WAN cores, if EAL numbers its lcores from 0 without a gap.
THEOREM EveryQueueServed == MainSpec => []QueuesServed
<1>1. ASSUME IInv PROVE QueuesServed
  <2>1. LanCores \in Nat /\ WanCores \in Nat /\ TotalCores = LanCores + WanCores
    BY LcoresAssumption DEF TotalCores
  <2>2. \A l \in InLoop : l \in Nat /\ l < TotalCores
    BY <1>1, MasterIsLcore DEF IInv, Typed, LoopsBelong
  <2>3. \A l \in InLoop : Queue(l) \in Queues
    BY <2>1, <2>2 DEF Queue, Queues, IsLan
  <2>4. \A l, k \in InLoop : Queue(k) = Queue(l) => k = l
    BY <2>1, <2>2 DEF Queue, IsLan
  <2>5. ASSUME 0 .. TotalCores - 1 \subseteq eal, stage = "running", g_running,
               pc[Master] # "off", NEW q \in Queues
        PROVE  \E l \in InLoop : Queue(l) = q
    <3>1. \A l \in 0 .. TotalCores - 1 : l \in InLoop
      BY <1>1, <2>1, <2>5 DEF IInv, MasterLast, Launched
    <3>2. PICK id \in Nat : \/ id < LanCores /\ q = [port |-> "LAN", id |-> id]
                            \/ id < WanCores /\ q = [port |-> "WAN", id |-> id]
      BY <2>1 DEF Queues
    <3>3. CASE id < LanCores /\ q = [port |-> "LAN", id |-> id]
      <4>1. id \in 0 .. TotalCores - 1 /\ Queue(id) = q
        BY <2>1, <3>3 DEF Queue, IsLan
      <4>2. QED
        BY <3>1, <4>1
    <3>4. CASE id < WanCores /\ q = [port |-> "WAN", id |-> id]
      <4>1. LanCores + id \in 0 .. TotalCores - 1 /\ Queue(LanCores + id) = q
        BY <2>1, <3>4 DEF Queue, IsLan
      <4>2. QED
        BY <3>1, <4>1
    <3>5. QED
      BY <3>2, <3>3, <3>4
  <2>6. QED
    BY <2>3, <2>4, <2>5 DEF QueuesServed, Started
<1>2. QED
  BY <1>1, Invariance, PTL

----------------------------------------------------------------------------
(* The race for last_arp_time. *)

\* Nobody has read a clock that has yet to come, and only LAN lcores read it.
ClockRead ==
  /\ g_running \in BOOLEAN /\ pool \in BOOLEAN /\ asked \in Nat
  /\ clock \in 0 .. MaxTime /\ last_arp_time \in 0 .. clock
  /\ now \in [AllLcores -> 0 .. clock]
  /\ \A l \in AllLcores : pc[l] \in {"testing", "asking"} => IsLan(l)
  /\ stage = "parsing" => asked = 0

\* The lcores that hold an earlier reading of the clock, and those that are
\* about to ask with the current one.
Stale == {l \in AllLcores : pc[l] \in {"testing", "asking"} /\ now[l] < clock}
Fresh == {l \in AllLcores : pc[l] = "asking" /\ now[l] = clock}

\* Twice the number of requests still to come before the clock advances, when
\* s lcores are stale and c may ask with the current reading: a stale lcore
\* asks once and, since its stamp sets last_arp_time back, lets the others,
\* and itself, ask once more.
Owed(s, c) == 2 * s + 2 * s * (LanCores - s) + s * (s + 1) + 2 * c

\* While last_arp_time is the current time no fresh reading passes the test.
Askers == IF last_arp_time = clock THEN Cardinality(Fresh) ELSE LanCores - Cardinality(Stale)

WithinBudget ==
  /\ 2 * asked <= LanCores * (LanCores + 3)
  /\ stage = "running" =>
       2 * asked + Owed(Cardinality(Stale), Askers) <= LanCores * (LanCores + 3)

ArpInv == ClockRead /\ WithinBudget

LEMMA LanSet ==
  ASSUME NEW S \in SUBSET AllLcores, \A l \in S : IsLan(l)
  PROVE  IsFiniteSet(S) /\ Cardinality(S) \in Nat /\ Cardinality(S) <= LanCores
<1>1. LanCores \in Nat /\ LanCores - 1 \in Int /\ LanCores > 0
  BY LcoresAssumption
<1>2. IsFiniteSet(0 .. LanCores - 1) /\ Cardinality(0 .. LanCores - 1) = LanCores
  <2>1. ASSUME NEW b \in Int
        PROVE  /\ IsFiniteSet(0 .. b)
               /\ Cardinality(0 .. b) = IF 0 > b THEN 0 ELSE b - 0 + 1
    BY FS_Interval
  <2>2. Cardinality(0 .. LanCores - 1) = IF 0 > LanCores - 1 THEN 0 ELSE LanCores - 1 - 0 + 1
    BY <1>1, <2>1, Zenon
  <2>3. QED
    BY <1>1, <2>1, <2>2
<1>3. S \in SUBSET (0 .. LanCores - 1)
  BY <1>1, LcoresAssumption DEF AllLcores, IsLan
<1>4. IsFiniteSet(S) /\ Cardinality(S) <= LanCores
  BY <1>2, <1>3, FS_Subset
<1>5. QED
  BY <1>4, FS_CardinalityType

\* The stale and the fresh readers together are LAN lcores.
LEMMA ReadersBounded ==
  ASSUME NEW S \in SUBSET AllLcores, NEW F \in SUBSET AllLcores, S \cap F = {},
         \A l \in S \cup F : IsLan(l)
  PROVE  /\ IsFiniteSet(S) /\ IsFiniteSet(F)
         /\ Cardinality(S) \in Nat /\ Cardinality(F) \in Nat
         /\ Cardinality(S) + Cardinality(F) <= LanCores
         /\ LanCores \in Nat /\ LanCores - Cardinality(S) \in Nat
<1>1. /\ IsFiniteSet(S) /\ Cardinality(S) \in Nat
      /\ IsFiniteSet(F) /\ Cardinality(F) \in Nat
      /\ Cardinality(S \cup F) <= LanCores
  BY LanSet
<1>2. Cardinality(S \cup F) = Cardinality(S) + Cardinality(F) - Cardinality(S \cap F)
  BY <1>1, FS_Union
<1>3. Cardinality(S \cap F) = 0
  BY FS_EmptySet
<1>4. LanCores \in Nat
  BY LcoresAssumption
<1>5. QED
  BY <1>1, <1>2, <1>3, <1>4

\* A stale lcore that asks starts a new round; one that does not only joins
\* the present one; and when the clock advances, a whole budget suffices.
LEMMA OwedFalls ==
  ASSUME NEW s \in Nat, NEW c \in Nat, s <= LanCores, s > 0
  PROVE  /\ Owed(s - 1, LanCores - (s - 1)) + 2 <= Owed(s, c)
         /\ Owed(s - 1, c + 1) <= Owed(s, c)
         /\ Owed(s - 1, c) <= Owed(s, c)
<1> DEFINE d == LanCores - s
<1>1. LanCores \in Nat /\ d \in Nat /\ LanCores = d + s
  BY LcoresAssumption
<1> HIDE DEF d
<1>2. LanCores - s = d /\ LanCores - (s - 1) = d + 1
  BY <1>1
<1>3. Owed(s, c) = 2 * s + 2 * s * d + s * (s + 1) + 2 * c
  BY <1>2 DEF Owed
<1>4. \A x : Owed(s - 1, x) = 2 * (s - 1) + 2 * (s - 1) * (d + 1) + (s - 1) * (s - 1 + 1) + 2 * x
  BY <1>2 DEF Owed
<1>5. 2 * (s - 1) * (d + 1) = 2 * s * d + 2 * s - 2 * d - 2
  BY <1>1
<1>6. (s - 1) * (s - 1 + 1) = s * (s + 1) - 2 * s
  BY <1>1
<1>7. 2 * s * d \in Int /\ s * (s + 1) \in Int
  BY <1>1
<1>8. ASSUME NEW x \in Nat
      PROVE  Owed(s - 1, x) = Owed(s, c) - 2 * d - 4 - 2 * c + 2 * x
  BY <1>1, <1>3, <1>4, <1>5, <1>6, <1>7
<1>9. Owed(s, c) \in Int
  BY <1>1, <1>3, <1>7
<1>10. /\ Owed(s - 1, d + 1) = Owed(s, c) - 2 * d - 4 - 2 * c + 2 * (d + 1)
       /\ Owed(s - 1, c + 1) = Owed(s, c) - 2 * d - 4 - 2 * c + 2 * (c + 1)
       /\ Owed(s - 1, c) = Owed(s, c) - 2 * d - 4 - 2 * c + 2 * c
  <2>1. d + 1 \in Nat /\ c + 1 \in Nat
    BY <1>1
  <2>2. QED
    BY <1>8, <2>1, Zenon
<1> HIDE DEF Owed
<1>11. QED
  BY <1>1, <1>2, <1>9, <1>10

LEMMA OwedAtMost ==
  ASSUME NEW s \in Nat, s <= LanCores
  PROVE  Owed(s, LanCores - s) <= LanCores * (LanCores + 3)
<1> DEFINE d == LanCores - s
<1>1. d \in Nat /\ LanCores = d + s
  BY LcoresAssumption
<1> HIDE DEF d
<1>2. LanCores * (LanCores + 3) = d * d + 2 * s * d + s * s + 3 * d + 3 * s
  BY <1>1
<1>3. Owed(s, LanCores - s) = 2 * s + 2 * s * d + s * s + s + 2 * d
  <2>1. LanCores - s = d
    BY <1>1
  <2>2. s * (s + 1) = s * s + s
    OBVIOUS
  <2>3. QED
    BY <1>1, <2>1, <2>2 DEF Owed
<1>4. d * d >= 0 /\ d * d \in Int /\ 2 * s * d \in Int /\ s * s \in Int
  BY <1>1
<1>5. QED
  BY <1>1, <1>2, <1>3, <1>4

\* Stale and Fresh, now and after a step.
LEMMA ReadersNow ==
  ASSUME ClockRead
  PROVE  /\ Stale \in SUBSET AllLcores /\ Fresh \in SUBSET AllLcores /\ Stale \cap Fresh = {}
         /\ \A l \in Stale \cup Fresh : IsLan(l)
  BY DEF ClockRead, Stale, Fresh

LEMMA ReadersThen ==
  ASSUME ClockRead'
  PROVE  /\ Stale' \in SUBSET AllLcores /\ Fresh' \in SUBSET AllLcores /\ Stale' \cap Fresh' = {}
         /\ \A l \in Stale' \cup Fresh' : IsLan(l)
  BY DEF ClockRead, Stale, Fresh

\* Nothing has been asked since the clock advanced.
LEMMA NewBudget ==
  ASSUME ClockRead', asked' = 0
  PROVE  WithinBudget'
<1> DEFINE s == Cardinality(Stale')
           f == Cardinality(Fresh')
           n == LanCores
<1>1. /\ s \in Nat /\ f \in Nat /\ s + f <= n /\ n \in Nat
  BY ReadersThen, ReadersBounded
<1>2. Askers' \in Nat /\ Askers' <= n - s
  BY <1>1 DEF Askers
<1>3. Owed(s, n - s) <= n * (n + 3)
  BY <1>1, OwedAtMost
<1>4. Owed(s, Askers') <= Owed(s, n - s)
  <2> DEFINE a == 2 * s + 2 * s * (n - s) + s * (s + 1)
             c == Askers'
  <2>1. a \in Int
    BY <1>1
  <2>2. Owed(s, c) = a + 2 * c /\ Owed(s, n - s) = a + 2 * (n - s)
    BY DEF Owed
  <2> HIDE DEF a, c, s, n
  <2>3. c \in Nat /\ c <= n - s
    BY <1>2 DEF c
  <2>4. QED
    BY <1>1, <2>1, <2>2, <2>3 DEF c
<1>5. n * (n + 3) >= 0 /\ n * (n + 3) \in Int /\ Owed(s, Askers') \in Int
  <2>1. n * (n + 3) >= 0 /\ n * (n + 3) \in Int
    BY <1>1
  <2>2. Owed(s, Askers') \in Int
    BY <1>1, <1>2 DEF Owed
  <2>3. QED
    BY <2>1, <2>2
<1> HIDE DEF s, n
<1>6. 2 * asked' <= n * (n + 3) /\ 2 * asked' + Owed(s, Askers') <= n * (n + 3)
  <2> DEFINE o == Owed(s, Askers')
             v == Owed(s, n - s)
             b == n * (n + 3)
  <2>1. v \in Int
    BY <1>1, LcoresAssumption DEF Owed
  <2>2. o <= v /\ v <= b /\ o \in Int /\ b \in Int /\ b >= 0
    BY <1>3, <1>4, <1>5
  <2> HIDE DEF o, v, b
  <2>3. 2 * asked' <= b /\ 2 * asked' + o <= b
    BY <2>1, <2>2
  <2>4. QED
    BY <2>3 DEF o, b
<1>7. QED
  BY <1>6 DEF WithinBudget, s, n

\* A step in which x requests are sent, x being 0 or 1, stays within the budget
\* if what is owed falls with it.
LEMMA BudgetStep ==
  ASSUME ArpInv, stage = "running", NEW x \in Nat, asked' = asked + x,
         Owed(Cardinality(Stale)', Askers') \in Int,
         0 <= Owed(Cardinality(Stale)', Askers'),
         Owed(Cardinality(Stale)', Askers') + 2 * x <= Owed(Cardinality(Stale), Askers)
  PROVE  WithinBudget'
<1> DEFINE o == Owed(Cardinality(Stale), Askers)
           v == Owed(Cardinality(Stale)', Askers')
           b == LanCores * (LanCores + 3)
<1>1. asked \in Nat /\ 2 * asked + o <= b
  BY DEF ArpInv, ClockRead, WithinBudget
<1>2. b \in Int
  BY LcoresAssumption
<1>3. o \in Int
  <2>1. Cardinality(Stale) \in Nat /\ Askers \in Int
    BY ReadersNow, ReadersBounded DEF ArpInv, Askers
  <2>2. QED
    BY <2>1, LcoresAssumption DEF Owed
<1> HIDE DEF o, v, b
<1>4. 2 * asked' <= b /\ 2 * asked' + v <= b
  BY <1>1, <1>2, <1>3 DEF v, o
<1>5. QED
  BY <1>4 DEF WithinBudget, v, b

LEMMA OwedIsNat ==
  ASSUME NEW s \in Nat, NEW c \in Nat, s <= LanCores
  PROVE  Owed(s, c) \in Int /\ 0 <= Owed(s, c)
<1> DEFINE d == LanCores - s
<1>1. d \in Nat
  BY LcoresAssumption
<1> HIDE DEF d
<1>2. Owed(s, c) = 2 * s + 2 * s * d + s * (s + 1) + 2 * c
  BY DEF Owed, d
<1>3. s * d \in Nat /\ s * (s + 1) \in Nat
  BY <1>1
<1>4. 2 * s * d = 2 * (s * d)
  BY <1>1
<1>5. QED
  BY <1>2, <1>3, <1>4

\* A step that asks for nothing, in which at most one lcore gives up its stale
\* reading, and no lcore becomes ready to ask while last_arp_time is current.
LEMMA QuietStep ==
  ASSUME ArpInv, stage = "running", ClockRead', NEW l,
         UNCHANGED <<clock, last_arp_time, asked>>,
         Stale' \in {Stale, Stale \ {l}},
         last_arp_time = clock => Fresh' \subseteq Fresh
  PROVE  WithinBudget'
<1> DEFINE s == Cardinality(Stale)
           f == Cardinality(Fresh)
           t == Cardinality(Stale')
           g == Cardinality(Fresh')
           n == LanCores
<1>1. s \in Nat /\ f \in Nat /\ s + f <= n /\ n \in Nat /\ IsFiniteSet(Stale) /\ IsFiniteSet(Fresh)
  BY ReadersNow, ReadersBounded DEF ArpInv
<1>2. t \in Nat /\ g \in Nat /\ t + g <= n
  BY ReadersThen, ReadersBounded
<1>3. t = s \/ (s > 0 /\ t = s - 1)
  <2>1. CASE Stale' = Stale
    BY <2>1
  <2>2. CASE Stale' = Stale \ {l}
    <3>1. t = IF l \in Stale THEN s - 1 ELSE s
      BY <1>1, <2>2, FS_RemoveElement
    <3>2. QED
      BY <1>1, <1>2, <3>1
  <2>3. QED
    BY <2>1, <2>2
<1>4. last_arp_time = clock => g <= f
  BY <1>1, FS_Subset
<1>5. Askers = (IF last_arp_time = clock THEN f ELSE n - s)
      /\ Askers' = (IF last_arp_time = clock THEN g ELSE n - t)
  BY DEF Askers
<1>6. Askers \in Nat /\ Askers' \in Nat
  BY <1>1, <1>2, <1>5
<1> HIDE DEF s, f, t, g, n
<1>7. Owed(t, Askers') <= Owed(s, Askers)
  <2> DEFINE c == Askers
             d == Askers'
  <2>1. c \in Nat /\ d \in Nat /\ s <= LanCores
    BY <1>1, <1>6 DEF n
  <2>2. ASSUME NEW x \in Nat, NEW y \in Nat, NEW z \in Nat, x <= y, z <= LanCores
        PROVE  Owed(z, x) <= Owed(z, y)
    <3> DEFINE a == 2 * z + 2 * z * (LanCores - z) + z * (z + 1)
    <3>1. a \in Int
      BY LcoresAssumption
    <3>2. Owed(z, x) = a + 2 * x /\ Owed(z, y) = a + 2 * y
      BY DEF Owed
    <3> HIDE DEF a
    <3>3. QED
      BY <2>2, <3>1, <3>2
  <2>3. CASE t = s
    <3>1. d <= c
      BY <1>1, <1>2, <1>4, <1>5, <2>3
    <3> HIDE DEF c, d
    <3>2. Owed(s, d) <= Owed(s, c)
      BY <1>1, <2>1, <2>2, <3>1
    <3>3. QED
      BY <2>3, <3>2 DEF c, d
  <2>4. CASE s > 0 /\ t = s - 1
    <3>1. d <= c + 1
      BY <1>1, <1>2, <1>4, <1>5, <2>4
    <3> HIDE DEF c, d
    <3>2. Owed(t, c + 1) <= Owed(s, c)
      BY <1>1, <2>1, <2>4, OwedFalls
    <3>3. c + 1 \in Nat /\ t <= LanCores
      BY <1>1, <1>2, <2>1 DEF n
    <3>4. Owed(t, d) <= Owed(t, c + 1)
      BY <1>2, <2>1, <2>2, <3>1, <3>3
    <3>5. Owed(t, d) \in Int /\ Owed(t, c + 1) \in Int /\ Owed(s, c) \in Int
      BY <1>1, <1>2, <2>1, <3>3, OwedIsNat
    <3>6. QED
      BY <3>2, <3>4, <3>5 DEF c, d
  <2>5. QED
    BY <1>3, <2>3, <2>4
<1>8. Owed(t, Askers') \in Int /\ 0 <= Owed(t, Askers') /\ Owed(s, Askers) \in Int
  <2>1. t <= LanCores /\ s <= LanCores
    BY <1>1, <1>2 DEF n
  <2>2. QED
    BY <1>1, <1>2, <1>6, <2>1, OwedIsNat
<1>9. Owed(t, Askers') + 2 * 0 <= Owed(s, Askers)
  BY <1>7, <1>8
<1>10. asked' = asked + 0
  BY DEF ArpInv, ClockRead
<1>11. QED
  BY <1>8, <1>9, <1>10, BudgetStep DEF s, t

\* A stale lcore asks: last_arp_time is set back.
LEMMA StaleAsk ==
  ASSUME ArpInv, stage = "running", ClockRead', NEW l \in Stale, NEW x \in {0, 1},
         asked' = asked + x, clock' = clock, last_arp_time' # clock,
         Stale' = Stale \ {l}
  PROVE  WithinBudget'
<1> DEFINE s == Cardinality(Stale)
           t == Cardinality(Stale')
           n == LanCores
<1>1. s \in Nat /\ s <= n /\ n \in Nat /\ IsFiniteSet(Stale) /\ Askers \in Nat
  <2>1. /\ s \in Nat /\ Cardinality(Fresh) \in Nat /\ s + Cardinality(Fresh) <= n /\ n \in Nat
        /\ IsFiniteSet(Stale)
    BY ReadersNow, ReadersBounded DEF ArpInv
  <2>2. QED
    BY <2>1 DEF Askers
<1>2. t \in Nat /\ n - t \in Nat
  BY ReadersThen, ReadersBounded
<1>3. t = s - 1
  BY <1>1, FS_RemoveElement
<1>4. s > 0
  BY <1>1, <1>2, <1>3
<1>5. Askers' = n - t
  BY DEF Askers
<1> DEFINE c == Askers
<1>6. Owed(s - 1, n - (s - 1)) + 2 <= Owed(s, c)
  <2>1. c \in Nat
    BY <1>1
  <2> HIDE DEF c, s
  <2>2. QED
    BY <1>1, <1>4, <2>1, OwedFalls
<1>7. Owed(t, n - t) \in Int /\ 0 <= Owed(t, n - t) /\ Owed(s, c) \in Int
  <2> HIDE DEF s, t, n
  <2>1. t <= LanCores /\ s <= LanCores
    BY <1>1, <1>2 DEF n
  <2>2. QED
    BY <1>1, <1>2, <2>1, OwedIsNat
<1> HIDE DEF s, t, n
<1>8. Owed(t, n - t) + 2 * x <= Owed(s, c)
  BY <1>3, <1>6, <1>7
<1>9. QED
  BY <1>5, <1>7, <1>8, BudgetStep DEF s, t

\* An lcore with a current reading asks: last_arp_time becomes current.
LEMMA FreshAsk ==
  ASSUME ArpInv, stage = "running", ClockRead', NEW l \in Fresh, NEW x \in {0, 1},
         asked' = asked + x, clock' = clock, last_arp_time' = clock,
         Stale' = Stale, Fresh' = Fresh \ {l}
  PROVE  WithinBudget'
<1> DEFINE s == Cardinality(Stale)
           f == Cardinality(Fresh)
           g == Cardinality(Fresh')
           n == LanCores
<1>1. s \in Nat /\ f \in Nat /\ s + f <= n /\ n \in Nat /\ IsFiniteSet(Fresh)
  BY ReadersNow, ReadersBounded DEF ArpInv
<1>2. g \in Nat
  BY ReadersThen, ReadersBounded
<1>3. g = f - 1
  BY <1>1, FS_RemoveElement
<1>4. Askers' = g /\ Askers \in Nat /\ g + 1 <= Askers
  BY <1>1, <1>2, <1>3 DEF Askers
<1> DEFINE a == 2 * s + 2 * s * (n - s) + s * (s + 1)
           c == Askers
<1>5. a \in Int
  BY <1>1
<1>6. Owed(s, g) = a + 2 * g /\ Owed(s, c) = a + 2 * c
  BY DEF Owed
<1>7. Owed(s, g) \in Int /\ 0 <= Owed(s, g)
  <2> HIDE DEF s, g
  <2>1. s <= LanCores
    BY <1>1
  <2>2. QED
    BY <1>1, <1>2, <2>1, OwedIsNat
<1>8. c \in Nat /\ g + 1 <= c
  BY <1>4
<1> HIDE DEF a, s, g, c
<1>9. Owed(s, g) + 2 * x <= Owed(s, c)
  BY <1>2, <1>5, <1>6, <1>8
<1>10. Cardinality(Stale)' = s
  BY DEF s
<1>11. QED
  BY <1>4, <1>7, <1>9, <1>10, BudgetStep DEF s, c

\* Steps that leave the readers, the clock and the requests alone, or end the
\* run.
LEMMA ArpUntouched ==
  ASSUME ArpInv, UNCHANGED <<clock, now, last_arp_time, asked>>,
         g_running' \in BOOLEAN, pool' \in BOOLEAN,
         stage' = "parsing" => stage = "parsing",
         \/ pc' = pc /\ (stage' = "running" => stage = "running")
         \/ pc' = [l \in AllLcores |-> "off"] /\ stage' # "running"
  PROVE  ArpInv'
<1>1. ClockRead'
  BY DEF ArpInv, ClockRead
<1>2. WithinBudget'
  <2>1. CASE stage' # "running"
    BY <2>1 DEF ArpInv, WithinBudget
  <2>2. CASE stage' = "running"
    <3>1. Stale' = Stale /\ Fresh' = Fresh /\ stage = "running"
      BY <2>2 DEF Stale, Fresh
    <3>2. QED
      BY <1>1, <3>1, QuietStep
  <2>3. QED
    BY <2>1, <2>2
<1>3. QED
  BY <1>1, <1>2 DEF ArpInv

LEMMA ArpLcoreStep ==
  ASSUME IInv, ArpInv, NEW l \in eal, LcoreStep(l)
  PROVE  ArpInv'
<1>1. l \in AllLcores /\ pc \in [AllLcores -> {"off", "polling", "testing", "asking", "hung", "left"}]
  BY MasterIsLcore DEF IInv, Typed
<1>2. /\ clock \in 0 .. MaxTime /\ last_arp_time \in 0 .. clock /\ asked \in Nat
      /\ now \in [AllLcores -> 0 .. clock] /\ MaxTime \in Nat /\ ArpInterval \in Nat
      /\ clock \in Nat
  BY LcoresAssumption DEF ArpInv, ClockRead
<1>3. CASE LeaveLoop(l)
  <2>1. /\ pc[l] = "polling" /\ pc' = [pc EXCEPT ![l] = "left"] /\ UNCHANGED stage
        /\ UNCHANGED <<g_running, pool, clock, now, last_arp_time, asked>>
    BY <1>3 DEF LeaveLoop, vars
  <2>2. stage = "running"
    BY <1>1, <2>1 DEF IInv, LoopsBelong, InLoop
  <2>3. ClockRead'
    BY <1>1, <2>1 DEF ArpInv, ClockRead
  <2>4. Stale' = Stale /\ Fresh' = Fresh
    BY <1>1, <2>1 DEF Stale, Fresh
  <2>5. QED
    BY <2>1, <2>2, <2>3, <2>4, QuietStep DEF ArpInv
<1>4. CASE ReadClock(l)
  <2>1. /\ pc[l] = "polling" /\ pc' = [pc EXCEPT ![l] = "testing"] /\ UNCHANGED stage
        /\ now' = [now EXCEPT ![l] = clock] /\ IsLan(l)
        /\ UNCHANGED <<g_running, pool, clock, last_arp_time, asked>>
    BY <1>4 DEF ReadClock, vars
  <2>2. stage = "running"
    BY <1>1, <2>1 DEF IInv, LoopsBelong, InLoop
  <2>3. ClockRead'
    BY <1>1, <1>2, <2>1 DEF ArpInv, ClockRead
  <2>4. Stale' = Stale /\ Fresh' = Fresh
    BY <1>1, <1>2, <2>1 DEF Stale, Fresh
  <2>5. QED
    BY <2>1, <2>2, <2>3, <2>4, QuietStep DEF ArpInv
<1>5. CASE TestInterval(l)
  <2> DEFINE over == (now[l] - last_arp_time) % TSC_MOD > ArpInterval
             next == IF over THEN "asking" ELSE "polling"
  <2>1. /\ pc[l] = "testing" /\ UNCHANGED stage
        /\ pc' = [pc EXCEPT ![l] = next]
        /\ now' = (IF pc'[l] = "polling" THEN [now EXCEPT ![l] = 0] ELSE now)
        /\ UNCHANGED <<g_running, pool, clock, last_arp_time, asked>>
    BY <1>5 DEF TestInterval, vars
  <2>2. stage = "running"
    BY <1>1, <2>1 DEF IInv, LoopsBelong, InLoop
  <2>3. now[l] = last_arp_time => ~over
    <3>1. TSC_MOD \in Nat /\ TSC_MOD > 0
      BY LcoresAssumption
    <3>2. 0 % TSC_MOD = 0
      BY <3>1
    <3>3. now[l] \in Nat
      BY <1>1, <1>2
    <3>4. ASSUME now[l] = last_arp_time PROVE now[l] - last_arp_time = 0
      BY <3>3, <3>4
    <3>5. QED
      BY <1>2, <3>2, <3>4
  <2> HIDE DEF over
  <2>4. ClockRead'
    <3>1. CASE over
      BY <1>1, <1>2, <2>1, <3>1 DEF ArpInv, ClockRead
    <3>2. CASE ~over
      BY <1>1, <1>2, <2>1, <3>2 DEF ArpInv, ClockRead
    <3>3. QED
      BY <3>1, <3>2
  <2>5. CASE over
    <3>1. pc' = [pc EXCEPT ![l] = "asking"] /\ now' = now
      BY <1>1, <2>1, <2>5
    <3>2. Stale' = Stale
      BY <1>1, <2>1, <3>1 DEF Stale
    <3>3. last_arp_time = clock => Fresh' \subseteq Fresh
      BY <1>1, <2>1, <2>3, <2>5, <3>1 DEF Fresh
    <3>4. QED
      BY <2>1, <2>2, <2>4, <3>2, <3>3, QuietStep DEF ArpInv
  <2>6. CASE ~over
    <3>1. pc' = [pc EXCEPT ![l] = "polling"] /\ now' = [now EXCEPT ![l] = 0]
      BY <1>1, <2>1, <2>6
    <3>2. Stale' = Stale \ {l}
      BY <1>1, <1>2, <2>1, <3>1 DEF Stale
    <3>3. Fresh' \subseteq Fresh
      BY <1>1, <1>2, <2>1, <3>1 DEF Fresh
    <3>4. QED
      BY <2>1, <2>2, <2>4, <3>2, <3>3, QuietStep DEF ArpInv
  <2>7. QED
    BY <2>5, <2>6
<1>6. CASE AskArp(l)
  <2>1. PICK x \in {0, 1} : asked' = asked + x
    BY <1>6 DEF AskArp
  <2>2. /\ pc[l] = "asking" /\ pc' = [pc EXCEPT ![l] = "polling"] /\ UNCHANGED stage
        /\ now' = [now EXCEPT ![l] = 0] /\ last_arp_time' = now[l]
        /\ UNCHANGED <<g_running, pool, clock>>
    BY <1>6 DEF AskArp, vars
  <2>3. stage = "running"
    BY <1>1, <2>2 DEF IInv, LoopsBelong, InLoop
  <2>4. now[l] \in 0 .. clock
    BY <1>1, <1>2
  <2>5. ClockRead'
    <3>1. asked' \in Nat
      BY <1>2, <2>1
    <3>2. now' \in [AllLcores -> 0 .. clock']
      BY <1>1, <1>2, <2>2
    <3>3. stage' # "parsing"
      BY <2>2, <2>3
    <3>4. \A k \in AllLcores : pc'[k] \in {"testing", "asking"} => IsLan(k)
      BY <1>1, <2>2 DEF ArpInv, ClockRead
    <3>5. last_arp_time' \in 0 .. clock' /\ clock' \in 0 .. MaxTime
      BY <1>2, <2>2, <2>4
    <3>6. g_running' \in BOOLEAN /\ pool' \in BOOLEAN
      BY <2>2 DEF ArpInv, ClockRead
    <3>7. QED
      BY <3>1, <3>2, <3>3, <3>4, <3>5, <3>6 DEF ClockRead
  <2>6. CASE now[l] < clock
    <3>1. l \in Stale
      BY <1>1, <2>2, <2>6 DEF Stale
    <3>2. Stale' = Stale \ {l}
      BY <1>1, <1>2, <2>2 DEF Stale
    <3>3. last_arp_time' # clock
      BY <1>2, <2>2, <2>4, <2>6
    <3>4. WithinBudget'
      BY <2>1, <2>2, <2>3, <2>5, <3>1, <3>2, <3>3, StaleAsk
    <3>5. QED
      BY <2>5, <3>4 DEF ArpInv
  <2>7. CASE now[l] = clock
    <3>1. l \in Fresh
      BY <1>1, <2>2, <2>7 DEF Fresh
    <3>2. Stale' = Stale /\ Fresh' = Fresh \ {l}
      <4>1. Stale' = Stale
        BY <1>1, <1>2, <2>2, <2>7 DEF Stale
      <4>2. Fresh' = Fresh \ {l}
        BY <1>1, <1>2, <2>2 DEF Fresh
      <4>3. QED
        BY <4>1, <4>2
    <3>3. WithinBudget'
      BY <2>1, <2>2, <2>3, <2>5, <2>7, <3>1, <3>2, FreshAsk
    <3>4. QED
      BY <2>5, <3>3 DEF ArpInv
  <2>8. QED
    BY <1>2, <2>4, <2>6, <2>7
<1>7. QED
  BY <1>3, <1>4, <1>5, <1>6 DEF LcoreStep

LEMMA ArpNext ==
  ASSUME IInv, ArpInv, [MainNext]_mainVars
  PROVE  ArpInv'
<1>0. g_running \in BOOLEAN /\ pool \in BOOLEAN
  BY DEF ArpInv, ClockRead
<1>1. ASSUME NEW option \in PeerOptions, ParsePeer(option), UNCHANGED lcoreVars PROVE ArpInv'
  BY <1>0, <1>1, ArpUntouched DEF ParsePeer, lcoreVars
<1>2. ASSUME NEW peer \in Peers, ParseDefault(peer), UNCHANGED lcoreVars PROVE ArpInv'
  BY <1>0, <1>2, ArpUntouched DEF ParseDefault, lcoreVars
<1>3. CASE Refuse
  BY <1>0, <1>3, ArpUntouched DEF Refuse, Abort, lcoreVars
<1>4. CASE Start
  <2>1. /\ stage = "parsing" /\ stage' = "running" /\ pool' = TRUE
        /\ UNCHANGED <<pc, g_running, clock, now, last_arp_time, asked>>
    BY <1>4 DEF Start, Launch
  <2>2. ClockRead' /\ asked' = 0
    BY <2>1 DEF ArpInv, ClockRead
  <2>3. QED
    BY <2>2, NewBudget DEF ArpInv
<1>5. CASE LaunchLcore
  <2> DEFINE l == Min(to_launch)
  <2>1. /\ stage = "running" /\ to_launch # {}
        /\ pc' = (IF l < TotalCores THEN [pc EXCEPT ![l] = "polling"] ELSE pc)
        /\ UNCHANGED <<stage, g_running, pool, clock, now, last_arp_time, asked>>
    BY <1>5 DEF LaunchLcore, vars
  <2>2. l \in AllLcores /\ pc \in [AllLcores -> {"off", "polling", "testing", "asking", "hung", "left"}]
    <3>1. to_launch \subseteq eal /\ eal \subseteq Nat /\ eal \subseteq AllLcores
      BY MasterIsLcore DEF IInv, Typed
    <3>2. l \in to_launch
      BY <2>1, <3>1, MinLeast
    <3>3. QED
      BY <3>1, <3>2 DEF IInv, Typed
  <2> HIDE DEF l
  <2>3. ClockRead'
    BY <2>1, <2>2 DEF ArpInv, ClockRead
  <2>4. Stale' \in {Stale, Stale \ {l}} /\ Fresh' \subseteq Fresh
    <3>1. CASE l < TotalCores
      BY <2>1, <2>2, <3>1 DEF Stale, Fresh
    <3>2. CASE ~(l < TotalCores)
      BY <2>1, <3>2 DEF Stale, Fresh
    <3>3. QED
      BY <3>1, <3>2
  <2>5. QED
    BY <2>1, <2>3, <2>4, QuietStep DEF ArpInv
<1>6. CASE LaunchFails
  BY <1>0, <1>6, ArpUntouched DEF LaunchFails
<1>7. CASE MasterLoop
  <2> DEFINE next == IF Master < TotalCores THEN "polling" ELSE "left"
  <2>1. /\ stage = "running" /\ pc' = [pc EXCEPT ![Master] = next]
        /\ UNCHANGED <<stage, g_running, pool, clock, now, last_arp_time, asked>>
    BY <1>7 DEF MasterLoop, vars
  <2>2. Master \in AllLcores /\ pc \in [AllLcores -> {"off", "polling", "testing", "asking", "hung", "left"}]
    BY MasterIsLcore DEF IInv, Typed
  <2>3. ClockRead'
    BY <2>1, <2>2 DEF ArpInv, ClockRead
  <2>4. Stale' = Stale \ {Master} /\ Fresh' \subseteq Fresh
    BY <2>1, <2>2 DEF Stale, Fresh
  <2>5. QED
    BY <2>1, <2>3, <2>4, QuietStep DEF ArpInv
<1>8. CASE Shutdown
  BY <1>0, <1>8, ArpUntouched DEF Shutdown, vars
<1>9. CASE Signal
  BY <1>0, <1>9, ArpUntouched DEF Signal, vars
<1>10. ASSUME NEW l \in eal, LcoreStep(l) PROVE ArpInv'
  BY <1>10, ArpLcoreStep
<1>11. CASE Tick
  <2>1. /\ clock < MaxTime /\ stage = "running" /\ clock' = clock + 1 /\ asked' = 0
        /\ UNCHANGED <<stage, pc, g_running, pool, now, last_arp_time>>
    BY <1>11 DEF Tick, vars
  <2>2. clock \in Nat /\ MaxTime \in Nat /\ now \in [AllLcores -> 0 .. clock]
        /\ last_arp_time \in 0 .. clock
    BY LcoresAssumption DEF ArpInv, ClockRead
  <2>3. clock' \in 0 .. MaxTime /\ last_arp_time' \in 0 .. clock'
        /\ now' \in [AllLcores -> 0 .. clock']
    BY <2>1, <2>2
  <2>4. ClockRead'
    BY <2>1, <2>3 DEF ArpInv, ClockRead
  <2>5. QED
    BY <2>1, <2>4, NewBudget DEF ArpInv
<1>12. CASE UNCHANGED mainVars
  BY <1>0, <1>12, ArpUntouched DEF mainVars, vars, lcoreVars
<1>13. CASE ProcessEnds
  BY <1>0, <1>13, ArpUntouched DEF ProcessEnds
<1>14. ASSUME NEW l \in eal, Hang(l) PROVE ArpInv'
  <2>1. /\ pc[l] = "polling" /\ pc' = [pc EXCEPT ![l] = "hung"] /\ UNCHANGED stage
        /\ UNCHANGED <<g_running, pool, clock, now, last_arp_time, asked>>
    BY <1>14 DEF Hang, vars
  <2>2. l \in AllLcores /\ pc \in [AllLcores -> {"off", "polling", "testing", "asking", "hung", "left"}]
    BY MasterIsLcore DEF IInv, Typed
  <2>3. stage = "running"
    BY <2>1, <2>2 DEF IInv, LoopsBelong, InLoop
  <2>4. ClockRead'
    BY <2>1, <2>2 DEF ArpInv, ClockRead
  <2>5. Stale' = Stale /\ Fresh' = Fresh
    BY <2>1, <2>2 DEF Stale, Fresh
  <2>6. QED
    BY <2>1, <2>3, <2>4, <2>5, QuietStep DEF ArpInv
<1>15. QED
  BY <1>1, <1>2, <1>3, <1>4, <1>5, <1>6, <1>7, <1>8, <1>9, <1>10, <1>11, <1>12,
     <1>13, <1>14 DEF MainNext, MainStep

LEMMA ArpInit == MainInit => ArpInv
<1> SUFFICES ASSUME MainInit PROVE ArpInv
  OBVIOUS
<1>1. /\ stage = "parsing" /\ g_running = TRUE /\ pool = FALSE /\ clock = 0 /\ asked = 0
      /\ last_arp_time = 0 /\ now = [l \in AllLcores |-> 0] /\ pc = [l \in AllLcores |-> "off"]
  BY DEF MainInit, Init
<1>2. ClockRead
  <2>1. now \in [AllLcores -> 0 .. clock]
    BY <1>1
  <2>2. clock \in 0 .. MaxTime /\ last_arp_time \in 0 .. clock
    BY <1>1, LcoresAssumption
  <2>3. \A l \in AllLcores : pc[l] = "off"
    BY <1>1
  <2>4. QED
    BY <1>1, <2>1, <2>2, <2>3 DEF ClockRead
<1>3. 0 <= LanCores * (LanCores + 3)
  BY LcoresAssumption
<1>4. WithinBudget
  BY <1>1, <1>3 DEF WithinBudget
<1>5. QED
  BY <1>2, <1>4 DEF ArpInv

LEMMA ArpInvariance == MainSpec => []ArpInv
<1>1. MainSpec => MainInit /\ [][MainNext]_mainVars
  BY PTL DEF MainSpec
<1>2. IInv /\ ArpInv /\ [MainNext]_mainVars => ArpInv'
  BY ArpNext
<1>3. QED
  BY <1>1, <1>2, ArpInit, Invariance, PTL

\* What main() and the lcores keep has its type: only lcores of EAL are to be
\* launched, and nobody holds a time beyond the clock's range.
THEOREM LcoresTyped == MainSpec => []LcoresTypeOK
<1>1. ASSUME IInv, ArpInv PROVE LcoresTypeOK
  <2>1. /\ clock \in 0 .. MaxTime /\ last_arp_time \in 0 .. clock /\ MaxTime \in Nat
        /\ now \in [AllLcores -> 0 .. clock]
    BY <1>1, LcoresAssumption DEF ArpInv, ClockRead
  <2>2. last_arp_time \in 0 .. MaxTime /\ now \in [AllLcores -> 0 .. MaxTime]
    BY <2>1
  <2>3. QED
    BY <1>1, <2>1, <2>2 DEF IInv, Typed, ArpInv, ClockRead, LcoresTypeOK
<1>2. IInv /\ ArpInv => LcoresTypeOK
  BY <1>1
<1>3. QED
  BY <1>2, Invariance, ArpInvariance, PTL

\* The unsynchronised last_arp_time lets more than one ARP request out per
\* interval, but for every number of LAN lcores no more than n(n+3)/2 before
\* the clock advances, however many packets arrive.
THEOREM ArpRequestsLimited == MainSpec => []ArpRequestsBounded
<1>1. ASSUME ArpInv PROVE ArpRequestsBounded
  <2> DEFINE b == LanCores * (LanCores + 3)
  <2>1. asked \in Nat /\ 2 * asked <= b
    BY <1>1 DEF ArpInv, ClockRead, WithinBudget
  <2>2. b \in Int
    BY LcoresAssumption
  <2>3. ArpRequestsBounded <=> asked <= b \div 2
    BY DEF ArpRequestsBounded
  <2> HIDE DEF b
  <2>4. QED
    BY <2>1, <2>2, <2>3
<1>2. ArpInv => ArpRequestsBounded
  BY <1>1
<1>3. QED
  BY <1>2, ArpInvariance, PTL

----------------------------------------------------------------------------
(* The table of peers. *)

\* An entry of the table, and an option of the command line.
PeerEntry   == [subnet: Addresses, subnet_mask: Addresses, peer_ip: Peers]
OptionGiven == [default: {FALSE}, option: PeerOptions, peer: Peers] \cup
               [default: {TRUE}, peer: Peers]

PmTyped ==
  /\ stage \in {"parsing", "running", "exited"}
  /\ given \in Seq(OptionGiven)
  /\ \A i \in Mappings : given[i].option \in PeerOptions
                         /\ given[i].option.peer = given[i].peer
  /\ pm \in [peers: Seq(PeerEntry), default_peer_ip: Peers \cup {0}]
  /\ Len(pm.peers) <= MAX_PEERS

\* The place of mapping i in the order the mappings were given.
Place(i) == Cardinality({j \in Mappings : j <= i})

\* The table holds the mappings in the order they were given, until it is
\* full, and the default is the last one given.
TableFollows ==
  /\ Len(pm.peers) = IF Cardinality(Mappings) <= MAX_PEERS
                     THEN Cardinality(Mappings) ELSE MAX_PEERS
  /\ \A i \in Kept : pm.peers[Place(i)] \in EntriesFor(given[i].option)
  /\ Defaults = {} => pm.default_peer_ip = 0
  /\ \A d \in Defaults :
       (\A e \in Defaults : e <= d) => pm.default_peer_ip = given[d].peer

PmInv == PmTyped /\ (stage = "parsing" => TableFollows)

\* The members of a finite set of numbers are numbered in their order.
LEMMA PlaceGrows ==
  ASSUME NEW M, M \subseteq Nat, IsFiniteSet(M), NEW i \in M
  PROVE  /\ Cardinality({y \in M : y <= i}) \in 1 .. Cardinality(M)
         /\ \A j \in M : i < j =>
              Cardinality({y \in M : y <= i}) < Cardinality({y \in M : y <= j})
<1> DEFINE Upto(x) == {y \in M : y <= x}
<1>1. ASSUME NEW x PROVE IsFiniteSet(Upto(x)) /\ Cardinality(Upto(x)) \in Nat
                         /\ Cardinality(Upto(x)) <= Cardinality(M)
  <2>1. Upto(x) \in SUBSET M
    OBVIOUS
  <2>2. QED
    BY <2>1, FS_Subset, FS_CardinalityType
<1>2. i \in Upto(i)
  OBVIOUS
<1>3. Cardinality(Upto(i)) # 0
  BY <1>1, <1>2, FS_EmptySet
<1>4. Cardinality(M) \in Nat
  BY FS_CardinalityType
<1>5. Cardinality(Upto(i)) \in 1 .. Cardinality(M)
  <2> HIDE DEF Upto
  <2> QED
    BY <1>1, <1>3, <1>4
<1>6. ASSUME NEW j \in M, i < j
      PROVE  Cardinality(Upto(i)) < Cardinality(Upto(j))
  <2>1. i \in Nat /\ j \in Nat
    OBVIOUS
  <2>2. j \notin Upto(i)
    BY <1>6, <2>1
  <2>3. Upto(i) \cup {j} \subseteq Upto(j)
    <3>1. ASSUME NEW y \in M, y <= i PROVE y <= j
      <4>1. y \in Nat
        OBVIOUS
      <4>2. QED
        BY <1>6, <2>1, <3>1, <4>1
    <3>2. j <= j
      BY <2>1
    <3>3. QED
      BY <3>1, <3>2
  <2> HIDE DEF Upto
  <2>4. Cardinality(Upto(i) \cup {j}) = Cardinality(Upto(i)) + 1
    BY <1>1, <2>2, FS_AddElement
  <2>5. Cardinality(Upto(i) \cup {j}) <= Cardinality(Upto(j))
    BY <1>1, <2>3, FS_Subset
  <2>6. QED
    BY <1>1, <2>4, <2>5
<1>7. QED
  BY <1>5, <1>6

\* What Max returns.
LEMMA MaxGreatest ==
  ASSUME NEW n \in Nat, NEW S, S \subseteq 1 .. n, S # {}
  PROVE  Max(S) \in S /\ \A y \in S : y <= Max(S)
<1> DEFINE T == {k \in Nat : \A y \in S : y <= k}
<1>1. T \subseteq Nat /\ n \in T
  OBVIOUS
<1>2. PICK m \in T : \A k \in T : m <= k
  BY <1>1, LeastMember
<1>3. m \in S
  <2>1. SUFFICES ASSUME m \notin S PROVE FALSE
    OBVIOUS
  <2>2. m \in Nat /\ m # 0
    <3>1. PICK y : y \in S
      OBVIOUS
    <3>2. m \in Nat /\ y <= m
      BY <1>2, <3>1
    <3>3. y \in 1 .. n
      BY <3>1
    <3>4. QED
      BY <3>2, <3>3
  <2>3. m - 1 \in T
    <3>1. ASSUME NEW y \in S PROVE y <= m - 1
      <4>1. y \in Nat /\ y <= m /\ y # m
        BY <1>2, <2>1
      <4>2. QED
        BY <2>2, <4>1
    <3>2. QED
      BY <2>2, <3>1
  <2>4. QED
    BY <1>2, <2>2, <2>3
<1>4. \A y \in S : m >= y
  BY <1>2
<1>5. Max(S) \in S /\ \A y \in S : Max(S) >= y
  BY <1>3, <1>4, Zenon DEF Max
<1>6. QED
  BY <1>5

\* The indexes of the mappings.
LEMMA MappingsAre ==
  ASSUME PmTyped
  PROVE  /\ Len(given) \in Nat /\ DOMAIN given = 1 .. Len(given)
         /\ Mappings \subseteq 1 .. Len(given) /\ IsFiniteSet(Mappings)
         /\ Cardinality(Mappings) \in Nat /\ Mappings \subseteq Nat
         /\ Defaults \subseteq 1 .. Len(given)
         /\ \A i \in Mappings : Place(i) \in 1 .. Cardinality(Mappings)
         /\ \A i, j \in Mappings : i < j => Place(i) < Place(j)
<1>1. Len(given) \in Nat /\ DOMAIN given = 1 .. Len(given)
  BY DEF PmTyped
<1>2. Mappings \subseteq 1 .. Len(given) /\ Defaults \subseteq 1 .. Len(given)
  BY <1>1 DEF Mappings, Defaults
<1>3. IsFiniteSet(Mappings)
  <2>1. IsFiniteSet(1 .. Len(given))
    BY <1>1, FS_Interval
  <2>2. QED
    BY <1>2, <2>1, FS_Subset
<1>4. Cardinality(Mappings) \in Nat /\ Mappings \subseteq Nat
  BY <1>1, <1>2, <1>3, FS_CardinalityType
<1>5. \A i \in Mappings : /\ Place(i) \in 1 .. Cardinality(Mappings)
                          /\ \A j \in Mappings : i < j => Place(i) < Place(j)
  BY <1>3, <1>4, PlaceGrows DEF Place
<1>6. QED
  BY <1>1, <1>2, <1>3, <1>4, <1>5

\* The parts of an option, and the mask it gets, have their types.
LEMMA MaskIs ==
  ASSUME NEW option \in PeerOptions, NEW mask \in PrefixMasks(option.prefix)
  PROVE  mask \in Addresses /\ option.subnet \in Addresses /\ option.peer \in Peers
<1>1. option \in [subnet: Addresses, prefix: 0 .. 2 * OctetBits, peer: Peers]
  BY StartupAssumption
<1>2. ASSUME NEW prefix
      PROVE  [i \in Bits |-> IF i <= prefix THEN 1 ELSE 0] \in Addresses
  BY DEF Addresses
<1>3. [i \in Bits |-> 1] \in Addresses
  BY DEF Addresses
<1>4. mask \in Addresses
  <2>1. CASE option.prefix = 0
    BY <1>2, <1>3, <2>1 DEF PrefixMasks
  <2>2. CASE option.prefix # 0
    BY <1>2, <2>2 DEF PrefixMasks
  <2>3. QED
    BY <2>1, <2>2
<1>5. QED
  BY <1>1, <1>4

LEMMA SwapTyped ==
  ASSUME NEW a \in Addresses
  PROVE  Swap(a) \in Addresses
<1>1. OctetBits \in Nat /\ OctetBits > 0
  BY StartupAssumption
<1>2. ASSUME NEW i \in Bits
      PROVE  (IF i <= OctetBits THEN a[i + OctetBits] ELSE a[i - OctetBits]) \in {0, 1}
  BY <1>1 DEF Bits, Addresses
<1>3. QED
  BY <1>2 DEF Swap, Addresses

\* A --peer option with a subnet becomes the next entry, if there is room.
LEMMA ParsePeerTyped ==
  ASSUME PmTyped, NEW option \in PeerOptions, ParsePeer(option)
  PROVE  /\ PmTyped'
         /\ Defaults' = Defaults
         /\ Mappings' = Mappings \cup {Len(given) + 1}
<1> DEFINE g == [default |-> FALSE, option |-> option, peer |-> option.peer]
<1>1. PICK mask \in PrefixMasks(option.prefix) :
        pm' = pm_add(pm, Swap(option.subnet), Swap(mask), option.peer)
  BY DEF ParsePeer
<1>2. /\ mask \in Addresses /\ option.subnet \in Addresses /\ option.peer \in Peers
  BY MaskIs
<1> DEFINE entry == [subnet |-> Swap(option.subnet), subnet_mask |-> Swap(mask),
                     peer_ip |-> option.peer]
<1>3. entry \in PeerEntry
  BY <1>2, SwapTyped DEF PeerEntry
<1>4. g \in OptionGiven
  BY <1>2 DEF OptionGiven
<1>5. given' = Append(given, g) /\ stage' = stage
  BY DEF ParsePeer
<1>6. MAX_PEERS \in Nat
  BY StartupAssumption
<1>7. pm' = IF Len(pm.peers) >= MAX_PEERS THEN pm
            ELSE [pm EXCEPT !.peers = Append(pm.peers, entry)]
  BY <1>1 DEF pm_add
<1>8. g.default = FALSE /\ g.option = option /\ g.peer = option.peer
  OBVIOUS
<1> HIDE DEF entry, g
<1>9. /\ pm' \in [peers: Seq(PeerEntry), default_peer_ip: Peers \cup {0}]
      /\ Len(pm'.peers) <= MAX_PEERS
  <2>1. /\ pm.peers \in Seq(PeerEntry) /\ pm.default_peer_ip \in Peers \cup {0}
        /\ Len(pm.peers) \in Nat /\ Len(pm.peers) <= MAX_PEERS
        /\ pm = [peers |-> pm.peers, default_peer_ip |-> pm.default_peer_ip]
    BY DEF PmTyped
  <2>2. CASE Len(pm.peers) >= MAX_PEERS
    BY <1>7, <2>1, <2>2
  <2>3. CASE ~(Len(pm.peers) >= MAX_PEERS)
    <3>1. /\ Append(pm.peers, entry) \in Seq(PeerEntry)
          /\ Len(Append(pm.peers, entry)) = Len(pm.peers) + 1
      BY <1>3, <2>1
    <3>2. pm' = [peers |-> Append(pm.peers, entry), default_peer_ip |-> pm.default_peer_ip]
      BY <1>7, <2>1, <2>3
    <3>3. QED
      BY <1>6, <2>1, <2>3, <3>1, <3>2
  <2>4. QED
    BY <2>2, <2>3
<1>10. /\ given' \in Seq(OptionGiven) /\ Len(given) \in Nat
       /\ DOMAIN given = 1 .. Len(given)
       /\ DOMAIN given' = DOMAIN given \cup {Len(given) + 1}
       /\ given'[Len(given) + 1] = g
       /\ \A i \in DOMAIN given : given'[i] = given[i] /\ i # Len(given) + 1
  BY <1>4, <1>5 DEF PmTyped
<1>11. Defaults' = Defaults
  BY <1>8, <1>10 DEF Defaults
<1>12. Mappings' = Mappings \cup {Len(given) + 1}
  BY <1>10, <1>11 DEF Mappings, Defaults
<1>13. \A i \in Mappings' : given'[i].option \in PeerOptions
                            /\ given'[i].option.peer = given'[i].peer
  BY <1>8, <1>10, <1>12 DEF PmTyped, Mappings
<1>14. QED
  BY <1>5, <1>9, <1>10, <1>11, <1>12, <1>13 DEF PmTyped

LEMMA ParsePeerStep ==
  ASSUME PmInv, NEW option \in PeerOptions, ParsePeer(option)
  PROVE  PmInv'
<1> DEFINE n == Cardinality(Mappings)
<1>0. PICK new : new = Len(given) + 1
  OBVIOUS
<1>1. stage = "parsing" /\ PmTyped /\ TableFollows
  BY DEF PmInv, ParsePeer
<1>2. PmTyped' /\ Defaults' = Defaults /\ Mappings' = Mappings \cup {new}
  BY <1>0, <1>1, ParsePeerTyped
<1>3. /\ Len(given) \in Nat /\ Mappings \subseteq 1 .. Len(given) /\ IsFiniteSet(Mappings)
      /\ n \in Nat /\ DOMAIN given = 1 .. Len(given) /\ Defaults \subseteq 1 .. Len(given)
      /\ \A i \in Mappings : Place(i) \in 1 .. n
  BY <1>1, MappingsAre
<1>4. MAX_PEERS \in Nat /\ MAX_PEERS > 0
  BY StartupAssumption
<1>5. Cardinality(Mappings') = n + 1
  <2>1. new \notin Mappings
    BY <1>0, <1>3
  <2>2. QED
    BY <1>2, <1>3, <2>1, FS_AddElement
<1>6. ASSUME NEW i \in Mappings PROVE Place(i)' = Place(i)
  <2>1. {j \in Mappings' : j <= i} = {j \in Mappings : j <= i}
    BY <1>0, <1>2, <1>3
  <2>2. QED
    BY <2>1 DEF Place
<1>7. Place(new)' = n + 1
  <2>1. {j \in Mappings' : j <= new} = Mappings'
    <3>1. \A j \in Mappings : j <= new
      BY <1>0, <1>3
    <3>2. new <= new
      BY <1>0, <1>3
    <3>3. QED
      BY <1>2, <3>1, <3>2
  <2>2. QED
    BY <1>5, <2>1 DEF Place
<1>8. Kept = {i \in Mappings : Place(i) <= MAX_PEERS}
  BY DEF Kept, Place
<1>9. Kept' = {i \in Mappings' : Place(i)' <= MAX_PEERS}
  BY DEF Kept, Place
<1>10. PICK mask \in PrefixMasks(option.prefix) :
         pm' = pm_add(pm, Swap(option.subnet), Swap(mask), option.peer)
  BY DEF ParsePeer
<1> DEFINE entry == [subnet |-> Swap(option.subnet), subnet_mask |-> Swap(mask),
                     peer_ip |-> option.peer]
<1>11. entry \in EntriesFor(option)
  BY DEF EntriesFor
<1>12. pm' = IF Len(pm.peers) >= MAX_PEERS THEN pm
             ELSE [pm EXCEPT !.peers = Append(pm.peers, entry)]
  BY <1>10 DEF pm_add
<1>13. /\ given' = Append(given, [default |-> FALSE, option |-> option, peer |-> option.peer])
       /\ stage' = stage
  BY DEF ParsePeer
<1>14. given'[new].option = option /\ \A i \in 1 .. Len(given) : given'[i] = given[i]
  BY <1>0, <1>1, <1>3, <1>13 DEF PmTyped
<1>15. /\ Len(pm.peers) = IF n <= MAX_PEERS THEN n ELSE MAX_PEERS
       /\ pm.peers \in Seq(PeerEntry) /\ Len(pm.peers) \in Nat
       /\ DOMAIN pm.peers = 1 .. Len(pm.peers)
  BY <1>1 DEF TableFollows, PmTyped
<1> HIDE DEF entry, n
<1>16. CASE n >= MAX_PEERS
  <2>1. pm' = pm
    BY <1>3, <1>4, <1>12, <1>15, <1>16
  <2>2. Kept' = Kept
    <3>1. ~(Place(new)' <= MAX_PEERS)
      BY <1>3, <1>4, <1>7, <1>16
    <3>2. Kept' = {i \in Mappings : Place(i)' <= MAX_PEERS}
      BY <1>2, <1>9, <3>1
    <3>3. QED
      BY <1>6, <1>8, <3>2
  <2>3. Len(pm'.peers) = IF Cardinality(Mappings') <= MAX_PEERS
                         THEN Cardinality(Mappings') ELSE MAX_PEERS
    BY <1>3, <1>4, <1>5, <1>15, <1>16, <2>1
  <2>4. \A i \in Kept' : pm'.peers[Place(i)'] \in EntriesFor(given'[i].option)
    BY <1>1, <1>3, <1>6, <1>8, <1>14, <2>1, <2>2 DEF TableFollows
  <2>6. /\ Defaults' = {} => pm'.default_peer_ip = 0
        /\ \A d \in Defaults' :
             (\A e \in Defaults' : e <= d) => pm'.default_peer_ip = given'[d].peer
    BY <1>1, <1>2, <1>3, <1>14, <2>1 DEF TableFollows
  <2>7. QED
    BY <1>2, <2>3, <2>4, <2>6 DEF PmInv, TableFollows
<1>17. CASE n < MAX_PEERS
  <2>1. /\ Len(pm.peers) = n
        /\ pm'.peers = Append(pm.peers, entry) /\ pm'.default_peer_ip = pm.default_peer_ip
    BY <1>1, <1>3, <1>4, <1>12, <1>15, <1>17 DEF PmTyped
  <2>2. /\ Len(pm'.peers) = n + 1 /\ DOMAIN pm'.peers = 1 .. n + 1
        /\ pm'.peers[n + 1] = entry /\ \A k \in 1 .. n : pm'.peers[k] = pm.peers[k]
    BY <1>3, <1>15, <2>1
  <2>3. Kept' = Kept \cup {new} /\ Kept = Mappings
    <3>1. Place(new)' <= MAX_PEERS
      BY <1>3, <1>4, <1>7, <1>17
    <3>2. \A i \in Mappings : Place(i) <= MAX_PEERS
      BY <1>3, <1>4, <1>17
    <3>3. \A i \in Mappings : Place(i)' <= MAX_PEERS
      BY <1>6, <3>2
    <3>4. QED
      BY <1>2, <1>8, <1>9, <3>1, <3>2, <3>3
  <2>4. Len(pm'.peers) = IF Cardinality(Mappings') <= MAX_PEERS
                         THEN Cardinality(Mappings') ELSE MAX_PEERS
    BY <1>3, <1>4, <1>5, <1>17, <2>2
  <2>5. \A i \in Kept' : pm'.peers[Place(i)'] \in EntriesFor(given'[i].option)
    <3>1. ASSUME NEW i \in Mappings
          PROVE  pm'.peers[Place(i)'] \in EntriesFor(given'[i].option)
      BY <1>1, <1>3, <1>6, <1>14, <2>2, <2>3 DEF TableFollows
    <3>2. pm'.peers[Place(new)'] \in EntriesFor(given'[new].option)
      BY <1>7, <1>11, <1>14, <2>2
    <3>3. QED
      BY <2>3, <3>1, <3>2
  <2>7. /\ Defaults' = {} => pm'.default_peer_ip = 0
        /\ \A d \in Defaults' :
             (\A e \in Defaults' : e <= d) => pm'.default_peer_ip = given'[d].peer
    BY <1>1, <1>2, <1>3, <1>14, <2>1 DEF TableFollows
  <2>8. QED
    BY <1>2, <2>4, <2>5, <2>7 DEF PmInv, TableFollows
<1>18. QED
  BY <1>3, <1>4, <1>16, <1>17

\* A --peer default option replaces the default and leaves the table alone.
LEMMA ParseDefaultStep ==
  ASSUME PmInv, NEW peer \in Peers, ParseDefault(peer)
  PROVE  PmInv'
<1>0. PICK new : new = Len(given) + 1
  OBVIOUS
<1>1. stage = "parsing" /\ PmTyped /\ TableFollows
  BY DEF PmInv, ParseDefault
<1>2. /\ Len(given) \in Nat /\ DOMAIN given = 1 .. Len(given)
      /\ Mappings \subseteq 1 .. Len(given) /\ Defaults \subseteq 1 .. Len(given)
  BY <1>1, MappingsAre
<1> DEFINE g == [default |-> TRUE, peer |-> peer]
<1>3. g \in OptionGiven /\ g.default = TRUE /\ g.peer = peer
  BY DEF OptionGiven
<1>4. given' = Append(given, g) /\ stage' = stage
  BY DEF ParseDefault
<1> HIDE DEF g
<1>5. /\ given' \in Seq(OptionGiven)
      /\ DOMAIN given' = DOMAIN given \cup {new}
      /\ given'[new] = g
      /\ \A i \in DOMAIN given : given'[i] = given[i] /\ i # new
  BY <1>0, <1>1, <1>3, <1>4 DEF PmTyped
<1>6. Defaults' = Defaults \cup {new}
  BY <1>3, <1>5 DEF Defaults
<1>7. Mappings' = Mappings
  BY <1>5, <1>6 DEF Mappings, Defaults
<1>8. /\ pm' = [peers |-> pm.peers, default_peer_ip |-> peer]
      /\ pm'.peers = pm.peers /\ pm'.default_peer_ip = peer
  BY <1>1 DEF PmTyped, ParseDefault, pm_set_default
<1>9. PmTyped'
  <2>1. \A i \in Mappings' : given'[i].option \in PeerOptions
                             /\ given'[i].option.peer = given'[i].peer
    BY <1>1, <1>2, <1>5, <1>7 DEF PmTyped
  <2>2. /\ pm' \in [peers: Seq(PeerEntry), default_peer_ip: Peers \cup {0}]
        /\ Len(pm'.peers) <= MAX_PEERS
    BY <1>1, <1>8 DEF PmTyped
  <2>3. QED
    BY <1>1, <1>4, <1>5, <2>1, <2>2 DEF PmTyped
<1>10. ASSUME NEW i PROVE Place(i)' = Place(i)
  BY <1>7 DEF Place
<1>11. Kept' = Kept
  BY <1>7 DEF Kept
<1>12. \A i \in Kept' : pm'.peers[Place(i)'] \in EntriesFor(given'[i].option)
  BY <1>1, <1>2, <1>5, <1>8, <1>10, <1>11 DEF TableFollows, Kept
<1>14. \A d \in Defaults' :
         (\A e \in Defaults' : e <= d) => pm'.default_peer_ip = given'[d].peer
  <2>1. ASSUME NEW d \in Defaults', \A e \in Defaults' : e <= d PROVE d = new
    BY <1>0, <1>2, <1>6, <2>1
  <2>2. QED
    BY <1>3, <1>5, <1>8, <2>1
<1>15. Defaults' # {}
  BY <1>6
<1>16. Len(pm'.peers) = IF Cardinality(Mappings') <= MAX_PEERS
                        THEN Cardinality(Mappings') ELSE MAX_PEERS
  BY <1>1, <1>7, <1>8 DEF TableFollows
<1>17. QED
  BY <1>9, <1>12, <1>14, <1>15, <1>16 DEF PmInv, TableFollows

\* A step that parses no option keeps the table, or empties it at the end of
\* the parsing.
LEMMA NotParsingStep ==
  ASSUME PmInv, given' = given, pm' \in {pm, EmptyPm},
         \/ stage' = stage /\ pm' = pm
         \/ stage' \in {"running", "exited"}
  PROVE  PmInv'
<1>1. Mappings' = Mappings /\ Defaults' = Defaults /\ Kept' = Kept
  BY DEF Mappings, Defaults, Kept
<1>2. EmptyPm \in [peers: Seq(PeerEntry), default_peer_ip: Peers \cup {0}]
      /\ Len(EmptyPm.peers) = 0 /\ MAX_PEERS \in Nat
  BY StartupAssumption DEF EmptyPm
<1>3. PmTyped'
  BY <1>1, <1>2 DEF PmInv, PmTyped
<1>4. ASSUME stage' = "parsing" PROVE TableFollows'
  <2>1. pm' = pm /\ stage = "parsing"
    BY <1>4
  <2>2. \A i : Place(i)' = Place(i)
    BY <1>1 DEF Place
  <2>3. QED
    BY <1>1, <2>1, <2>2 DEF PmInv, TableFollows
<1>5. QED
  BY <1>3, <1>4 DEF PmInv

LEMMA PmInit == MainInit => PmInv
<1> SUFFICES ASSUME MainInit PROVE PmInv
  OBVIOUS
<1>1. stage = "parsing" /\ pm = EmptyPm /\ given = << >>
  BY DEF MainInit, Init
<1>2. EmptyPm \in [peers: Seq(PeerEntry), default_peer_ip: Peers \cup {0}]
      /\ EmptyPm.peers = << >> /\ EmptyPm.default_peer_ip = 0 /\ MAX_PEERS \in Nat
  BY StartupAssumption DEF EmptyPm
<1>3. Mappings = {} /\ Defaults = {} /\ Kept = {}
  BY <1>1 DEF Mappings, Defaults, Kept
<1>4. Cardinality(Mappings) = 0
  BY <1>3, FS_EmptySet
<1>5. PmTyped
  BY <1>1, <1>2, <1>3 DEF PmTyped
<1>6. TableFollows
  BY <1>1, <1>2, <1>3, <1>4 DEF TableFollows
<1>7. QED
  BY <1>5, <1>6 DEF PmInv

LEMMA PmNext == PmInv /\ [MainNext]_mainVars => PmInv'
<1> SUFFICES ASSUME PmInv, [MainNext]_mainVars PROVE PmInv'
  OBVIOUS
<1>1. ASSUME NEW option \in PeerOptions, ParsePeer(option) PROVE PmInv'
  BY <1>1, ParsePeerStep
<1>2. ASSUME NEW peer \in Peers, ParseDefault(peer) PROVE PmInv'
  BY <1>2, ParseDefaultStep
<1>3. CASE Refuse
  BY <1>3, NotParsingStep DEF Refuse, Abort, pm_init
<1>4. CASE Start
  BY <1>4, NotParsingStep DEF Start, Launch, pm_init
<1>5. CASE MainStep
  BY <1>5, NotParsingStep DEF MainStep, LaunchLcore, LaunchFails, MasterLoop, Shutdown,
                              ProcessEnds, vars
<1>6. CASE Signal \/ Tick \/ UNCHANGED mainVars
  BY <1>6, NotParsingStep DEF Signal, Tick, mainVars, vars
<1>7. ASSUME NEW l \in eal, LcoreStep(l) \/ Hang(l) PROVE PmInv'
  BY <1>7, NotParsingStep
     DEF LcoreStep, LeaveLoop, ReadClock, TestInterval, AskArp, Hang, vars
<1>8. QED
  BY <1>1, <1>2, <1>3, <1>4, <1>5, <1>6, <1>7 DEF MainNext

LEMMA PmInvariance == MainSpec => []PmInv
<1>1. MainSpec => MainInit /\ [][MainNext]_mainVars
  BY PTL DEF MainSpec
<1>2. QED
  BY <1>1, PmInit, PmNext, PTL

\* The table of peers has its type and never more than MAX_PEERS entries,
\* whatever the command line.
THEOREM PeersTyped == MainSpec => []TypeOK
<1>1. ASSUME PmInv PROVE TypeOK
  <2>1. pm.peers \in Seq(PeerEntry) /\ pm.default_peer_ip \in Peers \cup {0}
    BY <1>1 DEF PmInv, PmTyped
  <2>2. \A i \in DOMAIN pm.peers : pm.peers[i] \in PeerEntry
    BY <2>1
  <2>3. QED
    BY <1>1, <2>1, <2>2 DEF PmInv, PmTyped, PeerEntry, TypeOK
<1>2. PmInv => TypeOK
  BY <1>1
<1>3. QED
  BY <1>2, PmInvariance, PTL

\* For every list of --peer options, of any length and in any order, the table
\* main() fills holds the first MAX_PEERS mappings in their order, as they were
\* written, and the last default; what pm_init does to it afterwards is
\* another matter.
THEOREM TableFilled == MainSpec => []TableHoldsOptions
<1>1. ASSUME PmTyped, TableFollows PROVE TableHoldsOptions
  <2>1. Cardinality(Mappings) \in Nat /\ MAX_PEERS \in Nat
    BY <1>1, MappingsAre, StartupAssumption
  <2>2. Len(pm.peers) = Min({Cardinality(Mappings), MAX_PEERS})
    <3> DEFINE n == Cardinality(Mappings)
    <3>1. /\ Min({n, MAX_PEERS}) \in {n, MAX_PEERS}
          /\ \A y \in {n, MAX_PEERS} : Min({n, MAX_PEERS}) <= y
      BY <2>1, MinLeast
    <3>2. Len(pm.peers) = IF n <= MAX_PEERS THEN n ELSE MAX_PEERS
      BY <1>1 DEF TableFollows
    <3> HIDE DEF n
    <3>3. QED
      BY <2>1, <3>1, <3>2 DEF n
  <2>3. pm.default_peer_ip = IF Defaults = {} THEN 0 ELSE given[Max(Defaults)].peer
    <3>1. CASE Defaults = {}
      BY <1>1, <3>1 DEF TableFollows
    <3>2. CASE Defaults # {}
      <4>1. Max(Defaults) \in Defaults /\ \A e \in Defaults : e <= Max(Defaults)
        BY <1>1, <3>2, MappingsAre, MaxGreatest
      <4>2. QED
        BY <1>1, <3>2, <4>1 DEF TableFollows
    <3>3. QED
      BY <3>1, <3>2
  <2>4. QED
    BY <1>1, <2>2, <2>3 DEF TableFollows, TableHoldsOptions, Place
<1>2. PmInv => TableHoldsOptions
  BY <1>1 DEF PmInv, TableHoldsOptions
<1>3. QED
  BY <1>2, PmInvariance, PTL

----------------------------------------------------------------------------
(* The tables of the CRC.  First the words: what the loops compute from     *)
(* words and bytes are words again.                                         *)

LEMMA Quotient ==
  ASSUME NEW d \in Nat, d > 0, NEW x \in Nat
  PROVE  x \div d \in 0 .. x /\ x % d \in 0 .. d - 1
<1> DEFINE q == x \div d
<1>1. q \in Int /\ x % d \in 0 .. d - 1 /\ x = d * q + (x % d)
  OBVIOUS
<1> HIDE DEF q
<1>2. q >= 0
  <2>1. SUFFICES ASSUME q <= -1 PROVE FALSE
    BY <1>1
  <2>2. d * q <= d * (-1)
    BY <1>1, <2>1
  <2>3. QED
    BY <1>1, <2>2
<1>3. q <= d * q
  BY <1>1, <1>2
<1>4. QED
  BY <1>1, <1>2, <1>3 DEF q

\* A word has CrcBytes bytes, and the least of them is a byte.
LEMMA WordIs ==
  /\ Radix \in Nat /\ Radix > 0
  /\ AllOnes \in Nat /\ Radix - 1 <= AllOnes
  /\ 0 \in Byte /\ Byte \subseteq Nat /\ Byte \subseteq Word /\ Word \subseteq Nat
<1>1. Radix \in Nat /\ Radix > 0
  BY IcrcAssumption
<1> DEFINE R == Radix
<1> HIDE DEF R
<1>2. R \in Nat /\ R > 0
  BY <1>1 DEF R
<1>3. R * R \in Nat /\ R * R >= R
  BY <1>2
<1>4. (R * R) * R \in Nat /\ (R * R) * R >= R
  <2> DEFINE S == R * R
  <2> HIDE DEF S
  <2>1. S \in Nat /\ S >= R
    BY <1>3 DEF S
  <2>2. S * R \in Nat /\ S * R >= S
    BY <1>2, <2>1
  <2>3. QED
    BY <1>2, <2>1, <2>2 DEF S
<1>5. ((R * R) * R) * R \in Nat /\ ((R * R) * R) * R >= R
  <2> DEFINE S == (R * R) * R
  <2> HIDE DEF S
  <2>1. S \in Nat /\ S >= R
    BY <1>4 DEF S
  <2>2. S * R \in Nat /\ S * R >= S
    BY <1>2, <2>1
  <2>3. QED
    BY <1>2, <2>1, <2>2 DEF S
<1>6. AllOnes = ((R * R) * R) * R - 1
  BY DEF AllOnes, R
<1> DEFINE W == ((R * R) * R) * R
<1> HIDE DEF W
<1>7. AllOnes = W - 1 /\ W \in Nat /\ W >= R
  BY <1>5, <1>6 DEF W
<1>8. QED
  BY <1>2, <1>7 DEF Byte, Word, R

LEMMA LowTyped ==
  ASSUME NEW w \in Word
  PROVE  Low(w) \in Byte /\ Shifted(w) \in Word
<1>1. w \in Nat /\ w <= AllOnes /\ Radix \in Nat /\ Radix > 0 /\ AllOnes \in Nat
  BY WordIs DEF Word
<1>2. w \div Radix \in 0 .. w /\ w % Radix \in 0 .. Radix - 1
  BY <1>1, Quotient
<1>3. QED
  BY <1>1, <1>2 DEF Low, Shifted, Byte, Word

LEMMA DividedTyped ==
  ASSUME NEW w \in Word
  PROVE  Divided(w) \in Word
<1>1. w \in Nat /\ w <= AllOnes /\ AllOnes \in Nat
  BY WordIs DEF Word
<1>2. w \div 2 \in 0 .. w
  BY <1>1, Quotient
<1>3. w \div 2 \in Word
  BY <1>1, <1>2 DEF Word
<1>4. QED
  BY <1>3, IcrcAssumption DEF Divided

LEMMA ChainedTyped ==
  ASSUME NEW slice \in [0 .. Block - 1 -> [Byte -> Word]], NEW w \in Word
  PROVE  Chained(slice, w) \in Word
<1>1. Low(w) \in Byte /\ Shifted(w) \in Word
  BY LowTyped
<1>2. slice[0][Low(w)] \in Word
  BY <1>1 DEF Block, CrcBytes
<1>3. QED
  BY <1>1, <1>2, IcrcAssumption DEF Chained

\* A byte below a number of whole bytes.
LEMMA PlaceValue ==
  ASSUME NEW M \in Nat, NEW x \in Byte, NEW y \in 0 .. M - 1
  PROVE  x + Radix * y \in 0 .. Radix * M - 1 /\ Radix * M \in Nat
<1> DEFINE R == Radix
<1> HIDE DEF R
<1>1. R \in Nat /\ R > 0 /\ x \in 0 .. R - 1
  BY WordIs DEF Byte, R
<1>2. R * y <= R * (M - 1) /\ R * y \in Nat /\ R * M \in Nat
  BY <1>1
<1>3. R * (M - 1) = R * M - R
  BY <1>1
<1>4. x + R * y \in 0 .. R * M - 1
  <2> DEFINE a == R * y
             b == R * M
  <2> HIDE DEF a, b
  <2>1. a \in Nat /\ b \in Nat /\ a <= b - R
    BY <1>2, <1>3 DEF a, b
  <2>2. QED
    BY <1>1, <2>1 DEF a, b
<1>5. QED
  BY <1>2, <1>4 DEF R

LEMMA WordOfTyped ==
  ASSUME NEW bytes \in Seq(Byte), NEW k \in Nat, k + CrcBytes <= Len(bytes)
  PROVE  WordOf(bytes, k) \in Word
<1> DEFINE b(j) == bytes[k + j]
           R == Radix
<1>1. b(1) \in Byte /\ b(2) \in Byte /\ b(3) \in Byte /\ b(4) \in Byte
  BY DEF CrcBytes
<1> HIDE DEF b, R
<1>2. R \in Nat /\ R > 0 /\ b(4) \in 0 .. R - 1
  BY <1>1, WordIs DEF Byte, R
<1>3. b(3) + R * b(4) \in 0 .. R * R - 1 /\ R * R \in Nat
  BY <1>1, <1>2, PlaceValue DEF R
<1>4. b(2) + R * (b(3) + R * b(4)) \in 0 .. R * (R * R) - 1 /\ R * (R * R) \in Nat
  <2> DEFINE y == b(3) + R * b(4)
             M == R * R
  <2> HIDE DEF y, M
  <2>1. y \in 0 .. M - 1 /\ M \in Nat
    BY <1>3 DEF y, M
  <2>2. b(2) + R * y \in 0 .. R * M - 1 /\ R * M \in Nat
    BY <1>1, <2>1, PlaceValue DEF R
  <2>3. QED
    BY <2>2 DEF y, M
<1>5. b(1) + R * (b(2) + R * (b(3) + R * b(4))) \in 0 .. R * (R * (R * R)) - 1
  <2> DEFINE y == b(2) + R * (b(3) + R * b(4))
             M == R * (R * R)
  <2> HIDE DEF y, M
  <2>1. y \in 0 .. M - 1 /\ M \in Nat
    BY <1>4 DEF y, M
  <2>2. b(1) + R * y \in 0 .. R * M - 1 /\ R * M \in Nat
    BY <1>1, <2>1, PlaceValue DEF R
  <2>3. QED
    BY <2>2 DEF y, M
<1>6. R * (R * (R * R)) = R * R * R * R
  BY <1>2
<1>7. WordOf(bytes, k) = b(1) + R * (b(2) + R * (b(3) + R * b(4)))
  BY DEF WordOf, b, R
<1>8. Word = 0 .. R * R * R * R - 1
  BY DEF Word, AllOnes, R
<1>9. QED
  BY <1>5, <1>6, <1>7, <1>8

LEMMA LookedTyped ==
  ASSUME NEW slice \in [0 .. Block - 1 -> [Byte -> Word]], NEW n \in {3, 7}, NEW w \in Word
  PROVE  Looked(slice, n, w) \in Word
<1> DEFINE v == Shifted(w)
           u == Shifted(v)
           t == Shifted(u)
<1>1. Low(w) \in Byte /\ v \in Word
  BY LowTyped
<1>2. Low(v) \in Byte /\ u \in Word
  BY <1>1, LowTyped
<1>3. Low(u) \in Byte /\ t \in Word
  BY <1>2, LowTyped
<1>4. Low(t) \in Byte
  BY <1>3, LowTyped
<1>5. /\ n \in 0 .. Block - 1 /\ n - 1 \in 0 .. Block - 1
      /\ n - 2 \in 0 .. Block - 1 /\ n - 3 \in 0 .. Block - 1
  BY DEF Block, CrcBytes
<1> HIDE DEF v, u, t
<1>6. /\ slice[n][Low(w)] \in Word /\ slice[n - 1][Low(v)] \in Word
      /\ slice[n - 2][Low(u)] \in Word /\ slice[n - 3][Low(t)] \in Word
  BY <1>1, <1>2, <1>3, <1>4, <1>5
<1>7. \A x, y \in Word : xor(x, y) \in Word
  BY IcrcAssumption
<1>8. Looked(slice, n, w) = xor(xor(slice[n][Low(w)], slice[n - 1][Low(v)]),
                               xor(slice[n - 2][Low(u)], slice[n - 3][Low(t)]))
  BY DEF Looked, v, u, t
<1>9. QED
  BY <1>6, <1>7, <1>8

LEMMA SumsTyped ==
  ASSUME NEW slice \in [0 .. Block - 1 -> [Byte -> Word]], NEW crc \in Word
  PROVE  /\ \A bytes \in Seq(Byte) : Len(bytes) >= Block => Block8(slice, crc, bytes) \in Word
         /\ \A b \in Byte : Byte1(slice[0], crc, b) \in Word
<1>1. \A x, y \in Word : xor(x, y) \in Word
  BY IcrcAssumption
<1>2. ASSUME NEW bytes \in Seq(Byte), Len(bytes) >= Block
      PROVE  Block8(slice, crc, bytes) \in Word
  <2>1. WordOf(bytes, 0) \in Word /\ WordOf(bytes, CrcBytes) \in Word
    <3>1. Len(bytes) \in Nat /\ Len(bytes) >= 8
      BY <1>2 DEF Block, CrcBytes
    <3>2. 0 + CrcBytes <= Len(bytes) /\ CrcBytes + CrcBytes <= Len(bytes) /\ CrcBytes \in Nat
      BY <3>1 DEF CrcBytes
    <3>3. QED
      BY <3>2, WordOfTyped
  <2>2. xor(crc, WordOf(bytes, 0)) \in Word
    BY <1>1, <2>1
  <2>3. /\ Looked(slice, 7, xor(crc, WordOf(bytes, 0))) \in Word
        /\ Looked(slice, 3, WordOf(bytes, CrcBytes)) \in Word
    BY <2>1, <2>2, LookedTyped
  <2>4. Block - 1 = 7 /\ CrcBytes - 1 = 3
    BY DEF Block, CrcBytes
  <2>5. QED
    BY <1>1, <2>3, <2>4 DEF Block8
<1>3. ASSUME NEW b \in Byte PROVE Byte1(slice[0], crc, b) \in Word
  <2>1. xor(crc, b) \in Word
    BY <1>1, WordIs
  <2>2. Low(xor(crc, b)) \in Byte /\ Shifted(crc) \in Word
    BY <2>1, LowTyped
  <2>3. slice[0][Low(xor(crc, b))] \in Word
    BY <2>2 DEF Block, CrcBytes
  <2>4. QED
    BY <1>1, <2>2, <2>3 DEF Byte1
<1>4. QED
  BY <1>2, <1>3

\* The rounds for a byte have a table, built up round by round.
LEMMA RoundsExist ==
  ASSUME NEW i \in Word, NEW K \in Nat
  PROVE  \E f \in [0 .. K -> Word] :
           /\ f[0] = i
           /\ \A k \in 1 .. K : f[k] = Divided(f[k - 1])
<1> DEFINE Is(f, n) == f[0] = i /\ \A k \in 1 .. n : f[k] = Divided(f[k - 1])
           bad == {n \in Nat : ~ \E f \in [0 .. n -> Word] : Is(f, n)}
<1>1. SUFFICES ASSUME bad # {} PROVE FALSE
  OBVIOUS
<1>2. PICK n \in bad : \A m \in bad : n <= m
  <2> HIDE DEF Is
  <2>1. bad \subseteq Nat
    OBVIOUS
  <2>2. QED
    BY <1>1, <2>1, LeastMember
<1>3. n \in Nat /\ ~ \E f \in [0 .. n -> Word] : Is(f, n)
  BY <1>2
<1>4. n # 0
  <2>1. SUFFICES ASSUME n = 0 PROVE \E f \in [0 .. n -> Word] : Is(f, n)
    BY <1>3
  <2> DEFINE f == [k \in 0 .. n |-> i]
  <2>2. f \in [0 .. n -> Word] /\ Is(f, n)
    BY <2>1
  <2>3. QED
    BY <2>2
<1>5. n - 1 \in Nat /\ n - 1 \notin bad
  <2> HIDE DEF bad
  <2>1. n - 1 \in Nat /\ ~(n <= n - 1)
    BY <1>3, <1>4
  <2>2. QED
    BY <1>2, <2>1
<1>6. PICK f \in [0 .. n - 1 -> Word] : Is(f, n - 1)
  <2> HIDE DEF Is
  <2>1. QED
    BY <1>5
<1> DEFINE g == [k \in 0 .. n |-> IF k = n THEN Divided(f[n - 1]) ELSE f[k]]
<1>7. Divided(f[n - 1]) \in Word
  BY <1>5, <1>6, DividedTyped
<1>8. g \in [0 .. n -> Word]
  BY <1>3, <1>4, <1>6, <1>7
<1>9. g[0] = i
  BY <1>3, <1>4, <1>6
<1>10. ASSUME NEW k \in 1 .. n PROVE g[k] = Divided(g[k - 1])
  <2>1. g[k - 1] = f[k - 1]
    BY <1>3
  <2>2. CASE k = n
    BY <1>3, <2>1, <2>2
  <2>3. CASE k # n
    <3>1. k \in 1 .. n - 1 /\ g[k] = f[k]
      BY <1>3, <2>3
    <3>2. QED
      BY <1>6, <2>1, <3>1
  <2>4. QED
    BY <2>2, <2>3
<1>11. QED
  BY <1>3, <1>8, <1>9, <1>10

LEMMA EntryTyped ==
  ASSUME NEW i \in Byte
  PROVE  Entry(i) \in Word
<1> DEFINE N == 0 .. ByteBits
           g == Rounds(i)
<1>1. i \in Word /\ ByteBits \in Nat
  BY IcrcAssumption, WordIs
<1>2. PICK f \in [N -> Word] : f[0] = i /\ \A k \in 1 .. ByteBits : f[k] = Divided(f[k - 1])
  BY <1>1, RoundsExist
<1>3. f = [k \in N |-> IF k = 0 THEN i ELSE Divided(f[k - 1])]
  <2>1. \A k \in N : f[k] = IF k = 0 THEN i ELSE Divided(f[k - 1])
    BY <1>1, <1>2
  <2>2. f = [k \in N |-> f[k]]
    BY <1>2
  <2> HIDE DEF N
  <2>3. QED
    BY <2>1, <2>2, Zenon
<1>4. g = [k \in N |-> IF k = 0 THEN i ELSE Divided(g[k - 1])]
  <2>1. \E h : h = [k \in N |-> IF k = 0 THEN i ELSE Divided(h[k - 1])]
    BY <1>3, Zenon
  <2>2. QED
    BY <2>1, Zenon DEF Rounds
<1> HIDE DEF g
<1>5. \A k \in N : g[k] \in Word
  <2> DEFINE bad == {k \in N : g[k] \notin Word}
  <2>1. SUFFICES ASSUME bad # {} PROVE FALSE
    OBVIOUS
  <2>2. bad \subseteq Nat
    BY <1>1
  <2>3. PICK k \in bad : \A m \in bad : k <= m
    BY <2>1, <2>2, LeastMember
  <2>4. k # 0
    BY <1>1, <1>4, <2>3
  <2>5. k - 1 \in N /\ k - 1 \notin bad
    BY <1>1, <2>2, <2>3, <2>4
  <2>6. g[k] = Divided(g[k - 1])
    BY <1>4, <2>3, <2>4
  <2>7. g[k] \in Word
    BY <2>5, <2>6, DividedTyped
  <2>8. QED
    BY <2>3, <2>7
<1>6. ByteBits \in N
  BY <1>1
<1>7. QED
  BY <1>5, <1>6 DEF Entry, g

LEMMA MaskedTyped ==
  ASSUME NEW packet \in Packets
  PROVE  Masked(packet) \in Seq(Byte)
<1>1. packet \in Seq(Byte)
  BY IcrcAssumption
<1>2. Radix - 1 \in Byte
  BY WordIs DEF Byte
<1>3. DOMAIN packet = 1 .. Len(packet) /\ Len(packet) \in Nat
  BY <1>1
<1>4. \A k \in 1 .. Len(packet) :
        (IF k \in Variant THEN Radix - 1 ELSE packet[k]) \in Byte
  BY <1>1, <1>2
<1>5. QED
  BY <1>3, <1>4 DEF Masked

----------------------------------------------------------------------------
(* The inductive invariant: how far every lcore has come, stated of the     *)
(* tables all of them share.                                                *)

Slices == [0 .. Block - 1 -> [Byte -> Word]]

\* Where an lcore is.
At == [pc     : {"idle", "base", "slices", "flag", "sum", "done"},
       packet : Packets \cup {<< >>},
       rest   : Seq(Byte),
       crc    : Word,
       i      : Byte,
       n      : 0 .. Block - 1,
       c      : Word]

CrcTyped ==
  /\ crc32_slice \in Slices
  /\ crc32_slice_ready \in BOOLEAN
  /\ lcore \in [Lcores -> At]

Based(slice, k) == \A j \in Byte : j < k => slice[0][j] = Entry(j)

Linked(slice, n, i) == slice[n][i] = Chained(slice, slice[n - 1][i])

\* What the second loop has passed when it is at n and i.
Passed(x, n, i) == i < x.i \/ (i = x.i /\ n < x.n)

Whole(slice) ==
  /\ Based(slice, Radix)
  /\ \A n \in 1 .. Block - 1, i \in Byte : Linked(slice, n, i)

Reached(slice, x) ==
  /\ x.pc = "base" => Based(slice, x.i)
  /\ x.pc = "slices" =>
       /\ Based(slice, Radix)
       /\ \A n \in 1 .. Block - 1, i \in Byte : Passed(x, n, i) => Linked(slice, n, i)
       /\ x.n > 0 => x.c = slice[x.n - 1][x.i]
  /\ x.pc \in {"flag", "sum"} => Whole(slice)

TablesFollow ==
  /\ \A l \in Lcores : Reached(crc32_slice, lcore[l])
  /\ crc32_slice_ready => Whole(crc32_slice)

CrcInv == CrcTyped /\ TablesFollow

LEMMA SlicesBound ==
  /\ Block = 8 /\ 0 \in 0 .. Block - 1 /\ 1 \in 0 .. Block - 1
  /\ Byte \subseteq Nat /\ 0 \in Byte /\ Radix \in Nat /\ Radix > 0
<1>1. Block = 8
  BY DEF Block, CrcBytes
<1>2. QED
  BY <1>1, WordIs

LEMMA IdleTyped == Idle \in At
<1>1. 0 \in Byte /\ 0 \in Word /\ Seed \in Word /\ 0 \in 0 .. Block - 1 /\ << >> \in Seq(Byte)
  BY WordIs, SlicesBound, IcrcAssumption
<1>2. QED
  BY <1>1 DEF At, Idle

LEMMA CrcInitHolds == CrcInit => CrcInv
<1> SUFFICES ASSUME CrcInit PROVE CrcInv
  OBVIOUS
<1>1. 0 \in Word
  BY WordIs
<1>2. CrcTyped
  BY <1>1, IdleTyped DEF CrcInit, CrcTyped, Slices
<1>3. Idle.pc = "idle"
  BY DEF Idle
<1>4. TablesFollow
  BY <1>3 DEF CrcInit, TablesFollow, Reached
<1>5. QED
  BY <1>2, <1>4 DEF CrcInv

----------------------------------------------------------------------------
(* What a store does to the tables and to the lcores that only watch it.    *)

Store(slice, n, i, v)   == [slice EXCEPT ![n][i] = v]
StoreBase(slice, i)     == Store(slice, 0, i, Entry(i))
StoreNext(slice, n, i)  == Store(slice, n, i, Chained(slice, slice[n - 1][i]))

LEMMA StoreIs ==
  ASSUME NEW slice \in Slices, NEW n \in 0 .. Block - 1, NEW i \in Byte, NEW v \in Word
  PROVE  LET s == Store(slice, n, i, v) IN
         /\ s \in Slices
         /\ s[n][i] = v
         /\ \A m \in 0 .. Block - 1, j \in Byte : (m # n \/ j # i) => s[m][j] = slice[m][j]
         /\ slice[n][i] = v => s = slice
<1>1. slice[n] \in [Byte -> Word]
  BY DEF Slices
<1> DEFINE r == [slice[n] EXCEPT ![i] = v]
           s == Store(slice, n, i, v)
<1>2. /\ r \in [Byte -> Word] /\ r[i] = v
      /\ \A j \in Byte : j # i => r[j] = slice[n][j]
  BY <1>1
<1>3. slice[n][i] = v => r = slice[n]
  BY <1>1, <1>2
<1>4. s = [slice EXCEPT ![n] = r]
  BY DEF Store
<1> HIDE DEF r, s
<1>5. s \in Slices /\ s[n] = r /\ \A m \in 0 .. Block - 1 : m # n => s[m] = slice[m]
  BY <1>2, <1>4 DEF Slices
<1>6. r = slice[n] => s = slice
  BY <1>4 DEF Slices
<1>7. QED
  BY <1>2, <1>3, <1>5, <1>6 DEF s

LEMMA BaseStored ==
  ASSUME NEW slice \in Slices, NEW i \in Byte
  PROVE  LET s == StoreBase(slice, i) IN
         /\ s \in Slices
         /\ \A k \in Nat : Based(slice, k) => Based(s, k)
         /\ Based(slice, i) => Based(s, i + 1)
         /\ Based(slice, Radix) => s = slice
<1> DEFINE s == StoreBase(slice, i)
<1> HIDE DEF s
<1>1. Entry(i) \in Word /\ 0 \in 0 .. Block - 1
  BY EntryTyped DEF Block, CrcBytes
<1>2. /\ s \in Slices /\ s[0][i] = Entry(i)
      /\ \A j \in Byte : j # i => s[0][j] = slice[0][j]
      /\ slice[0][i] = Entry(i) => s = slice
  <2> DEFINE v == Entry(i)
  <2> HIDE DEF v
  <2>1. s = Store(slice, 0, i, v) /\ v \in Word
    BY <1>1 DEF s, StoreBase, v
  <2>2. QED
    BY <1>1, <2>1, StoreIs DEF v
<1>3. i \in Nat /\ Byte \subseteq Nat /\ i < Radix
  BY WordIs DEF Byte
<1>4. \A k \in Nat : Based(slice, k) => Based(s, k)
  BY <1>2 DEF Based
<1>5. Based(slice, i) => Based(s, i + 1)
  <2>1. \A j \in Byte : j < i + 1 => j < i \/ j = i
    BY <1>3
  <2>2. QED
    BY <1>2, <2>1, Zenon DEF Based
<1>6. Based(slice, Radix) => s = slice
  BY <1>2, <1>3 DEF Based
<1>7. QED
  BY <1>2, <1>4, <1>5, <1>6 DEF s

LEMMA SliceStored ==
  ASSUME NEW slice \in Slices, NEW n \in 1 .. Block - 1, NEW i \in Byte
  PROVE  LET s == StoreNext(slice, n, i) IN
         /\ s \in Slices
         /\ \A k \in Nat : Based(slice, k) => Based(s, k)
         /\ Linked(s, n, i)
         /\ \A m \in 1 .. Block - 1, j \in Byte :
              (Linked(slice, m, j) /\ (m - 1 # n \/ j # i)) => Linked(s, m, j)
         /\ \A m \in 0 .. Block - 1, j \in Byte : (m # n \/ j # i) => s[m][j] = slice[m][j]
         /\ Linked(slice, n, i) => s = slice
<1> DEFINE s == StoreNext(slice, n, i)
           v == Chained(slice, slice[n - 1][i])
<1> HIDE DEF s
<1>1. /\ n \in 0 .. Block - 1 /\ n - 1 \in 0 .. Block - 1 /\ n - 1 # n /\ n # 0
      /\ 0 \in 0 .. Block - 1 /\ Block = 8
  BY DEF Block, CrcBytes
<1>2. slice[n - 1][i] \in Word
  BY <1>1 DEF Slices
<1>3. v \in Word
  BY <1>2, ChainedTyped DEF Slices
<1>4. /\ s \in Slices /\ s[n][i] = v
      /\ \A m \in 0 .. Block - 1, j \in Byte : (m # n \/ j # i) => s[m][j] = slice[m][j]
      /\ slice[n][i] = v => s = slice
  <2> HIDE DEF v
  <2>1. s = Store(slice, n, i, v)
    BY DEF s, StoreNext, v
  <2>2. slice \in Slices /\ n \in 0 .. Block - 1 /\ i \in Byte /\ v \in Word
    BY <1>1, <1>3
  <2>3. QED
    BY <2>1, <2>2, StoreIs
<1>5. s[0] = slice[0]
  <2>1. s[0] \in [Byte -> Word] /\ slice[0] \in [Byte -> Word]
    BY <1>1, <1>4 DEF Slices
  <2>2. \A j \in Byte : s[0][j] = slice[0][j]
    BY <1>1, <1>4
  <2>3. QED
    BY <2>1, <2>2
<1>6. \A w : Chained(s, w) = Chained(slice, w)
  BY <1>5 DEF Chained
<1>7. Linked(s, n, i)
  <2>1. s[n - 1][i] = slice[n - 1][i]
    BY <1>1, <1>4
  <2>2. QED
    BY <1>4, <1>6, <2>1 DEF Linked
<1>8. ASSUME NEW m \in 1 .. Block - 1, NEW j \in Byte, Linked(slice, m, j), m - 1 # n \/ j # i
      PROVE  Linked(s, m, j)
  <2>1. CASE m = n /\ j = i
    BY <1>7, <2>1
  <2>2. CASE m # n \/ j # i
    <3>1. m \in 0 .. Block - 1 /\ m - 1 \in 0 .. Block - 1
      BY <1>1
    <3>2. s[m][j] = slice[m][j] /\ s[m - 1][j] = slice[m - 1][j]
      BY <1>4, <1>8, <2>2, <3>1
    <3>3. QED
      BY <1>6, <1>8, <3>2 DEF Linked
  <2>3. QED
    BY <2>1, <2>2
<1>9. \A k \in Nat : Based(slice, k) => Based(s, k)
  BY <1>5 DEF Based
<1>10. Linked(slice, n, i) => s = slice
  BY <1>4 DEF Linked
<1>11. QED
  BY <1>4, <1>7, <1>8, <1>9, <1>10 DEF s

\* A store into the first table leaves what every other lcore has reached.
LEMMA BaseWatched ==
  ASSUME NEW slice \in Slices, NEW i \in Byte, NEW x \in At, Reached(slice, x)
  PROVE  Reached(StoreBase(slice, i), x)
<1> DEFINE s == StoreBase(slice, i)
<1> HIDE DEF s
<1>1. CASE Based(slice, Radix)
  BY <1>1, BaseStored DEF s
<1>2. CASE ~Based(slice, Radix)
  <2>1. x.pc \notin {"slices", "flag", "sum"}
    BY <1>2 DEF Reached, Whole
  <2>2. x.i \in Nat
    BY WordIs DEF At
  <2>3. Based(slice, x.i) => Based(s, x.i)
    BY <2>2, BaseStored DEF s
  <2>4. QED
    BY <2>1, <2>3 DEF Reached, s
<1>3. QED
  BY <1>1, <1>2 DEF s

\* So does one into the others: if it changed anything, nobody has passed it.
LEMMA SliceWatched ==
  ASSUME NEW slice \in Slices, NEW n \in 1 .. Block - 1, NEW i \in Byte,
         NEW x \in At, Reached(slice, x)
  PROVE  Reached(StoreNext(slice, n, i), x)
<1> DEFINE s == StoreNext(slice, n, i)
<1> HIDE DEF s
<1>1. CASE Linked(slice, n, i)
  BY <1>1, SliceStored DEF s
<1>2. CASE ~Linked(slice, n, i)
  <2>1. x.pc \notin {"flag", "sum"}
    BY <1>2 DEF Reached, Whole
  <2>2. /\ x.i \in Nat /\ Radix \in Nat /\ i \in Nat /\ x.i \in Byte
        /\ x.n \in 0 .. Block - 1 /\ Block = 8
    <3>1. x.i \in Byte /\ x.n \in 0 .. Block - 1
      BY DEF At
    <3>2. Block = 8
      BY DEF Block, CrcBytes
    <3>3. Radix \in Nat /\ Byte \subseteq Nat
      BY WordIs
    <3>4. QED
      BY <3>1, <3>2, <3>3
  <2>3. /\ Based(slice, x.i) => Based(s, x.i)
        /\ Based(slice, Radix) => Based(s, Radix)
    BY <2>2, SliceStored DEF s
  <2>4. ASSUME x.pc = "slices"
        PROVE  /\ \A m \in 1 .. Block - 1, j \in Byte : Passed(x, m, j) => Linked(s, m, j)
               /\ x.n > 0 => x.c = s[x.n - 1][x.i]
    <3>1. ~Passed(x, n, i)
      BY <1>2, <2>4 DEF Reached
    <3>2. ASSUME NEW m \in 1 .. Block - 1, NEW j \in Byte, Passed(x, m, j)
          PROVE  Linked(s, m, j)
      <4>1. Linked(slice, m, j)
        BY <2>4, <3>2 DEF Reached
      <4>2. m - 1 # n \/ j # i
        BY <2>2, <3>1, <3>2 DEF Passed
      <4>3. QED
        BY <4>1, <4>2, SliceStored DEF s
    <3>3. ASSUME x.n > 0 PROVE x.c = s[x.n - 1][x.i]
      <4>1. x.c = slice[x.n - 1][x.i]
        BY <2>4, <3>3 DEF Reached
      <4>2. x.n - 1 # n \/ x.i # i
        BY <2>2, <3>1 DEF Passed
      <4>3. x.n - 1 \in 0 .. Block - 1
        BY <2>2, <3>3
      <4>4. \A m \in 0 .. Block - 1, j \in Byte : (m # n \/ j # i) => s[m][j] = slice[m][j]
        BY SliceStored DEF s
      <4>5. s[x.n - 1][x.i] = slice[x.n - 1][x.i]
        BY <2>2, <4>2, <4>3, <4>4, Zenon
      <4>6. QED
        BY <4>1, <4>5
    <3>4. QED
      BY <3>2, <3>3
  <2>5. QED
    BY <2>1, <2>3, <2>4 DEF Reached, s
<1>3. QED
  BY <1>1, <1>2 DEF s

----------------------------------------------------------------------------
(* The steps. *)

\* Once the last byte has been stored the first table is whole.
LEMMA LastByte ==
  ASSUME NEW i \in Byte
  PROVE  /\ i + 1 \in Byte => i + 1 < Radix
         /\ i + 1 \notin Byte => i + 1 = Radix
  BY WordIs DEF Byte

\* A step of one lcore, told by where it comes from and where it gets to.
LEMMA Moves ==
  ASSUME CrcInv, NEW l \in Lcores, NEW y \in At,
         lcore' = [lcore EXCEPT ![l] = y],
         crc32_slice' \in Slices, crc32_slice_ready' \in BOOLEAN,
         Reached(crc32_slice', y),
         \A k \in Lcores : Reached(crc32_slice', lcore[k]),
         crc32_slice_ready' => Whole(crc32_slice')
  PROVE  CrcInv'
<1>1. lcore \in [Lcores -> At]
  BY DEF CrcInv, CrcTyped
<1>2. lcore' \in [Lcores -> At]
  BY <1>1
<1>3. \A k \in Lcores : Reached(crc32_slice', lcore'[k])
  BY <1>1
<1>4. CrcTyped'
  BY <1>2 DEF CrcTyped
<1>5. TablesFollow'
  BY <1>3 DEF TablesFollow
<1>6. QED
  BY <1>4, <1>5 DEF CrcInv

LEMMA InvIs ==
  ASSUME CrcInv
  PROVE  /\ crc32_slice \in Slices /\ crc32_slice_ready \in BOOLEAN
         /\ lcore \in [Lcores -> At]
         /\ \A l \in Lcores : lcore[l] \in At /\ Reached(crc32_slice, lcore[l])
         /\ crc32_slice_ready => Whole(crc32_slice)
<1>1. crc32_slice \in Slices /\ crc32_slice_ready \in BOOLEAN /\ lcore \in [Lcores -> At]
  BY DEF CrcInv, CrcTyped
<1>2. QED
  BY <1>1 DEF CrcInv, TablesFollow

\* A step that stores nothing and sets no flag.
LEMMA MovesAlone ==
  ASSUME CrcInv, NEW l \in Lcores, NEW y \in At,
         lcore' = [lcore EXCEPT ![l] = y],
         UNCHANGED <<crc32_slice, crc32_slice_ready>>,
         Reached(crc32_slice, y)
  PROVE  CrcInv'
  BY InvIs, Moves

LEMMA WriteBaseKeeps ==
  ASSUME CrcInv, NEW l \in Lcores, WriteBase(l)
  PROVE  CrcInv'
<1> DEFINE x == lcore[l]
           y == IF x.i + 1 \in Byte THEN [x EXCEPT !.i = x.i + 1]
                                    ELSE [x EXCEPT !.pc = "slices", !.i = 0, !.n = 0]
           s == StoreBase(crc32_slice, x.i)
<1>1. /\ x \in At /\ Reached(crc32_slice, x) /\ crc32_slice \in Slices
      /\ crc32_slice_ready \in BOOLEAN
      /\ \A k \in Lcores : lcore[k] \in At /\ Reached(crc32_slice, lcore[k])
      /\ crc32_slice_ready => Whole(crc32_slice)
  BY InvIs
<1>2. /\ x.pc = "base" /\ crc32_slice' = s /\ lcore' = [lcore EXCEPT ![l] = y]
      /\ crc32_slice_ready' = crc32_slice_ready
  <2>1. crc32_slice' = s
    BY DEF WriteBase, StoreBase, Store
  <2>2. lcore' = [lcore EXCEPT ![l] = y]
    BY Zenon DEF WriteBase
  <2>3. QED
    BY <2>1, <2>2 DEF WriteBase
<1>3. x.i \in Byte
  BY <1>1 DEF At
<1>4. /\ s \in Slices
      /\ Based(crc32_slice, x.i) => Based(s, x.i + 1)
      /\ Based(crc32_slice, Radix) => s = crc32_slice
  BY <1>1, <1>3, BaseStored
<1>5. Based(s, x.i + 1)
  BY <1>1, <1>2, <1>4 DEF Reached
<1>6. \A k \in Lcores : Reached(s, lcore[k])
  BY <1>1, <1>3, BaseWatched
<1>7. crc32_slice_ready => Whole(s)
  BY <1>1, <1>4 DEF Whole
<1> HIDE DEF s
<1>8. y \in At /\ Reached(s, y)
  <2>1. CASE x.i + 1 \in Byte
    <3>1. y = [x EXCEPT !.i = x.i + 1]
      BY <2>1
    <3>2. y \in At /\ y.pc = "base" /\ y.i = x.i + 1
      BY <1>1, <1>2, <2>1, <3>1 DEF At
    <3>3. QED
      BY <1>5, <3>2 DEF Reached
  <2>2. CASE x.i + 1 \notin Byte
    <3>1. y = [x EXCEPT !.pc = "slices", !.i = 0, !.n = 0]
      BY <2>2
    <3>2. y \in At /\ y.pc = "slices" /\ y.i = 0 /\ y.n = 0
      <4>1. 0 \in Byte /\ 0 \in 0 .. Block - 1
        BY SlicesBound
      <4>2. QED
        BY <1>1, <3>1, <4>1 DEF At
    <3>3. Based(s, Radix)
      BY <1>3, <1>5, <2>2, LastByte
    <3>4. \A n \in 1 .. Block - 1, i \in Byte : ~Passed(y, n, i)
      BY <3>2, SlicesBound DEF Passed
    <3>5. QED
      BY <3>2, <3>3, <3>4 DEF Reached
  <2>3. QED
    BY <2>1, <2>2
<1> HIDE DEF y
<1>9. QED
  <2>1. /\ crc32_slice' \in Slices /\ crc32_slice_ready' \in BOOLEAN
        /\ Reached(crc32_slice', y)
        /\ \A k \in Lcores : Reached(crc32_slice', lcore[k])
    BY <1>1, <1>2, <1>4, <1>6, <1>8
  <2>2. crc32_slice_ready' => Whole(crc32_slice')
    BY <1>2, <1>7
  <2>3. QED
    BY <1>2, <1>8, <2>1, <2>2, Moves

LEMMA ReadBaseKeeps ==
  ASSUME CrcInv, NEW l \in Lcores, ReadBase(l)
  PROVE  CrcInv'
<1> DEFINE x == lcore[l]
           y == [x EXCEPT !.c = crc32_slice[0][x.i], !.n = 1]
<1>1. x \in At /\ Reached(crc32_slice, x) /\ crc32_slice \in Slices /\ lcore \in [Lcores -> At]
  BY InvIs
<1>2. x.pc = "slices" /\ x.n = 0 /\ UNCHANGED <<crc32_slice, crc32_slice_ready>>
  BY DEF ReadBase
<1>3. lcore' = [lcore EXCEPT ![l] = y]
  BY <1>1 DEF ReadBase
<1>4. x.i \in Byte /\ crc32_slice[0][x.i] \in Word
  <2>1. x.i \in Byte
    BY <1>1 DEF At
  <2>2. QED
    BY <1>1, <2>1, SlicesBound DEF Slices
<1>5. y \in At /\ y.pc = "slices" /\ y.n = 1 /\ y.c = crc32_slice[0][x.i] /\ y.i = x.i
  <2>1. 1 \in 0 .. Block - 1
    BY SlicesBound
  <2>2. QED
    BY <1>1, <1>2, <1>4, <2>1 DEF At
<1> HIDE DEF y
<1>6. \A n \in 1 .. Block - 1, i \in Byte : Passed(y, n, i) => Passed(x, n, i)
  BY <1>2, <1>5, SlicesBound DEF Passed
<1>7. y.c = crc32_slice[y.n - 1][y.i]
  BY <1>5
<1>8. Reached(crc32_slice, y)
  BY <1>1, <1>2, <1>5, <1>6, <1>7 DEF Reached
<1>9. QED
  BY <1>2, <1>3, <1>5, <1>8, MovesAlone

\* The next entry, the first entry of the next byte, or the end of the loops.
LEMMA WriteSliceKeeps ==
  ASSUME CrcInv, NEW l \in Lcores, WriteSlice(l)
  PROVE  CrcInv'
<1> DEFINE x == lcore[l]
           v == Chained(crc32_slice, x.c)
           y == IF x.n + 1 < Block       THEN [x EXCEPT !.n = x.n + 1, !.c = v]
                ELSE IF x.i + 1 \in Byte THEN [x EXCEPT !.n = 0, !.i = x.i + 1]
                ELSE [x EXCEPT !.pc = "flag", !.n = 0, !.i = 0]
           s == StoreNext(crc32_slice, x.n, x.i)
<1>1. /\ x \in At /\ Reached(crc32_slice, x) /\ crc32_slice \in Slices
      /\ crc32_slice_ready \in BOOLEAN
      /\ \A k \in Lcores : lcore[k] \in At /\ Reached(crc32_slice, lcore[k])
      /\ crc32_slice_ready => Whole(crc32_slice)
  BY InvIs
<1>2. /\ x.pc = "slices" /\ x.n > 0 /\ crc32_slice' = [crc32_slice EXCEPT ![x.n][x.i] = v]
      /\ crc32_slice_ready' = crc32_slice_ready
  BY DEF WriteSlice
<1>3. lcore' = [lcore EXCEPT ![l] = y]
  BY Zenon DEF WriteSlice
<1>4. x.i \in Byte /\ x.n \in 1 .. Block - 1
  <2>1. x.i \in Byte /\ x.n \in 0 .. Block - 1
    BY <1>1 DEF At
  <2>2. QED
    BY <1>2, <2>1, SlicesBound
<1>5. x.c = crc32_slice[x.n - 1][x.i] /\ Based(crc32_slice, Radix)
  BY <1>1, <1>2 DEF Reached
<1>6. crc32_slice' = s
  BY <1>2, <1>5 DEF StoreNext, Store
<1>7. /\ s \in Slices
      /\ Based(crc32_slice, Radix) => Based(s, Radix)
      /\ Linked(s, x.n, x.i)
      /\ Linked(crc32_slice, x.n, x.i) => s = crc32_slice
  <2>1. Radix \in Nat
    BY SlicesBound
  <2>2. QED
    BY <1>1, <1>4, <2>1, SliceStored
<1>8. \A k \in Lcores : Reached(s, lcore[k])
  BY <1>1, <1>4, SliceWatched
<1>9. crc32_slice_ready => Whole(s)
  BY <1>1, <1>4, <1>7 DEF Whole
<1>10. v \in Word /\ v = s[x.n][x.i]
  <2>1. x.c \in Word
    BY <1>1 DEF At
  <2>2. v \in Word
    BY <1>1, <2>1, ChainedTyped DEF Slices
  <2>3. s = Store(crc32_slice, x.n, x.i, v)
    BY <1>5 DEF StoreNext
  <2>4. x.n \in 0 .. Block - 1
    BY <1>4
  <2>5. QED
    BY <1>1, <1>4, <2>2, <2>3, <2>4, StoreIs
<1>11. \A n \in 1 .. Block - 1, i \in Byte :
         (Passed(x, n, i) \/ (n = x.n /\ i = x.i)) => Linked(s, n, i)
  BY <1>1, <1>2, <1>7, <1>8 DEF Reached
<1> HIDE DEF s, v
<1>12. x.n \in Nat /\ x.i \in Nat /\ Block = 8 /\ Byte \subseteq Nat /\ x.n < Block
  <2>1. Block = 8 /\ Byte \subseteq Nat
    BY SlicesBound
  <2>2. x.i \in Nat
    BY <1>4, <2>1
  <2>3. x.n \in 1 .. 7
    BY <1>4, <2>1
  <2>4. QED
    BY <2>1, <2>2, <2>3
<1>13. y \in At /\ Reached(s, y)
  <2>1. CASE x.n + 1 < Block
    <3>1. y = [x EXCEPT !.n = x.n + 1, !.c = v]
      BY <2>1
    <3>2. x.n + 1 \in 0 .. Block - 1
      BY <1>12, <2>1
    <3>3. y \in At /\ y.pc = "slices" /\ y.n = x.n + 1 /\ y.c = v /\ y.i = x.i
      BY <1>1, <1>2, <1>10, <3>1, <3>2 DEF At
    <3> HIDE DEF y
    <3>4. ASSUME NEW n \in 1 .. Block - 1, NEW i \in Byte, Passed(y, n, i)
          PROVE  Linked(s, n, i)
      <4>1. Passed(x, n, i) \/ (n = x.n /\ i = x.i)
        BY <1>12, <3>3, <3>4 DEF Passed
      <4>2. QED
        BY <1>11, <4>1
    <3>5. y.c = s[y.n - 1][y.i]
      <4>1. y.n - 1 = x.n
        BY <1>12, <3>3
      <4>2. QED
        BY <1>10, <3>3, <4>1
    <3>6. QED
      BY <1>5, <1>7, <3>3, <3>4, <3>5 DEF Reached
  <2>2. CASE x.n + 1 = Block /\ x.i + 1 \in Byte
    <3>1. y = [x EXCEPT !.n = 0, !.i = x.i + 1]
      BY <1>12, <2>2
    <3>2. y \in At /\ y.pc = "slices" /\ y.n = 0 /\ y.i = x.i + 1
      <4>1. 0 \in 0 .. Block - 1
        BY SlicesBound
      <4>2. QED
        BY <1>1, <1>2, <2>2, <3>1, <4>1 DEF At
    <3> HIDE DEF y
    <3>3. ASSUME NEW n \in 1 .. Block - 1, NEW i \in Byte, Passed(y, n, i)
          PROVE  Linked(s, n, i)
      <4>1. Passed(x, n, i) \/ (n = x.n /\ i = x.i)
        BY <1>12, <2>2, <3>2, <3>3 DEF Passed
      <4>2. QED
        BY <1>11, <4>1
    <3>4. QED
      BY <1>5, <1>7, <3>2, <3>3 DEF Reached
  <2>3. CASE x.n + 1 = Block /\ x.i + 1 \notin Byte
    <3>1. y = [x EXCEPT !.pc = "flag", !.n = 0, !.i = 0]
      BY <1>12, <2>3
    <3>2. y \in At /\ y.pc = "flag"
      <4>1. 0 \in Byte /\ 0 \in 0 .. Block - 1
        BY SlicesBound
      <4>2. QED
        BY <1>1, <3>1, <4>1 DEF At
    <3> HIDE DEF y
    <3>3. ASSUME NEW n \in 1 .. Block - 1, NEW i \in Byte PROVE Linked(s, n, i)
      <4>1. x.i + 1 = Radix /\ i < Radix /\ i \in Nat
        BY <1>4, <2>3, LastByte, WordIs DEF Byte
      <4>2. Passed(x, n, i) \/ (n = x.n /\ i = x.i)
        BY <1>12, <2>3, <4>1 DEF Passed
      <4>3. QED
        BY <1>11, <4>2
    <3>4. Whole(s)
      BY <1>5, <1>7, <3>3 DEF Whole
    <3>5. QED
      BY <3>2, <3>4 DEF Reached
  <2>4. QED
    BY <1>12, <2>1, <2>2, <2>3
<1> HIDE DEF y
<1>14. QED
  <2>1. /\ crc32_slice' \in Slices /\ crc32_slice_ready' \in BOOLEAN
        /\ Reached(crc32_slice', y)
        /\ \A k \in Lcores : Reached(crc32_slice', lcore[k])
    BY <1>1, <1>2, <1>6, <1>7, <1>8, <1>13
  <2>2. crc32_slice_ready' => Whole(crc32_slice')
    BY <1>2, <1>6, <1>9
  <2>3. QED
    BY <1>3, <1>13, <2>1, <2>2, Moves

LEMMA SetReadyKeeps ==
  ASSUME CrcInv, NEW l \in Lcores, SetReady(l)
  PROVE  CrcInv'
<1> DEFINE x == lcore[l]
           y == [x EXCEPT !.pc = "sum", !.c = 0]
<1>1. /\ x \in At /\ Reached(crc32_slice, x) /\ crc32_slice \in Slices /\ lcore \in [Lcores -> At]
      /\ \A k \in Lcores : Reached(crc32_slice, lcore[k])
  BY InvIs
<1>2. x.pc = "flag" /\ crc32_slice_ready' = TRUE /\ crc32_slice' = crc32_slice
  BY DEF SetReady
<1>3. lcore' = [lcore EXCEPT ![l] = y]
  BY <1>1 DEF SetReady
<1>4. Whole(crc32_slice)
  BY <1>1, <1>2 DEF Reached
<1>5. y \in At /\ y.pc = "sum"
  <2>1. 0 \in Word
    BY WordIs
  <2>2. QED
    BY <1>1, <2>1 DEF At
<1> HIDE DEF y
<1>6. Reached(crc32_slice, y)
  BY <1>4, <1>5 DEF Reached
<1>7. QED
  BY <1>1, <1>2, <1>3, <1>4, <1>5, <1>6, Moves

LEMMA CallKeeps ==
  ASSUME CrcInv, NEW l \in Lcores, NEW packet \in Packets, Call(l, packet)
  PROVE  CrcInv'
<1> DEFINE p == IF crc32_slice_ready THEN "sum" ELSE "base"
           m == Masked(packet)
           y == [Idle EXCEPT !.pc = p, !.packet = packet, !.rest = m]
<1>1. lcore' = [lcore EXCEPT ![l] = y] /\ UNCHANGED <<crc32_slice, crc32_slice_ready>>
  BY DEF Call
<1>2. m \in Seq(Byte) /\ p \in {"sum", "base"}
  BY MaskedTyped
<1>3. p = "sum" => Whole(crc32_slice)
  BY InvIs
<1> HIDE DEF p, m
<1>4. y \in At /\ y.pc = p
  BY <1>2, IdleTyped DEF At
<1>5. y.i = 0
  BY DEF Idle
<1> HIDE DEF y
<1>6. Based(crc32_slice, 0)
  <2>1. \A j \in Byte : ~(j < 0)
    BY SlicesBound
  <2>2. QED
    BY <2>1 DEF Based
<1>7. Reached(crc32_slice, y)
  BY <1>2, <1>3, <1>4, <1>5, <1>6 DEF Reached
<1>8. QED
  BY <1>1, <1>4, <1>7, MovesAlone

\* The sum only reads the tables.
LEMMA SumKeeps ==
  ASSUME CrcInv, NEW l \in Lcores, SumBlock(l) \/ SumByte(l) \/ Return(l) \/ Forget(l)
  PROVE  CrcInv'
<1> DEFINE x == lcore[l]
<1>1. x \in At /\ Reached(crc32_slice, x) /\ crc32_slice \in Slices /\ lcore \in [Lcores -> At]
  BY InvIs
<1>2. x.rest \in Seq(Byte) /\ x.crc \in Word
  BY <1>1 DEF At
<1>3. UNCHANGED <<crc32_slice, crc32_slice_ready>>
  BY DEF SumBlock, SumByte, Return, Forget
<1>4. CASE SumBlock(l)
  <2> DEFINE c == Block8(crc32_slice, x.crc, x.rest)
             r == SubSeq(x.rest, Block + 1, Len(x.rest))
             y == [x EXCEPT !.crc = c, !.rest = r]
  <2>1. x.pc = "sum" /\ Len(x.rest) >= Block /\ lcore' = [lcore EXCEPT ![l] = y]
    BY <1>1, <1>4 DEF SumBlock
  <2>2. c \in Word
    BY <1>1, <1>2, <2>1, SumsTyped DEF Slices
  <2>3. r \in Seq(Byte)
    BY <1>2, SlicesBound
  <2> HIDE DEF c, r
  <2>4. y \in At /\ y.pc = "sum"
    BY <1>1, <2>1, <2>2, <2>3 DEF At
  <2> HIDE DEF y
  <2>5. Reached(crc32_slice, y)
    BY <1>1, <2>1, <2>4 DEF Reached
  <2>6. QED
    BY <1>3, <2>1, <2>4, <2>5, MovesAlone
<1>5. CASE SumByte(l)
  <2> DEFINE c == Byte1(crc32_slice[0], x.crc, Head(x.rest))
             r == Tail(x.rest)
             y == [x EXCEPT !.crc = c, !.rest = r]
  <2>1. x.pc = "sum" /\ x.rest # << >> /\ lcore' = [lcore EXCEPT ![l] = y]
    BY <1>1, <1>5 DEF SumByte
  <2>2. Head(x.rest) \in Byte /\ r \in Seq(Byte)
    BY <1>2, <2>1
  <2>3. c \in Word
    BY <1>1, <1>2, <2>2, SumsTyped DEF Slices
  <2> HIDE DEF c, r
  <2>4. y \in At /\ y.pc = "sum"
    BY <1>1, <2>1, <2>2, <2>3 DEF At
  <2> HIDE DEF y
  <2>5. Reached(crc32_slice, y)
    BY <1>1, <2>1, <2>4 DEF Reached
  <2>6. QED
    BY <1>3, <2>1, <2>4, <2>5, MovesAlone
<1>6. CASE Return(l)
  <2> DEFINE c == AllOnes - x.crc
             y == [x EXCEPT !.pc = "done", !.crc = c]
  <2>1. lcore' = [lcore EXCEPT ![l] = y]
    BY <1>1, <1>6 DEF Return
  <2>2. c \in Word
    BY <1>2, WordIs DEF Word
  <2> HIDE DEF c
  <2>3. y \in At /\ y.pc = "done"
    BY <1>1, <2>2 DEF At
  <2> HIDE DEF y
  <2>4. Reached(crc32_slice, y)
    BY <2>3 DEF Reached
  <2>5. QED
    BY <1>3, <2>1, <2>3, <2>4, MovesAlone
<1>7. CASE Forget(l)
  <2>1. lcore' = [lcore EXCEPT ![l] = Idle]
    BY <1>7 DEF Forget
  <2>2. Reached(crc32_slice, Idle)
    BY DEF Reached, Idle
  <2>3. QED
    BY <1>3, <2>1, <2>2, IdleTyped, MovesAlone
<1>8. QED
  BY <1>4, <1>5, <1>6, <1>7

LEMMA CrcNextKeeps == CrcInv /\ [CrcNext]_crcVars => CrcInv'
<1> SUFFICES ASSUME CrcInv, [CrcNext]_crcVars PROVE CrcInv'
  OBVIOUS
<1>1. CASE UNCHANGED crcVars
  BY <1>1 DEF crcVars, CrcInv, CrcTyped, TablesFollow
<1>2. ASSUME NEW l \in Lcores, NEW packet \in Packets, Call(l, packet) PROVE CrcInv'
  BY <1>2, CallKeeps
<1>3. ASSUME NEW l \in Lcores, WriteBase(l) PROVE CrcInv'
  BY <1>3, WriteBaseKeeps
<1>4. ASSUME NEW l \in Lcores, ReadBase(l) PROVE CrcInv'
  BY <1>4, ReadBaseKeeps
<1>5. ASSUME NEW l \in Lcores, WriteSlice(l) PROVE CrcInv'
  BY <1>5, WriteSliceKeeps
<1>6. ASSUME NEW l \in Lcores, SetReady(l) PROVE CrcInv'
  BY <1>6, SetReadyKeeps
<1>7. ASSUME NEW l \in Lcores, SumBlock(l) \/ SumByte(l) \/ Return(l) \/ Forget(l) PROVE CrcInv'
  BY <1>7, SumKeeps
<1>8. QED
  BY <1>1, <1>2, <1>3, <1>4, <1>5, <1>6, <1>7, Zenon DEF CrcNext

LEMMA CrcInvariance == CrcSpec => []CrcInv
  BY CrcInitHolds, CrcNextKeeps, PTL DEF CrcSpec

\* The words of the tables and of every sum stay words, for every width of a
\* byte, every polynomial and every number of lcores (crc32c.c, roce_icrc).
THEOREM CrcTypeCorrect == CrcSpec => []CrcTypeOK
<1>1. CrcInv => CrcTypeOK
  <2>1. SUFFICES ASSUME CrcInv PROVE CrcTypeOK
    OBVIOUS
  <2>2. /\ crc32_slice \in Slices /\ crc32_slice_ready \in BOOLEAN
        /\ \A l \in Lcores : lcore[l] \in At
    BY <2>1, InvIs
  <2>3. \A l \in Lcores : lcore[l].crc \in Word /\ lcore[l].c \in Word
                         /\ lcore[l].packet \in Packets \cup {<< >>}
    BY <2>2 DEF At
  <2>4. QED
    BY <2>2, <2>3 DEF CrcTypeOK, Slices
<1>2. QED
  BY <1>1, CrcInvariance, PTL

\* An lcore that sums reads whole tables, however the lcores that fill them
\* at once are scheduled (crc32_le_slice8 after init_crc32_slice).
THEOREM WholeTablesRead == CrcSpec => []SumsReadWholeTables
<1>1. CrcInv => SumsReadWholeTables
  <2>1. SUFFICES ASSUME CrcInv, NEW l \in Lcores, lcore[l].pc = "sum" PROVE TablesWhole
    BY Zenon DEF SumsReadWholeTables
  <2>2. Whole(crc32_slice)
    BY <2>1, InvIs DEF Reached
  <2>3. \A i \in Byte : i < Radix
    BY WordIs DEF Byte
  <2>4. QED
    BY <2>2, <2>3 DEF Whole, Based, Linked, TablesWhole
<1>2. QED
  BY <1>1, CrcInvariance, PTL

\* The race of the lcores that found crc32_slice_ready unset is benign: once
\* one of them has set it, the stores of the others change nothing.
THEOREM AnnouncedStays == CrcSpec => AnnouncedTablesStay
<1>1. CrcInv /\ [CrcNext]_crcVars => [crc32_slice_ready => UNCHANGED crc32_slice]_crcVars
  <2>1. SUFFICES ASSUME CrcInv, [CrcNext]_crcVars, crc32_slice_ready
                 PROVE  crc32_slice' = crc32_slice
    OBVIOUS
  <2>2. Whole(crc32_slice) /\ crc32_slice \in Slices
    BY <2>1, InvIs
  <2>3. ASSUME NEW l \in Lcores, WriteBase(l) PROVE crc32_slice' = crc32_slice
    <3>1. lcore[l].i \in Byte
      BY <2>1, InvIs DEF At
    <3>2. crc32_slice' = StoreBase(crc32_slice, lcore[l].i)
      BY <2>3 DEF WriteBase, StoreBase, Store
    <3>3. QED
      BY <2>2, <3>1, <3>2, BaseStored DEF Whole
  <2>4. ASSUME NEW l \in Lcores, WriteSlice(l) PROVE crc32_slice' = crc32_slice
    <3> DEFINE x == lcore[l]
    <3>1. x \in At /\ Reached(crc32_slice, x) /\ x.pc = "slices" /\ x.n > 0
      BY <2>1, <2>4, InvIs DEF WriteSlice
    <3>2. x.i \in Byte /\ x.n \in 0 .. Block - 1
      BY <3>1 DEF At
    <3>3. x.n \in 1 .. Block - 1
      BY <3>1, <3>2, SlicesBound
    <3>4. crc32_slice' = StoreNext(crc32_slice, x.n, x.i)
      <4>1. x.c = crc32_slice[x.n - 1][x.i]
        BY <3>1 DEF Reached
      <4>2. QED
        BY <2>4, <4>1 DEF WriteSlice, StoreNext, Store
    <3>5. QED
      BY <2>2, <3>2, <3>3, <3>4, SliceStored DEF Whole
  <2>5. CASE UNCHANGED crcVars
    BY <2>5 DEF crcVars
  <2>6. ASSUME NEW l \in Lcores, NEW packet \in Packets, Call(l, packet)
        PROVE  crc32_slice' = crc32_slice
    BY <2>6 DEF Call
  <2>7. ASSUME NEW l \in Lcores,
               ReadBase(l) \/ SetReady(l) \/ SumBlock(l) \/ SumByte(l) \/ Return(l) \/ Forget(l)
        PROVE  crc32_slice' = crc32_slice
    BY <2>7 DEF ReadBase, SetReady, SumBlock, SumByte, Return, Forget
  <2>8. QED
    BY <2>1, <2>3, <2>4, <2>5, <2>6, <2>7, Zenon DEF CrcNext
<1>2. QED
  BY <1>1, CrcInvariance, PTL DEF CrcSpec, AnnouncedTablesStay
=============================================================================
