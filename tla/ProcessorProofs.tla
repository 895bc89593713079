-------------------------- MODULE ProcessorProofs --------------------------
(***************************************************************************)
(* The processor contexts of the lcores, for every number of lcores, QPs,  *)
(* table entries and window slots, every watermark and every CNP timer.    *)
(***************************************************************************)
EXTENDS Processor, ArqProofs

----------------------------------------------------------------------------
(* Types. *)

QpType   == [active: BOOLEAN, qpn: QPNs \cup {0}, cnp_age: 0 .. CNP_TIMER]
ArqEntry == [qpn: QPNs \cup {0}, window: arq_context_t]
PType == [qps: [Entries -> QpType], arqs: [Entries -> ArqEntry],
          congestion_detected: BOOLEAN,
          packet_counter: 0 .. CONGESTION_CHECK_INTERVAL - 1]

LEMMA EntriesAre == Entries \subseteq Nat \ {0} /\ Entries # {}
  BY ProcessorAssumption DEF Entries

LEMMA PTypeIs ==
  ASSUME NEW p \in PType
  PROVE  /\ p.qps \in [Entries -> QpType] /\ p.arqs \in [Entries -> ArqEntry]
         /\ p.congestion_detected \in BOOLEAN
         /\ p.packet_counter \in 0 .. CONGESTION_CHECK_INTERVAL - 1
         /\ DOMAIN p.qps = Entries /\ DOMAIN p.arqs = Entries
         /\ \A i \in Entries : p.qps[i] \in QpType /\ p.arqs[i] \in ArqEntry
  BY DEF PType

LEMMA EmptyContextType == EmptyContext \in arq_context_t
<1>1. 0 \in PSN /\ 0 \in Ctr /\ 0 \in 0 .. RETRY_TIMEOUT + 1 /\ 0 \in 0 .. RETRY_MOD - 1
  BY PsnAssumption, ArqAssumption DEF PSN, Ctr
<1>2. QED
  BY <1>1 DEF EmptyContext, arq_context_t, arq_send_entry_t

LEMMA FirstEntryOf ==
  ASSUME NEW hits \in SUBSET Entries
  PROVE  /\ FirstEntry(hits) = 0 => hits = {}
         /\ FirstEntry(hits) # 0 => FirstEntry(hits) \in hits
<1>1. hits \subseteq Nat \ {0}
  BY EntriesAre
<1>2. QED
  BY <1>1, FirstEntryIs

----------------------------------------------------------------------------
(* The operators on a processor context. *)

LEMMA QpFindIs ==
  ASSUME NEW p \in PType, NEW q
  PROVE  LET e == qp_find(p, q)
         IN  /\ e = 0 => \A i \in Entries : ~(p.qps[i].active /\ p.qps[i].qpn = q)
             /\ e # 0 => e \in Entries /\ p.qps[e].active /\ p.qps[e].qpn = q
<1> DEFINE hits == {i \in DOMAIN p.qps : p.qps[i].active /\ p.qps[i].qpn = q}
<1>1. hits \in SUBSET Entries
  BY PTypeIs
<1>2. /\ FirstEntry(hits) = 0 => hits = {}
      /\ FirstEntry(hits) # 0 => FirstEntry(hits) \in hits
  BY <1>1, FirstEntryOf
<1>3. qp_find(p, q) = FirstEntry(hits)
  BY DEF qp_find
<1>4. DOMAIN p.qps = Entries
  BY PTypeIs
<1>5. QED
  BY <1>2, <1>3, <1>4

LEMMA ArqLookupIs ==
  ASSUME NEW p \in PType, NEW q
  PROVE  LET e == arq_lookup(p, q)
         IN  /\ e = 0 => \A i \in Entries : p.arqs[i].qpn # q
             /\ e # 0 => e \in Entries /\ p.arqs[e].qpn = q
<1> DEFINE hits == {i \in DOMAIN p.arqs : p.arqs[i].qpn = q}
<1>1. hits \in SUBSET Entries
  BY PTypeIs
<1>2. /\ FirstEntry(hits) = 0 => hits = {}
      /\ FirstEntry(hits) # 0 => FirstEntry(hits) \in hits
  BY <1>1, FirstEntryOf
<1>3. arq_lookup(p, q) = FirstEntry(hits)
  BY DEF arq_lookup
<1>4. DOMAIN p.arqs = Entries
  BY PTypeIs
<1>5. QED
  BY <1>2, <1>3, <1>4

\* The entry of a QP that is admitted, and the registry with it.
LEMMA WithQpIs ==
  ASSUME NEW p \in PType, NEW q \in QPNs, qp_get_or_create(p, q) # 0
  PROVE  LET e == qp_get_or_create(p, q)
             r == WithQp(p, q)
         IN  /\ e \in Entries
             /\ r \in PType
             /\ r.arqs = p.arqs
             /\ \A i \in Entries : i # e => r.qps[i] = p.qps[i]
             /\ r.qps[e].active /\ r.qps[e].qpn = q
             /\ p.qps[e].active => r = p
             /\ ~p.qps[e].active =>
                  /\ r.qps[e].cnp_age = CNP_TIMER
                  /\ \A i \in Entries : ~(p.qps[i].active /\ p.qps[i].qpn = q)
<1> DEFINE e == qp_get_or_create(p, q)
           r == WithQp(p, q)
           n == [InactiveQp EXCEPT !.active = TRUE, !.qpn = q]
<1>1. CASE qp_find(p, q) # 0
  <2>1. e = qp_find(p, q) /\ r = p
    BY <1>1 DEF qp_get_or_create, WithQp
  <2>2. e \in Entries /\ p.qps[e].active /\ p.qps[e].qpn = q
    BY <1>1, <2>1, QpFindIs
  <2>3. QED
    BY <2>1, <2>2
<1>2. CASE qp_find(p, q) = 0
  <2> DEFINE hits == {i \in DOMAIN p.qps : ~p.qps[i].active}
  <2>1. e = FirstEntry(hits) /\ r = [p EXCEPT !.qps[e] = n]
    BY <1>2 DEF qp_get_or_create, WithQp
  <2>2. hits \in SUBSET Entries
    BY PTypeIs
  <2>3. e \in Entries /\ ~p.qps[e].active
    BY <2>1, <2>2, FirstEntryOf
  <2>4. \A i \in Entries : ~(p.qps[i].active /\ p.qps[i].qpn = q)
    BY <1>2, QpFindIs
  <2>5. n.active /\ n.qpn = q /\ n.cnp_age = CNP_TIMER
    BY DEF InactiveQp
  <2>6. n \in QpType
    <3>1. InactiveQp \in QpType
      BY ProcessorAssumption DEF InactiveQp, QpType
    <3>2. QED
      BY <3>1, Zenon DEF QpType
  <2> HIDE DEF n, e, r
  <2>7. /\ r \in PType /\ r.arqs = p.arqs
        /\ r.qps = [p.qps EXCEPT ![e] = n]
    BY <2>1, <2>3, <2>6 DEF PType
  <2>8. r.qps[e] = n /\ \A i \in Entries : i # e => r.qps[i] = p.qps[i]
    BY <2>3, <2>7, PTypeIs
  <2>9. QED
    BY <2>3, <2>4, <2>5, <2>7, <2>8 DEF e, r
<1>3. QED
  BY <1>1, <1>2

LEMMA CnpEmittedIs ==
  ASSUME NEW p \in PType, NEW S
  PROVE  LET r == CnpEmitted(p, S)
         IN  /\ r \in PType
             /\ r.arqs = p.arqs
             /\ \A i \in Entries :
                  /\ r.qps[i].active = p.qps[i].active /\ r.qps[i].qpn = p.qps[i].qpn
                  /\ r.qps[i].cnp_age = IF i \in S THEN 0 ELSE p.qps[i].cnp_age
<1> DEFINE r == CnpEmitted(p, S)
           qps == [i \in Entries |->
                     IF i \in S THEN [p.qps[i] EXCEPT !.cnp_age = 0] ELSE p.qps[i]]
<1>1. r = [p EXCEPT !.qps = qps]
  BY DEF CnpEmitted
<1>2. ASSUME NEW i \in Entries
      PROVE  /\ qps[i] \in QpType
             /\ qps[i].active = p.qps[i].active /\ qps[i].qpn = p.qps[i].qpn
             /\ qps[i].cnp_age = IF i \in S THEN 0 ELSE p.qps[i].cnp_age
  <2>1. p.qps[i] \in QpType
    BY PTypeIs
  <2>2. 0 \in 0 .. CNP_TIMER
    BY ProcessorAssumption
  <2>3. QED
    BY <2>1, <2>2 DEF QpType
<1>3. qps \in [Entries -> QpType]
  BY <1>2
<1> HIDE DEF qps
<1>4. r \in PType /\ r.arqs = p.arqs /\ r.qps = qps
  BY <1>1, <1>3 DEF PType
<1>5. QED
  BY <1>2, <1>4

LEMMA CountedIs ==
  ASSUME NEW p \in PType
  PROVE  Counted(p) \in PType /\ Counted(p).qps = p.qps /\ Counted(p).arqs = p.arqs
<1> DEFINE k == (p.packet_counter + 1) % CONGESTION_CHECK_INTERVAL
           counted == [p EXCEPT !.packet_counter = k]
<1>1. k \in 0 .. CONGESTION_CHECK_INTERVAL - 1
  <2>1. p.packet_counter \in Nat /\ CONGESTION_CHECK_INTERVAL \in Nat \ {0}
    BY PTypeIs, ProcessorAssumption
  <2>2. QED
    BY <2>1
<1> HIDE DEF k
<1>2. counted \in PType /\ counted.qps = p.qps /\ counted.arqs = p.arqs
  BY <1>1 DEF PType
<1>3. ASSUME NEW x \in PType
      PROVE  /\ cc_check_buffer(x) \in PType
             /\ cc_check_buffer(x).qps = x.qps /\ cc_check_buffer(x).arqs = x.arqs
  <2> DEFINE b == \/ UsagePercent(x) >= BUFFER_HIGH_WATER
                  \/ x.congestion_detected /\ UsagePercent(x) > BUFFER_LOW_WATER
  <2>1. b \in BOOLEAN
    OBVIOUS
  <2>2. cc_check_buffer(x) = [x EXCEPT !.congestion_detected = b]
    BY DEF cc_check_buffer
  <2> HIDE DEF b
  <2>3. QED
    BY <2>1, <2>2 DEF PType
<1>4. Counted(p) = IF counted.packet_counter = 0 THEN cc_check_buffer(counted) ELSE counted
  BY DEF Counted, k
<1> HIDE DEF counted
<1>5. QED
  BY <1>2, <1>3, <1>4

----------------------------------------------------------------------------
(* The inductive invariant. *)

\* Entry i of the registry and entry i of the table of ARQ contexts are
\* claimed together, and for the same QP; no QP has two.
Aligned(p) ==
  /\ \A i \in Entries : /\ p.qps[i].active <=> p.arqs[i].qpn # 0
                        /\ p.qps[i].active => p.qps[i].qpn = p.arqs[i].qpn
  /\ \A i, j \in Entries : p.arqs[i].qpn # 0 /\ p.arqs[i].qpn = p.arqs[j].qpn => i = j

\* QPN 0 is the mark of a free ARQ context, so its packets go to a context that
\* stays free; without it the two tables are filled in step.
TablesAligned == 0 \notin QPNs => \A c \in Cores : Aligned(proc[c])

\* A registered QP is one of the hosts', and has one entry.
Registered(p) ==
  /\ \A i \in Entries : p.qps[i].active => p.qps[i].qpn \in QPNs
  /\ \A i, j \in Entries :
       p.qps[i].active /\ p.qps[j].active /\ p.qps[i].qpn = p.qps[j].qpn => i = j

RegistryOK == \A c \in Cores : Registered(proc[c])

\* A QP is registered on the core that reads its packets, and nowhere else.
Steered ==
  \A c \in Cores : \A i \in Entries :
    proc[c].qps[i].active => LanCoreOf[proc[c].qps[i].qpn] = c

Registers(p, i, q) == p.qps[i].active /\ p.qps[i].qpn = q

\* last_cnp_tsc of a QP's entry tells when its last CNP was sent, and no CNP
\* was sent for a QP that has no entry.
ClocksAgree ==
  \A q \in QPNs :
    /\ \A i \in Entries : Registers(proc[LanCoreOf[q]], i, q) =>
         proc[LanCoreOf[q]].qps[i].cnp_age = cnp[q].age
    /\ (\A i \in Entries : ~Registers(proc[LanCoreOf[q]], i, q)) => cnp[q].age = CNP_TIMER

\* A window nothing is ever released from: it has been filled up to send_next.
Filling(w) ==
  /\ w.send_base = 0 /\ w.send_next <= WINDOW_SIZE
  /\ \A j \in Slots : w.send_window[j].in_flight <=> j < w.send_next

Filled(p) ==
  \A i \in Entries : /\ Filling(p.arqs[i].window)
                     /\ p.arqs[i].qpn = 0 => p.arqs[i].window.send_next = 0

LanWindowsFill == 0 \notin QPNs => \A c \in LanCores : Filled(proc[c])

\* The packet is in flight in a window, or the window is full.
Covers(w, psn) ==
  \/ \E j \in Slots : w.send_window[j].in_flight /\ w.send_window[j].psn = psn
  \/ \A j \in Slots : w.send_window[j].in_flight

CoveredBy(p, q, psn) == \E i \in Entries : p.arqs[i].qpn = q /\ Covers(p.arqs[i].window, psn)

AckedCovered ==
  0 \notin QPNs => \A q \in QPNs, psn \in PSN :
    <<q, psn>> \in acked => CoveredBy(proc[LanCoreOf[q]], q, psn)

IInv == /\ TypeOK /\ RegistryOK /\ Steered /\ ClocksAgree
        /\ TablesAligned /\ LanWindowsFill /\ AckedCovered

----------------------------------------------------------------------------
(* proc_process_lan_rx, as it changes the tables of the core. *)

\* arq_send_pkt, or its refusal when the slot is taken.
Sent(w, m, psn) == IF HasRoom(w) THEN arq_send_pkt(w, m, psn) ELSE w

LEMMA SentType ==
  ASSUME NEW w \in arq_context_t, NEW m \in Mbufs, NEW psn \in PSN
  PROVE  Sent(w, m, psn) \in arq_context_t
  BY SendType DEF Sent

\* The packet goes to the window of q, which is created empty if there is none.
LEMMA TrackedIs ==
  ASSUME NEW p \in PType, NEW q \in QPNs, NEW m \in Mbufs, NEW psn \in PSN
  PROVE  LET e == arq_get_or_create(p, q)
             r == Tracked(p, q, m, psn)
         IN  /\ r \in PType
             /\ r.qps = p.qps
             /\ e = 0 => r = p
             /\ e # 0 => /\ e \in Entries
                         /\ r.arqs[e].qpn = q
                         /\ \A i \in Entries : i # e => r.arqs[i] = p.arqs[i]
                         /\ r.arqs[e].window = Sent(IF p.arqs[e].qpn = q THEN p.arqs[e].window
                                                                         ELSE EmptyContext, m, psn)
<1> DEFINE e == arq_get_or_create(p, q)
           a == WithArq(p, q)
           r == Tracked(p, q, m, psn)
           w == a.arqs[e].window
           n == [FreeArq EXCEPT !.qpn = q]
<1>1. CASE e = 0
  BY <1>1 DEF Tracked, WithArq
<1>2. CASE e # 0
  <2>1. /\ e \in Entries
        /\ p.arqs[e].qpn = q => a = p
        /\ p.arqs[e].qpn # q => a = [p EXCEPT !.arqs[e] = n]
    <3>1. CASE arq_lookup(p, q) # 0
      BY <3>1, ArqLookupIs DEF arq_get_or_create, WithArq
    <3>2. CASE arq_lookup(p, q) = 0
      <4>1. e = arq_lookup(p, 0) /\ a = [p EXCEPT !.arqs[e] = n]
        BY <1>2, <3>2 DEF arq_get_or_create, WithArq
      <4>2. e \in Entries /\ p.arqs[e].qpn = 0
        BY <1>2, <4>1, ArqLookupIs
      <4>3. q # 0
        BY <1>2, <3>2 DEF arq_get_or_create
      <4>4. QED
        BY <4>1, <4>2, <4>3
    <3>3. QED
      BY <3>1, <3>2
  <2>2. n \in ArqEntry /\ n.qpn = q /\ n.window = EmptyContext
    <3>1. FreeArq \in ArqEntry
      BY EmptyContextType DEF FreeArq, ArqEntry
    <3>2. QED
      BY <3>1 DEF FreeArq, ArqEntry
  <2> HIDE DEF n, e, a
  <2>3. /\ a \in PType /\ a.qps = p.qps
        /\ a.arqs[e].qpn = q
        /\ w = IF p.arqs[e].qpn = q THEN p.arqs[e].window ELSE EmptyContext
        /\ \A i \in Entries : i # e => a.arqs[i] = p.arqs[i]
    <3>1. CASE p.arqs[e].qpn = q
      BY <2>1, <3>1
    <3>2. CASE p.arqs[e].qpn # q
      <4>1. /\ a \in PType /\ a.qps = p.qps
            /\ a.arqs = [p.arqs EXCEPT ![e] = n]
        BY <2>1, <2>2, <3>2 DEF PType
      <4>2. a.arqs[e] = n /\ \A i \in Entries : i # e => a.arqs[i] = p.arqs[i]
        BY <2>1, <4>1, PTypeIs
      <4>3. QED
        BY <2>2, <3>2, <4>1, <4>2
    <3>3. QED
      BY <3>1, <3>2
  <2>4. w \in arq_context_t
    BY <2>1, <2>3, PTypeIs DEF ArqEntry
  <2> DEFINE s == arq_send_pkt(w, m, psn)
  <2>5. s \in arq_context_t
    BY <2>4, SendType
  <2>6. r = IF HasRoom(w) THEN [a EXCEPT !.arqs[e].window = s] ELSE a
    BY <1>2 DEF Tracked, e, a
  <2>7. Sent(w, m, psn) = IF HasRoom(w) THEN s ELSE w
    BY DEF Sent
  <2> HIDE DEF s, w, r
  <2>8. /\ r \in PType /\ r.qps = p.qps
        /\ r.arqs[e].qpn = q /\ r.arqs[e].window = Sent(w, m, psn)
        /\ \A i \in Entries : i # e => r.arqs[i] = p.arqs[i]
    <3>1. CASE ~HasRoom(w)
      BY <2>3, <2>6, <2>7, <3>1 DEF w
    <3>2. CASE HasRoom(w)
      <4>1. a.arqs \in [Entries -> ArqEntry] /\ a.arqs[e] \in ArqEntry
        BY <2>1, <2>3, PTypeIs
      <4> DEFINE x == [a.arqs[e] EXCEPT !.window = s]
      <4>2. x \in ArqEntry /\ x.qpn = q /\ x.window = s
        BY <2>3, <2>5, <4>1 DEF ArqEntry
      <4>3. r = [a EXCEPT !.arqs = [a.arqs EXCEPT ![e] = x]]
        BY <2>6, <3>2
      <4> HIDE DEF x
      <4>4. /\ r \in PType /\ r.qps = p.qps
            /\ r.arqs = [a.arqs EXCEPT ![e] = x]
        BY <2>1, <2>3, <4>2, <4>3 DEF PType
      <4>5. r.arqs[e] = x /\ \A i \in Entries : i # e => r.arqs[i] = a.arqs[i]
        BY <2>1, <4>1, <4>4
      <4>6. QED
        BY <2>3, <2>7, <3>2, <4>2, <4>4, <4>5
    <3>3. QED
      BY <3>1, <3>2
  <2>9. QED
    BY <1>2, <2>1, <2>3, <2>8 DEF e, r, w
<1>3. QED
  BY <1>1, <1>2

\* In aligned tables the two lookups agree.
LEMMA SameEntry ==
  ASSUME NEW p \in PType, NEW q \in QPNs, q # 0, Aligned(p)
  PROVE  arq_get_or_create(p, q) = qp_get_or_create(p, q)
<1>1. DOMAIN p.qps = Entries /\ DOMAIN p.arqs = Entries
  BY PTypeIs
<1>2. {i \in Entries : p.arqs[i].qpn = q} =
        {i \in Entries : p.qps[i].active /\ p.qps[i].qpn = q}
  BY DEF Aligned
<1>3. {i \in Entries : p.arqs[i].qpn = 0} = {i \in Entries : ~p.qps[i].active}
  BY DEF Aligned
<1>4. arq_lookup(p, q) = qp_find(p, q)
  BY <1>1, <1>2 DEF arq_lookup, qp_find
<1>5. arq_lookup(p, 0) = FirstEntry({i \in DOMAIN p.qps : ~p.qps[i].active})
  BY <1>1, <1>3 DEF arq_lookup
<1>6. QED
  BY <1>4, <1>5 DEF arq_get_or_create, qp_get_or_create

\* What a packet of q that is admitted does to the context p of its core; e is
\* the entry of q, early and late are the entries a CNP is sent for.
LanResult(p, q, m, psn, early, late) ==
  CnpEmitted(Counted(Tracked(CnpEmitted(WithQp(p, q), early), q, m, psn)), late)

\* What it does to the registry does not depend on the table of windows.
LEMMA LanRegistryIs ==
  ASSUME NEW p \in PType, NEW q \in QPNs, NEW m \in Mbufs, NEW psn \in PSN,
         NEW early, NEW late, qp_get_or_create(p, q) # 0
  PROVE  LET e  == qp_get_or_create(p, q)
             p1 == WithQp(p, q)
             p2 == Counted(Tracked(CnpEmitted(p1, early), q, m, psn))
             r  == LanResult(p, q, m, psn, early, late)
         IN  /\ e \in Entries
             /\ p1 \in PType /\ p2 \in PType /\ r \in PType
             /\ r.arqs = Tracked(CnpEmitted(p1, early), q, m, psn).arqs
             /\ CnpEmitted(p1, early) \in PType /\ CnpEmitted(p1, early).arqs = p.arqs
             /\ \A i \in Entries :
                  /\ r.qps[i].active = p1.qps[i].active /\ r.qps[i].qpn = p1.qps[i].qpn
                  /\ p2.qps[i].active = p1.qps[i].active /\ p2.qps[i].qpn = p1.qps[i].qpn
                  /\ p2.qps[i].cnp_age = IF i \in early THEN 0 ELSE p1.qps[i].cnp_age
                  /\ r.qps[i].cnp_age = IF i \in late THEN 0 ELSE p2.qps[i].cnp_age
<1> DEFINE e  == qp_get_or_create(p, q)
           p1 == WithQp(p, q)
           a  == CnpEmitted(p1, early)
           b  == Tracked(a, q, m, psn)
           p2 == Counted(b)
           r  == LanResult(p, q, m, psn, early, late)
<1>1. e \in Entries /\ p1 \in PType /\ p1.arqs = p.arqs
  BY WithQpIs
<1>2. /\ a \in PType /\ a.arqs = p.arqs
      /\ \A i \in Entries :
           /\ a.qps[i].active = p1.qps[i].active /\ a.qps[i].qpn = p1.qps[i].qpn
           /\ a.qps[i].cnp_age = IF i \in early THEN 0 ELSE p1.qps[i].cnp_age
  <2>1. CnpEmitted(p1, early) \in PType /\ CnpEmitted(p1, early).arqs = p1.arqs
        /\ \A i \in Entries :
           /\ a.qps[i].active = p1.qps[i].active /\ a.qps[i].qpn = p1.qps[i].qpn
           /\ a.qps[i].cnp_age = IF i \in early THEN 0 ELSE p1.qps[i].cnp_age
    BY <1>1, CnpEmittedIs
  <2>2. QED
    BY <1>1, <2>1
<1> HIDE DEF e, a, p1
<1>3. b \in PType /\ b.qps = a.qps
  BY <1>2, TrackedIs
<1> HIDE DEF b
<1>4. p2 \in PType /\ p2.qps = b.qps /\ p2.arqs = b.arqs
  BY <1>3, CountedIs
<1>5. r = CnpEmitted(p2, late)
  BY DEF LanResult, p2, b, a, p1
<1> HIDE DEF p2, r
<1>6. /\ CnpEmitted(p2, late) \in PType /\ CnpEmitted(p2, late).arqs = p2.arqs
      /\ \A i \in Entries :
           /\ CnpEmitted(p2, late).qps[i].active = p2.qps[i].active
           /\ CnpEmitted(p2, late).qps[i].qpn = p2.qps[i].qpn
           /\ CnpEmitted(p2, late).qps[i].cnp_age = IF i \in late THEN 0 ELSE p2.qps[i].cnp_age
  BY <1>4, CnpEmittedIs
<1>7. \A i \in Entries :
        /\ r.qps[i].active = p1.qps[i].active /\ r.qps[i].qpn = p1.qps[i].qpn
        /\ p2.qps[i].active = p1.qps[i].active /\ p2.qps[i].qpn = p1.qps[i].qpn
        /\ p2.qps[i].cnp_age = IF i \in early THEN 0 ELSE p1.qps[i].cnp_age
        /\ r.qps[i].cnp_age = IF i \in late THEN 0 ELSE p2.qps[i].cnp_age
  BY <1>2, <1>3, <1>4, <1>5, <1>6
<1>8. QED
  BY <1>1, <1>2, <1>4, <1>5, <1>6, <1>7 DEF e, p1, p2, b, a, r

\* In aligned tables the packet goes to the window in the entry of its QP.
LEMMA LanResultIs ==
  ASSUME NEW p \in PType, NEW q \in QPNs, NEW m \in Mbufs, NEW psn \in PSN,
         NEW early, NEW late, q # 0, Aligned(p), qp_get_or_create(p, q) # 0
  PROVE  LET e  == qp_get_or_create(p, q)
             r  == LanResult(p, q, m, psn, early, late)
         IN  /\ e \in Entries
             /\ r.arqs[e].qpn = q
             /\ \A i \in Entries : i # e => r.arqs[i] = p.arqs[i]
             /\ r.arqs[e].window = Sent(IF p.arqs[e].qpn = q THEN p.arqs[e].window
                                                             ELSE EmptyContext, m, psn)
<1> DEFINE e  == qp_get_or_create(p, q)
           a  == CnpEmitted(WithQp(p, q), early)
           b  == Tracked(a, q, m, psn)
           r  == LanResult(p, q, m, psn, early, late)
<1>1. e \in Entries /\ r.arqs = b.arqs /\ a \in PType /\ a.arqs = p.arqs
  BY LanRegistryIs
<1>2. arq_get_or_create(a, q) = e
  <2>1. arq_get_or_create(a, q) = arq_get_or_create(p, q)
    BY <1>1 DEF arq_get_or_create, arq_lookup
  <2>2. QED
    BY <2>1, SameEntry
<1> HIDE DEF e, a, r
<1>3. e # 0
  BY DEF e
<1>4. /\ b.arqs[e].qpn = q
      /\ \A i \in Entries : i # e => b.arqs[i] = a.arqs[i]
      /\ b.arqs[e].window = Sent(IF a.arqs[e].qpn = q THEN a.arqs[e].window
                                                      ELSE EmptyContext, m, psn)
  BY <1>1, <1>2, <1>3, TrackedIs
<1> HIDE DEF b
<1>5. /\ r.arqs[e].qpn = q
      /\ \A i \in Entries : i # e => r.arqs[i] = p.arqs[i]
      /\ r.arqs[e].window = Sent(IF p.arqs[e].qpn = q THEN p.arqs[e].window
                                                      ELSE EmptyContext, m, psn)
  BY <1>1, <1>4
<1>6. QED
  BY <1>1, <1>5 DEF e, r

\* The tables stay aligned.
LEMMA LanKeepsAligned ==
  ASSUME NEW p \in PType, NEW q \in QPNs, NEW m \in Mbufs, NEW psn \in PSN,
         NEW early, NEW late, q # 0, Aligned(p), qp_get_or_create(p, q) # 0
  PROVE  Aligned(LanResult(p, q, m, psn, early, late))
<1> DEFINE e  == qp_get_or_create(p, q)
           p1 == WithQp(p, q)
           r  == LanResult(p, q, m, psn, early, late)
<1>1. /\ e \in Entries
      /\ \A i \in Entries : r.qps[i].active = p1.qps[i].active /\ r.qps[i].qpn = p1.qps[i].qpn
      /\ r.arqs[e].qpn = q
      /\ \A i \in Entries : i # e => r.arqs[i] = p.arqs[i]
  BY LanRegistryIs, LanResultIs
<1>2. /\ \A i \in Entries : i # e => p1.qps[i] = p.qps[i]
      /\ p1.qps[e].active /\ p1.qps[e].qpn = q
      /\ p.qps[e].active => p1 = p
      /\ ~p.qps[e].active => \A i \in Entries : ~(p.qps[i].active /\ p.qps[i].qpn = q)
  BY WithQpIs
<1> HIDE DEF e, p1, r
<1>3. ASSUME NEW i \in Entries, i # e PROVE p.arqs[i].qpn # q
  <2>1. CASE p.qps[e].active
    BY <1>1, <1>2, <1>3, <2>1 DEF Aligned
  <2>2. CASE ~p.qps[e].active
    BY <1>2, <2>2 DEF Aligned
  <2>3. QED
    BY <2>1, <2>2
<1>4. Aligned(r)
  <2>1. ASSUME NEW i \in Entries
        PROVE  /\ r.qps[i].active <=> r.arqs[i].qpn # 0
               /\ r.qps[i].active => r.qps[i].qpn = r.arqs[i].qpn
    <3>1. CASE i = e
      BY <1>1, <1>2, <3>1
    <3>2. CASE i # e
      BY <1>1, <1>2, <3>2 DEF Aligned
    <3>3. QED
      BY <3>1, <3>2
  <2>2. ASSUME NEW i \in Entries, NEW j \in Entries,
               r.arqs[i].qpn # 0, r.arqs[i].qpn = r.arqs[j].qpn
        PROVE  i = j
    <3>1. CASE i = e /\ j # e
      BY <1>1, <1>3, <2>2, <3>1
    <3>2. CASE i # e /\ j = e
      BY <1>1, <1>3, <2>2, <3>2
    <3>3. CASE i # e /\ j # e
      BY <1>1, <2>2, <3>3 DEF Aligned
    <3>4. QED
      BY <3>1, <3>2, <3>3
  <2>3. QED
    BY <2>1, <2>2 DEF Aligned
<1>5. QED
  BY <1>4 DEF r

\* A packet is refused only by a full window, so it is covered either way, and
\* nothing that was covered is lost.
LEMMA SentCovers ==
  ASSUME NEW w \in arq_context_t, NEW m \in Mbufs, NEW psn \in PSN, Filling(w)
  PROVE  /\ Filling(Sent(w, m, psn))
         /\ Covers(Sent(w, m, psn), psn)
         /\ \A x \in PSN : Covers(w, x) => Covers(Sent(w, m, psn), x)
<1> DEFINE k == Index(w.send_next)
           s == Sent(w, m, psn)
<1>1. w.send_next \in Nat /\ w.send_window \in [Slots -> arq_send_entry_t]
  BY DEF arq_context_t, Ctr
<1>2. k \in Slots
  BY <1>1, IndexInSlots
<1>3. CASE w.send_next = WINDOW_SIZE
  <2>1. \A j \in Slots : w.send_window[j].in_flight
    BY <1>3, ArqAssumption DEF Filling, Slots
  <2>2. s = w
    BY <1>2, <2>1 DEF Sent, HasRoom
  <2>3. QED
    BY <2>1, <2>2 DEF Covers
<1>4. CASE w.send_next # WINDOW_SIZE
  <2>1. w.send_next < WINDOW_SIZE /\ \A j \in Slots : w.send_window[j].in_flight <=> j < w.send_next
    BY <1>1, <1>4, ArqAssumption DEF Filling
  <2>2. k = w.send_next
    BY <1>1, <2>1, ArqAssumption DEF Index
  <2>3. s = arq_send_pkt(w, m, psn)
    BY <1>1, <1>2, <2>1, <2>2 DEF Sent, HasRoom
  <2> DEFINE n == [psn |-> psn, mbuf |-> m, age |-> 0, retry_count |-> 0, in_flight |-> TRUE]
  <2>4. /\ s.send_next = (w.send_next + 1) % CTR_MOD /\ s.send_base = w.send_base
        /\ s.send_window = [w.send_window EXCEPT ![k] = n]
    BY <2>3 DEF arq_send_pkt
  <2>5. n.in_flight /\ n.psn = psn
    OBVIOUS
  <2> HIDE DEF n, s, k
  <2>6. s.send_window[k] = n /\ \A j \in Slots : j # k => s.send_window[j] = w.send_window[j]
    BY <1>1, <1>2, <2>4
  <2>7. \A j \in Slots : s.send_window[j].in_flight <=> j < w.send_next + 1
    <3>1. ASSUME NEW j \in Slots PROVE j < w.send_next + 1 <=> j < w.send_next \/ j = k
      BY <1>1, <2>2, ArqAssumption DEF Slots
    <3>2. QED
      BY <2>1, <2>5, <2>6, <3>1
  <2>8. Filling(s)
    <3>1. (w.send_next + 1) % CTR_MOD = w.send_next + 1 /\ w.send_next + 1 <= WINDOW_SIZE
      BY <1>1, <2>1, ArqAssumption
    <3>2. w.send_base = 0
      BY DEF Filling
    <3>3. QED
      BY <2>4, <2>7, <3>1, <3>2 DEF Filling
  <2>9. Covers(s, psn)
    BY <1>2, <2>5, <2>6 DEF Covers
  <2>10. ASSUME NEW x \in PSN, Covers(w, x) PROVE Covers(s, x)
    <3>0. ~w.send_window[k].in_flight
      BY <1>1, <1>2, <2>1, <2>2
    <3>1. PICK j \in Slots : w.send_window[j].in_flight /\ w.send_window[j].psn = x
      BY <1>2, <2>10, <3>0 DEF Covers
    <3>2. j # k
      BY <3>0, <3>1
    <3>3. QED
      BY <2>6, <3>1, <3>2 DEF Covers
  <2>11. QED
    BY <2>8, <2>9, <2>10 DEF s
<1>5. QED
  BY <1>3, <1>4

LEMMA EmptyFilling == Filling(EmptyContext)
  BY ArqAssumption DEF Filling, EmptyContext, Slots

----------------------------------------------------------------------------
(* The CNPs of one call. *)

\* The clocks of the active entries of a context, each with its own QP, are
\* the ones of the counters.
Agree(p, counters) ==
  /\ \A i \in Entries : p.qps[i].active =>
       p.qps[i].qpn \in QPNs /\ p.qps[i].cnp_age = counters[p.qps[i].qpn].age
  /\ \A i, j \in Entries :
       p.qps[i].active /\ p.qps[j].active /\ p.qps[i].qpn = p.qps[j].qpn => i = j

Counters == [QPNs -> [sent: Nat, age: 0 .. CNP_TIMER]]

LEMMA NotifyType ==
  ASSUME NEW counters \in Counters, NEW p, NEW S
  PROVE  Notify(counters, p, S) \in Counters
<1>1. ASSUME NEW q \in QPNs
      PROVE  [sent |-> counters[q].sent + 1, age |-> 0] \in [sent: Nat, age: 0 .. CNP_TIMER]
  <2>1. counters[q].sent + 1 \in Nat
    BY DEF Counters
  <2>2. 0 \in 0 .. CNP_TIMER
    BY ProcessorAssumption
  <2>3. QED
    BY <2>1, <2>2
<1>2. QED
  BY <1>1 DEF Notify, Counters

LEMMA NotifyAgrees ==
  ASSUME NEW counters \in Counters, NEW p \in PType, NEW r \in PType, NEW S \in SUBSET Entries,
         Agree(p, counters), \A i \in S : p.qps[i].active,
         \A i \in Entries : /\ r.qps[i].active = p.qps[i].active /\ r.qps[i].qpn = p.qps[i].qpn
                            /\ r.qps[i].cnp_age = IF i \in S THEN 0 ELSE p.qps[i].cnp_age
  PROVE  Agree(r, Notify(counters, p, S))
<1> DEFINE after == Notify(counters, p, S)
<1>1. ASSUME NEW i \in Entries, p.qps[i].active
      PROVE  p.qps[i].qpn \in QPNs /\ r.qps[i].cnp_age = after[p.qps[i].qpn].age
  <2>1. p.qps[i].qpn \in QPNs /\ p.qps[i].cnp_age = counters[p.qps[i].qpn].age
    BY <1>1 DEF Agree
  <2>2. (\E j \in S : p.qps[j].qpn = p.qps[i].qpn) <=> i \in S
    BY <1>1 DEF Agree
  <2>3. after[p.qps[i].qpn] = IF i \in S THEN [sent |-> counters[p.qps[i].qpn].sent + 1, age |-> 0]
                                         ELSE counters[p.qps[i].qpn]
    BY <2>1, <2>2 DEF Notify
  <2> HIDE DEF after
  <2>4. CASE i \in S
    BY <2>1, <2>3, <2>4
  <2>5. CASE i \notin S
    BY <2>1, <2>3, <2>5
  <2>6. QED
    BY <2>4, <2>5
<1> HIDE DEF after
<1>2. Agree(r, after)
  <2>1. ASSUME NEW i \in Entries, r.qps[i].active
        PROVE  r.qps[i].qpn \in QPNs /\ r.qps[i].cnp_age = after[r.qps[i].qpn].age
    BY <1>1, <2>1
  <2>2. ASSUME NEW i \in Entries, NEW j \in Entries,
               r.qps[i].active, r.qps[j].active, r.qps[i].qpn = r.qps[j].qpn
        PROVE  i = j
    BY <2>2 DEF Agree
  <2>3. QED
    BY <2>1, <2>2 DEF Agree
<1>3. QED
  BY <1>2 DEF after

\* Two rounds of CNPs, each for the entries that are due: no QP gets two, and
\* one that gets a CNP was due before the first round.
LEMMA OneCnpEach ==
  ASSUME NEW counters \in Counters, NEW p1 \in PType, NEW p2 \in PType,
         NEW early \in SUBSET CnpDue(p1), NEW late \in SUBSET CnpDue(p2),
         Agree(p1, counters), NEW q \in QPNs,
         \A i \in Entries : /\ p2.qps[i].active = p1.qps[i].active /\ p2.qps[i].qpn = p1.qps[i].qpn
                            /\ p2.qps[i].cnp_age = IF i \in early THEN 0 ELSE p1.qps[i].cnp_age
  PROVE  LET after == Notify(Notify(counters, p1, early), p2, late)
         IN  after[q].sent # counters[q].sent =>
               after[q].sent = counters[q].sent + 1 /\ counters[q].age >= CNP_TIMER
<1> DEFINE mid   == Notify(counters, p1, early)
           after == Notify(mid, p2, late)
<1>1. mid[q] = IF \E i \in early : p1.qps[i].qpn = q
                 THEN [sent |-> counters[q].sent + 1, age |-> 0] ELSE counters[q]
  BY DEF Notify
<1>2. after[q] = IF \E i \in late : p2.qps[i].qpn = q
                   THEN [sent |-> mid[q].sent + 1, age |-> 0] ELSE mid[q]
  BY DEF Notify
<1> HIDE DEF mid, after
<1>3. ASSUME NEW i \in early, p1.qps[i].qpn = q PROVE counters[q].age >= CNP_TIMER
  <2>1. i \in Entries /\ p1.qps[i].active /\ p1.qps[i].cnp_age >= CNP_TIMER
    BY DEF CnpDue
  <2>2. QED
    BY <1>3, <2>1 DEF Agree
<1>4. ASSUME NEW i \in late, p2.qps[i].qpn = q
      PROVE  counters[q].age >= CNP_TIMER /\ ~\E j \in early : p1.qps[j].qpn = q
  <2>1. i \in Entries /\ p2.qps[i].active /\ p2.qps[i].cnp_age >= CNP_TIMER
    BY DEF CnpDue
  <2>2. i \notin early
    BY <2>1, ProcessorAssumption
  <2>3. p1.qps[i].active /\ p1.qps[i].qpn = q /\ p1.qps[i].cnp_age >= CNP_TIMER
    BY <1>4, <2>1, <2>2
  <2>4. counters[q].age >= CNP_TIMER
    BY <2>1, <2>3 DEF Agree
  <2>5. ASSUME NEW j \in early, p1.qps[j].qpn = q PROVE FALSE
    <3>1. j \in Entries /\ p1.qps[j].active
      BY DEF CnpDue
    <3>2. j = i
      BY <2>1, <2>3, <2>5, <3>1 DEF Agree
    <3>3. QED
      BY <2>2, <3>2
  <2>6. QED
    BY <2>4, <2>5
<1>5. CASE \E i \in late : p2.qps[i].qpn = q
  <2>1. after[q].sent = mid[q].sent + 1 /\ mid[q] = counters[q] /\ counters[q].age >= CNP_TIMER
    BY <1>1, <1>2, <1>4, <1>5
  <2>2. QED
    BY <2>1 DEF after, mid
<1>6. CASE ~\E i \in late : p2.qps[i].qpn = q
  <2>1. after[q] = mid[q]
    BY <1>2, <1>6
  <2>2. CASE \E i \in early : p1.qps[i].qpn = q
    <3>1. mid[q].sent = counters[q].sent + 1 /\ counters[q].age >= CNP_TIMER
      BY <1>1, <1>3, <2>2
    <3>2. QED
      BY <2>1, <3>1 DEF after, mid
  <2>3. CASE ~\E i \in early : p1.qps[i].qpn = q
    <3>1. mid[q] = counters[q]
      BY <1>1, <2>3
    <3>2. QED
      BY <2>1, <3>1 DEF after, mid
  <2>4. QED
    BY <2>2, <2>3
<1>7. QED
  BY <1>5, <1>6

\* A QP that has no active entry is left alone.
LEMMA NotifyElse ==
  ASSUME NEW counters, NEW p, NEW S \in SUBSET Entries, NEW q \in QPNs,
         \A i \in S : p.qps[i].active, \A i \in Entries : ~Registers(p, i, q)
  PROVE  Notify(counters, p, S)[q] = counters[q]
  BY DEF Notify, Registers

----------------------------------------------------------------------------
(* The actions. *)

LEMMA TypeOKIs ==
  TypeOK <=> /\ proc \in [Cores -> PType]
             /\ received \in 0 .. MaxLan
             /\ psn_next \in [QPNs -> PSN]
             /\ acked \subseteq QPNs \X PSN
             /\ cnp \in Counters
             /\ last \in [type: {"none", "ack", "nack"}, qpn: QPNs \cup {0}, psn: PSN]
  BY DEF TypeOK, PType, QpType, ArqEntry, Counters

LEMMA LanCoreIs == \A q \in QPNs : LanCoreOf[q] \in LanCores /\ LanCoreOf[q] \in Cores
  BY ProcessorAssumption DEF Cores

LEMMA NoMessageType ==
  NoMessage \in [type: {"none", "ack", "nack"}, qpn: QPNs \cup {0}, psn: PSN]
<1>1. 0 \in PSN
  BY PsnAssumption DEF PSN
<1>2. QED
  BY <1>1 DEF NoMessage

LEMMA InitInvariant == Init => IInv
<1> SUFFICES ASSUME Init PROVE IInv
  OBVIOUS
<1> USE DEF Init
<1>1. InactiveQp \in QpType /\ FreeArq \in ArqEntry
  <2>1. InactiveQp \in QpType
    BY ProcessorAssumption DEF InactiveQp, QpType
  <2>2. FreeArq \in ArqEntry
    BY EmptyContextType DEF FreeArq, ArqEntry
  <2>3. QED
    BY <2>1, <2>2
<1>2. proc_init \in PType
  <2>1. 0 \in 0 .. CONGESTION_CHECK_INTERVAL - 1
    BY ProcessorAssumption
  <2>2. QED
    BY <1>1, <2>1 DEF proc_init, PType
<1>3. TypeOK
  <2>1. 0 \in 0 .. MaxLan /\ 0 \in PSN /\ CNP_TIMER \in 0 .. CNP_TIMER
    BY ProcessorAssumption, PsnAssumption DEF PSN
  <2>2. cnp \in Counters
    BY <2>1 DEF Counters
  <2>3. QED
    BY <1>2, <2>1, <2>2, NoMessageType, TypeOKIs
<1>4. \A c \in Cores : \A i \in Entries :
        ~proc[c].qps[i].active /\ proc[c].arqs[i].qpn = 0 /\ proc[c].arqs[i].window = EmptyContext
  BY DEF proc_init, InactiveQp, FreeArq
<1>5. TablesAligned /\ Steered /\ RegistryOK
  BY <1>4 DEF TablesAligned, Aligned, Steered, RegistryOK, Registered
<1>6. ClocksAgree
  BY <1>4, LanCoreIs DEF ClocksAgree, Registers
<1>7. LanWindowsFill
  BY <1>4, EmptyFilling DEF LanWindowsFill, Filled, Cores, EmptyContext
<1>8. AckedCovered
  BY DEF AckedCovered
<1>9. QED
  BY <1>3, <1>5, <1>6, <1>7, <1>8 DEF IInv

\* A step that keeps every table as it is, but for the ages.
LEMMA DropInvariant ==
  ASSUME IInv, NEW q \in QPNs, LanDrop(q)
  PROVE  IInv'
<1>1. /\ UNCHANGED <<proc, psn_next, acked, cnp>>
      /\ received' = received + 1 /\ received < MaxLan /\ last' = NoMessage
  BY DEF LanDrop
<1>2. TypeOK'
  <2>1. received + 1 \in 0 .. MaxLan
    BY <1>1, ProcessorAssumption DEF IInv, TypeOK
  <2>2. QED
    BY <1>1, <2>1, NoMessageType DEF IInv, TypeOK
<1>3. QED
  BY <1>1, <1>2 DEF IInv, RegistryOK, TablesAligned, Steered, ClocksAgree, LanWindowsFill, AckedCovered

\* The context of a core is the one its LAN packets are steered to.
LEMMA ContextAgrees ==
  ASSUME IInv, NEW c \in Cores
  PROVE  Agree(proc[c], cnp)
<1>1. Registered(proc[c])
  BY DEF IInv, RegistryOK
<1>2. ASSUME NEW i \in Entries, proc[c].qps[i].active
      PROVE  /\ proc[c].qps[i].qpn \in QPNs
             /\ proc[c].qps[i].cnp_age = cnp[proc[c].qps[i].qpn].age
  <2>1. proc[c].qps[i].qpn \in QPNs
    BY <1>1, <1>2 DEF Registered
  <2>2. LanCoreOf[proc[c].qps[i].qpn] = c
    BY <1>2 DEF IInv, Steered
  <2>3. QED
    BY <1>2, <2>1, <2>2 DEF IInv, ClocksAgree, Registers
<1>3. QED
  BY <1>1, <1>2 DEF Agree, Registered

\* A WRITE packet of q, with the entries it sends CNPs for.
LanStep(q, psn, early, late) ==
  LET c  == LanCoreOf[q]
      p1 == WithQp(proc[c], q)
      p2 == Counted(Tracked(CnpEmitted(p1, early), q, received + 1, psn))
  IN  /\ received < MaxLan /\ received' = received + 1
      /\ qp_get_or_create(proc[c], q) # 0
      /\ acked' \subseteq acked \cup {<<q, psn>>}
      /\ psn_next' = [psn_next EXCEPT ![q] = IF psn = @ THEN (@ + 1) % MAX_PSN ELSE @]
      /\ last' = NoMessage
      /\ early \in SUBSET CnpDue(p1) /\ late \in SUBSET CnpDue(p2)
      /\ proc' = [proc EXCEPT ![c] = LanResult(proc[c], q, received + 1, psn, early, late)]
      /\ cnp' = Notify(Notify(cnp, p1, early), p2, late)

LEMMA LanWriteIs ==
  ASSUME NEW q \in QPNs, NEW psn \in PSN, NEW ce \in BOOLEAN, LanWrite(q, psn, ce)
  PROVE  \E early, late : LanStep(q, psn, early, late)
<1> DEFINE c  == LanCoreOf[q]
           p1 == WithQp(proc[c], q)
           P2(early) == Counted(Tracked(CnpEmitted(p1, early), q, received + 1, psn))
<1>1. PICK early \in SUBSET (IF ce THEN {qp_find(p1, q)} \cap CnpDue(p1) ELSE {}) :
        \E late \in SUBSET (IF P2(early).packet_counter = 0 /\ P2(early).congestion_detected
                              THEN CnpDue(P2(early)) ELSE {}) :
          /\ proc' = [proc EXCEPT ![c] = CnpEmitted(P2(early), late)]
          /\ cnp' = Notify(Notify(cnp, p1, early), P2(early), late)
  BY Zenon DEF LanWrite
<1>2. PICK late \in SUBSET (IF P2(early).packet_counter = 0 /\ P2(early).congestion_detected
                              THEN CnpDue(P2(early)) ELSE {}) :
          /\ proc' = [proc EXCEPT ![c] = CnpEmitted(P2(early), late)]
          /\ cnp' = Notify(Notify(cnp, p1, early), P2(early), late)
  BY <1>1, Zenon
<1> DEFINE due == CnpDue(P2(early))
<1>3. early \in SUBSET CnpDue(p1)
  BY <1>1
<1>4. late \in SUBSET due
  <2>1. late \in SUBSET (IF P2(early).packet_counter = 0 /\ P2(early).congestion_detected
                           THEN due ELSE {})
    BY <1>2, Zenon
  <2> HIDE DEF due, P2
  <2>2. QED
    BY <2>1
<1>5. LanResult(proc[c], q, received + 1, psn, early, late) = CnpEmitted(P2(early), late)
  BY Zenon DEF LanResult
<1>6. /\ received < MaxLan /\ received' = received + 1
      /\ qp_get_or_create(proc[c], q) # 0
      /\ acked' \in forge_and_send_ack(q, psn)
      /\ psn_next' = [psn_next EXCEPT ![q] = IF psn = @ THEN (@ + 1) % MAX_PSN ELSE @]
      /\ last' = NoMessage
  BY Zenon DEF LanWrite
<1>7. acked' \subseteq acked \cup {<<q, psn>>}
  BY <1>6 DEF forge_and_send_ack
<1>8. proc' = [proc EXCEPT ![c] = LanResult(proc[c], q, received + 1, psn, early, late)]
  BY <1>2, <1>5, Zenon
<1>9. LanStep(q, psn, early, late)
  BY <1>2, <1>3, <1>4, <1>6, <1>7, <1>8, Zenon DEF LanStep
<1>10. QED
  BY <1>9

LEMMA LanStepIs ==
  ASSUME IInv, NEW q \in QPNs, NEW psn \in PSN, NEW early, NEW late, LanStep(q, psn, early, late)
  PROVE  LET c == LanCoreOf[q] IN
         /\ proc \in [Cores -> PType] /\ cnp \in Counters
         /\ c \in LanCores /\ c \in Cores /\ proc[c] \in PType
         /\ 0 \notin QPNs => q # 0 /\ Aligned(proc[c])
         /\ received + 1 \in 0 .. MaxLan /\ received + 1 \in Mbufs
         /\ qp_get_or_create(proc[c], q) # 0
         /\ proc'[c] = LanResult(proc[c], q, received + 1, psn, early, late)
         /\ \A d \in Cores : d # c => proc'[d] = proc[d]
<1> DEFINE c == LanCoreOf[q]
<1>1. /\ proc \in [Cores -> PType] /\ received \in 0 .. MaxLan /\ cnp \in Counters
      /\ c \in LanCores /\ c \in Cores /\ proc[c] \in PType
      /\ 0 \notin QPNs => q # 0 /\ Aligned(proc[c])
  BY TypeOKIs, LanCoreIs DEF IInv, TablesAligned
<1>2. /\ received < MaxLan /\ qp_get_or_create(proc[c], q) # 0
      /\ proc' = [proc EXCEPT ![c] = LanResult(proc[c], q, received + 1, psn, early, late)]
  BY Zenon DEF LanStep
<1>3. received + 1 \in 0 .. MaxLan /\ received + 1 \in Mbufs
  BY <1>1, <1>2, ProcessorAssumption
<1> HIDE DEF c
<1>4. /\ proc'[c] = LanResult(proc[c], q, received + 1, psn, early, late)
      /\ \A d \in Cores : d # c => proc'[d] = proc[d]
  BY <1>1, <1>2
<1>5. QED
  BY <1>1, <1>2, <1>3, <1>4 DEF c

LEMMA LanStepType ==
  ASSUME IInv, NEW q \in QPNs, NEW psn \in PSN, NEW early, NEW late, LanStep(q, psn, early, late)
  PROVE  TypeOK'
<1> DEFINE c == LanCoreOf[q]
           m == received + 1
           r == LanResult(proc[c], q, m, psn, early, late)
<1>1. /\ proc \in [Cores -> PType] /\ cnp \in Counters
      /\ c \in Cores /\ proc[c] \in PType
      /\ m \in 0 .. MaxLan /\ m \in Mbufs
      /\ qp_get_or_create(proc[c], q) # 0
  BY LanStepIs
<1>2. /\ received' = m /\ acked' \subseteq acked \cup {<<q, psn>>}
      /\ psn_next' = [psn_next EXCEPT ![q] = IF psn = @ THEN (@ + 1) % MAX_PSN ELSE @]
      /\ last' = NoMessage
      /\ proc' = [proc EXCEPT ![c] = r]
      /\ \E a, b : cnp' = Notify(Notify(cnp, a, early), b, late)
  BY Zenon DEF LanStep
<1>3. psn_next \in [QPNs -> PSN] /\ acked \subseteq QPNs \X PSN
  BY DEF IInv, TypeOK
<1>4. r \in PType
  <2> HIDE DEF m, c
  <2>1. QED
    BY <1>1, LanRegistryIs
<1> HIDE DEF c, r
<1>5. proc' \in [Cores -> PType]
  BY <1>1, <1>2, <1>4
<1>6. cnp' \in Counters
  BY <1>1, <1>2, NotifyType
<1>7. psn_next' \in [QPNs -> PSN]
  <2>1. psn_next[q] \in PSN
    BY <1>3
  <2>2. (psn_next[q] + 1) % MAX_PSN \in PSN
    BY <2>1, PsnAssumption DEF PSN
  <2>3. QED
    BY <1>2, <1>3, <2>1, <2>2
<1>8. acked' \subseteq QPNs \X PSN
  BY <1>2, <1>3
<1>9. received' \in 0 .. MaxLan
  BY <1>1, <1>2
<1>10. QED
  BY <1>2, <1>5, <1>6, <1>7, <1>8, <1>9, NoMessageType
     DEF TypeOK, PType, QpType, ArqEntry, Counters

\* The registry, the table of windows, and where a QP is registered.
LEMMA LanStepTables ==
  ASSUME IInv, NEW q \in QPNs, NEW psn \in PSN, NEW early, NEW late, LanStep(q, psn, early, late)
  PROVE  TablesAligned' /\ Steered' /\ RegistryOK'
<1> DEFINE c  == LanCoreOf[q]
           m  == received + 1
           p  == proc[c]
           p1 == WithQp(p, q)
           e  == qp_get_or_create(p, q)
<1>1. /\ c \in Cores /\ p \in PType /\ (0 \notin QPNs => q # 0 /\ Aligned(p)) /\ m \in Mbufs /\ e # 0
      /\ proc'[c] = LanResult(p, q, m, psn, early, late)
      /\ \A d \in Cores : d # c => proc'[d] = proc[d]
  BY LanStepIs
<1>2. ASSUME 0 \notin QPNs PROVE Aligned(proc'[c])
  <2>1. Aligned(LanResult(p, q, m, psn, early, late))
    <3> HIDE DEF m, p
    <3>1. QED
      BY <1>1, <1>2, LanKeepsAligned
  <2>2. QED
    BY <1>1, <2>1
<1>3. TablesAligned'
  <2>1. ASSUME 0 \notin QPNs, NEW d \in Cores PROVE Aligned(proc'[d])
    <3>1. CASE d = c
      BY <1>2, <2>1, <3>1
    <3>2. CASE d # c
      <4>1. Aligned(proc[d])
        BY <2>1 DEF IInv, TablesAligned
      <4>2. QED
        BY <1>1, <3>2, <4>1
    <3>3. QED
      BY <3>1, <3>2
  <2>2. QED
    BY <2>1 DEF TablesAligned, Aligned
<1>4. /\ e \in Entries
      /\ \A k \in Entries : k # e => p1.qps[k] = p.qps[k]
      /\ p1.qps[e].active /\ p1.qps[e].qpn = q
      /\ p.qps[e].active => p1 = p
      /\ ~p.qps[e].active => \A i \in Entries : ~(p.qps[i].active /\ p.qps[i].qpn = q)
  <2> HIDE DEF p
  <2>1. QED
    BY <1>1, WithQpIs
<1>5. ASSUME NEW i \in Entries
      PROVE  proc'[c].qps[i].active = p1.qps[i].active /\ proc'[c].qps[i].qpn = p1.qps[i].qpn
  <2> HIDE DEF p, m
  <2>1. /\ LanResult(p, q, m, psn, early, late).qps[i].active = p1.qps[i].active
        /\ LanResult(p, q, m, psn, early, late).qps[i].qpn = p1.qps[i].qpn
    BY <1>1, LanRegistryIs
  <2>2. QED
    BY <1>1, <2>1
<1> HIDE DEF p1, e
<1>6. Registered(p)
  BY <1>1 DEF IInv, RegistryOK
<1>7. ASSUME NEW i \in Entries, proc'[c].qps[i].active
      PROVE  proc'[c].qps[i].qpn \in QPNs /\ LanCoreOf[proc'[c].qps[i].qpn] = c
  <2>1. CASE i = e
    BY <1>4, <1>5, <2>1
  <2>2. CASE i # e
    <3>1. proc[c].qps[i].active /\ proc'[c].qps[i].qpn = proc[c].qps[i].qpn
      BY <1>4, <1>5, <1>7, <2>2
    <3>2. QED
      BY <1>1, <1>6, <3>1 DEF IInv, Steered, Registered
  <2>3. QED
    BY <2>1, <2>2
<1>8. ASSUME NEW i \in Entries, NEW j \in Entries, p1.qps[i].active, p1.qps[j].active,
             p1.qps[i].qpn = p1.qps[j].qpn
      PROVE  i = j
  <2>1. CASE p.qps[e].active
    BY <1>4, <1>6, <1>8, <2>1 DEF Registered
  <2>2. CASE ~p.qps[e].active
    <3>1. ASSUME NEW k \in Entries, p1.qps[k].active, p1.qps[k].qpn = q PROVE k = e
      BY <1>4, <2>2, <3>1
    <3>2. CASE i = e \/ j = e
      BY <1>4, <1>8, <3>1, <3>2
    <3>3. CASE i # e /\ j # e
      BY <1>4, <1>6, <1>8, <3>3 DEF Registered
    <3>4. QED
      BY <3>2, <3>3
  <2>3. QED
    BY <2>1, <2>2
<1>9. RegistryOK'
  <2>1. Registered(proc'[c])
    BY <1>5, <1>7, <1>8 DEF Registered
  <2>2. ASSUME NEW d \in Cores PROVE Registered(proc'[d])
    BY <1>1, <2>1 DEF IInv, RegistryOK
  <2>3. QED
    BY <2>2 DEF RegistryOK, Registered
<1>10. Steered'
  <2>1. ASSUME NEW d \in Cores, NEW i \in Entries, proc'[d].qps[i].active
        PROVE  LanCoreOf[proc'[d].qps[i].qpn] = d
    <3>1. CASE d = c
      BY <1>7, <2>1, <3>1
    <3>2. CASE d # c
      BY <1>1, <2>1, <3>2 DEF IInv, Steered
    <3>3. QED
      BY <3>1, <3>2
  <2>2. QED
    BY <2>1 DEF Steered
<1>11. QED
  BY <1>3, <1>9, <1>10

\* The clocks, and how many CNPs a flow gets.
LEMMA LanStepClocks ==
  ASSUME IInv, NEW q \in QPNs, NEW psn \in PSN, NEW early, NEW late, LanStep(q, psn, early, late)
  PROVE  /\ ClocksAgree'
         /\ \A x \in QPNs : cnp'[x].sent # cnp[x].sent =>
              cnp'[x].sent = cnp[x].sent + 1 /\ cnp[x].age >= CNP_TIMER
<1> DEFINE c  == LanCoreOf[q]
           m  == received + 1
           p  == proc[c]
           p1 == WithQp(p, q)
           e  == qp_get_or_create(p, q)
           p2 == Counted(Tracked(CnpEmitted(p1, early), q, m, psn))
           r  == LanResult(p, q, m, psn, early, late)
           mid == Notify(cnp, p1, early)
<1>1. /\ cnp \in Counters /\ c \in Cores /\ p \in PType /\ m \in Mbufs /\ e # 0
      /\ proc'[c] = r
      /\ \A d \in Cores : d # c => proc'[d] = proc[d]
  BY LanStepIs
<1>2. /\ early \in SUBSET CnpDue(p1) /\ late \in SUBSET CnpDue(p2)
      /\ cnp' = Notify(mid, p2, late)
  BY Zenon DEF LanStep
<1>3. /\ e \in Entries
      /\ \A i \in Entries : i # e => p1.qps[i] = p.qps[i]
      /\ p1.qps[e].active /\ p1.qps[e].qpn = q
      /\ p.qps[e].active => p1 = p
      /\ ~p.qps[e].active => /\ p1.qps[e].cnp_age = CNP_TIMER
                             /\ \A i \in Entries : ~(p.qps[i].active /\ p.qps[i].qpn = q)
  <2> HIDE DEF p
  <2>1. QED
    BY <1>1, WithQpIs
<1>4. /\ p1 \in PType /\ p2 \in PType /\ r \in PType
      /\ \A i \in Entries :
           /\ r.qps[i].active = p1.qps[i].active /\ r.qps[i].qpn = p1.qps[i].qpn
           /\ p2.qps[i].active = p1.qps[i].active /\ p2.qps[i].qpn = p1.qps[i].qpn
           /\ p2.qps[i].cnp_age = IF i \in early THEN 0 ELSE p1.qps[i].cnp_age
           /\ r.qps[i].cnp_age = IF i \in late THEN 0 ELSE p2.qps[i].cnp_age
  <2> HIDE DEF p, m
  <2>1. QED
    BY <1>1, LanRegistryIs
<1>5. Agree(p, cnp)
  BY <1>1, ContextAgrees
<1> HIDE DEF p1, p2, r, e, m, mid
<1>6. Agree(p1, cnp)
  <2>1. CASE p.qps[e].active
    BY <1>3, <1>5, <2>1
  <2>2. CASE ~p.qps[e].active
    <3>1. cnp[q].age = CNP_TIMER
      BY <1>3, <2>2 DEF IInv, ClocksAgree, Registers
    <3>2. ASSUME NEW i \in Entries, p1.qps[i].active
          PROVE  p1.qps[i].qpn \in QPNs /\ p1.qps[i].cnp_age = cnp[p1.qps[i].qpn].age
      <4>1. CASE i = e
        BY <1>3, <2>2, <3>1, <4>1
      <4>2. CASE i # e
        BY <1>3, <1>5, <3>2, <4>2 DEF Agree
      <4>3. QED
        BY <4>1, <4>2
    <3>3. ASSUME NEW i \in Entries, NEW j \in Entries,
                 p1.qps[i].active, p1.qps[j].active, p1.qps[i].qpn = p1.qps[j].qpn
          PROVE  i = j
      <4>1. CASE i = e \/ j = e
        <5>1. p1.qps[i].qpn = q /\ p1.qps[j].qpn = q
          BY <1>3, <3>3, <4>1
        <5>2. ASSUME NEW k \in Entries, p1.qps[k].active, p1.qps[k].qpn = q PROVE k = e
          BY <1>3, <2>2, <5>2
        <5>3. QED
          BY <3>3, <5>1, <5>2
      <4>2. CASE i # e /\ j # e
        BY <1>3, <1>5, <3>3, <4>2 DEF Agree
      <4>3. QED
        BY <4>1, <4>2
    <3>4. QED
      BY <3>2, <3>3 DEF Agree
  <2>3. QED
    BY <2>1, <2>2
<1>7. /\ early \in SUBSET Entries /\ \A i \in early : p1.qps[i].active
      /\ late \in SUBSET Entries /\ \A i \in late : p2.qps[i].active
  BY <1>2 DEF CnpDue
<1>8. mid \in Counters /\ Agree(p2, mid)
  BY <1>1, <1>4, <1>6, <1>7, NotifyType, NotifyAgrees DEF mid
<1>9. Agree(r, cnp')
  <2>1. Agree(r, Notify(mid, p2, late))
    BY <1>4, <1>7, <1>8, NotifyAgrees
  <2>2. QED
    BY <1>2, <2>1
<1>10. ASSUME NEW x \in QPNs, \A i \in Entries : ~Registers(p1, i, x)
       PROVE  cnp'[x] = cnp[x]
  <2>1. mid[x] = cnp[x]
    BY <1>7, <1>10, NotifyElse DEF mid
  <2>2. \A i \in Entries : ~Registers(p2, i, x)
    BY <1>4, <1>10 DEF Registers
  <2>3. Notify(mid, p2, late)[x] = mid[x]
    BY <1>7, <2>2, NotifyElse
  <2>4. QED
    BY <1>2, <2>1, <2>3
<1>11. ASSUME NEW x \in QPNs
       PROVE  /\ \A i \in Entries : Registers(proc'[LanCoreOf[x]], i, x) =>
                   proc'[LanCoreOf[x]].qps[i].cnp_age = cnp'[x].age
              /\ (\A i \in Entries : ~Registers(proc'[LanCoreOf[x]], i, x)) =>
                   cnp'[x].age = CNP_TIMER
  <2>1. CASE LanCoreOf[x] = c
    <3>1. ASSUME NEW i \in Entries, Registers(r, i, x) PROVE r.qps[i].cnp_age = cnp'[x].age
      BY <1>9, <3>1 DEF Agree, Registers
    <3>2. ASSUME \A i \in Entries : ~Registers(r, i, x) PROVE cnp'[x].age = CNP_TIMER
      <4>1. \A i \in Entries : ~Registers(p1, i, x)
        BY <1>4, <3>2 DEF Registers
      <4>2. x # q
        BY <1>3, <4>1 DEF Registers
      <4>3. \A i \in Entries : ~Registers(p, i, x)
        BY <1>3, <4>1, <4>2 DEF Registers
      <4>4. cnp[x].age = CNP_TIMER
        BY <2>1, <4>3 DEF IInv, ClocksAgree
      <4>5. QED
        BY <1>10, <4>1, <4>4
    <3>3. QED
      BY <1>1, <2>1, <3>1, <3>2
  <2>2. CASE LanCoreOf[x] # c
    <3>1. proc'[LanCoreOf[x]] = proc[LanCoreOf[x]]
      BY <1>1, <2>2, LanCoreIs
    <3>2. \A i \in Entries : ~Registers(p1, i, x)
      <4>1. ASSUME NEW i \in Entries, Registers(p1, i, x) PROVE FALSE
        <5>1. i # e
          BY <1>3, <2>2, <4>1 DEF Registers
        <5>2. proc[c].qps[i].active /\ proc[c].qps[i].qpn = x
          BY <1>3, <4>1, <5>1 DEF Registers
        <5>3. QED
          BY <1>1, <2>2, <5>2 DEF IInv, Steered
      <4>2. QED
        BY <4>1
    <3>3. cnp'[x] = cnp[x]
      BY <1>10, <3>2
    <3>4. QED
      BY <3>1, <3>3 DEF IInv, ClocksAgree
  <2>3. QED
    BY <2>1, <2>2
<1>12. ClocksAgree'
  BY <1>11 DEF ClocksAgree, Registers
<1>13. ASSUME NEW x \in QPNs, cnp'[x].sent # cnp[x].sent
       PROVE  cnp'[x].sent = cnp[x].sent + 1 /\ cnp[x].age >= CNP_TIMER
  <2>1. LET after == Notify(Notify(cnp, p1, early), p2, late)
        IN  after[x].sent # cnp[x].sent =>
              after[x].sent = cnp[x].sent + 1 /\ cnp[x].age >= CNP_TIMER
    BY <1>1, <1>2, <1>4, <1>6, OneCnpEach
  <2>2. QED
    BY <1>2, <1>13, <2>1 DEF mid
<1>14. QED
  BY <1>12, <1>13

\* The windows of the LAN cores, and what was acknowledged to the hosts.
LEMMA LanStepWindows ==
  ASSUME 0 \notin QPNs, IInv, NEW q \in QPNs, NEW psn \in PSN, NEW early, NEW late, LanStep(q, psn, early, late)
  PROVE  LanWindowsFill' /\ AckedCovered'
<1> DEFINE c == LanCoreOf[q]
           m == received + 1
           p == proc[c]
           e == qp_get_or_create(p, q)
           r == LanResult(p, q, m, psn, early, late)
           w == IF p.arqs[e].qpn = q THEN p.arqs[e].window ELSE EmptyContext
<1>1. /\ c \in LanCores /\ c \in Cores /\ p \in PType /\ q # 0 /\ Aligned(p) /\ m \in Mbufs /\ e # 0
      /\ proc'[c] = r
      /\ \A d \in Cores : d # c => proc'[d] = proc[d]
  BY LanStepIs
<1>2. /\ e \in Entries /\ r.arqs[e].qpn = q
      /\ \A i \in Entries : i # e => r.arqs[i] = p.arqs[i]
      /\ r.arqs[e].window = Sent(w, m, psn)
  <2> HIDE DEF p, m
  <2>1. QED
    BY <1>1, LanResultIs
<1>3. p.qps[e].active => p.qps[e].qpn = q
  <2> HIDE DEF p
  <2>1. /\ WithQp(p, q).qps[e].qpn = q
        /\ p.qps[e].active => WithQp(p, q) = p
    BY <1>1, WithQpIs
  <2>2. QED
    BY <2>1
<1>4. acked' \subseteq acked \cup {<<q, psn>>}
  BY Zenon DEF LanStep
<1> HIDE DEF r, e
<1>5. w \in arq_context_t /\ Filling(w)
  <2>1. p.arqs[e] \in ArqEntry
    BY <1>1, <1>2, PTypeIs
  <2>2. p.arqs[e].window \in arq_context_t
    BY <2>1 DEF ArqEntry
  <2>3. Filling(p.arqs[e].window)
    BY <1>1, <1>2 DEF IInv, LanWindowsFill, Filled
  <2>4. QED
    BY <2>2, <2>3, EmptyContextType, EmptyFilling
<1> HIDE DEF w, m
<1>6. /\ Filling(Sent(w, m, psn)) /\ Covers(Sent(w, m, psn), psn)
      /\ \A x \in PSN : Covers(w, x) => Covers(Sent(w, m, psn), x)
  BY <1>1, <1>5, SentCovers
<1>7. ASSUME NEW d \in LanCores PROVE Filled(proc'[d])
  <2>1. d \in Cores /\ Filled(proc[d])
    BY DEF IInv, LanWindowsFill, Cores
  <2>2. CASE d = c
    <3>1. ASSUME NEW i \in Entries
          PROVE  Filling(r.arqs[i].window) /\ (r.arqs[i].qpn = 0 => r.arqs[i].window.send_next = 0)
      <4>1. CASE i = e
        BY <1>1, <1>2, <1>6, <4>1
      <4>2. CASE i # e
        BY <1>2, <2>1, <2>2, <4>2 DEF Filled
      <4>3. QED
        BY <4>1, <4>2
    <3>2. QED
      BY <1>1, <2>2, <3>1 DEF Filled
  <2>3. CASE d # c
    BY <1>1, <2>1, <2>3
  <2>4. QED
    BY <2>2, <2>3
<1>8. LanWindowsFill'
  BY <1>7 DEF LanWindowsFill, Filled, Filling
<1>9. ASSUME NEW x \in QPNs, NEW y \in PSN, <<x, y>> \in acked'
      PROVE  CoveredBy(proc'[LanCoreOf[x]], x, y)
  <2>1. CASE x = q /\ y = psn
    BY <1>1, <1>2, <1>6, <2>1 DEF CoveredBy
  <2>2. CASE ~(x = q /\ y = psn)
    <3>1. <<x, y>> \in acked
      BY <1>4, <1>9, <2>2
    <3>2. LanCoreOf[x] \in Cores
      BY LanCoreIs
    <3>3. PICK i \in Entries : /\ proc[LanCoreOf[x]].arqs[i].qpn = x
                               /\ Covers(proc[LanCoreOf[x]].arqs[i].window, y)
      BY <3>1 DEF IInv, AckedCovered, CoveredBy
    <3>4. CASE LanCoreOf[x] # c
      BY <1>1, <3>2, <3>3, <3>4 DEF CoveredBy
    <3>5. CASE LanCoreOf[x] = c /\ i # e
      BY <1>1, <1>2, <3>3, <3>5 DEF CoveredBy
    <3>6. CASE LanCoreOf[x] = c /\ i = e
      <4>1. p.arqs[e].qpn = x /\ x # 0
        BY <3>3, <3>6
      <4>2. x = q
        <5>1. p.qps[e].active /\ p.qps[e].qpn = x
          BY <1>1, <1>2, <4>1 DEF Aligned
        <5>2. QED
          BY <1>3, <5>1
      <4>3. Covers(w, y)
        BY <3>3, <3>6, <4>1, <4>2 DEF w
      <4>4. QED
        BY <1>1, <1>2, <1>6, <3>6, <4>2, <4>3 DEF CoveredBy
    <3>7. QED
      BY <3>4, <3>5, <3>6
  <2>3. QED
    BY <2>1, <2>2
<1>10. AckedCovered'
  BY <1>9 DEF AckedCovered, CoveredBy, Covers
<1>11. QED
  BY <1>8, <1>10

LEMMA LanWriteInvariant ==
  ASSUME IInv, NEW q \in QPNs, NEW psn \in PSN, NEW ce \in BOOLEAN, LanWrite(q, psn, ce)
  PROVE  IInv'
<1>1. PICK early, late : LanStep(q, psn, early, late)
  BY LanWriteIs
<1>2. TypeOK'
  BY <1>1, LanStepType
<1>3. TablesAligned' /\ Steered' /\ RegistryOK'
  BY <1>1, LanStepTables
<1>4. ClocksAgree'
  BY <1>1, LanStepClocks
<1>5. LanWindowsFill' /\ AckedCovered'
  BY <1>1, LanStepWindows DEF LanWindowsFill, AckedCovered
<1>6. QED
  BY <1>2, <1>3, <1>4, <1>5 DEF IInv

\* A WAN core only works on windows of its own context.
LEMMA WanStepKeeps ==
  ASSUME IInv, NEW c \in WanCores, NEW p \in PType,
         proc' = [proc EXCEPT ![c] = p], p.qps = proc[c].qps,
         \A i \in Entries : p.arqs[i].qpn = proc[c].arqs[i].qpn,
         last' \in [type: {"none", "ack", "nack"}, qpn: QPNs \cup {0}, psn: PSN],
         UNCHANGED <<received, psn_next, acked, cnp>>
  PROVE  IInv'
<1>1. c \in Cores /\ c \notin LanCores
  BY ProcessorAssumption DEF Cores
<1>2. /\ proc \in [Cores -> PType]
      /\ proc'[c] = p /\ \A d \in Cores : d # c => proc'[d] = proc[d]
  BY <1>1, TypeOKIs DEF IInv
<1>3. TypeOK'
  <2>1. proc' \in [Cores -> PType]
    BY <1>1, <1>2
  <2>2. QED
    BY <2>1 DEF IInv, TypeOK, PType, QpType, ArqEntry
<1>4. \A d \in Cores : /\ proc'[d].qps = proc[d].qps
                       /\ \A i \in Entries : proc'[d].arqs[i].qpn = proc[d].arqs[i].qpn
  BY <1>2
<1>5. TablesAligned' /\ Steered' /\ RegistryOK'
  BY <1>4 DEF IInv, TablesAligned, Aligned, Steered, RegistryOK, Registered
<1>6. \A d \in LanCores : proc'[d] = proc[d]
  BY <1>1, <1>2 DEF Cores
<1>7. ClocksAgree'
  BY <1>6, LanCoreIs DEF IInv, ClocksAgree, Registers
<1>8. LanWindowsFill'
  <2>1. ASSUME 0 \notin QPNs, NEW d \in LanCores PROVE Filled(proc'[d])
    BY <1>6, <2>1 DEF IInv, LanWindowsFill
  <2>2. QED
    BY <2>1 DEF LanWindowsFill, Filled, Filling
<1>9. AckedCovered'
  <2>1. ASSUME 0 \notin QPNs, NEW q \in QPNs, NEW psn \in PSN, <<q, psn>> \in acked'
        PROVE  CoveredBy(proc'[LanCoreOf[q]], q, psn)
    <3>1. proc'[LanCoreOf[q]] = proc[LanCoreOf[q]]
      BY <1>6, LanCoreIs
    <3>2. CoveredBy(proc[LanCoreOf[q]], q, psn)
      BY <2>1 DEF IInv, AckedCovered
    <3>3. QED
      BY <3>1, <3>2
  <2>2. QED
    BY <2>1 DEF AckedCovered, CoveredBy, Covers
<1>10. QED
  BY <1>3, <1>5, <1>7, <1>8, <1>9 DEF IInv

LEMMA OnWindowIs ==
  ASSUME NEW p \in PType, NEW e \in Entries, NEW w \in arq_context_t
  PROVE  /\ OnWindow(p, e, w) \in PType /\ OnWindow(p, e, w).qps = p.qps
         /\ \A i \in Entries : OnWindow(p, e, w).arqs[i].qpn = p.arqs[i].qpn
<1> DEFINE x == [p.arqs[e] EXCEPT !.window = w]
           r == OnWindow(p, e, w)
<1>1. x \in ArqEntry /\ x.qpn = p.arqs[e].qpn
  BY PTypeIs DEF ArqEntry
<1>2. r = [p EXCEPT !.arqs = [p.arqs EXCEPT ![e] = x]]
  BY DEF OnWindow
<1> HIDE DEF x, r
<1>3. r \in PType /\ r.qps = p.qps /\ r.arqs = [p.arqs EXCEPT ![e] = x]
  BY <1>1, <1>2 DEF PType
<1>4. \A i \in Entries : r.arqs[i].qpn = p.arqs[i].qpn
  BY <1>1, <1>3, PTypeIs
<1>5. QED
  BY <1>3, <1>4 DEF r

LEMMA ControlInvariant ==
  ASSUME IInv, NEW c \in WanCores, NEW type \in {"ack", "nack"}, NEW q \in QPNs, NEW psn \in PSN,
         Control(c, type, q, psn)
  PROVE  IInv'
<1> DEFINE e == arq_lookup(proc[c], q)
           w == proc[c].arqs[e].window
           v == IF type = "ack" THEN arq_handle_ack(w, psn) ELSE arq_handle_nack(w, psn)
           p == IF e = 0 THEN proc[c] ELSE OnWindow(proc[c], e, v)
<1>1. proc[c] \in PType
  BY TypeOKIs DEF IInv, Cores
<1>2. /\ proc' = [proc EXCEPT ![c] = p]
      /\ last' = [type |-> type, qpn |-> q, psn |-> psn]
      /\ UNCHANGED <<received, psn_next, acked, cnp>>
  BY DEF Control
<1>3. p \in PType /\ p.qps = proc[c].qps
      /\ \A i \in Entries : p.arqs[i].qpn = proc[c].arqs[i].qpn
  <2>1. CASE e = 0
    BY <1>1, <2>1
  <2>2. CASE e # 0
    <3>1. e \in Entries
      BY <1>1, <2>2, ArqLookupIs
    <3>2. w \in arq_context_t
      BY <1>1, <3>1, PTypeIs DEF ArqEntry
    <3>3. v \in arq_context_t
      BY <3>2, AckType, NackType
    <3>4. p = OnWindow(proc[c], e, v)
      BY <2>2
    <3> HIDE DEF p, v, e
    <3>5. QED
      BY <1>1, <3>1, <3>3, <3>4, OnWindowIs
  <2>3. QED
    BY <2>1, <2>2
<1> HIDE DEF p
<1>4. last' \in [type: {"none", "ack", "nack"}, qpn: QPNs \cup {0}, psn: PSN]
  BY <1>2
<1>5. QED
  BY <1>2, <1>3, <1>4, WanStepKeeps

LEMMA TimerInvariant ==
  ASSUME IInv, NEW c \in WanCores, Timer(c)
  PROVE  IInv'
<1> DEFINE arqs == [i \in Entries |->
                      IF proc[c].arqs[i].qpn # 0
                        THEN [proc[c].arqs[i] EXCEPT !.window = arq_check_timeouts(@)]
                        ELSE proc[c].arqs[i]]
           p == [proc[c] EXCEPT !.arqs = arqs]
<1>1. proc[c] \in PType /\ proc \in [Cores -> PType] /\ c \in Cores
  BY TypeOKIs DEF IInv, Cores
<1>2. /\ proc' = [proc EXCEPT ![c] = p] /\ last' = NoMessage
      /\ UNCHANGED <<received, psn_next, acked, cnp>>
  BY DEF Timer
<1>3. ASSUME NEW i \in Entries PROVE arqs[i] \in ArqEntry /\ arqs[i].qpn = proc[c].arqs[i].qpn
  <2>1. proc[c].arqs[i] \in ArqEntry
    BY <1>1, PTypeIs
  <2> DEFINE w == arq_check_timeouts(proc[c].arqs[i].window)
  <2>2. w \in arq_context_t
    BY <2>1, TimeoutType DEF ArqEntry
  <2>3. arqs[i] = IF proc[c].arqs[i].qpn # 0 THEN [proc[c].arqs[i] EXCEPT !.window = w]
                                             ELSE proc[c].arqs[i]
    OBVIOUS
  <2> HIDE DEF w, arqs
  <2>4. QED
    BY <2>1, <2>2, <2>3 DEF ArqEntry
<1>4. arqs \in [Entries -> ArqEntry]
  BY <1>3
<1> HIDE DEF arqs
<1>5. p \in PType /\ p.qps = proc[c].qps /\ p.arqs = arqs
  BY <1>1, <1>4 DEF PType
<1> HIDE DEF p
<1>6. last' \in [type: {"none", "ack", "nack"}, qpn: QPNs \cup {0}, psn: PSN]
  BY <1>2, NoMessageType
<1>7. QED
  BY <1>2, <1>3, <1>5, <1>6, WanStepKeeps

LEMMA OlderKeepsFlags ==
  ASSUME NEW w \in arq_context_t
  PROVE  /\ Older(w).send_next = w.send_next /\ Older(w).send_base = w.send_base
         /\ \A i \in Slots : /\ Older(w).send_window[i].psn = w.send_window[i].psn
                             /\ Older(w).send_window[i].in_flight = w.send_window[i].in_flight
<1>1. w.send_window \in [Slots -> arq_send_entry_t]
  BY DEF arq_context_t
<1>2. ASSUME NEW i \in Slots
      PROVE  /\ Older(w).send_window[i].psn = w.send_window[i].psn
             /\ Older(w).send_window[i].in_flight = w.send_window[i].in_flight
  BY <1>1 DEF Older, arq_send_entry_t, arq_context_t
<1>3. QED
  BY <1>2 DEF Older, arq_context_t

LEMMA TickIs ==
  ASSUME IInv, Tick, NEW c \in Cores
  PROVE  /\ proc'[c] \in PType
         /\ \A i \in Entries :
              /\ proc'[c].qps[i].active = proc[c].qps[i].active
              /\ proc'[c].qps[i].qpn = proc[c].qps[i].qpn
              /\ proc'[c].qps[i].cnp_age = Capped(proc[c].qps[i].cnp_age)
              /\ proc'[c].arqs[i].qpn = proc[c].arqs[i].qpn
              /\ proc'[c].arqs[i].window = Older(proc[c].arqs[i].window)
<1> DEFINE p    == proc[c]
           qps  == [i \in Entries |-> [p.qps[i] EXCEPT !.cnp_age = Capped(@)]]
           arqs == [i \in Entries |-> [p.arqs[i] EXCEPT !.window = Older(@)]]
<1>1. p \in PType
  BY TypeOKIs DEF IInv
<1>2. proc'[c] = [p EXCEPT !.qps = qps, !.arqs = arqs]
  BY Zenon DEF Tick
<1>3. ASSUME NEW i \in Entries
      PROVE  /\ qps[i] \in QpType
             /\ qps[i].active = p.qps[i].active /\ qps[i].qpn = p.qps[i].qpn
             /\ qps[i].cnp_age = Capped(p.qps[i].cnp_age)
  <2>1. p.qps[i] \in QpType
    BY <1>1, PTypeIs
  <2> DEFINE a == Capped(p.qps[i].cnp_age)
  <2>2. a \in 0 .. CNP_TIMER
    BY <2>1, ProcessorAssumption DEF Capped, QpType
  <2>3. qps[i] = [p.qps[i] EXCEPT !.cnp_age = a]
    OBVIOUS
  <2> HIDE DEF a, qps, p
  <2>4. QED
    BY <2>1, <2>2, <2>3 DEF QpType, a
<1>4. ASSUME NEW i \in Entries
      PROVE  /\ arqs[i] \in ArqEntry /\ arqs[i].qpn = p.arqs[i].qpn
             /\ arqs[i].window = Older(p.arqs[i].window)
  <2>1. p.arqs[i] \in ArqEntry
    BY <1>1, PTypeIs
  <2> DEFINE w == Older(p.arqs[i].window)
  <2>2. w \in arq_context_t
    BY <2>1, OlderType DEF ArqEntry
  <2>3. arqs[i] = [p.arqs[i] EXCEPT !.window = w]
    OBVIOUS
  <2> HIDE DEF w, arqs, p
  <2>4. QED
    BY <2>1, <2>2, <2>3 DEF ArqEntry, w
<1>5. qps \in [Entries -> QpType] /\ arqs \in [Entries -> ArqEntry]
  BY <1>3, <1>4
<1> HIDE DEF qps, arqs, p
<1>6. proc'[c] \in PType /\ proc'[c].qps = qps /\ proc'[c].arqs = arqs
  BY <1>1, <1>2, <1>5 DEF PType
<1>7. QED
  BY <1>3, <1>4, <1>6 DEF p

LEMMA TickInvariant ==
  ASSUME IInv, Tick
  PROVE  IInv'
<1>1. UNCHANGED <<received, psn_next, acked, last>>
  BY Zenon DEF Tick
<1>2. ASSUME NEW q \in QPNs PROVE cnp'[q].age = Capped(cnp[q].age) /\ cnp'[q].sent = cnp[q].sent
  <2>1. cnp[q] \in [sent: Nat, age: 0 .. CNP_TIMER]
    BY TypeOKIs DEF IInv, Counters
  <2>2. cnp'[q] = [cnp[q] EXCEPT !.age = Capped(@)]
    BY DEF Tick
  <2>3. QED
    BY <2>1, <2>2
<1>3. TypeOK'
  <2>1. proc' \in [Cores -> PType]
    <3>1. DOMAIN proc' = Cores /\ proc' = [c \in Cores |-> proc'[c]]
      BY Zenon DEF Tick
    <3>2. QED
      BY <3>1, TickIs
  <2>2. cnp' \in Counters
    <3>1. ASSUME NEW q \in QPNs
          PROVE  [cnp[q] EXCEPT !.age = Capped(@)] \in [sent: Nat, age: 0 .. CNP_TIMER]
      <4>1. cnp[q] \in [sent: Nat, age: 0 .. CNP_TIMER]
        BY TypeOKIs DEF IInv, Counters
      <4>2. Capped(cnp[q].age) \in 0 .. CNP_TIMER
        BY <4>1, ProcessorAssumption DEF Capped
      <4>3. QED
        BY <4>1, <4>2
    <3>2. cnp' = [q \in QPNs |-> [cnp[q] EXCEPT !.age = Capped(@)]]
      BY Zenon DEF Tick
    <3>3. QED
      BY <3>1, <3>2 DEF Counters
  <2>3. QED
    BY <1>1, <2>1, <2>2 DEF IInv, TypeOK, PType, QpType, ArqEntry, Counters
<1>4. TablesAligned'
  <2>1. ASSUME 0 \notin QPNs, NEW c \in Cores PROVE Aligned(proc'[c])
    <3>1. Aligned(proc[c])
      BY <2>1 DEF IInv, TablesAligned
    <3>2. \A i \in Entries : /\ proc'[c].qps[i].active = proc[c].qps[i].active
                             /\ proc'[c].qps[i].qpn = proc[c].qps[i].qpn
                             /\ proc'[c].arqs[i].qpn = proc[c].arqs[i].qpn
      BY TickIs
    <3>3. QED
      BY <3>1, <3>2 DEF Aligned
  <2>2. QED
    BY <2>1 DEF TablesAligned, Aligned
<1>5. Steered' /\ RegistryOK'
  BY TickIs DEF IInv, Steered, RegistryOK, Registered
<1>6. ClocksAgree'
  <2>1. ASSUME NEW q \in QPNs
        PROVE  /\ \A i \in Entries : Registers(proc'[LanCoreOf[q]], i, q) =>
                    proc'[LanCoreOf[q]].qps[i].cnp_age = cnp'[q].age
               /\ (\A i \in Entries : ~Registers(proc'[LanCoreOf[q]], i, q)) =>
                    cnp'[q].age = CNP_TIMER
    <3> DEFINE c == LanCoreOf[q]
    <3>1. c \in Cores
      BY LanCoreIs
    <3>2. \A i \in Entries :
            /\ Registers(proc'[c], i, q) <=> Registers(proc[c], i, q)
            /\ proc'[c].qps[i].cnp_age = Capped(proc[c].qps[i].cnp_age)
      BY <3>1, TickIs DEF Registers
    <3>3. Capped(CNP_TIMER) = CNP_TIMER
      BY ProcessorAssumption DEF Capped
    <3>4. /\ \A i \in Entries : Registers(proc[c], i, q) => proc[c].qps[i].cnp_age = cnp[q].age
          /\ (\A i \in Entries : ~Registers(proc[c], i, q)) => cnp[q].age = CNP_TIMER
      BY DEF IInv, ClocksAgree
    <3>5. QED
      BY <1>2, <3>2, <3>3, <3>4
  <2>2. QED
    BY <2>1 DEF ClocksAgree, Registers
<1>7. ASSUME NEW c \in Cores, NEW i \in Entries
      PROVE  LET v == proc'[c].arqs[i].window
                 w == proc[c].arqs[i].window
             IN  /\ v.send_next = w.send_next /\ v.send_base = w.send_base
                 /\ \A j \in Slots : /\ v.send_window[j].psn = w.send_window[j].psn
                                     /\ v.send_window[j].in_flight = w.send_window[j].in_flight
  <2>1. proc[c].arqs[i].window \in arq_context_t
    BY TypeOKIs, PTypeIs DEF IInv, ArqEntry
  <2>2. proc'[c].arqs[i].window = Older(proc[c].arqs[i].window)
    BY TickIs
  <2>3. QED
    BY <2>1, <2>2, OlderKeepsFlags
<1>8. LanWindowsFill'
  <2>1. ASSUME 0 \notin QPNs, NEW c \in LanCores, NEW i \in Entries
        PROVE  /\ Filling(proc'[c].arqs[i].window)
               /\ proc'[c].arqs[i].qpn = 0 => proc'[c].arqs[i].window.send_next = 0
    <3> DEFINE v == proc'[c].arqs[i].window
               w == proc[c].arqs[i].window
    <3>1. /\ c \in Cores /\ Filling(w) /\ (proc[c].arqs[i].qpn = 0 => w.send_next = 0)
          /\ proc'[c].arqs[i].qpn = proc[c].arqs[i].qpn
      BY <2>1, TickIs DEF IInv, LanWindowsFill, Filled, Cores
    <3>2. /\ v.send_next = w.send_next /\ v.send_base = w.send_base
          /\ \A j \in Slots : v.send_window[j].in_flight = w.send_window[j].in_flight
      BY <1>7, <3>1
    <3> HIDE DEF v
    <3>3. Filling(v)
      BY <3>1, <3>2 DEF Filling
    <3>4. QED
      BY <3>1, <3>2, <3>3 DEF v
  <2>2. QED
    BY <2>1 DEF LanWindowsFill, Filled, Filling
<1>9. AckedCovered'
  <2>1. ASSUME 0 \notin QPNs, NEW q \in QPNs, NEW psn \in PSN, <<q, psn>> \in acked'
        PROVE  CoveredBy(proc'[LanCoreOf[q]], q, psn)
    <3> DEFINE c == LanCoreOf[q]
    <3>1. c \in Cores
      BY LanCoreIs
    <3>2. PICK i \in Entries : proc[c].arqs[i].qpn = q /\ Covers(proc[c].arqs[i].window, psn)
      BY <1>1, <2>1 DEF IInv, AckedCovered, CoveredBy
    <3>3. proc'[c].arqs[i].qpn = q
      BY <3>1, <3>2, TickIs
    <3>4. Covers(proc'[c].arqs[i].window, psn)
      BY <1>7, <3>1, <3>2 DEF Covers
    <3>5. QED
      BY <3>3, <3>4 DEF CoveredBy
  <2>2. QED
    BY <2>1 DEF AckedCovered, CoveredBy, Covers
<1>10. QED
  BY <1>3, <1>4, <1>5, <1>6, <1>8, <1>9 DEF IInv

----------------------------------------------------------------------------
(* The theorems. *)

LEMMA SentBeforeIs ==
  ASSUME IInv, NEW q \in QPNs
  PROVE  SentBefore(q) \subseteq PSN /\ psn_next[q] \in PSN
  BY DEF IInv, TypeOK, SentBefore

LEMMA StepInvariant == IInv /\ [Next]_vars => IInv'
<1> SUFFICES ASSUME IInv, [Next]_vars PROVE IInv'
  OBVIOUS
<1>1. ASSUME NEW q \in QPNs, LanDrop(q) PROVE IInv'
  BY <1>1, DropInvariant
<1>2. ASSUME NEW q \in QPNs, NEW psn \in SentBefore(q) \cup {psn_next[q]}, NEW ce \in BOOLEAN,
             LanWrite(q, psn, ce)
      PROVE  IInv'
  <2>1. psn \in PSN
    BY SentBeforeIs
  <2>2. QED
    BY <1>2, <2>1, LanWriteInvariant
<1>3. ASSUME NEW c \in WanCores, NEW type \in {"ack", "nack"}, NEW q \in QPNs,
             NEW psn \in SentBefore(q), Control(c, type, q, psn)
      PROVE  IInv'
  <2>1. psn \in PSN
    BY SentBeforeIs
  <2>2. QED
    BY <1>3, <2>1, ControlInvariant
<1>4. ASSUME NEW c \in WanCores, Timer(c) PROVE IInv'
  BY <1>4, TimerInvariant
<1>5. CASE Tick
  BY <1>5, TickInvariant
<1>6. CASE UNCHANGED vars
  <2>1. TypeOK' /\ TablesAligned' /\ Steered' /\ RegistryOK'
    BY <1>6 DEF vars, IInv, TypeOK, TablesAligned, Aligned, Steered, RegistryOK, Registered
  <2>2. ClocksAgree'
    BY <1>6 DEF vars, IInv, ClocksAgree, Registers
  <2>3. LanWindowsFill'
    BY <1>6 DEF vars, IInv, LanWindowsFill, Filled, Filling
  <2>4. AckedCovered'
    <3>1. proc' = proc /\ acked' = acked
      BY <1>6 DEF vars
    <3>2. AckedCovered
      BY DEF IInv
    <3>3. ASSUME 0 \notin QPNs, NEW q \in QPNs, NEW psn \in PSN, <<q, psn>> \in acked'
          PROVE  CoveredBy(proc'[LanCoreOf[q]], q, psn)
      BY <3>1, <3>2, <3>3 DEF AckedCovered
    <3>4. QED
      BY <3>3 DEF AckedCovered, CoveredBy, Covers
  <2>5. QED
    BY <2>1, <2>2, <2>3, <2>4 DEF IInv
<1>7. QED
  BY <1>1, <1>2, <1>3, <1>4, <1>5, <1>6 DEF Next

LEMMA Invariance == Spec => []IInv
  BY InitInvariant, StepInvariant, PTL DEF Spec

\* The contexts of all lcores keep their types: indices, ages and the packet
\* counter stay within their bounds.
THEOREM TypeCorrect == Spec => []TypeOK
<1>1. IInv => TypeOK
  BY DEF IInv
<1>2. QED
  BY <1>1, Invariance, PTL

\* The QP registry and the ARQ table of a LAN core hold the same QPs, once
\* each, whatever the order in which QPs appear and the tables fill up.
THEOREM TablesAgree ==
  ASSUME 0 \notin QPNs
  PROVE  Spec => []TablesInSync
<1>1. ASSUME IInv, NEW c \in LanCores, NEW q \in QPNs
      PROVE  LET qp  == {i \in Entries : proc[c].qps[i].active /\ proc[c].qps[i].qpn = q}
                 arq == {i \in Entries : proc[c].arqs[i].qpn = q}
             IN  Cardinality(qp) = Cardinality(arq) /\ Cardinality(qp) <= 1
  <2> DEFINE qp  == {i \in Entries : proc[c].qps[i].active /\ proc[c].qps[i].qpn = q}
             arq == {i \in Entries : proc[c].arqs[i].qpn = q}
  <2>1. Aligned(proc[c]) /\ q # 0
    BY <1>1 DEF IInv, TablesAligned, Cores
  <2>2. qp = arq
    BY <2>1 DEF Aligned
  <2>3. \A i, j \in arq : i = j
    BY <2>1 DEF Aligned
  <2>4. Cardinality(arq) <= 1
    <3>1. CASE arq = {}
      <4>1. Cardinality(arq) = 0
        BY <3>1, FS_EmptySet
      <4>2. QED
        BY <4>1
    <3>2. CASE arq # {}
      <4>1. PICK i : i \in arq
        BY <3>2
      <4>2. arq = {i}
        BY <2>3, <4>1
      <4> HIDE DEF arq
      <4>3. Cardinality(arq) = 1
        BY <4>2, FS_Singleton
      <4>4. QED
        BY <4>3
    <3>3. QED
      BY <3>1, <3>2
  <2> HIDE DEF qp, arq
  <2>5. Cardinality(qp) = Cardinality(arq) /\ Cardinality(qp) <= 1
    BY <2>2, <2>4
  <2>6. QED
    BY <2>5 DEF qp, arq
<1>2. IInv => TablesInSync
  BY <1>1 DEF TablesInSync
<1>3. QED
  BY <1>2, Invariance, PTL

\* A spoofed ACK loses nothing before the window of its QP is full: what was
\* acknowledged to the host is still held for retransmission on its LAN core.
THEOREM AckedIsHeld ==
  ASSUME 0 \notin QPNs
  PROVE  Spec => []UntrackedOnlyWhenFull
<1>1. ASSUME IInv, NEW q \in QPNs, NEW psn \in PSN, <<q, psn>> \in acked
      PROVE  \/ IsTracked(q, psn)
             \/ \E i \in Entries : /\ proc[LanCoreOf[q]].arqs[i].qpn = q
                                   /\ InFlight(proc[LanCoreOf[q]].arqs[i].window) = Slots
  <2>1. PICK i \in Entries : /\ proc[LanCoreOf[q]].arqs[i].qpn = q
                             /\ Covers(proc[LanCoreOf[q]].arqs[i].window, psn)
    BY <1>1 DEF IInv, AckedCovered, CoveredBy
  <2>2. LanCoreOf[q] \in Cores
    BY LanCoreIs
  <2>3. QED
    BY <2>1, <2>2 DEF Covers, IsTracked, InFlight
<1>2. IInv => UntrackedOnlyWhenFull
  BY <1>1 DEF UntrackedOnlyWhenFull
<1>3. QED
  BY <1>2, Invariance, PTL

\* No flow gets a second CNP within CNP_TIMER, although two places of
\* proc_process_lan_rx send them, possibly in one call.
THEOREM CnpsPaced == Spec => CnpPaced
<1> DEFINE Paced == \A q \in QPNs : cnp'[q].sent # cnp[q].sent =>
                      /\ cnp'[q].sent = cnp[q].sent + 1
                      /\ cnp[q].age >= CNP_TIMER
<1>1. IInv /\ [Next]_vars => [Paced]_vars
  <2>0. SUFFICES ASSUME IInv, [Next]_vars PROVE [Paced]_vars
    OBVIOUS
  <2>1. ASSUME NEW q \in QPNs, NEW psn \in SentBefore(q) \cup {psn_next[q]}, NEW ce \in BOOLEAN,
               LanWrite(q, psn, ce)
        PROVE  Paced
    <3>1. psn \in PSN
      BY <2>0, SentBeforeIs
    <3>2. PICK early, late : LanStep(q, psn, early, late)
      BY <2>1, <3>1, LanWriteIs
    <3>3. QED
      BY <2>0, <3>1, <3>2, LanStepClocks
  <2>2. ASSUME UNCHANGED cnp PROVE Paced
    BY <2>2
  <2>3. ASSUME Tick PROVE Paced
    <3>1. ASSUME NEW q \in QPNs PROVE cnp'[q].sent = cnp[q].sent
      <4>1. cnp[q] \in [sent: Nat, age: 0 .. CNP_TIMER]
        BY <2>0 DEF IInv, TypeOK
      <4>2. cnp'[q] = [cnp[q] EXCEPT !.age = Capped(@)]
        BY <2>3 DEF Tick
      <4>3. QED
        BY <4>1, <4>2
    <3>2. QED
      BY <3>1
  <2>4. ASSUME NEW q \in QPNs, LanDrop(q) PROVE Paced
    BY <2>2, <2>4 DEF LanDrop
  <2>5. ASSUME NEW c \in WanCores, NEW type, NEW q, NEW psn, Control(c, type, q, psn) PROVE Paced
    BY <2>2, <2>5, Zenon DEF Control
  <2>6. ASSUME NEW c \in WanCores, Timer(c) PROVE Paced
    BY <2>2, <2>6, Zenon DEF Timer
  <2> HIDE DEF Paced
  <2>7. QED
    BY <2>0, <2>1, <2>3, <2>4, <2>5, <2>6 DEF Next
<1>2. QED
  BY <1>1, Invariance, PTL DEF Spec, CnpPaced

----------------------------------------------------------------------------
(* The congestion check. *)

LEMMA FilledSpan ==
  ASSUME NEW p \in PType, Filled(p), NEW i \in Entries
  PROVE  LET w == p.arqs[i].window IN
         /\ w.send_next \in Nat /\ w.send_next <= WINDOW_SIZE
         /\ \A j \in Slots : w.send_window[j].in_flight <=> j < w.send_next
         /\ w.send_next = IF p.arqs[i].qpn # 0 THEN Span(w) ELSE 0
<1> DEFINE w == p.arqs[i].window
<1>1. w \in arq_context_t
  BY PTypeIs DEF ArqEntry
<1>2. w.send_next \in Nat
  BY <1>1 DEF arq_context_t, Ctr
<1>3. /\ w.send_base = 0 /\ w.send_next <= WINDOW_SIZE
      /\ \A j \in Slots : w.send_window[j].in_flight <=> j < w.send_next
      /\ p.arqs[i].qpn = 0 => w.send_next = 0
  BY DEF Filled, Filling
<1> HIDE DEF w
<1>4. Span(w) = w.send_next
  BY <1>2, <1>3, ArqAssumption DEF Span
<1>5. QED
  BY <1>2, <1>3, <1>4 DEF w

\* What the first n contexts hold.
HeldUpTo(contexts, n) ==
  {x \in (1 .. n) \X Slots : contexts[x[1]].window.send_window[x[2]].in_flight}

LEMMA HeldFinite ==
  ASSUME NEW contexts, NEW n \in Nat
  PROVE  IsFiniteSet(HeldUpTo(contexts, n)) /\ Cardinality(HeldUpTo(contexts, n)) \in Nat
<1>1. IsFiniteSet(1 .. n) /\ IsFiniteSet(Slots)
  BY FS_Interval, ArqAssumption DEF Slots
<1>2. IsFiniteSet((1 .. n) \X Slots)
  BY <1>1, FS_Product
<1>3. HeldUpTo(contexts, n) \in SUBSET ((1 .. n) \X Slots)
  BY DEF HeldUpTo
<1>4. IsFiniteSet(HeldUpTo(contexts, n))
  BY <1>2, <1>3, FS_Subset
<1>5. QED
  BY <1>4, FS_CardinalityType

\* One more context adds what its window holds.
LEMMA HeldStep ==
  ASSUME NEW p \in PType, Filled(p), NEW n \in Entries
  PROVE  Cardinality(HeldUpTo(p.arqs, n)) =
           Cardinality(HeldUpTo(p.arqs, n - 1)) + p.arqs[n].window.send_next
<1> DEFINE k   == p.arqs[n].window.send_next
           new == {n} \X (0 .. k - 1)
           H   == HeldUpTo(p.arqs, n - 1)
<1>1. /\ k \in Nat /\ k <= WINDOW_SIZE
      /\ \A j \in Slots : p.arqs[n].window.send_window[j].in_flight <=> j < k
  BY FilledSpan
<1>2. n \in Nat /\ n - 1 \in Nat
  BY EntriesAre
<1> HIDE DEF k
<1>3. HeldUpTo(p.arqs, n) = H \cup new
  <2>1. ASSUME NEW x \in HeldUpTo(p.arqs, n) PROVE x \in H \cup new
    <3>1. PICK i \in 1 .. n, j \in Slots : x = <<i, j>> /\ p.arqs[i].window.send_window[j].in_flight
      BY <2>1 DEF HeldUpTo
    <3>2. CASE i = n
      <4>1. j \in 0 .. k - 1
        BY <1>1, <3>1, <3>2, ArqAssumption DEF Slots
      <4>2. QED
        BY <3>1, <3>2, <4>1
    <3>3. CASE i # n
      <4>1. i \in 1 .. n - 1
        BY <1>2, <3>1, <3>3
      <4>2. QED
        BY <3>1, <4>1 DEF HeldUpTo
    <3>4. QED
      BY <3>2, <3>3
  <2>2. ASSUME NEW x \in H PROVE x \in HeldUpTo(p.arqs, n)
    <3>1. (1 .. n - 1) \subseteq (1 .. n)
      BY <1>2
    <3>2. QED
      BY <2>2, <3>1 DEF HeldUpTo
  <2>3. ASSUME NEW x \in new PROVE x \in HeldUpTo(p.arqs, n)
    <3>1. PICK j \in 0 .. k - 1 : x = <<n, j>>
      BY <2>3
    <3>2. j \in Slots /\ j < k /\ n \in 1 .. n
      BY <1>1, <1>2, <3>1, EntriesAre, ArqAssumption DEF Slots
    <3>3. QED
      BY <1>1, <3>1, <3>2 DEF HeldUpTo
  <2>4. QED
    BY <2>1, <2>2, <2>3
<1>4. H \cap new = {}
  <2>1. n \notin 1 .. n - 1
    BY <1>2
  <2>2. QED
    BY <2>1 DEF HeldUpTo
<1>5. IsFiniteSet(new) /\ Cardinality(new) = k
  <2>1. IsFiniteSet(0 .. k - 1) /\ Cardinality(0 .. k - 1) = k
    <3>1. 0 \in Int /\ k - 1 \in Int
      BY <1>1
    <3>2. /\ IsFiniteSet(0 .. k - 1)
          /\ Cardinality(0 .. k - 1) = IF 0 > k - 1 THEN 0 ELSE (k - 1) - 0 + 1
      BY <3>1, FS_Interval
    <3>3. QED
      BY <1>1, <3>2
  <2>2. IsFiniteSet({n}) /\ Cardinality({n}) = 1
    BY FS_Singleton
  <2>3. IsFiniteSet(new) /\ Cardinality(new) = Cardinality({n}) * Cardinality(0 .. k - 1)
    BY <2>1, <2>2, FS_Product
  <2>4. QED
    BY <1>1, <2>1, <2>2, <2>3
<1> HIDE DEF new, H
<1>6. IsFiniteSet(H) /\ Cardinality(H) \in Nat
  BY <1>2, HeldFinite DEF H
<1>7. Cardinality(H \cup new) = Cardinality(H) + Cardinality(new) - Cardinality(H \cap new)
  BY <1>5, <1>6, FS_Union
<1>8. Cardinality(H \cap new) = 0
  BY <1>4, FS_EmptySet
<1>9. QED
  BY <1>1, <1>3, <1>5, <1>6, <1>7, <1>8 DEF H, k

\* The loop of calculate_arq_window_usage counts what the windows hold.  Its
\* running sum satisfies an equation that has one solution: the numbers of
\* buffers the first n contexts hold.
LEMMA UsageIs ==
  ASSUME NEW p \in PType, Filled(p)
  PROVE  /\ calculate_arq_window_usage(p) = Cardinality(Held(p))
         /\ IsFiniteSet(Held(p)) /\ Cardinality(Held(p)) \in Nat
<1> DEFINE a(n) == IF p.arqs[n].qpn # 0 THEN Span(p.arqs[n].window) ELSE 0
           N == 0 .. MAX_QP_CTX
           f == [n \in N |-> Cardinality(HeldUpTo(p.arqs, n))]
           g == UsedBuffers(p.arqs)
<1>1. MAX_QP_CTX \in Nat /\ Entries = 1 .. MAX_QP_CTX
  BY ProcessorAssumption DEF Entries
<1>2. Cardinality(HeldUpTo(p.arqs, 0)) = 0
  <2>1. HeldUpTo(p.arqs, 0) = {}
    BY DEF HeldUpTo
  <2>2. QED
    BY <2>1, FS_EmptySet
<1>3. ASSUME NEW n \in N, n # 0 PROVE n - 1 \in N /\ f[n] = f[n - 1] + a(n)
  <2>1. n \in Entries /\ n - 1 \in N
    BY <1>1, <1>3
  <2>2. p.arqs[n].window.send_next = a(n)
    BY <2>1, FilledSpan
  <2>3. QED
    BY <2>1, <2>2, HeldStep
<1>4. f[0] = 0
  BY <1>1, <1>2
<1>5. f = [n \in N |-> IF n = 0 THEN 0 ELSE f[n - 1] + a(n)]
  <2>1. \A n \in N : f[n] = IF n = 0 THEN 0 ELSE f[n - 1] + a(n)
    BY <1>3, <1>4, Zenon
  <2>2. f = [n \in N |-> f[n]]
    OBVIOUS
  <2> HIDE DEF f, a, N
  <2>3. QED
    BY <2>1, <2>2
<1>6. g = [n \in N |-> IF n = 0 THEN 0 ELSE g[n - 1] + a(n)]
  <2>1. \E h : h = [n \in N |-> IF n = 0 THEN 0 ELSE h[n - 1] + a(n)]
    <3> HIDE DEF f, a, N
    <3>1. QED
      BY <1>5
  <2>2. QED
    BY <2>1, Zenon DEF UsedBuffers
<1> HIDE DEF f, g, a
<1>7. \A n \in N : g[n] = f[n]
  <2> DEFINE bad == {n \in N : g[n] # f[n]}
  <2>1. SUFFICES ASSUME bad # {} PROVE FALSE
    OBVIOUS
  <2>2. bad \subseteq Nat
    BY <1>1
  <2>3. PICK n \in bad : \A m \in bad : n <= m
    BY <2>1, <2>2, LeastMember
  <2>4. n # 0
    BY <1>1, <1>4, <1>6
  <2>5. n - 1 \in N /\ n - 1 \notin bad
    BY <1>1, <2>2, <2>3, <2>4
  <2>6. g[n] = g[n - 1] + a(n) /\ f[n] = f[n - 1] + a(n)
    BY <1>3, <1>6, <2>4
  <2>7. QED
    BY <2>5, <2>6
<1>8. HeldUpTo(p.arqs, MAX_QP_CTX) = Held(p)
  BY <1>1 DEF HeldUpTo, Held
<1>9. calculate_arq_window_usage(p) = Cardinality(Held(p))
  <2>1. MAX_QP_CTX \in N
    BY <1>1
  <2>2. f[MAX_QP_CTX] = Cardinality(HeldUpTo(p.arqs, MAX_QP_CTX))
    BY <2>1 DEF f
  <2>3. QED
    BY <1>7, <1>8, <2>1, <2>2 DEF calculate_arq_window_usage, g
<1>10. QED
  BY <1>1, <1>8, <1>9, HeldFinite

LEMMA DivMonotone ==
  ASSUME NEW d \in Nat, d > 0, NEW x \in Nat, NEW y \in Nat, x <= y
  PROVE  x \div d <= y \div d
<1> DEFINE a == x \div d
           b == y \div d
<1>1. /\ a \in Int /\ x % d \in 0 .. d - 1 /\ x = d * a + (x % d)
      /\ b \in Int /\ y % d \in 0 .. d - 1 /\ y = d * b + (y % d)
  BY ModIs
<1> HIDE DEF a, b
<1>2. SUFFICES ASSUME b + 1 <= a PROVE FALSE
  BY <1>1 DEF a, b
<1>3. d * (b + 1) = d * b + d /\ d * b \in Int /\ d * a \in Int
  BY <1>1
<1>4. d * (b + 1) <= d * a
  BY <1>1, <1>2
<1>5. QED
  BY <1>1, <1>3, <1>4

\* A core whose windows hold more buffers is not seen as less full.
LEMMA UsageMonotone ==
  ASSUME NEW p \in PType, NEW r \in PType, Filled(p), Filled(r), Held(p) \subseteq Held(r)
  PROVE  /\ UsagePercent(p) \in Int /\ UsagePercent(r) \in Int
         /\ UsagePercent(p) <= UsagePercent(r)
<1> DEFINE x == calculate_arq_window_usage(p)
           y == calculate_arq_window_usage(r)
           d == MAX_QP_CTX * WINDOW_SIZE
<1>1. x \in Nat /\ y \in Nat /\ x <= y
  <2>1. /\ x = Cardinality(Held(p)) /\ y = Cardinality(Held(r))
        /\ x \in Nat /\ y \in Nat /\ IsFiniteSet(Held(r))
    BY UsageIs
  <2>2. QED
    BY <2>1, FS_Subset
<1>2. d \in Nat /\ d > 0
  BY ProcessorAssumption, ArqAssumption
<1>3. UsagePercent(p) = (x * 100) \div d /\ UsagePercent(r) = (y * 100) \div d
  BY DEF UsagePercent
<1> HIDE DEF x, y, d
<1>4. x * 100 \in Nat /\ y * 100 \in Nat /\ x * 100 <= y * 100
  BY <1>1
<1>5. (x * 100) \div d <= (y * 100) \div d
  BY <1>2, <1>4, DivMonotone
<1>6. (x * 100) \div d \in Int /\ (y * 100) \div d \in Int
  BY <1>2, <1>4, ModIs
<1>7. QED
  BY <1>3, <1>5, <1>6

\* Only Counted touches the packet counter and the congestion flag.
LEMMA KeepsCheck ==
  ASSUME NEW p \in PType, NEW q, NEW m, NEW psn, NEW S
  PROVE  /\ WithQp(p, q).congestion_detected = p.congestion_detected
         /\ CnpEmitted(p, S).congestion_detected = p.congestion_detected
         /\ CnpEmitted(p, S).packet_counter = p.packet_counter
         /\ Tracked(p, q, m, psn).congestion_detected = p.congestion_detected
  BY DEF WithQp, CnpEmitted, Tracked, WithArq, PType

\* What the periodic check decides.
LEMMA CountedDecides ==
  ASSUME NEW p \in PType
  PROVE  LET r == Counted(p) IN
         /\ r.packet_counter # 0 => r.congestion_detected = p.congestion_detected
         /\ r.packet_counter = 0 =>
              (r.congestion_detected <=>
                 \/ UsagePercent(r) >= BUFFER_HIGH_WATER
                 \/ p.congestion_detected /\ UsagePercent(r) > BUFFER_LOW_WATER)
<1> DEFINE k == (p.packet_counter + 1) % CONGESTION_CHECK_INTERVAL
           x == [p EXCEPT !.packet_counter = k]
           b == \/ UsagePercent(x) >= BUFFER_HIGH_WATER
                \/ p.congestion_detected /\ UsagePercent(x) > BUFFER_LOW_WATER
           r == Counted(p)
<1>1. b \in BOOLEAN
  OBVIOUS
<1>2. r.arqs = p.arqs
  BY CountedIs
<1>3. r = IF x.packet_counter = 0 THEN cc_check_buffer(x) ELSE x
  BY DEF Counted
<1>4. /\ x.packet_counter = k /\ x.congestion_detected = p.congestion_detected
      /\ x.arqs = p.arqs
  BY DEF PType
<1>5. UsagePercent(r) = UsagePercent(x)
  BY <1>2, <1>4, Zenon DEF UsagePercent, calculate_arq_window_usage
<1>6. cc_check_buffer(x) = [x EXCEPT !.congestion_detected = b]
  BY <1>4 DEF cc_check_buffer
<1> HIDE DEF b, k
<1>7. /\ [x EXCEPT !.congestion_detected = b].congestion_detected = b
      /\ [x EXCEPT !.congestion_detected = b].packet_counter = k
  BY DEF PType
<1> HIDE DEF x, r
<1>8. /\ r.packet_counter = k
      /\ k = 0 => r.congestion_detected = b
      /\ k # 0 => r.congestion_detected = p.congestion_detected
  BY <1>3, <1>4, <1>6, <1>7
<1>9. b <=> \/ UsagePercent(r) >= BUFFER_HIGH_WATER
            \/ p.congestion_detected /\ UsagePercent(r) > BUFFER_LOW_WATER
  BY <1>5 DEF b
<1>10. r.congestion_detected \in BOOLEAN
  BY CountedIs, PTypeIs DEF r
<1>11. QED
  BY <1>1, <1>8, <1>9, <1>10 DEF r

LEMMA LanDecides ==
  ASSUME NEW p \in PType, NEW q \in QPNs, NEW m \in Mbufs, NEW psn \in PSN,
         NEW early, NEW late, qp_get_or_create(p, q) # 0
  PROVE  LET r == LanResult(p, q, m, psn, early, late) IN
         /\ r.packet_counter # 0 => r.congestion_detected = p.congestion_detected
         /\ r.packet_counter = 0 =>
              (r.congestion_detected <=>
                 \/ UsagePercent(r) >= BUFFER_HIGH_WATER
                 \/ p.congestion_detected /\ UsagePercent(r) > BUFFER_LOW_WATER)
<1> DEFINE a  == CnpEmitted(WithQp(p, q), early)
           b  == Tracked(a, q, m, psn)
           p2 == Counted(b)
           r  == CnpEmitted(p2, late)
<1>1. WithQp(p, q) \in PType /\ WithQp(p, q).congestion_detected = p.congestion_detected
  BY WithQpIs, KeepsCheck
<1>2. a \in PType /\ a.congestion_detected = p.congestion_detected
  BY <1>1, CnpEmittedIs, KeepsCheck
<1> HIDE DEF a
<1>3. b \in PType /\ b.congestion_detected = p.congestion_detected
  BY <1>2, TrackedIs, KeepsCheck
<1> HIDE DEF b
<1>4. /\ p2 \in PType
      /\ p2.packet_counter # 0 => p2.congestion_detected = p.congestion_detected
      /\ p2.packet_counter = 0 =>
           (p2.congestion_detected <=>
              \/ UsagePercent(p2) >= BUFFER_HIGH_WATER
              \/ p.congestion_detected /\ UsagePercent(p2) > BUFFER_LOW_WATER)
  BY <1>3, CountedIs, CountedDecides
<1> HIDE DEF p2
<1>5. /\ r.arqs = p2.arqs /\ r.congestion_detected = p2.congestion_detected
      /\ r.packet_counter = p2.packet_counter
  BY <1>4, CnpEmittedIs, KeepsCheck
<1>6. UsagePercent(r) = UsagePercent(p2)
  BY <1>5, Zenon DEF UsagePercent, calculate_arq_window_usage
<1>7. r = LanResult(p, q, m, psn, early, late)
  BY DEF LanResult, p2, b, a
<1> HIDE DEF r
<1>8. QED
  BY <1>4, <1>5, <1>6, <1>7

LEMMA HeldGrows ==
  ASSUME NEW p, NEW r,
         \A i \in Entries : \A j \in Slots :
           p.arqs[i].window.send_window[j].in_flight => r.arqs[i].window.send_window[j].in_flight
  PROVE  Held(p) \subseteq Held(r)
  BY DEF Held

\* A packet releases nothing.
LEMMA SentKeeps ==
  ASSUME NEW w \in arq_context_t, NEW m, NEW psn, NEW j \in Slots, w.send_window[j].in_flight
  PROVE  Sent(w, m, psn).send_window[j].in_flight
<1>1. w.send_window \in [Slots -> arq_send_entry_t]
  BY DEF arq_context_t
<1>2. QED
  BY <1>1 DEF Sent, arq_send_pkt

LEMMA LanHeld ==
  ASSUME NEW p \in PType, NEW q \in QPNs, NEW m \in Mbufs, NEW psn \in PSN,
         NEW early, NEW late, q # 0, Aligned(p), Filled(p), qp_get_or_create(p, q) # 0
  PROVE  Held(p) \subseteq Held(LanResult(p, q, m, psn, early, late))
<1> DEFINE e == qp_get_or_create(p, q)
           r == LanResult(p, q, m, psn, early, late)
           w == IF p.arqs[e].qpn = q THEN p.arqs[e].window ELSE EmptyContext
<1>1. /\ e \in Entries
      /\ \A i \in Entries : i # e => r.arqs[i] = p.arqs[i]
      /\ r.arqs[e].window = Sent(w, m, psn)
  BY LanResultIs
<1>2. p.qps[e].active => p.qps[e].qpn = q
  <2>1. /\ WithQp(p, q).qps[e].qpn = q
        /\ p.qps[e].active => WithQp(p, q) = p
    BY WithQpIs
  <2>2. QED
    BY <2>1
<1> HIDE DEF e, r
<1>3. ASSUME NEW i \in Entries, NEW j \in Slots, p.arqs[i].window.send_window[j].in_flight
      PROVE  r.arqs[i].window.send_window[j].in_flight
  <2>1. CASE i # e
    BY <1>1, <1>3, <2>1
  <2>2. CASE i = e
    <3>1. j < p.arqs[e].window.send_next /\ p.arqs[e].window.send_next \in Nat
      BY <1>3, <2>2, FilledSpan
    <3>2. p.arqs[e].window.send_next # 0
      BY <3>1, ArqAssumption DEF Slots
    <3>3. p.arqs[e].qpn # 0
      BY <1>1, <3>2 DEF Filled
    <3>4. p.arqs[e].qpn = q
      BY <1>1, <1>2, <3>3 DEF Aligned
    <3>5. w = p.arqs[e].window /\ w \in arq_context_t
      BY <1>1, <3>4, PTypeIs DEF ArqEntry
    <3> HIDE DEF w
    <3>6. Sent(w, m, psn).send_window[j].in_flight
      BY <1>3, <2>2, <3>5, SentKeeps
    <3>7. QED
      BY <1>1, <2>2, <3>6
  <2>3. QED
    BY <2>1, <2>2
<1>4. Held(p) \subseteq Held(r)
  BY <1>3, HeldGrows
<1>5. QED
  BY <1>4 DEF r

\* The congestion flag of a context is never raised below the high watermark,
\* and raised by a check that finds the watermark reached.
Judged(p) ==
  /\ p.congestion_detected => UsagePercent(p) >= BUFFER_HIGH_WATER
  /\ p.packet_counter = 0 /\ UsagePercent(p) >= BUFFER_HIGH_WATER => p.congestion_detected

LanJudged == 0 \notin QPNs => \A c \in LanCores : Judged(proc[c])

CInv == IInv /\ LanJudged

LEMMA InitJudged == Init => LanJudged
<1> SUFFICES ASSUME Init, 0 \notin QPNs, NEW c \in LanCores PROVE Judged(proc[c])
  BY DEF LanJudged
<1> DEFINE p == proc[c]
           d == MAX_QP_CTX * WINDOW_SIZE
<1>1. IInv /\ c \in Cores
  BY InitInvariant DEF Cores
<1>2. p \in PType /\ Filled(p)
  BY <1>1, TypeOKIs DEF IInv, LanWindowsFill
<1>3. p = proc_init
  BY <1>1 DEF Init
<1>4. p.congestion_detected = FALSE
  BY <1>3 DEF proc_init
<1>5. Held(p) = {}
  BY <1>3 DEF Held, proc_init, FreeArq, EmptyContext
<1> HIDE DEF p
<1>6. calculate_arq_window_usage(p) = 0
  BY <1>2, <1>5, UsageIs, FS_EmptySet
<1>7. d \in Nat /\ d > 0
  BY ProcessorAssumption, ArqAssumption
<1>8. UsagePercent(p) = (0 * 100) \div d
  BY <1>6 DEF UsagePercent
<1> HIDE DEF d
<1>9. UsagePercent(p) = 0
  BY <1>7, <1>8
<1>10. Judged(p)
  BY <1>4, <1>9, ProcessorAssumption DEF Judged
<1>11. QED
  BY <1>10 DEF p

\* The windows of a context hold no less after a step, and the flag changes
\* as the check says, or not at all.
LEMMA StaysJudged ==
  ASSUME NEW p \in PType, NEW r \in PType, Filled(p), Filled(r), Held(p) \subseteq Held(r),
         Judged(p),
         r.packet_counter # 0 => r.congestion_detected = p.congestion_detected,
         r.packet_counter = 0 =>
           (r.congestion_detected <=>
              \/ UsagePercent(r) >= BUFFER_HIGH_WATER
              \/ p.congestion_detected /\ UsagePercent(r) > BUFFER_LOW_WATER)
  PROVE  Judged(r)
<1>1. /\ UsagePercent(p) \in Int /\ UsagePercent(r) \in Int
      /\ UsagePercent(p) <= UsagePercent(r)
  BY UsageMonotone
<1>2. p.congestion_detected => UsagePercent(r) >= BUFFER_HIGH_WATER
  BY <1>1, ProcessorAssumption DEF Judged
<1>3. QED
  BY <1>2, Zenon DEF Judged

LEMMA LanStepJudged ==
  ASSUME 0 \notin QPNs, CInv, IInv', NEW q \in QPNs, NEW psn \in PSN, NEW early, NEW late,
         LanStep(q, psn, early, late), NEW d \in LanCores
  PROVE  Judged(proc'[d])
<1> DEFINE c == LanCoreOf[q]
           m == received + 1
           p == proc[c]
           r == LanResult(p, q, m, psn, early, late)
<1>0. IInv /\ Judged(proc[d]) /\ d \in Cores /\ Filled(proc[d]) /\ Filled(proc'[d])
      /\ proc'[d] \in PType
  <2>1. proc' \in [Cores -> PType]
    BY DEF IInv, TypeOK, PType, QpType, ArqEntry
  <2>2. Filled(proc'[d])
    BY DEF IInv, LanWindowsFill, Filled, Filling
  <2>3. QED
    BY <2>1, <2>2 DEF CInv, LanJudged, IInv, LanWindowsFill, Cores
<1>1. /\ c \in LanCores /\ p \in PType /\ q # 0 /\ Aligned(p) /\ m \in Mbufs
      /\ qp_get_or_create(p, q) # 0
      /\ proc'[c] = r
      /\ \A x \in Cores : x # c => proc'[x] = proc[x]
  BY <1>0, LanStepIs
<1>2. CASE d # c
  BY <1>0, <1>1, <1>2
<1>3. CASE d = c
  <2>1. Filled(p) /\ Filled(r) /\ Judged(p) /\ r \in PType
    BY <1>0, <1>1, <1>3
  <2> HIDE DEF p, m
  <2>2. Held(p) \subseteq Held(r)
    BY <1>1, <2>1, LanHeld
  <2>3. /\ r.packet_counter # 0 => r.congestion_detected = p.congestion_detected
        /\ r.packet_counter = 0 =>
             (r.congestion_detected <=>
                \/ UsagePercent(r) >= BUFFER_HIGH_WATER
                \/ p.congestion_detected /\ UsagePercent(r) > BUFFER_LOW_WATER)
    BY <1>1, LanDecides
  <2> HIDE DEF r
  <2>4. Judged(r)
    BY <1>1, <2>1, <2>2, <2>3, StaysJudged
  <2>5. QED
    BY <1>1, <1>3, <2>4
<1>4. QED
  BY <1>2, <1>3

LEMMA TickJudged ==
  ASSUME 0 \notin QPNs, CInv, IInv', Tick, NEW d \in LanCores
  PROVE  Judged(proc'[d])
<1> DEFINE p == proc[d]
           r == proc'[d]
<1>0. IInv /\ d \in Cores
  BY DEF CInv, Cores
<1>1. p \in PType /\ Filled(p) /\ Judged(p)
  BY <1>0, TypeOKIs DEF CInv, LanJudged, IInv, LanWindowsFill
<1>2. Filled(r)
  BY DEF IInv, LanWindowsFill, Filled, Filling
<1>3. /\ r \in PType
      /\ \A i \in Entries : r.arqs[i].window = Older(p.arqs[i].window)
  BY <1>0, TickIs
<1>4. r.packet_counter = p.packet_counter /\ r.congestion_detected = p.congestion_detected
  <2>1. \E a, b : r = [p EXCEPT !.qps = a, !.arqs = b]
    BY <1>0, Zenon DEF Tick
  <2>2. QED
    BY <1>1, <2>1 DEF PType
<1>5. ASSUME NEW i \in Entries, NEW j \in Slots
      PROVE  r.arqs[i].window.send_window[j].in_flight = p.arqs[i].window.send_window[j].in_flight
  <2>1. p.arqs[i].window \in arq_context_t
    BY <1>1, PTypeIs DEF ArqEntry
  <2>2. QED
    BY <1>3, <2>1, OlderKeepsFlags
<1> HIDE DEF p, r
<1>6. Held(r) = Held(p)
  <2>1. Held(p) \subseteq Held(r)
    BY <1>5, HeldGrows
  <2>2. Held(r) \subseteq Held(p)
    BY <1>5, HeldGrows
  <2>3. QED
    BY <2>1, <2>2
<1>7. UsagePercent(r) = UsagePercent(p)
  BY <1>1, <1>2, <1>3, <1>6, UsageIs DEF UsagePercent
<1>8. Judged(r)
  BY <1>1, <1>4, <1>7 DEF Judged
<1>9. QED
  BY <1>8 DEF r

LEMMA StepJudged == CInv /\ [Next]_vars => CInv'
<1> SUFFICES ASSUME CInv, [Next]_vars PROVE CInv'
  OBVIOUS
<1>0. IInv /\ IInv' /\ LanJudged
  BY StepInvariant DEF CInv
<1>1. ASSUME 0 \notin QPNs, NEW d \in LanCores PROVE Judged(proc'[d])
  <2>0. Judged(proc[d]) /\ d \in Cores /\ d \notin WanCores
    BY <1>0, <1>1, ProcessorAssumption DEF LanJudged, Cores
  <2>1. ASSUME NEW q \in QPNs, NEW psn \in SentBefore(q) \cup {psn_next[q]}, NEW ce \in BOOLEAN,
               LanWrite(q, psn, ce)
        PROVE  Judged(proc'[d])
    <3>1. psn \in PSN
      BY <1>0, SentBeforeIs
    <3>2. PICK early, late : LanStep(q, psn, early, late)
      BY <2>1, <3>1, LanWriteIs
    <3>3. QED
      BY <1>0, <1>1, <3>1, <3>2, LanStepJudged
  <2>2. CASE Tick
    BY <1>0, <1>1, <2>2, TickJudged
  <2>3. ASSUME proc'[d] = proc[d] PROVE Judged(proc'[d])
    BY <2>0, <2>3
  <2>4. ASSUME NEW q \in QPNs, LanDrop(q) PROVE Judged(proc'[d])
    BY <2>3, <2>4 DEF LanDrop
  <2>5. proc \in [Cores -> PType]
    BY <1>0, TypeOKIs DEF IInv
  <2>6. ASSUME NEW c \in WanCores, NEW x, proc' = [proc EXCEPT ![c] = x] PROVE Judged(proc'[d])
    BY <2>0, <2>3, <2>5, <2>6
  <2>7. ASSUME NEW c \in WanCores, NEW type, NEW q, NEW psn, Control(c, type, q, psn)
        PROVE  Judged(proc'[d])
    <3>1. \E x : proc' = [proc EXCEPT ![c] = x]
      BY <2>7, Zenon DEF Control
    <3>2. QED
      BY <2>6, <3>1
  <2>8. ASSUME NEW c \in WanCores, Timer(c) PROVE Judged(proc'[d])
    <3>1. \E x : proc' = [proc EXCEPT ![c] = x]
      BY <2>8, Zenon DEF Timer
    <3>2. QED
      BY <2>6, <3>1
  <2>9. CASE UNCHANGED vars
    BY <2>3, <2>9 DEF vars
  <2>10. QED
    BY <2>1, <2>2, <2>4, <2>7, <2>8, <2>9 DEF Next
<1>2. LanJudged'
  BY <1>1 DEF LanJudged, Judged, UsagePercent, calculate_arq_window_usage
<1>3. QED
  BY <1>0, <1>2 DEF CInv

LEMMA JudgedInvariance == Spec => []CInv
<1>1. Init => CInv
  BY InitInvariant, InitJudged DEF CInv
<1>2. QED
  BY <1>1, StepJudged, PTL DEF Spec

\* What calculate_arq_window_usage adds up from send_next - send_base of the
\* contexts in use is the number of buffers the windows of a LAN core hold, for
\* every size of the table and of the windows.
THEOREM UsageCounted ==
  ASSUME 0 \notin QPNs
  PROVE  Spec => []UsageExact
<1>1. ASSUME IInv, NEW c \in LanCores
      PROVE  calculate_arq_window_usage(proc[c]) = Cardinality(Held(proc[c]))
  <2>1. proc[c] \in PType /\ Filled(proc[c])
    BY <1>1, TypeOKIs DEF IInv, LanWindowsFill, Cores
  <2>2. QED
    BY <2>1, UsageIs
<1>2. IInv => UsageExact
  BY <1>1 DEF UsageExact
<1>3. QED
  BY <1>2, Invariance, PTL

\* After each periodic check a LAN core is in the congested state exactly when
\* its windows have reached the high watermark; the low watermark never ends a
\* congestion, because nothing leaves these windows.
THEOREM CongestionJudged ==
  ASSUME 0 \notin QPNs
  PROVE  Spec => []CongestionSeen
<1>1. ASSUME CInv, NEW c \in LanCores, proc[c].packet_counter = 0
      PROVE  proc[c].congestion_detected <=> UsagePercent(proc[c]) >= BUFFER_HIGH_WATER
  BY <1>1 DEF CInv, LanJudged, Judged
<1>2. CInv => CongestionSeen
  BY <1>1 DEF CongestionSeen
<1>3. QED
  BY <1>2, JudgedInvariance, PTL

============================================================================
