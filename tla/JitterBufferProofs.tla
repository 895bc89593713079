------------------------- MODULE JitterBufferProofs -------------------------
(***************************************************************************)
(* What the functions of jitter_buffer.c do to one write context, for      *)
(* every number of segments, PSN space, set of QPNs and set of mbufs.      *)
(***************************************************************************)
EXTENDS JitterBuffer, PsnProofs

----------------------------------------------------------------------------
(* What is true of every context the functions leave behind. *)

\* A slot holds an mbuf exactly while a segment is received in it, and it is
\* the slot of that segment's PSN.
SlotsSound(c) ==
  \A j \in SegSlots :
    /\ c.segments[j].state = "RECEIVED" <=> c.segments[j].mbuf # 0
    /\ c.segments[j].state = "RECEIVED" => Idx(c, c.segments[j].psn) = j

\* Everything from first_psn up to expected_psn is stored in its slot.
PrefixStored(c) ==
  LET d == psn_forward_dist(c.first_psn, c.expected_psn)
  IN  /\ d <= JB_MAX_SEGMENTS
      /\ \A k \in 0 .. d - 1 : /\ c.segments[k].state = "RECEIVED"
                               /\ c.segments[k].psn = (c.first_psn + k) % MAX_PSN

CountExact(c) == c.segment_count = Cardinality(ReceivedSlots(c))

EndSeen(c) ==
  c.write_complete <=> \E j \in ReceivedSlots(c) : EndsWrite(c.segments[j].segment_type)

Sound(c) == SlotsSound(c) /\ PrefixStored(c) /\ CountExact(c) /\ EndSeen(c)

----------------------------------------------------------------------------

LEMMA JbBasics == /\ JB_MAX_SEGMENTS \in Nat /\ JB_MAX_SEGMENTS > 0
                  /\ JB_MAX_SEGMENTS < MAX_PSN
                  /\ SegSlots \subseteq Nat /\ 0 \in SegSlots
  BY JitterBufferAssumption, PsnAssumption DEF SegSlots

LEMMA ReceivedFinite ==
  ASSUME NEW c
  PROVE  IsFiniteSet(ReceivedSlots(c)) /\ Cardinality(ReceivedSlots(c)) \in Nat
<1>1. IsFiniteSet(0 .. JB_MAX_SEGMENTS - 1)
  BY JbBasics, FS_Interval
<1>2. ReceivedSlots(c) \subseteq 0 .. JB_MAX_SEGMENTS - 1
  BY DEF ReceivedSlots, SegSlots
<1>3. IsFiniteSet(ReceivedSlots(c))
  BY <1>1, <1>2, FS_Subset
<1>4. QED
  BY <1>3, FS_CardinalityType

LEMMA IdxInSlots ==
  ASSUME NEW c, c.first_psn \in PSN, NEW psn \in PSN
  PROVE  Idx(c, psn) \in SegSlots
<1>1. psn_forward_dist(c.first_psn, psn) \in 0 .. MAX_PSN - 1
  BY DistIs
<1>2. QED
  BY <1>1, JbBasics, PsnIsInt DEF Idx, SegSlots

\* A fresh or removed context.
LEMMA BlankIs ==
  ASSUME NEW c, NEW psn \in PSN, c.expected_psn = psn, c.first_psn = psn,
         c.segment_count = 0, c.write_complete = FALSE,
         c.segments = [i \in SegSlots |-> FreeSegment]
  PROVE  /\ Sound(c)
         /\ ~Complete(c)
         /\ \A j \in SegSlots : c.segments[j].mbuf = 0 /\ c.segments[j].state = "FREE"
<1>1. \A j \in SegSlots : c.segments[j].mbuf = 0 /\ c.segments[j].state = "FREE"
  BY DEF FreeSegment
<1>2. ReceivedSlots(c) = {}
  BY <1>1 DEF ReceivedSlots
<1>3. SlotsSound(c)
  BY <1>1 DEF SlotsSound
<1>4. PrefixStored(c)
  <2>1. psn_forward_dist(c.first_psn, c.expected_psn) = 0
    BY DistIs
  <2>2. QED
    BY <2>1, JbBasics DEF PrefixStored
<1>5. CountExact(c)
  BY <1>2, FS_EmptySet DEF CountExact
<1>6. EndSeen(c)
  BY <1>2 DEF EndSeen
<1>7. QED
  BY <1>1, <1>3, <1>4, <1>5, <1>6 DEF Sound, Complete

LEMMA EmptyIs ==
  ASSUME NEW Q, NEW M
  PROVE  /\ EmptyWrite \in jb_write_context_t(Q, M)
         /\ Sound(EmptyWrite)
         /\ ~Complete(EmptyWrite)
         /\ EmptyWrite.qpn = 0 /\ EmptyWrite.segment_count = 0
         /\ EmptyWrite.first_psn = 0
         /\ \A j \in SegSlots : /\ EmptyWrite.segments[j].mbuf = 0
                                /\ EmptyWrite.segments[j].state = "FREE"
<1>1. /\ EmptyWrite.qpn = 0 /\ EmptyWrite.expected_psn = 0 /\ EmptyWrite.first_psn = 0
      /\ EmptyWrite.segment_count = 0 /\ EmptyWrite.write_complete = FALSE
      /\ EmptyWrite.segments = [i \in SegSlots |-> FreeSegment]
  BY DEF EmptyWrite
<1>2. 0 \in PSN
  BY PsnAssumption DEF PSN
<1>3. FreeSegment \in jb_segment_t(M)
  BY <1>2 DEF FreeSegment, jb_segment_t
<1>4. EmptyWrite \in jb_write_context_t(Q, M)
  BY <1>2, <1>3 DEF EmptyWrite, jb_write_context_t
<1>5. QED
  BY <1>1, <1>2, <1>4, BlankIs

LEMMA NewWriteIs ==
  ASSUME NEW Q, NEW M, NEW q \in Q, NEW psn \in PSN
  PROVE  /\ NewWrite(q, psn) \in jb_write_context_t(Q, M)
         /\ Sound(NewWrite(q, psn))
         /\ ~Complete(NewWrite(q, psn))
         /\ ~Received(NewWrite(q, psn), psn)
         /\ NewWrite(q, psn).qpn = q /\ NewWrite(q, psn).segment_count = 0
         /\ NewWrite(q, psn).first_psn = psn
         /\ \A j \in SegSlots : NewWrite(q, psn).segments[j].mbuf = 0
<1> DEFINE c == NewWrite(q, psn)
<1>1. EmptyWrite \in jb_write_context_t(Q, M)
  BY EmptyIs
<1>2. c \in jb_write_context_t(Q, M)
  BY <1>1, Zenon DEF NewWrite, jb_write_context_t
<1>3. /\ c.qpn = q /\ c.expected_psn = psn /\ c.first_psn = psn
      /\ c.segment_count = 0 /\ c.write_complete = FALSE
      /\ c.segments = [i \in SegSlots |-> FreeSegment]
  BY DEF NewWrite, EmptyWrite
<1> HIDE DEF c
<1>4. /\ Sound(c) /\ ~Complete(c)
      /\ \A j \in SegSlots : c.segments[j].mbuf = 0 /\ c.segments[j].state = "FREE"
  BY <1>3, BlankIs
<1>5. Idx(c, psn) \in SegSlots
  BY <1>3, IdxInSlots
<1>6. QED
  BY <1>2, <1>3, <1>4, <1>5 DEF Received, c

----------------------------------------------------------------------------
(* jb_add_seg *)

\* The segment is stored in its slot; of the other slots only FREE ones change,
\* to WAITING.
LEMMA AddIs ==
  ASSUME NEW Q, NEW M, NEW c \in jb_write_context_t(Q, M),
         NEW psn \in PSN, NEW seg \in SegTypes, NEW m \in M
  PROVE  LET a == jb_add_seg(c, psn, seg, m)
             s == Idx(c, psn)
         IN  /\ a \in jb_write_context_t(Q, M)
             /\ s \in SegSlots
             /\ a.qpn = c.qpn /\ a.first_psn = c.first_psn
             /\ a.segment_count = c.segment_count + 1
             /\ a.expected_psn = IF psn = c.expected_psn THEN (psn + 1) % MAX_PSN
                                                         ELSE c.expected_psn
             /\ a.write_complete = (c.write_complete \/ EndsWrite(seg))
             /\ a.segments[s] = [state |-> "RECEIVED", psn |-> psn,
                                 segment_type |-> seg, mbuf |-> m]
             /\ \A j \in SegSlots : j # s =>
                  /\ a.segments[j].psn = c.segments[j].psn
                  /\ a.segments[j].segment_type = c.segments[j].segment_type
                  /\ a.segments[j].mbuf = c.segments[j].mbuf
                  /\ (a.segments[j].state = "RECEIVED" <=> c.segments[j].state = "RECEIVED")
<1> DEFINE a == jb_add_seg(c, psn, seg, m)
           s == Idx(c, psn)
           e == [state |-> "RECEIVED", psn |-> psn, segment_type |-> seg, mbuf |-> m]
           N == NewlyMissing(c, psn)
           stored == [c.segments EXCEPT ![s] = e]
<1>1. /\ c.first_psn \in PSN /\ c.expected_psn \in PSN /\ c.segment_count \in Nat
      /\ c.write_complete \in BOOLEAN /\ c.qpn \in Q \cup {0}
      /\ c.segments \in [SegSlots -> jb_segment_t(M)]
  BY DEF jb_write_context_t
<1>2. s \in SegSlots
  BY <1>1, IdxInSlots
<1>3. e \in jb_segment_t(M)
  BY DEF jb_segment_t
<1> HIDE DEF s, e, N
<1>4. a = [c EXCEPT
        !.segments = [i \in SegSlots |->
            IF i \in N /\ stored[i].state = "FREE"
              THEN [stored[i] EXCEPT !.state = "WAITING"] ELSE stored[i]],
        !.segment_count = @ + 1,
        !.expected_psn = IF psn = @ THEN (@ + 1) % MAX_PSN ELSE @,
        !.write_complete = @ \/ EndsWrite(seg)]
  BY DEF jb_add_seg, Stored, s, e, N
<1>5. stored \in [SegSlots -> jb_segment_t(M)] /\ stored[s] = e
      /\ \A j \in SegSlots : j # s => stored[j] = c.segments[j]
  BY <1>1, <1>2, <1>3
<1> HIDE DEF a, stored
<1>6. /\ a.qpn = c.qpn /\ a.first_psn = c.first_psn
      /\ a.segment_count = c.segment_count + 1
      /\ a.expected_psn = IF psn = c.expected_psn THEN (psn + 1) % MAX_PSN
                                                  ELSE c.expected_psn
      /\ a.segments = [i \in SegSlots |->
            IF i \in N /\ stored[i].state = "FREE"
              THEN [stored[i] EXCEPT !.state = "WAITING"] ELSE stored[i]]
      /\ DOMAIN a = DOMAIN c
  BY <1>4 DEF jb_write_context_t
<1>7. a.write_complete = (c.write_complete \/ EndsWrite(seg))
  BY <1>4 DEF jb_write_context_t
<1>8. a.segments \in [SegSlots -> jb_segment_t(M)]
  <2>1. ASSUME NEW i \in SegSlots
        PROVE  [stored[i] EXCEPT !.state = "WAITING"] \in jb_segment_t(M)
    BY <1>5 DEF jb_segment_t
  <2>2. QED
    BY <1>5, <1>6, <2>1
<1>9. a \in jb_write_context_t(Q, M)
  <2>1. (psn + 1) % MAX_PSN \in PSN
    BY PsnIsInt
  <2>2. EndsWrite(seg) \in BOOLEAN
    BY DEF EndsWrite
  <2>3. a.write_complete \in BOOLEAN
    BY <1>1, <1>7, <2>2, Zenon
  <2>4. a.segment_count \in Nat /\ a.expected_psn \in PSN
    BY <1>1, <1>6, <2>1
  <2>5. a = [c EXCEPT !.segments = a.segments, !.segment_count = a.segment_count,
                      !.expected_psn = a.expected_psn, !.write_complete = a.write_complete]
    BY <1>4, Zenon DEF jb_write_context_t
  <2>6. QED
    BY <1>8, <2>3, <2>4, <2>5, Zenon DEF jb_write_context_t
<1>10. a.segments[s] = e
  BY <1>2, <1>5, <1>6 DEF e
<1>11. ASSUME NEW j \in SegSlots, j # s
       PROVE  /\ a.segments[j].psn = c.segments[j].psn
              /\ a.segments[j].segment_type = c.segments[j].segment_type
              /\ a.segments[j].mbuf = c.segments[j].mbuf
              /\ (a.segments[j].state = "RECEIVED" <=> c.segments[j].state = "RECEIVED")
  <2>1. a.segments[j] = IF j \in N /\ c.segments[j].state = "FREE"
              THEN [c.segments[j] EXCEPT !.state = "WAITING"] ELSE c.segments[j]
    BY <1>5, <1>6, <1>11
  <2>2. c.segments[j] \in jb_segment_t(M)
    BY <1>1
  <2>3. QED
    BY <2>1, <2>2 DEF jb_segment_t
<1>12. QED
  BY <1>2, <1>6, <1>7, <1>9, <1>10, <1>11 DEF a, s, e

LEMMA AddReceived ==
  ASSUME NEW Q, NEW M, NEW c \in jb_write_context_t(Q, M),
         NEW psn \in PSN, NEW seg \in SegTypes, NEW m \in M
  PROVE  ReceivedSlots(jb_add_seg(c, psn, seg, m)) = ReceivedSlots(c) \cup {Idx(c, psn)}
<1> DEFINE a == jb_add_seg(c, psn, seg, m)
           s == Idx(c, psn)
<1>0. /\ s \in SegSlots
      /\ a.segments[s] = [state |-> "RECEIVED", psn |-> psn, segment_type |-> seg, mbuf |-> m]
      /\ \A j \in SegSlots : j # s =>
           (a.segments[j].state = "RECEIVED" <=> c.segments[j].state = "RECEIVED")
  BY AddIs
<1> HIDE DEF a, s
<1>1. a.segments[s].state = "RECEIVED"
  BY <1>0
<1>2. ReceivedSlots(a) = ReceivedSlots(c) \cup {s}
  BY <1>0, <1>1 DEF ReceivedSlots
<1>3. QED
  BY <1>2 DEF a, s

\* A context stays sound, whichever segment of the write is added, as long as
\* its slot is not taken.
LEMMA AddSound ==
  ASSUME NEW Q, NEW M, NEW c \in jb_write_context_t(Q, M), Sound(c),
         NEW psn \in PSN, NEW seg \in SegTypes, NEW m \in M, m # 0,
         ~Received(c, psn)
  PROVE  Sound(jb_add_seg(c, psn, seg, m))
<1> DEFINE a == jb_add_seg(c, psn, seg, m)
           s == Idx(c, psn)
           R == ReceivedSlots(c)
<1>1. /\ s \in SegSlots
      /\ a.first_psn = c.first_psn
      /\ a.segment_count = c.segment_count + 1
      /\ a.expected_psn = IF psn = c.expected_psn THEN (psn + 1) % MAX_PSN
                                                  ELSE c.expected_psn
      /\ a.write_complete = (c.write_complete \/ EndsWrite(seg))
      /\ a.segments[s] = [state |-> "RECEIVED", psn |-> psn, segment_type |-> seg, mbuf |-> m]
      /\ \A j \in SegSlots : j # s =>
            /\ a.segments[j].psn = c.segments[j].psn
            /\ a.segments[j].segment_type = c.segments[j].segment_type
            /\ a.segments[j].mbuf = c.segments[j].mbuf
            /\ (a.segments[j].state = "RECEIVED" <=> c.segments[j].state = "RECEIVED")
  BY AddIs
<1>2. ReceivedSlots(a) = R \cup {s}
  BY AddReceived
<1>3. s \notin R /\ c.segments[s].state # "RECEIVED"
  BY DEF Received, ReceivedSlots
<1>4. /\ c.first_psn \in PSN /\ c.expected_psn \in PSN /\ c.segment_count \in Nat
      /\ c.write_complete \in BOOLEAN
  BY DEF jb_write_context_t
<1>5. \A p : Idx(a, p) = Idx(c, p)
  BY <1>1 DEF Idx
<1> HIDE DEF a
<1>6. SlotsSound(a)
  <2>1. ASSUME NEW j \in SegSlots
        PROVE  /\ a.segments[j].state = "RECEIVED" <=> a.segments[j].mbuf # 0
               /\ a.segments[j].state = "RECEIVED" => Idx(a, a.segments[j].psn) = j
    <3>1. CASE j = s
      BY <1>1, <1>5, <3>1
    <3>2. CASE j # s
      BY <1>1, <1>5, <3>2 DEF Sound, SlotsSound
    <3>3. QED
      BY <3>1, <3>2
  <2>2. QED
    BY <2>1 DEF SlotsSound
<1>7. PrefixStored(a)
  <2> DEFINE d == psn_forward_dist(c.first_psn, c.expected_psn)
  <2>1. /\ d \in 0 .. MAX_PSN - 1 /\ d <= JB_MAX_SEGMENTS
        /\ (c.first_psn + d) % MAX_PSN = c.expected_psn
        /\ \A k \in 0 .. d - 1 : /\ c.segments[k].state = "RECEIVED"
                                 /\ c.segments[k].psn = (c.first_psn + k) % MAX_PSN
    BY <1>4, DistIs DEF Sound, PrefixStored
  <2>2. /\ d \in Nat /\ JB_MAX_SEGMENTS \in Nat /\ JB_MAX_SEGMENTS > 0
        /\ JB_MAX_SEGMENTS < MAX_PSN /\ MAX_PSN \in Nat
    BY <2>1, JbBasics, PsnIsInt
  <2>3. \A k \in 0 .. d - 1 : /\ k \in SegSlots
                              /\ a.segments[k].state = "RECEIVED"
                              /\ a.segments[k].psn = (c.first_psn + k) % MAX_PSN
    <3>1. \A k \in 0 .. d - 1 : k \in SegSlots /\ k # s
      BY <1>3, <2>1, <2>2 DEF SegSlots
    <3>2. QED
      BY <1>1, <2>1, <3>1
  <2>4. CASE psn # c.expected_psn
    BY <1>1, <2>1, <2>3, <2>4 DEF PrefixStored
  <2>5. CASE psn = c.expected_psn
    <3>1. s = d % JB_MAX_SEGMENTS
      BY <2>5 DEF Idx
    <3>2. d # JB_MAX_SEGMENTS
      <4>1. JB_MAX_SEGMENTS % JB_MAX_SEGMENTS = 0
        BY <2>2
      <4>2. SUFFICES ASSUME d = JB_MAX_SEGMENTS PROVE FALSE
        OBVIOUS
      <4>3. s = 0 /\ 0 \in 0 .. d - 1
        BY <2>2, <3>1, <4>1, <4>2
      <4>4. QED
        BY <1>3, <2>1, <4>3
    <3>3. d < JB_MAX_SEGMENTS /\ s = d
      BY <2>1, <2>2, <3>1, <3>2
    <3>4. psn_forward_dist(c.first_psn, (psn + 1) % MAX_PSN) = d + 1
      <4> HIDE DEF d
      <4>1. c.first_psn \in Int /\ psn \in Int
        <5>1. c.first_psn \in Nat /\ psn \in Nat
          BY <1>4, PsnIsInt, Zenon
        <5>2. QED
          BY <5>1
      <4>2. psn = (c.first_psn + d) % MAX_PSN
        BY <2>1, <2>5
      <4>3. c.first_psn + d \in Int /\ MAX_PSN > 0
        BY <2>2, <4>1
      <4>4. (((c.first_psn + d) % MAX_PSN) + 1) % MAX_PSN = ((c.first_psn + d) + 1) % MAX_PSN
        <5>1. 1 \in Int
          OBVIOUS
        <5>2. QED
          BY <2>2, <4>3, <5>1, ModPlus, Zenon
      <4>5. (c.first_psn + d) + 1 = c.first_psn + (d + 1)
        BY <2>2, <4>1
      <4>6. d + 1 \in 0 .. MAX_PSN - 1
        BY <2>2, <3>3
      <4>7. psn_forward_dist(c.first_psn, (c.first_psn + (d + 1)) % MAX_PSN) = d + 1
        BY <1>4, <4>6, DistOf
      <4>8. QED
        BY <4>2, <4>4, <4>5, <4>7
    <3>5. a.segments[d].state = "RECEIVED" /\ a.segments[d].psn = (c.first_psn + d) % MAX_PSN
      BY <1>1, <2>1, <2>5, <3>3
    <3> HIDE DEF d
    <3>6. ASSUME NEW k \in 0 .. (d + 1) - 1
          PROVE  /\ a.segments[k].state = "RECEIVED"
                 /\ a.segments[k].psn = (c.first_psn + k) % MAX_PSN
      <4>1. k = d \/ k \in 0 .. d - 1
        BY <2>2
      <4>2. QED
        BY <2>3, <3>5, <4>1
    <3>7. d + 1 <= JB_MAX_SEGMENTS
      BY <2>2, <3>3
    <3>8. psn_forward_dist(a.first_psn, a.expected_psn) = d + 1
      BY <1>1, <2>5, <3>4
    <3>9. QED
      BY <1>1, <3>6, <3>7, <3>8 DEF PrefixStored
  <2>6. QED
    BY <2>4, <2>5
<1>8. CountExact(a)
  <2>1. Cardinality(R \cup {s}) = Cardinality(R) + 1
    BY <1>3, ReceivedFinite, FS_AddElement
  <2>2. c.segment_count = Cardinality(R)
    BY DEF Sound, CountExact
  <2>3. QED
    BY <1>1, <1>2, <2>1, <2>2 DEF CountExact
<1>9. EndSeen(a)
  <2>1. \A j \in R : j \in SegSlots /\ j # s
    BY <1>3 DEF ReceivedSlots
  <2>2. \A j \in R : a.segments[j].segment_type = c.segments[j].segment_type
    BY <1>1, <2>1
  <2>3. a.segments[s].segment_type = seg
    BY <1>1
  <2>4. c.write_complete <=> \E j \in R : EndsWrite(c.segments[j].segment_type)
    BY DEF Sound, EndSeen
  <2>5. (\E j \in R \cup {s} : EndsWrite(a.segments[j].segment_type))
          <=> ((\E j \in R : EndsWrite(c.segments[j].segment_type)) \/ EndsWrite(seg))
    BY <2>2, <2>3
  <2>6. a.write_complete <=> (c.write_complete \/ EndsWrite(seg))
    BY <1>1, Zenon
  <2> HIDE DEF R, s
  <2>7. QED
    BY <1>2, <2>4, <2>5, <2>6, Zenon DEF EndSeen
<1>10. QED
  BY <1>6, <1>7, <1>8, <1>9 DEF Sound, a

----------------------------------------------------------------------------
(* jb_get_ordered_segs *)

\* It walks over the first slots, at least one.
LEMMA WalkIs ==
  ASSUME NEW c
  PROVE  /\ Cardinality(Walk(c)) \in 1 .. JB_MAX_SEGMENTS
         /\ Walk(c) = 0 .. Cardinality(Walk(c)) - 1
<1> DEFINE S == Walk(c)
           top == JB_MAX_SEGMENTS - 1
           n == Cardinality(S)
<1>1. 0 \in Nat /\ top \in Int /\ S \in SUBSET (0 .. top)
  BY JbBasics DEF Walk, SegSlots
<1>2. \A k \in S : \A j \in 0 .. k : j \in S
  BY JbBasics DEF Walk, SegSlots
<1>3. 0 \in S
  BY JbBasics DEF Walk, SegSlots
<1> HIDE DEF S, top
<1>4. n \in Nat /\ S = 0 .. 0 + (n - 1)
  BY <1>1, <1>2, PrefixIsInterval, Zenon
<1>5. 0 + (n - 1) = n - 1 /\ n > 0
  BY <1>3, <1>4
<1>6. n - 1 \in S
  BY <1>4, <1>5
<1>7. n <= JB_MAX_SEGMENTS
  BY <1>1, <1>4, <1>6, JbBasics DEF top
<1>8. QED
  BY <1>4, <1>5, <1>7, JbBasics DEF S

\* What it returns for a complete write: the segments from slot 0 on, every one
\* of them received, and the last of them the only one that ends a write.
LEMMA OrderedIs ==
  ASSUME NEW c, Complete(c), EndSeen(c)
  PROVE  \E n \in 1 .. JB_MAX_SEGMENTS :
           /\ Walk(c) = 0 .. n - 1
           /\ jb_get_ordered_segs(c) = [k \in 1 .. n |-> c.segments[k - 1]]
           /\ \A j \in 0 .. n - 1 : /\ c.segments[j].state = "RECEIVED"
                                    /\ EndsWrite(c.segments[j].segment_type) <=> j = n - 1
<1> DEFINE n == Cardinality(Walk(c))
<1>1. n \in 1 .. JB_MAX_SEGMENTS /\ Walk(c) = 0 .. n - 1
  BY WalkIs
<1>2. /\ \A i \in Walk(c) : c.segments[i].state = "RECEIVED"
      /\ jb_get_ordered_segs(c) = [k \in 1 .. n |-> c.segments[k - 1]]
      /\ c.write_complete
  BY DEF Complete, jb_get_ordered_segs
<1> HIDE DEF n
<1>3. n \in Nat /\ n > 0 /\ n <= JB_MAX_SEGMENTS /\ JB_MAX_SEGMENTS \in Nat
      /\ n - 1 \in Walk(c)
  BY <1>1, JbBasics
<1>4. \A j \in 0 .. (n - 1) - 1 : ~EndsWrite(c.segments[j].segment_type)
  <2>1. \A j \in 0 .. (n - 1) - 1 : j \in Walk(c)
    BY <1>1, <1>3
  <2>2. QED
    BY <1>2, <1>3, <2>1 DEF Walk
<1>5. EndsWrite(c.segments[n - 1].segment_type)
  <2>1. PICK j \in SegSlots : /\ c.segments[j].state = "RECEIVED"
                              /\ EndsWrite(c.segments[j].segment_type)
                              /\ j < n
    <3>1. CASE n < JB_MAX_SEGMENTS
      <4>1. n \in SegSlots /\ n \notin Walk(c)
        BY <1>1, <1>3, <3>1 DEF SegSlots
      <4>2. PICK j \in 0 .. n - 1 : /\ c.segments[j].state = "RECEIVED"
                                    /\ EndsWrite(c.segments[j].segment_type)
        BY <4>1 DEF Walk
      <4>3. j \in SegSlots /\ j < n
        BY <1>3, <3>1 DEF SegSlots
      <4>4. QED
        BY <4>2, <4>3
    <3>2. CASE n = JB_MAX_SEGMENTS
      <4>1. PICK j \in ReceivedSlots(c) : EndsWrite(c.segments[j].segment_type)
        BY <1>2 DEF EndSeen
      <4>2. QED
        BY <1>3, <3>2, <4>1 DEF ReceivedSlots, SegSlots
    <3>3. QED
      BY <1>3, <3>1, <3>2
  <2>2. j = n - 1
    BY <1>3, <1>4, <2>1 DEF SegSlots
  <2>3. QED
    BY <2>1, <2>2
<1>6. ASSUME NEW j \in 0 .. n - 1
      PROVE  /\ c.segments[j].state = "RECEIVED"
             /\ EndsWrite(c.segments[j].segment_type) <=> j = n - 1
  <2>1. c.segments[j].state = "RECEIVED"
    BY <1>1, <1>2
  <2>2. CASE j = n - 1
    BY <1>5, <2>1, <2>2
  <2>3. CASE j # n - 1
    <3>1. j \in 0 .. (n - 1) - 1
      BY <1>3, <2>3
    <3>2. QED
      BY <1>4, <2>1, <2>3, <3>1
  <2>4. QED
    BY <2>2, <2>3
<1>7. QED
  BY <1>1, <1>2, <1>6

\* It finds every write that is all there.
LEMMA DeliverableIsComplete ==
  ASSUME NEW c, EndSeen(c), NEW k \in SegSlots,
         \A j \in 0 .. k : c.segments[j].state = "RECEIVED",
         EndsWrite(c.segments[k].segment_type)
  PROVE  Complete(c)
<1> DEFINE n == Cardinality(Walk(c))
<1>1. k \in Nat /\ k \in 0 .. k
  BY JbBasics
<1>2. c.write_complete
  BY <1>1 DEF EndSeen, ReceivedSlots
<1>3. \A i \in Walk(c) : i \in 0 .. k
  BY <1>1, JbBasics DEF Walk, SegSlots
<1>4. \A i \in Walk(c) : c.segments[i].state = "RECEIVED"
  BY <1>3
<1>5. jb_get_ordered_segs(c) = [i \in 1 .. n |-> c.segments[i - 1]]
  BY <1>4 DEF jb_get_ordered_segs
<1>6. n \in Nat /\ n > 0
  BY WalkIs, JbBasics
<1> HIDE DEF n
<1>7. [i \in 1 .. n |-> c.segments[i - 1]] # << >>
  BY <1>6
<1>8. QED
  BY <1>2, <1>5, <1>7 DEF Complete

\* When a segment completes its write, it is among the segments delivered: the
\* PSN the caller acknowledges is one it has just handed over.
LEMMA AddedIsDelivered ==
  ASSUME NEW Q, NEW M, NEW c \in jb_write_context_t(Q, M), Sound(c), ~Complete(c),
         NEW psn \in PSN, NEW seg \in SegTypes, NEW m \in M, m # 0,
         ~Received(c, psn), Complete(jb_add_seg(c, psn, seg, m))
  PROVE  LET segs == jb_get_ordered_segs(jb_add_seg(c, psn, seg, m))
         IN  \E k \in DOMAIN segs : segs[k].psn = psn /\ segs[k].mbuf = m
<1> DEFINE a == jb_add_seg(c, psn, seg, m)
           s == Idx(c, psn)
           segs == jb_get_ordered_segs(a)
<1>1. /\ s \in SegSlots
      /\ a.segments[s] = [state |-> "RECEIVED", psn |-> psn, segment_type |-> seg, mbuf |-> m]
      /\ \A j \in SegSlots : j # s =>
            /\ a.segments[j].segment_type = c.segments[j].segment_type
            /\ (a.segments[j].state = "RECEIVED" <=> c.segments[j].state = "RECEIVED")
  BY AddIs
<1>2. EndSeen(a) /\ Complete(a)
  BY AddSound DEF Sound
<1> HIDE DEF a, s
<1>3. PICK n \in 1 .. JB_MAX_SEGMENTS :
        /\ Walk(a) = 0 .. n - 1
        /\ segs = [k \in 1 .. n |-> a.segments[k - 1]]
        /\ \A j \in 0 .. n - 1 : /\ a.segments[j].state = "RECEIVED"
                                 /\ EndsWrite(a.segments[j].segment_type) <=> j = n - 1
  BY <1>2, OrderedIs
<1>4. n \in Nat /\ n > 0 /\ n <= JB_MAX_SEGMENTS /\ s \in Nat
  BY <1>1, JbBasics
<1>5. s < n
  <2> SUFFICES ASSUME ~(s < n) PROVE FALSE
    OBVIOUS
  <2>1. \A j \in 0 .. n - 1 : j \in SegSlots /\ j # s
    BY <1>4, JbBasics DEF SegSlots
  <2>2. \A j \in 0 .. n - 1 : /\ c.segments[j].state = "RECEIVED"
                              /\ c.segments[j].segment_type = a.segments[j].segment_type
    <3>1. ASSUME NEW j \in 0 .. n - 1
          PROVE  /\ c.segments[j].state = "RECEIVED"
                 /\ c.segments[j].segment_type = a.segments[j].segment_type
      <4>1. a.segments[j].state = "RECEIVED" /\ j \in SegSlots /\ j # s
        BY <1>3, <2>1
      <4>2. QED
        BY <1>1, <4>1
    <3>2. QED
      BY <3>1
  <2>3. n - 1 \in SegSlots /\ n - 1 \in 0 .. n - 1
    BY <1>4, JbBasics DEF SegSlots
  <2>4. EndsWrite(c.segments[n - 1].segment_type)
    BY <1>3, <2>2, <2>3
  <2>5. Complete(c)
    BY <2>2, <2>3, <2>4, DeliverableIsComplete DEF Sound
  <2>6. QED
    BY <2>5
<1>6. s + 1 \in DOMAIN segs /\ segs[s + 1] = a.segments[s]
  BY <1>3, <1>4, <1>5
<1>7. segs[s + 1].psn = psn /\ segs[s + 1].mbuf = m
  BY <1>1, <1>6
<1>8. QED
  BY <1>6, <1>7 DEF a

============================================================================
