----------------------------- MODULE ArqProofs -----------------------------
(***************************************************************************)
(* What the functions of arq.c leave behind, for every window size, burst, *)
(* retry limit, counter width, PSN space and set of mbufs.                 *)
(***************************************************************************)
EXTENDS Arq, PsnProofs

\* A counter taken modulo WINDOW_SIZE is a slot.
LEMMA IndexInSlots == \A k \in Nat : Index(k) \in Slots
  BY ArqAssumption DEF Index, Slots

\* The counters between send_base and send_next are finitely many, and any
\* set of them has no more members than they span.
LEMMA OutstandingFinite ==
  ASSUME NEW ctx \in arq_context_t, NEW S \in SUBSET Outstanding(ctx)
  PROVE  /\ IsFiniteSet(S)
         /\ Cardinality(S) \in Nat
         /\ ctx.send_base + Cardinality(S) \in Ctr
<1>1. ctx.send_base \in Nat /\ ctx.send_next \in Nat /\ ctx.send_next - 1 \in Int
      /\ ctx.send_base < CTR_MOD /\ ctx.send_next < CTR_MOD
  BY ArqAssumption DEF arq_context_t, Ctr
<1>2. /\ IsFiniteSet(Outstanding(ctx))
      /\ Cardinality(Outstanding(ctx)) =
           IF ctx.send_base > ctx.send_next - 1 THEN 0
           ELSE ctx.send_next - 1 - ctx.send_base + 1
  <2>1. ASSUME NEW a \in Int, NEW b \in Int
        PROVE  /\ IsFiniteSet(a .. b)
               /\ Cardinality(a .. b) = IF a > b THEN 0 ELSE b - a + 1
    BY FS_Interval, Zenon
  <2>2. ctx.send_base \in Int
    BY <1>1
  <2>3. QED
    BY <1>1, <2>1, <2>2, Zenon DEF Outstanding
<1>3. IsFiniteSet(S) /\ Cardinality(S) <= Cardinality(Outstanding(ctx))
  BY <1>2, FS_Subset
<1>4. Cardinality(S) \in Nat
  BY <1>3, FS_CardinalityType
<1>5. QED
  BY <1>1, <1>2, <1>3, <1>4, ArqAssumption DEF Ctr

\* Each function of arq.c leaves a well-typed context behind.
LEMMA SendType ==
  ASSUME NEW ctx \in arq_context_t, NEW m \in Mbufs, NEW psn \in PSN
  PROVE  arq_send_pkt(ctx, m, psn) \in arq_context_t
<1> DEFINE next == (ctx.send_next + 1) % CTR_MOD
           used == (next - ctx.send_base) % CTR_MOD
<1>1. ctx.send_base \in Ctr /\ ctx.send_next \in Ctr /\ ctx.send_max \in Ctr
      /\ ctx.send_window \in [Slots -> arq_send_entry_t]
  BY DEF arq_context_t
<1>2. next \in Ctr /\ used \in Ctr
  BY <1>1, ArqAssumption DEF Ctr
<1>3. [psn |-> psn, mbuf |-> m, age |-> 0, retry_count |-> 0, in_flight |-> TRUE]
         \in arq_send_entry_t
  BY ArqAssumption DEF arq_send_entry_t
<1> HIDE DEF next, used
<1>4. QED
  BY <1>1, <1>2, <1>3 DEF arq_send_pkt, arq_context_t, next, used

LEMMA ClearType ==
  ASSUME NEW w \in [Slots -> arq_send_entry_t], NEW S
  PROVE  Clear(w, S) \in [Slots -> arq_send_entry_t]
<1>1. ASSUME NEW i \in Slots
      PROVE  [w[i] EXCEPT !.mbuf = NULL, !.in_flight = FALSE] \in arq_send_entry_t
  BY DEF arq_send_entry_t
<1>2. QED
  BY <1>1 DEF Clear

LEMMA AckType ==
  ASSUME NEW ctx \in arq_context_t, NEW psn
  PROVE  arq_handle_ack(ctx, psn) \in arq_context_t
<1>1. ctx.send_base + Cardinality(AckedPrefix(ctx, psn)) \in Ctr
  BY OutstandingFinite DEF AckedPrefix
<1>2. Clear(ctx.send_window, AckedSlots(ctx, psn)) \in [Slots -> arq_send_entry_t]
  BY ClearType DEF arq_context_t
<1>3. QED
  BY <1>1, <1>2 DEF arq_handle_ack, arq_context_t

LEMMA NackHitsType ==
  ASSUME NEW ctx \in arq_context_t, NEW psn, NEW i
  PROVE  NackHits(ctx, psn, i) \in Nat
<1>1. {k \in NackBurst(ctx, psn) : Index(k) = i} \in SUBSET Outstanding(ctx)
  BY DEF NackBurst
<1>2. QED
  BY <1>1, OutstandingFinite DEF NackHits

\* An entry restarted after a retransmission.
LEMMA RetriedType ==
  ASSUME NEW e \in arq_send_entry_t, NEW hits \in Nat
  PROVE  [e EXCEPT !.age = 0, !.retry_count = (@ + hits) % RETRY_MOD] \in arq_send_entry_t
<1>1. e.retry_count \in Nat
  BY ArqAssumption DEF arq_send_entry_t
<1>2. (e.retry_count + hits) % RETRY_MOD \in 0 .. RETRY_MOD - 1
  BY <1>1, ArqAssumption
<1>3. 0 \in 0 .. RETRY_TIMEOUT + 1
  BY ArqAssumption
<1>4. QED
  BY <1>2, <1>3 DEF arq_send_entry_t

LEMMA NackType ==
  ASSUME NEW ctx \in arq_context_t, NEW psn
  PROVE  arq_handle_nack(ctx, psn) \in arq_context_t
<1>1. ASSUME NEW i \in Slots, NEW hits \in Nat
      PROVE  [ctx.send_window[i] EXCEPT !.age = 0,
                !.retry_count = (@ + hits) % RETRY_MOD] \in arq_send_entry_t
  BY RetriedType DEF arq_context_t
<1>2. ASSUME NEW i \in Slots
      PROVE  arq_handle_nack(ctx, psn).send_window[i] \in arq_send_entry_t
  <2>1. NackHits(ctx, psn, i) \in Nat
    BY NackHitsType
  <2>2. CASE NackHits(ctx, psn, i) = 0
    BY <2>2 DEF arq_handle_nack, arq_context_t
  <2>3. CASE NackHits(ctx, psn, i) # 0
    BY <1>1, <2>1, <2>3 DEF arq_handle_nack, arq_context_t
  <2>4. QED
    BY <2>2, <2>3
<1>3. QED
  BY <1>2 DEF arq_handle_nack, arq_context_t

LEMMA TimeoutType ==
  ASSUME NEW ctx \in arq_context_t
  PROVE  arq_check_timeouts(ctx) \in arq_context_t
<1>1. ASSUME NEW i \in Slots
      PROVE  [ctx.send_window[i] EXCEPT !.age = 0,
                !.retry_count = (@ + 1) % RETRY_MOD] \in arq_send_entry_t
  BY RetriedType DEF arq_context_t
<1>2. Clear(ctx.send_window, GivenUp(ctx)) \in [Slots -> arq_send_entry_t]
  BY ClearType DEF arq_context_t
<1>3. QED
  BY <1>1, <1>2 DEF arq_check_timeouts, arq_context_t

LEMMA OlderType ==
  ASSUME NEW ctx \in arq_context_t
  PROVE  Older(ctx) \in arq_context_t
<1>1. ASSUME NEW i \in Slots, ctx.send_window[i].age <= RETRY_TIMEOUT
      PROVE  [ctx.send_window[i] EXCEPT !.age = @ + 1] \in arq_send_entry_t
  BY <1>1, ArqAssumption DEF arq_context_t, arq_send_entry_t
<1>2. QED
  BY <1>1 DEF Older, arq_context_t

----------------------------------------------------------------------------
(* The counters. *)

\* An ACK releases the counters from send_base up to the new send_base, and
\* stops at an entry it does not cover.
LEMMA AckedPrefixIs ==
  ASSUME NEW ctx \in arq_context_t, NEW psn
  PROVE  LET base == ctx.send_base + Cardinality(AckedPrefix(ctx, psn)) IN
         /\ base \in Ctr
         /\ arq_handle_ack(ctx, psn).send_base = base
         /\ ctx.send_base <= base
         /\ ctx.send_base <= ctx.send_next => base <= ctx.send_next
         /\ AckedPrefix(ctx, psn) = ctx.send_base .. base - 1
         /\ base < ctx.send_next => ~AtOrBefore(ctx.send_window[Index(base)].psn, psn)
<1> DEFINE S    == AckedPrefix(ctx, psn)
           low  == ctx.send_base
           base == low + Cardinality(S)
<1>1. low \in Nat /\ ctx.send_next \in Nat /\ ctx.send_next - 1 \in Int
  BY ArqAssumption DEF arq_context_t, Ctr
<1>2. S \in SUBSET (low .. ctx.send_next - 1)
  BY DEF AckedPrefix, Outstanding
<1>3. \A k \in S : \A j \in low .. k : j \in S
  BY <1>1 DEF AckedPrefix, Outstanding
<1>4. Cardinality(S) \in Nat /\ S = low .. low + Cardinality(S) - 1
  <2> DEFINE top == ctx.send_next - 1
  <2>1. top \in Int /\ S \in SUBSET (low .. top)
    BY <1>1, <1>2
  <2> HIDE DEF S, low, top
  <2>2. QED
    BY <1>1, <1>3, <2>1, PrefixIsInterval, Zenon
<1>5. S = low .. base - 1
  <2>1. low + (Cardinality(S) - 1) = base - 1
    BY <1>1, <1>4
  <2>2. QED
    BY <1>4, <2>1
<1>6. base \in Ctr
  BY <1>2, OutstandingFinite DEF Outstanding
<1>7. arq_handle_ack(ctx, psn).send_base = base
  BY DEF arq_handle_ack, arq_context_t
<1>8. low <= ctx.send_next => base <= ctx.send_next
  <2>1. CASE Cardinality(S) = 0
    BY <1>1, <1>4, <1>5, <2>1
  <2>2. CASE Cardinality(S) > 0
    <3>1. base - 1 \in S
      BY <1>1, <1>4, <1>5, <2>2
    <3>2. QED
      BY <1>1, <1>2, <1>4, <1>5, <3>1
  <2>3. QED
    BY <1>4, <1>5, <2>1, <2>2
<1>9. ASSUME base < ctx.send_next PROVE ~AtOrBefore(ctx.send_window[Index(base)].psn, psn)
  <2>1. base \in Outstanding(ctx) /\ base \notin S
    BY <1>1, <1>4, <1>5, <1>9 DEF Outstanding
  <2>2. PICK j \in low .. base : ~AtOrBefore(ctx.send_window[Index(j)].psn, psn)
    BY <2>1 DEF AckedPrefix
  <2>3. j \notin S
    BY <1>1, <1>4, <1>5, <2>2 DEF AckedPrefix
  <2>4. j = base
    BY <1>1, <1>4, <1>5, <2>3
  <2>5. QED
    BY <2>2, <2>4
<1>10. QED
  BY <1>1, <1>4, <1>5, <1>6, <1>7, <1>8, <1>9

\* Two counters less than a window apart have slots of their own.
LEMMA IndexApart ==
  ASSUME NEW j \in Nat, NEW k \in Nat, j < k, k < j + WINDOW_SIZE
  PROVE  Index(j) # Index(k)
<1>1. WINDOW_SIZE \in Nat /\ WINDOW_SIZE > 0 /\ j \in Int /\ k \in Int
  BY ArqAssumption
<1>2. QED
  BY <1>1, ModApart DEF Index

\* Nothing but arq_send_pkt writes a PSN or moves send_next, and nothing but an
\* ACK moves send_base.
LEMMA ScansKeepOrder ==
  ASSUME NEW ctx \in arq_context_t, NEW after,
         \/ \E psn : after = arq_handle_nack(ctx, psn)
         \/ after = arq_check_timeouts(ctx)
         \/ after = Older(ctx)
  PROVE  /\ after.send_base = ctx.send_base
         /\ after.send_next = ctx.send_next
         /\ \A i \in Slots : /\ after.send_window[i].psn = ctx.send_window[i].psn
                             /\ after.send_window[i].in_flight => ctx.send_window[i].in_flight
<1>1. ASSUME NEW psn, after = arq_handle_nack(ctx, psn)
      PROVE  /\ after.send_base = ctx.send_base
             /\ after.send_next = ctx.send_next
             /\ \A i \in Slots : /\ after.send_window[i].psn = ctx.send_window[i].psn
                                 /\ after.send_window[i].in_flight = ctx.send_window[i].in_flight
  <2>1. ctx.send_window \in [Slots -> arq_send_entry_t]
    BY DEF arq_context_t
  <2>2. /\ after.send_base = ctx.send_base
        /\ after.send_next = ctx.send_next
    BY <1>1 DEF arq_handle_nack, arq_context_t
  <2>3. ASSUME NEW i \in Slots
        PROVE  /\ after.send_window[i].psn = ctx.send_window[i].psn
               /\ after.send_window[i].in_flight = ctx.send_window[i].in_flight
    <3> DEFINE hits == NackHits(ctx, psn, i)
    <3>1. after.send_window[i] =
            IF hits = 0 THEN ctx.send_window[i]
            ELSE [ctx.send_window[i] EXCEPT !.age = 0,
                                            !.retry_count = (@ + hits) % RETRY_MOD]
      BY <1>1 DEF arq_handle_nack, arq_context_t
    <3> HIDE DEF hits
    <3>2. QED
      BY <2>1, <3>1 DEF arq_send_entry_t
  <2>4. QED
    BY <2>2, <2>3
<1>2. CASE after = arq_check_timeouts(ctx)
  <2> DEFINE R == Retried(ctx)
             G == GivenUp(ctx)
  <2>1. /\ after.send_base = ctx.send_base
        /\ after.send_next = ctx.send_next
        /\ after.send_window = [i \in Slots |->
             IF i \in R
               THEN [ctx.send_window[i] EXCEPT !.age = 0, !.retry_count = (@ + 1) % RETRY_MOD]
               ELSE Clear(ctx.send_window, G)[i]]
    BY <1>2 DEF arq_check_timeouts, arq_context_t
  <2>2. ctx.send_window \in [Slots -> arq_send_entry_t]
    BY DEF arq_context_t
  <2> HIDE DEF R, G
  <2>3. ASSUME NEW i \in Slots
        PROVE  /\ after.send_window[i].psn = ctx.send_window[i].psn
               /\ after.send_window[i].in_flight => ctx.send_window[i].in_flight
    <3>1. after.send_window[i] =
            IF i \in R
              THEN [ctx.send_window[i] EXCEPT !.age = 0, !.retry_count = (@ + 1) % RETRY_MOD]
              ELSE IF i \in G
              THEN [ctx.send_window[i] EXCEPT !.mbuf = NULL, !.in_flight = FALSE]
              ELSE ctx.send_window[i]
      BY <2>1 DEF Clear
    <3>2. ctx.send_window[i] \in arq_send_entry_t
      BY <2>2
    <3>3. after.send_window[i].psn = ctx.send_window[i].psn
      BY <3>1, <3>2 DEF arq_send_entry_t
    <3>4. after.send_window[i].in_flight = IF i \in G \ R THEN FALSE
                                           ELSE ctx.send_window[i].in_flight
      BY <3>1, <3>2 DEF arq_send_entry_t
    <3>5. QED
      BY <3>3, <3>4, Zenon
  <2>4. QED
    BY <2>1, <2>3
<1>3. CASE after = Older(ctx)
  <2>1. ctx.send_window \in [Slots -> arq_send_entry_t]
    BY DEF arq_context_t
  <2>2. ASSUME NEW i \in Slots
        PROVE  /\ after.send_window[i].psn = ctx.send_window[i].psn
               /\ after.send_window[i].in_flight = ctx.send_window[i].in_flight
    BY <1>3, <2>1 DEF Older, arq_send_entry_t, arq_context_t
  <2>3. QED
    BY <1>3, <2>2 DEF Older, arq_context_t
<1>4. QED
  BY <1>1, <1>2, <1>3

LEMMA AckKeepsOrder ==
  ASSUME NEW ctx \in arq_context_t, NEW psn
  PROVE  /\ arq_handle_ack(ctx, psn).send_next = ctx.send_next
         /\ \A i \in Slots :
              /\ arq_handle_ack(ctx, psn).send_window[i].psn = ctx.send_window[i].psn
              /\ arq_handle_ack(ctx, psn).send_window[i].in_flight =>
                   ctx.send_window[i].in_flight /\ i \notin AckedSlots(ctx, psn)
<1> DEFINE S == AckedSlots(ctx, psn)
           after == arq_handle_ack(ctx, psn)
<1>1. after.send_next = ctx.send_next /\ after.send_window = Clear(ctx.send_window, S)
  BY DEF arq_handle_ack, arq_context_t
<1>2. ctx.send_window \in [Slots -> arq_send_entry_t]
  BY DEF arq_context_t
<1> HIDE DEF S, after
<1>3. ASSUME NEW i \in Slots
      PROVE  /\ after.send_window[i].psn = ctx.send_window[i].psn
             /\ after.send_window[i].in_flight => ctx.send_window[i].in_flight /\ i \notin S
  <2>1. after.send_window[i].psn = ctx.send_window[i].psn
    <3>1. ctx.send_window[i] \in arq_send_entry_t
      BY <1>2
    <3>2. after.send_window[i] =
            IF i \in S THEN [ctx.send_window[i] EXCEPT !.mbuf = NULL, !.in_flight = FALSE]
                       ELSE ctx.send_window[i]
      BY <1>1 DEF Clear
    <3>3. QED
      BY <3>1, <3>2 DEF arq_send_entry_t
  <2>2. after.send_window[i].in_flight = IF i \in S THEN FALSE ELSE ctx.send_window[i].in_flight
    BY <1>1, <1>2 DEF Clear, arq_send_entry_t
  <2>3. QED
    BY <2>1, <2>2, Zenon
<1>4. QED
  BY <1>1, <1>3 DEF S, after

LEMMA SendKeepsOrder ==
  ASSUME NEW ctx \in arq_context_t, NEW m, NEW psn, ctx.send_next + 1 < CTR_MOD
  PROVE  LET after == arq_send_pkt(ctx, m, psn)
             next  == Index(ctx.send_next)
         IN  /\ after.send_base = ctx.send_base
             /\ after.send_next = ctx.send_next + 1
             /\ next \in Slots
             /\ after.send_window[next].psn = psn
             /\ \A i \in Slots : i # next => after.send_window[i] = ctx.send_window[i]
<1>1. ctx.send_next \in Nat /\ ctx.send_window \in [Slots -> arq_send_entry_t]
  BY DEF arq_context_t, Ctr
<1>2. (ctx.send_next + 1) % CTR_MOD = ctx.send_next + 1
  BY <1>1, ArqAssumption
<1>3. Index(ctx.send_next) \in Slots
  BY <1>1, IndexInSlots
<1>4. QED
  BY <1>1, <1>2, <1>3 DEF arq_send_pkt

\* None of the scans gives a slot another mbuf.
LEMMA ScansKeepMbufs ==
  ASSUME NEW ctx \in arq_context_t, NEW after,
         \/ \E psn : after = arq_handle_ack(ctx, psn)
         \/ \E psn : after = arq_handle_nack(ctx, psn)
         \/ after = arq_check_timeouts(ctx)
         \/ after = Older(ctx)
  PROVE  \A i \in Slots : after.send_window[i].mbuf \in {NULL, ctx.send_window[i].mbuf}
<1>0. ctx.send_window \in [Slots -> arq_send_entry_t]
  BY DEF arq_context_t
<1>1. ASSUME NEW psn, after = arq_handle_ack(ctx, psn), NEW i \in Slots
      PROVE  after.send_window[i].mbuf \in {NULL, ctx.send_window[i].mbuf}
  <2> DEFINE S == AckedSlots(ctx, psn)
  <2>1. after.send_window = Clear(ctx.send_window, S)
    BY <1>1 DEF arq_handle_ack, arq_context_t
  <2> HIDE DEF S
  <2>2. QED
    BY <1>0, <2>1 DEF Clear, arq_send_entry_t
<1>2. ASSUME NEW psn, after = arq_handle_nack(ctx, psn), NEW i \in Slots
      PROVE  after.send_window[i].mbuf \in {NULL, ctx.send_window[i].mbuf}
  BY <1>0, <1>2 DEF arq_handle_nack, arq_context_t, arq_send_entry_t
<1>3. ASSUME after = arq_check_timeouts(ctx), NEW i \in Slots
      PROVE  after.send_window[i].mbuf \in {NULL, ctx.send_window[i].mbuf}
  <2> DEFINE R == Retried(ctx)
             G == GivenUp(ctx)
  <2>1. after.send_window[i] =
          IF i \in R
            THEN [ctx.send_window[i] EXCEPT !.age = 0, !.retry_count = (@ + 1) % RETRY_MOD]
            ELSE IF i \in G
            THEN [ctx.send_window[i] EXCEPT !.mbuf = NULL, !.in_flight = FALSE]
            ELSE ctx.send_window[i]
    BY <1>3 DEF arq_check_timeouts, arq_context_t, Clear
  <2> HIDE DEF R, G
  <2>2. ctx.send_window[i] \in arq_send_entry_t
    BY <1>0
  <2>3. QED
    BY <2>1, <2>2 DEF arq_send_entry_t
<1>4. ASSUME after = Older(ctx), NEW i \in Slots
      PROVE  after.send_window[i].mbuf \in {NULL, ctx.send_window[i].mbuf}
  BY <1>0, <1>4 DEF Older, arq_context_t, arq_send_entry_t
<1>5. QED
  BY <1>1, <1>2, <1>3, <1>4

============================================================================
