-------------------------- MODULE ArqWindowProofs --------------------------
(***************************************************************************)
(* The reference rule of the ARQ window, for every window size, burst,     *)
(* retry limit, counter width, PSN space and set of mbufs.                 *)
(***************************************************************************)
EXTENDS ArqWindow, ArqProofs

----------------------------------------------------------------------------
(* The inductive invariant.  No part of it is inductive alone: a free keeps  *)
(* the counts exact only because an mbuf sits in one slot, and a packet may  *)
(* enter the window only because an mbuf of count 0 is in no slot.           *)
IInv == TypeOK /\ SlotOwnership /\ RefcountExact

\* Clearing a set of slots keeps ownership and gives up exactly the
\* references that are freed with it.
LEMMA Released ==
  ASSUME SlotOwnership, NEW S \in SUBSET Slots,
         \A i \in Slots : /\ arq'.send_window[i].mbuf =
                               IF i \in S THEN NULL ELSE arq.send_window[i].mbuf
                          /\ arq'.send_window[i].in_flight =
                               IF i \in S THEN FALSE ELSE arq.send_window[i].in_flight
  PROVE  /\ SlotOwnership'
         /\ \A m \in Mbufs : Holds(arq', m) <=>
               Holds(arq, m) /\ m \notin {arq.send_window[i].mbuf : i \in S} \ {NULL}
<1> DEFINE w == arq.send_window
           v == arq'.send_window
<1>1. SlotOwnership'
  <2>1. ASSUME NEW i \in Slots PROVE v[i].in_flight <=> v[i].mbuf # NULL
    <3>1. CASE i \in S
      BY <3>1
    <3>2. CASE i \notin S
      <4>1. v[i].in_flight = w[i].in_flight /\ v[i].mbuf = w[i].mbuf
        BY <3>2
      <4>2. w[i].in_flight <=> w[i].mbuf # NULL
        BY Zenon DEF SlotOwnership
      <4>3. QED
        BY <4>1, <4>2, Zenon
    <3>3. QED
      BY <3>1, <3>2
  <2>2. ASSUME NEW i \in Slots, NEW j \in Slots, v[i].mbuf # NULL, v[i].mbuf = v[j].mbuf
        PROVE  i = j
    <3>1. w[i].mbuf = v[i].mbuf /\ w[j].mbuf = v[j].mbuf
      BY <2>2
    <3>2. QED
      BY <2>2, <3>1 DEF SlotOwnership
  <2>3. QED
    BY <2>1, <2>2, Zenon DEF SlotOwnership
<1>2. ASSUME NEW m \in Mbufs, Holds(arq', m)
      PROVE  Holds(arq, m) /\ m \notin {w[j].mbuf : j \in S} \ {NULL}
  <2>1. m # NULL
    BY ArqAssumption
  <2>2. PICK i \in Slots : v[i].mbuf = m
    BY <1>2 DEF Holds
  <2>3. i \notin S /\ w[i].mbuf = m
    BY <2>1, <2>2
  <2>4. QED
    BY <2>1, <2>3 DEF SlotOwnership, Holds
<1>3. ASSUME NEW m \in Mbufs, Holds(arq, m),
             m \notin {w[j].mbuf : j \in S} \ {NULL}
      PROVE  Holds(arq', m)
  <2>1. m # NULL
    BY ArqAssumption
  <2>2. PICK i \in Slots : w[i].mbuf = m
    BY <1>3 DEF Holds
  <2>3. i \notin S
    BY <1>3, <2>1, <2>2
  <2>4. QED
    BY <2>2, <2>3 DEF Holds
<1>4. QED
  BY <1>1, <1>2, <1>3

\* After such a step the counts are exact again, with any number of new
\* transmissions of the mbufs of the old window on top.
LEMMA ReleasedCounts ==
  ASSUME IInv,
         NEW freed, NEW T \in [Mbufs -> Nat],
         \A m \in Mbufs : Holds(arq', m) <=> Holds(arq, m) /\ m \notin freed,
         freed \subseteq {m \in Mbufs : Holds(arq, m)},
         refcnt' = [m \in Mbufs |-> IF m \in freed THEN (refcnt[m] + T[m]) - 1
                                                   ELSE refcnt[m] + T[m]],
         nic' = [m \in Mbufs |-> nic[m] + T[m]]
  PROVE  /\ RefcountExact'
         /\ refcnt' \in [Mbufs -> Nat]
         /\ nic' \in [Mbufs -> Nat]
<1>1. ASSUME NEW m \in Mbufs
      PROVE  /\ refcnt'[m] = (IF Holds(arq', m) THEN 1 ELSE 0) + nic'[m]
             /\ refcnt'[m] \in Nat
             /\ nic'[m] \in Nat
  <2>1. refcnt[m] = (IF Holds(arq, m) THEN 1 ELSE 0) + nic[m]
    BY DEF IInv, RefcountExact
  <2>2. refcnt[m] \in Nat /\ nic[m] \in Nat /\ T[m] \in Nat
    BY DEF IInv, TypeOK
  <2>3. CASE m \in freed
    <3>1. Holds(arq, m) /\ ~Holds(arq', m)
      BY <2>3
    <3>2. refcnt'[m] = (refcnt[m] + T[m]) - 1 /\ nic'[m] = nic[m] + T[m]
      BY <2>3
    <3>3. QED
      BY <2>1, <2>2, <3>1, <3>2
  <2>4. CASE m \notin freed
    <3>1. Holds(arq, m) <=> Holds(arq', m)
      BY <2>4
    <3>2. refcnt'[m] = refcnt[m] + T[m] /\ nic'[m] = nic[m] + T[m]
      BY <2>4
    <3>3. QED
      BY <2>1, <2>2, <3>1, <3>2
  <2>5. QED
    BY <2>3, <2>4
<1>2. RefcountExact'
  BY <1>1 DEF RefcountExact
<1>3. QED
  BY <1>1, <1>2

\* The number of transmissions of an mbuf is a natural number.
LEMMA TimesSentType ==
  ASSUME NEW w, NEW sent \in [Slots -> 0 .. MAX_RETX_BURST]
  PROVE  [m \in Mbufs |-> TimesSent(w, sent, m)] \in [Mbufs -> Nat]
<1>1. ASSUME NEW m \in Mbufs PROVE TimesSent(w, sent, m) \in Nat
  <2>1. CASE \E i \in Slots : w[i].mbuf = m
    <3>1. (CHOOSE i \in Slots : w[i].mbuf = m) \in Slots
      BY <2>1
    <3>2. QED
      BY <2>1, <3>1, ArqAssumption DEF TimesSent
  <2>2. CASE ~\E i \in Slots : w[i].mbuf = m
    BY <2>2 DEF TimesSent
  <2>3. QED
    BY <2>1, <2>2
<1>2. QED
  BY <1>1

LEMMA InitIInv == Init => IInv
<1> SUFFICES ASSUME Init PROVE IInv
  OBVIOUS
<1>1. EmptyContext \in arq_context_t
  BY ArqAssumption, PsnAssumption
     DEF EmptyContext, arq_context_t, arq_send_entry_t, Ctr, PSN, Slots
<1>2. TypeOK
  BY <1>1, WindowAssumption, PsnAssumption DEF Init, TypeOK, Idle, PSN
<1>3. \A i \in Slots : ~arq.send_window[i].in_flight /\ arq.send_window[i].mbuf = NULL
  BY DEF Init, EmptyContext
<1>4. SlotOwnership
  BY <1>3 DEF SlotOwnership
<1>5. RefcountExact
  BY <1>3, ArqAssumption DEF RefcountExact, Holds, Init
<1>6. QED
  BY <1>2, <1>4, <1>5 DEF IInv

\* An mbuf of the pool (count 0) is neither in the window nor in the ring.
LEMMA PoolIsUnused ==
  ASSUME IInv, NEW m \in Mbufs, refcnt[m] = 0
  PROVE  ~Holds(arq, m) /\ nic[m] = 0
<1>1. nic[m] \in Nat
  BY DEF IInv, TypeOK
<1>2. QED
  BY <1>1 DEF IInv, RefcountExact

LEMMA SendTrackedStep ==
  ASSUME IInv, NEW m \in Mbufs, NEW psn \in PSN, SendTracked(m, psn)
  PROVE  IInv'
<1> DEFINE next == Index(arq.send_next)
           w    == arq.send_window
<1>1. PICK ok \in {0, 1} : /\ refcnt' = [refcnt EXCEPT ![m] = 1 + ok]
                           /\ nic' = [nic EXCEPT ![m] = @ + ok]
  BY DEF SendTracked
<1>2. /\ ~Holds(arq, m) /\ nic[m] = 0
      /\ refcnt \in [Mbufs -> Nat] /\ nic \in [Mbufs -> Nat]
      /\ arq \in arq_context_t
  BY PoolIsUnused DEF SendTracked, IInv, TypeOK
<1>3. next \in Slots
  BY <1>2, IndexInSlots DEF arq_context_t, Ctr
<1>4. w[next].mbuf = NULL
  BY <1>3 DEF SendTracked, HasRoom, IInv, SlotOwnership
<1>5. /\ arq' = arq_send_pkt(arq, m, psn)
      /\ arq' \in arq_context_t
  BY <1>2, SendType DEF SendTracked
<1>6. w \in [Slots -> arq_send_entry_t]
  BY <1>2 DEF arq_context_t
<1>7. /\ arq'.send_window[next].mbuf = m
      /\ arq'.send_window[next].in_flight = TRUE
      /\ \A i \in Slots : i # next => arq'.send_window[i] = w[i]
  BY <1>3, <1>5, <1>6 DEF arq_send_pkt
<1>8. TypeOK'
  BY <1>1, <1>2, <1>5, WindowAssumption, PsnAssumption
     DEF SendTracked, TypeOK, IInv, Idle, PSN
<1>9. SlotOwnership'
  <2>1. m # NULL
    BY ArqAssumption
  <2>2. ASSUME NEW i \in Slots
        PROVE  arq'.send_window[i].in_flight <=> arq'.send_window[i].mbuf # NULL
    <3>1. CASE i = next
      BY <1>7, <2>1, <3>1
    <3>2. CASE i # next
      BY <1>7, <3>2, Zenon DEF IInv, SlotOwnership
    <3>3. QED
      BY <3>1, <3>2
  <2>3. \A i \in Slots : w[i].mbuf # m
    BY <1>2 DEF Holds
  <2>4. ASSUME NEW i \in Slots, NEW j \in Slots, arq'.send_window[i].mbuf # NULL,
               arq'.send_window[i].mbuf = arq'.send_window[j].mbuf
        PROVE  i = j
    BY <1>7, <2>3, <2>4 DEF IInv, SlotOwnership
  <2>5. QED
    BY <2>2, <2>4, Zenon DEF SlotOwnership
<1>10. RefcountExact'
  <2>1. \A x \in Mbufs : Holds(arq', x) <=> Holds(arq, x) \/ x = m
    BY <1>3, <1>4, <1>7, ArqAssumption DEF Holds
  <2>2. ASSUME NEW x \in Mbufs
        PROVE  refcnt'[x] = (IF Holds(arq', x) THEN 1 ELSE 0) + nic'[x]
    <3>1. CASE x = m
      BY <1>1, <1>2, <2>1, <3>1
    <3>2. CASE x # m
      BY <1>1, <1>2, <2>1, <3>2 DEF IInv, RefcountExact
    <3>3. QED
      BY <3>1, <3>2
  <2>3. QED
    BY <2>2 DEF RefcountExact
<1>11. QED
  BY <1>8, <1>9, <1>10 DEF IInv

LEMMA SendUntrackedStep ==
  ASSUME IInv, NEW m \in Mbufs, NEW psn \in PSN, SendUntracked(m, psn)
  PROVE  IInv'
<1>1. PICK ok \in {0, 1} : /\ refcnt' = [refcnt EXCEPT ![m] = ok]
                           /\ nic' = [nic EXCEPT ![m] = @ + ok]
  BY DEF SendUntracked
<1>2. /\ ~Holds(arq, m) /\ nic[m] = 0 /\ arq' = arq
      /\ refcnt \in [Mbufs -> Nat] /\ nic \in [Mbufs -> Nat]
  BY PoolIsUnused DEF SendUntracked, IInv, TypeOK
<1>3. TypeOK'
  BY <1>1, <1>2, WindowAssumption, PsnAssumption DEF SendUntracked, TypeOK, IInv, Idle, PSN
<1>4. SlotOwnership'
  BY <1>2 DEF IInv, SlotOwnership
<1>5. RefcountExact'
  BY <1>1, <1>2 DEF IInv, RefcountExact
<1>6. QED
  BY <1>3, <1>4, <1>5 DEF IInv

\* What the ACK, NACK and timeout paths have in common: the slots S are
\* cleared, their mbufs freed, and mbuf m of the window is sent T[m] times.
SlotsCleared(S) ==
  \A i \in Slots :
    /\ arq'.send_window[i].mbuf = IF i \in S THEN NULL ELSE arq.send_window[i].mbuf
    /\ arq'.send_window[i].in_flight = IF i \in S THEN FALSE ELSE arq.send_window[i].in_flight

CountsMoved(T, freed) ==
  /\ refcnt' = [m \in Mbufs |-> IF m \in freed THEN (refcnt[m] + T[m]) - 1
                                                ELSE refcnt[m] + T[m]]
  /\ nic' = [m \in Mbufs |-> nic[m] + T[m]]

LEMMA WindowStep ==
  ASSUME IInv, NEW S \in SUBSET Slots, NEW T \in [Mbufs -> Nat], NEW freed,
         arq' \in arq_context_t, SlotsCleared(S), CountsMoved(T, freed),
         freed = {arq.send_window[i].mbuf : i \in S} \ {NULL},
         lan_rx' = lan_rx,
         call' \in [op: {"none", "ack", "nack"}, psn: PSN, retx: SUBSET PSN]
  PROVE  IInv'
<1>1. SlotOwnership
  BY DEF IInv
<1>2. /\ SlotOwnership'
      /\ \A m \in Mbufs : Holds(arq', m) <=> Holds(arq, m) /\ m \notin freed
  BY <1>1, Released, Zenon DEF SlotsCleared
<1>3. freed \subseteq {m \in Mbufs : Holds(arq, m)}
  BY DEF Holds, IInv, TypeOK, arq_context_t, arq_send_entry_t
<1>4. /\ RefcountExact'
      /\ refcnt' \in [Mbufs -> Nat]
      /\ nic' \in [Mbufs -> Nat]
  BY <1>2, <1>3, ReleasedCounts, Zenon DEF CountsMoved
<1>5. TypeOK'
  BY <1>4 DEF TypeOK, IInv
<1>6. QED
  BY <1>2, <1>4, <1>5 DEF IInv

LEMMA HandleAckStep ==
  ASSUME IInv, NEW psn \in PSN, HandleAck(psn)
  PROVE  IInv'
<1> DEFINE S == AckedSlots(arq, psn)
           T == [m \in Mbufs |-> 0]
<1>1. arq \in arq_context_t /\ arq' = arq_handle_ack(arq, psn)
  BY DEF HandleAck, IInv, TypeOK
<1>2. arq' \in arq_context_t
  BY <1>1, AckType
<1>3. S \in SUBSET Slots
  BY <1>1, IndexInSlots DEF AckedSlots, AckedPrefix, Outstanding, arq_context_t, Ctr
<1>4. arq'.send_window = Clear(arq.send_window, S)
  BY <1>1 DEF arq_handle_ack, arq_context_t
<1>5. SlotsCleared(S)
  <2>1. arq.send_window \in [Slots -> arq_send_entry_t]
    BY <1>1 DEF arq_context_t
  <2> HIDE DEF S
  <2>2. QED
    BY <1>4, <2>1 DEF SlotsCleared, Clear, arq_send_entry_t
<1>6. CountsMoved(T, AckFrees(arq, psn))
  BY DEF CountsMoved, HandleAck, FreeAll, IInv, TypeOK
<1>7. AckFrees(arq, psn) = {arq.send_window[i].mbuf : i \in S} \ {NULL}
  BY DEF AckFrees
<1>8. /\ lan_rx' = lan_rx
      /\ call' \in [op: {"none", "ack", "nack"}, psn: PSN, retx: SUBSET PSN]
  BY DEF HandleAck
<1>9. T \in [Mbufs -> Nat]
  OBVIOUS
<1> HIDE DEF S, T
<1>10. QED
  BY <1>2, <1>3, <1>5, <1>6, <1>7, <1>8, <1>9, WindowStep, Zenon

LEMMA HandleNackStep ==
  ASSUME IInv, NEW psn \in PSN, HandleNack(psn)
  PROVE  IInv'
<1>1. PICK sent \in Accepted(NackRetransmits(arq, psn)) :
         /\ refcnt' = AddReferences(refcnt, arq.send_window, sent)
         /\ nic' = AddReferences(nic, arq.send_window, sent)
  BY DEF HandleNack
<1> DEFINE S == {}
           freed == {}
           T == [m \in Mbufs |-> TimesSent(arq.send_window, sent, m)]
<1>2. arq \in arq_context_t /\ arq' = arq_handle_nack(arq, psn)
  BY DEF HandleNack, IInv, TypeOK
<1>3. arq' \in arq_context_t
  BY <1>2, NackType
<1>4. SlotsCleared(S)
  <2>1. arq.send_window \in [Slots -> arq_send_entry_t]
    BY <1>2 DEF arq_context_t
  <2>2. ASSUME NEW i \in Slots
        PROVE  /\ arq'.send_window[i].mbuf = arq.send_window[i].mbuf
               /\ arq'.send_window[i].in_flight = arq.send_window[i].in_flight
    BY <1>2, <2>1 DEF arq_handle_nack, arq_context_t, arq_send_entry_t
  <2>3. QED
    BY <2>2 DEF SlotsCleared
<1>5. T \in [Mbufs -> Nat]
  BY TimesSentType DEF Accepted
<1>6. CountsMoved(T, freed)
  BY <1>1 DEF CountsMoved, AddReferences
<1>7. S \in SUBSET Slots /\ freed = {arq.send_window[i].mbuf : i \in S} \ {NULL}
  OBVIOUS
<1>8. /\ lan_rx' = lan_rx
      /\ call' \in [op: {"none", "ack", "nack"}, psn: PSN, retx: SUBSET PSN]
  BY <1>2 DEF HandleNack, arq_context_t, arq_send_entry_t
<1> HIDE DEF S, freed, T
<1>9. QED
  BY <1>3, <1>4, <1>5, <1>6, <1>7, <1>8, WindowStep, Zenon

LEMMA CheckTimeoutsStep ==
  ASSUME IInv, CheckTimeouts
  PROVE  IInv'
<1>1. PICK sent \in Accepted(TimeoutRetransmits(arq)) :
         /\ refcnt' = FreeAll(AddReferences(refcnt, arq.send_window, sent), TimeoutFrees(arq))
         /\ nic' = AddReferences(nic, arq.send_window, sent)
  BY DEF CheckTimeouts
<1> DEFINE S == GivenUp(arq)
           T == [m \in Mbufs |-> TimesSent(arq.send_window, sent, m)]
<1>2. arq \in arq_context_t /\ arq' = arq_check_timeouts(arq)
  BY DEF CheckTimeouts, IInv, TypeOK
<1>3. arq' \in arq_context_t
  BY <1>2, TimeoutType
<1>4. S \in SUBSET Slots /\ S \cap Retried(arq) = {}
  BY DEF GivenUp, Retried, Expired
<1>5. SlotsCleared(S)
  <2>1. arq.send_window \in [Slots -> arq_send_entry_t]
    BY <1>2 DEF arq_context_t
  <2>2. arq'.send_window = [i \in Slots |->
          IF i \in Retried(arq)
            THEN [arq.send_window[i] EXCEPT !.age = 0, !.retry_count = (@ + 1) % RETRY_MOD]
            ELSE Clear(arq.send_window, S)[i]]
    BY <1>2 DEF arq_check_timeouts, arq_context_t
  <2> HIDE DEF S
  <2>3. ASSUME NEW i \in Slots
        PROVE  /\ arq'.send_window[i].mbuf =
                    IF i \in S THEN NULL ELSE arq.send_window[i].mbuf
               /\ arq'.send_window[i].in_flight =
                    IF i \in S THEN FALSE ELSE arq.send_window[i].in_flight
    <3>1. arq.send_window[i] \in arq_send_entry_t
      BY <2>1
    <3>2. CASE i \in Retried(arq)
      BY <1>4, <2>2, <3>1, <3>2 DEF arq_send_entry_t
    <3>3. CASE i \notin Retried(arq)
      BY <2>2, <3>1, <3>3 DEF Clear, arq_send_entry_t
    <3>4. QED
      BY <3>2, <3>3
  <2>4. QED
    BY <2>3 DEF SlotsCleared
<1>6. T \in [Mbufs -> Nat]
  BY TimesSentType DEF Accepted
<1>7. CountsMoved(T, TimeoutFrees(arq))
  <2> DEFINE A == AddReferences(refcnt, arq.send_window, sent)
             F == TimeoutFrees(arq)
  <2>1. \A m \in Mbufs : A[m] = refcnt[m] + T[m]
    BY DEF AddReferences
  <2>6. refcnt' = FreeAll(A, F)
    BY <1>1
  <2>2. \A m \in Mbufs : refcnt'[m] = IF m \in F
                             THEN (refcnt[m] + T[m]) - 1 ELSE refcnt[m] + T[m]
    <3> HIDE DEF T, A, F
    <3>1. \A m \in Mbufs : refcnt'[m] = IF m \in F THEN A[m] - 1 ELSE A[m]
      BY <2>6 DEF FreeAll
    <3>2. QED
      BY <2>1, <3>1, Zenon
  <2>3. refcnt' = [m \in Mbufs |-> refcnt'[m]]
    BY <1>1 DEF FreeAll
  <2>4. nic' = [m \in Mbufs |-> nic[m] + T[m]]
    BY <1>1 DEF AddReferences
  <2> HIDE DEF T
  <2>5. QED
    BY <2>2, <2>3, <2>4 DEF CountsMoved
<1>8. TimeoutFrees(arq) = {arq.send_window[i].mbuf : i \in S} \ {NULL}
  BY DEF TimeoutFrees
<1>9. /\ lan_rx' = lan_rx
      /\ call' \in [op: {"none", "ack", "nack"}, psn: PSN, retx: SUBSET PSN]
  BY PsnAssumption DEF CheckTimeouts, Idle, PSN
<1> HIDE DEF S, T
<1>10. QED
  BY <1>3, <1>4, <1>5, <1>6, <1>7, <1>8, <1>9, WindowStep, Zenon

LEMMA TxCompleteStep ==
  ASSUME IInv, NEW m \in Mbufs, TxComplete(m)
  PROVE  IInv'
<1>1. /\ refcnt \in [Mbufs -> Nat] /\ nic \in [Mbufs -> Nat]
      /\ arq' = arq /\ nic[m] > 0
  BY DEF TxComplete, IInv, TypeOK
<1>2. refcnt[m] > 0
  BY <1>1 DEF IInv, RefcountExact
<1>3. TypeOK'
  BY <1>1, <1>2, PsnAssumption DEF TxComplete, TypeOK, IInv, Idle, PSN
<1>4. SlotOwnership'
  BY <1>1 DEF IInv, SlotOwnership
<1>5. RefcountExact'
  BY <1>1 DEF TxComplete, IInv, RefcountExact
<1>6. QED
  BY <1>3, <1>4, <1>5 DEF IInv

LEMMA TickStep ==
  ASSUME IInv, Tick
  PROVE  IInv'
<1>1. arq \in arq_context_t /\ arq' = Older(arq)
  BY DEF Tick, IInv, TypeOK
<1>2. arq' \in arq_context_t
  BY <1>1, OlderType
<1>3. \A i \in Slots : /\ arq'.send_window[i].mbuf = arq.send_window[i].mbuf
                       /\ arq'.send_window[i].in_flight = arq.send_window[i].in_flight
  BY <1>1 DEF Older, arq_context_t, arq_send_entry_t
<1>4. TypeOK'
  BY <1>2, PsnAssumption DEF Tick, TypeOK, IInv, Idle, PSN
<1>5. SlotOwnership'
  <2>1. \A i \in Slots : arq'.send_window[i].in_flight <=> arq'.send_window[i].mbuf # NULL
    BY <1>3 DEF IInv, SlotOwnership
  <2>2. \A i, j \in Slots : /\ arq'.send_window[i].mbuf # NULL
                            /\ arq'.send_window[i].mbuf = arq'.send_window[j].mbuf
                            => i = j
    BY <1>3 DEF IInv, SlotOwnership
  <2>3. QED
    BY <2>1, <2>2 DEF SlotOwnership
<1>6. RefcountExact'
  BY <1>3 DEF Tick, IInv, RefcountExact, Holds
<1>7. QED
  BY <1>4, <1>5, <1>6 DEF IInv

\* PSNs on the wire have 24 bits.
LEMMA InputTypes == IInv => LanPsns \subseteq PSN /\ AckPsns \subseteq PSN /\ NackPsns \subseteq PSN
<1>1. \A n \in Nat : PsnOf(n) \in PSN
  BY PsnAssumption, WindowAssumption DEF PsnOf, PSN
<1>2. IInv => lan_rx \in Nat
  BY WindowAssumption DEF IInv, TypeOK
<1>3. QED
  BY <1>1, <1>2 DEF LanPsns, AckPsns, NackPsns

LEMMA NextIInv == IInv /\ [Next]_vars => IInv'
<1> SUFFICES ASSUME IInv, [Next]_vars PROVE IInv'
  OBVIOUS
<1>1. ASSUME NEW m \in Mbufs, NEW psn \in LanPsns, SendTracked(m, psn) PROVE IInv'
  BY <1>1, InputTypes, SendTrackedStep
<1>2. ASSUME NEW m \in Mbufs, NEW psn \in LanPsns, SendUntracked(m, psn) PROVE IInv'
  BY <1>2, InputTypes, SendUntrackedStep
<1>3. ASSUME NEW psn \in AckPsns, HandleAck(psn) PROVE IInv'
  BY <1>3, InputTypes, HandleAckStep
<1>4. ASSUME NEW psn \in NackPsns, HandleNack(psn) PROVE IInv'
  BY <1>4, InputTypes, HandleNackStep
<1>5. CASE CheckTimeouts
  BY <1>5, CheckTimeoutsStep
<1>6. ASSUME NEW m \in Mbufs, TxComplete(m) PROVE IInv'
  BY <1>6, TxCompleteStep
<1>7. CASE Tick
  BY <1>7, TickStep
<1>8. CASE UNCHANGED vars
  BY <1>8, Zenon DEF vars, IInv, TypeOK, SlotOwnership, RefcountExact, Holds
<1>9. QED
  BY <1>1, <1>2, <1>3, <1>4, <1>5, <1>6, <1>7, <1>8 DEF Next

\* The context stays a well-formed arq_context_t and no reference count of an
\* mbuf ever falls below zero, whatever calls, completions and refusals of the
\* NIC arrive and in whatever order.
THEOREM TypeCorrect == Spec => []TypeOK
<1>1. IInv => TypeOK
  BY DEF IInv
<1>2. QED
  BY <1>1, InitIInv, NextIInv, PTL DEF Spec

\* No two slots of the window ever share an mbuf, and an entry is in flight
\* exactly while it has one.
THEOREM WindowOwnership == Spec => []SlotOwnership
<1>1. IInv => SlotOwnership
  BY DEF IInv
<1>2. QED
  BY <1>1, InitIInv, NextIInv, PTL DEF Spec

\* The reference rule stated in processor.c holds: no use after free, no
\* double free and no leak in the retransmission layer.
THEOREM ReferenceRule == Spec => []RefcountExact
<1>1. IInv => RefcountExact
  BY DEF IInv
<1>2. QED
  BY <1>1, InitIInv, NextIInv, PTL DEF Spec

----------------------------------------------------------------------------
(* Reach of the loops.  The counters are 32-bit numbers that are compared    *)
(* without regard to their wrap (Outstanding), so what follows is about the  *)
(* first 2^32 packets of a QP: the hypothesis MaxLan < CTR_MOD.              *)

\* Nothing in flight is out of reach, and send_next counts tracked packets.
RInv ==
  /\ IInv
  /\ arq.send_base <= arq.send_next
  /\ arq.send_next <= lan_rx
  /\ InFlightReachable

LEMMA InitRInv == Init => RInv
<1> SUFFICES ASSUME Init PROVE RInv
  OBVIOUS
<1>1. /\ arq.send_base = 0 /\ arq.send_next = 0 /\ lan_rx = 0
      /\ \A i \in Slots : arq.send_window[i].in_flight = FALSE
  BY DEF Init, EmptyContext
<1>2. QED
  BY <1>1, InitIInv DEF RInv, InFlightReachable

LEMMA NextRInv ==
  ASSUME RInv, [Next]_vars, MaxLan < CTR_MOD
  PROVE  RInv'
<1>1. IInv'
  BY NextIInv DEF RInv
<1>2. /\ arq \in arq_context_t /\ lan_rx \in Nat /\ MaxLan \in Nat
      /\ arq.send_base \in Nat /\ arq.send_next \in Nat
  BY WindowAssumption, ArqAssumption DEF RInv, IInv, TypeOK, arq_context_t, Ctr
<1>3. ASSUME NEW m, NEW psn, SendTracked(m, psn) PROVE RInv'
  <2> DEFINE next == Index(arq.send_next)
  <2>1. lan_rx' = lan_rx + 1 /\ lan_rx < MaxLan /\ arq' = arq_send_pkt(arq, m, psn)
    BY <1>3 DEF SendTracked
  <2>2. arq.send_next + 1 < CTR_MOD
    BY <1>2, <2>1, ArqAssumption DEF RInv
  <2>3. /\ arq'.send_base = arq.send_base /\ arq'.send_next = arq.send_next + 1
        /\ \A i \in Slots : i # next => arq'.send_window[i] = arq.send_window[i]
    BY <1>2, <2>1, <2>2, SendKeepsOrder
  <2>4. ASSUME NEW i \in Slots, arq'.send_window[i].in_flight
        PROVE  \E k \in Outstanding(arq') : Index(k) = i
    <3>1. CASE i = next
      <4>1. arq.send_next \in Outstanding(arq')
        BY <1>2, <2>3 DEF RInv, Outstanding
      <4>2. QED
        BY <3>1, <4>1
    <3>2. CASE i # next
      <4>1. PICK k \in Outstanding(arq) : Index(k) = i
        BY <2>3, <2>4, <3>2 DEF RInv, InFlightReachable
      <4>2. k \in Outstanding(arq')
        BY <1>2, <2>3 DEF Outstanding
      <4>3. QED
        BY <4>1, <4>2
    <3>3. QED
      BY <3>1, <3>2
  <2>5. QED
    BY <1>1, <1>2, <2>1, <2>3, <2>4 DEF RInv, InFlightReachable
<1>4. ASSUME NEW m, NEW psn, SendUntracked(m, psn) PROVE RInv'
  <2>1. lan_rx' = lan_rx + 1 /\ arq' = arq
    BY <1>4 DEF SendUntracked
  <2>2. QED
    BY <1>1, <1>2, <2>1 DEF RInv, InFlightReachable
<1>5. ASSUME NEW psn, HandleAck(psn) PROVE RInv'
  <2>1. lan_rx' = lan_rx /\ arq' = arq_handle_ack(arq, psn)
    BY <1>5 DEF HandleAck
  <2>2. /\ arq'.send_base \in Nat /\ arq'.send_base <= arq.send_next
        /\ AckedPrefix(arq, psn) = arq.send_base .. arq'.send_base - 1
    BY <1>2, <2>1, AckedPrefixIs DEF RInv, Ctr
  <2>3. /\ arq'.send_next = arq.send_next
        /\ \A i \in Slots : arq'.send_window[i].in_flight =>
              arq.send_window[i].in_flight /\ i \notin AckedSlots(arq, psn)
    BY <1>2, <2>1, AckKeepsOrder
  <2>4. ASSUME NEW i \in Slots, arq'.send_window[i].in_flight
        PROVE  \E k \in Outstanding(arq') : Index(k) = i
    <3>1. PICK k \in Outstanding(arq) : Index(k) = i
      BY <2>3, <2>4 DEF RInv, InFlightReachable
    <3>2. k \notin AckedPrefix(arq, psn)
      BY <2>3, <2>4, <3>1 DEF AckedSlots
    <3>3. k \in Outstanding(arq')
      BY <1>2, <2>2, <2>3, <3>2 DEF Outstanding
    <3>4. QED
      BY <3>1, <3>3
  <2>5. QED
    BY <1>1, <1>2, <2>1, <2>2, <2>3, <2>4 DEF RInv, InFlightReachable
<1>6. ASSUME lan_rx' = lan_rx,
             \/ \E psn : arq' = arq_handle_nack(arq, psn)
             \/ arq' = arq_check_timeouts(arq)
             \/ arq' = Older(arq)
      PROVE  RInv'
  <2>1. /\ arq'.send_base = arq.send_base
        /\ arq'.send_next = arq.send_next
        /\ \A i \in Slots : arq'.send_window[i].in_flight => arq.send_window[i].in_flight
    BY <1>2, <1>6, ScansKeepOrder, Zenon
  <2>2. Outstanding(arq') = Outstanding(arq)
    BY <2>1 DEF Outstanding
  <2>3. InFlightReachable'
    BY <2>1, <2>2, Zenon DEF RInv, InFlightReachable
  <2>4. QED
    BY <1>1, <1>2, <1>6, <2>1, <2>3 DEF RInv
<1>7. ASSUME arq' = arq, lan_rx' = lan_rx PROVE RInv'
  BY <1>1, <1>7, Zenon DEF RInv, InFlightReachable
<1>8. QED
  BY <1>3, <1>4, <1>5, <1>6, <1>7
     DEF Next, HandleNack, CheckTimeouts, TxComplete, Tick, vars

\* As long as fewer packets have been sent than a counter can count, no packet
\* in flight leaves the range from send_base to send_next that the ACK, NACK
\* and timeout loops walk, even though given-up entries stay inside it and the
\* window may overtake its own base.
THEOREM NothingOutOfReach == MaxLan < CTR_MOD => (Spec => []InFlightReachable)
<1> SUFFICES ASSUME MaxLan < CTR_MOD PROVE Spec => []InFlightReachable
  OBVIOUS
<1>1. RInv /\ [Next]_vars => RInv'
  BY NextRInv
<1>2. RInv => InFlightReachable
  BY DEF RInv
<1>3. QED
  BY <1>1, <1>2, InitRInv, PTL DEF Spec

----------------------------------------------------------------------------
(* What a NACK retransmits. *)

\* The entry a NACK names is collected when fewer than MAX_RETX_BURST counters
\* precede it, whatever PSNs the others carry.
LEMMA NamedIsCollected ==
  ASSUME NEW ctx \in arq_context_t, NEW psn \in PSN, NEW k \in Outstanding(ctx),
         ctx.send_window[Index(k)].psn = psn,
         k - ctx.send_base < MAX_RETX_BURST
  PROVE  NackHits(ctx, psn, Index(k)) > 0
<1> DEFINE E == {j \in Outstanding(ctx) : AtOrBefore(ctx.send_window[Index(j)].psn, psn)}
           B == {j \in E : j < k}
           low == ctx.send_base
           H == {j \in NackBurst(ctx, psn) : Index(j) = Index(k)}
<1>1. low \in Nat /\ k \in Nat /\ low <= k /\ low \in Int /\ k - 1 \in Int
  BY ArqAssumption DEF arq_context_t, Ctr, Outstanding
<1>2. k \in E
  BY DistIs, PsnAssumption DEF AtOrBefore
<1>3. Cardinality(B) < MAX_RETX_BURST
  <2>1. B \subseteq low .. k - 1
    BY <1>1 DEF Outstanding
  <2> HIDE DEF B, low
  <2>2. /\ IsFiniteSet(low .. k - 1)
        /\ Cardinality(low .. k - 1) = IF low > k - 1 THEN 0 ELSE (k - 1) - low + 1
    BY <1>1, FS_Interval
  <2>3. IsFiniteSet(B) /\ Cardinality(B) <= Cardinality(low .. k - 1)
    BY <2>1, <2>2, FS_Subset
  <2>4. Cardinality(B) \in Nat
    BY <2>3, FS_CardinalityType
  <2>5. k - low < MAX_RETX_BURST
    BY DEF low
  <2>6. QED
    BY <1>1, <2>2, <2>3, <2>4, <2>5, ArqAssumption
<1>4. k \in H
  BY <1>2, <1>3 DEF NackBurst
<1>5. H \in SUBSET Outstanding(ctx)
  BY DEF NackBurst
<1>6. IsFiniteSet(H) /\ Cardinality(H) \in Nat
  BY <1>5, OutstandingFinite
<1> HIDE DEF H
<1>7. Cardinality(H) # 0
  BY <1>4, <1>6, FS_EmptySet
<1>8. QED
  BY <1>6, <1>7 DEF NackHits, H

LEMMA NackCallStep ==
  ASSUME IInv, NEW psn \in PSN, HandleNack(psn)
  PROVE  NackRetransmitsWithinBurst'
<1>1. /\ arq \in arq_context_t /\ arq' = arq_handle_nack(arq, psn)
      /\ call'.psn = psn
      /\ call'.retx = {arq.send_window[i].psn :
                         i \in {j \in Slots : NackRetransmits(arq, psn)[j] > 0}}
  BY DEF HandleNack, IInv, TypeOK
<1>2. /\ arq'.send_base = arq.send_base
      /\ arq'.send_next = arq.send_next
      /\ \A i \in Slots : /\ arq'.send_window[i].psn = arq.send_window[i].psn
                          /\ arq'.send_window[i].in_flight => arq.send_window[i].in_flight
  BY <1>1, ScansKeepOrder
<1>3. ASSUME NEW k \in Outstanding(arq'),
             arq'.send_window[Index(k)].in_flight,
             arq'.send_window[Index(k)].psn = psn,
             k - arq'.send_base < MAX_RETX_BURST
      PROVE  psn \in call'.retx
  <2>1. k \in Outstanding(arq)
    BY <1>2 DEF Outstanding
  <2>2. Index(k) \in Slots
    BY <1>1, <2>1, IndexInSlots DEF Outstanding, arq_context_t, Ctr
  <2>3. arq.send_window[Index(k)].psn = psn /\ arq.send_window[Index(k)].in_flight
    BY <1>2, <1>3, <2>2
  <2>4. arq.send_window[Index(k)].mbuf # NULL
    BY <2>2, <2>3 DEF IInv, SlotOwnership
  <2>5. NackHits(arq, psn, Index(k)) > 0
    BY <1>1, <1>2, <1>3, <2>1, <2>3, NamedIsCollected
  <2>6. NackRetransmits(arq, psn)[Index(k)] > 0
    BY <2>2, <2>4, <2>5 DEF NackRetransmits
  <2>7. QED
    BY <1>1, <2>2, <2>3, <2>6
<1>4. QED
  BY <1>1, <1>3 DEF NackRetransmitsWithinBurst

\* A NACK always leads to a retransmission of the entry it names when that
\* entry is in flight and among the first MAX_RETX_BURST of the window,
\* whatever PSNs the host chose and however they lie on the circle.
THEOREM NackAnswered == Spec => []NackRetransmitsWithinBurst
<1>1. Init => NackRetransmitsWithinBurst
  BY DEF Init, Idle, NackRetransmitsWithinBurst
<1>2. ASSUME IInv, NackRetransmitsWithinBurst, [Next]_vars
      PROVE  NackRetransmitsWithinBurst'
  <2>1. ASSUME NEW psn \in NackPsns, HandleNack(psn) PROVE NackRetransmitsWithinBurst'
    BY <1>2, <2>1, InputTypes, NackCallStep
  <2>2. ASSUME call' = Idle \/ \E psn : call' = [op |-> "ack", psn |-> psn, retx |-> {}]
        PROVE  NackRetransmitsWithinBurst'
    <3>1. call'.op # "nack"
      BY <2>2 DEF Idle
    <3>2. QED
      BY <3>1 DEF NackRetransmitsWithinBurst
  <2>3. CASE UNCHANGED vars
    BY <1>2, <2>3, Zenon DEF vars, NackRetransmitsWithinBurst
  <2>4. QED
    BY <1>2, <2>1, <2>2, <2>3
       DEF Next, SendTracked, SendUntracked, HandleAck, CheckTimeouts, TxComplete, Tick
<1>3. QED
  BY <1>1, <1>2, InitIInv, NextIInv, PTL DEF Spec

----------------------------------------------------------------------------
(* What an ACK covers.  For a host that numbers its packets consecutively,   *)
(* and as long as it has sent no more than half the PSN circle.              *)

Num(p)   == psn_forward_dist(FirstPsn, p)
PsnAt(ctx, k) == ctx.send_window[Index(k)].psn

\* The counters whose slot no later counter has taken over.
Owned(ctx) == {k \in Outstanding(ctx) : k >= ctx.send_next - WINDOW_SIZE}

\* The entries of the window carry PSNs of packets that were sent, in the
\* order of their counters.
Ordered ==
  \A k \in Owned(arq) :
    /\ Num(PsnAt(arq, k)) < lan_rx
    /\ \A j \in Owned(arq) : j < k => Num(PsnAt(arq, j)) < Num(PsnAt(arq, k))

OInv == RInv /\ Ordered

\* An in-order host that stays within half the PSN circle.
ShortRun == InOrderHost /\ MaxLan < CTR_MOD /\ MaxLan <= MAX_PSN \div 2

LEMMA NumOf ==
  ASSUME ShortRun, NEW n \in 0 .. MaxLan - 1
  PROVE  PsnOf(n) \in PSN /\ Num(PsnOf(n)) = n /\ n < MAX_PSN \div 2
<1>1. n \in 0 .. MAX_PSN - 1 /\ n < MAX_PSN \div 2
  BY PsnAssumption, WindowAssumption DEF ShortRun
<1>2. FirstPsn \in PSN
  BY WindowAssumption
<1>3. FirstPsn + n \in Int
  BY <1>1, <1>2, PsnIsInt
<1>4. QED
  BY <1>1, <1>2, <1>3, DistOf, PsnIsInt DEF PsnOf, Num

LEMMA NumType == \A p \in PSN : Num(p) \in Nat
<1> TAKE p \in PSN
<1>1. psn_forward_dist(FirstPsn, p) \in 0 .. MAX_PSN - 1
  BY DistIs, WindowAssumption
<1>2. QED
  BY <1>1, PsnIsInt DEF Num

LEMMA OwnedSlots ==
  ASSUME arq \in arq_context_t, NEW k \in Outstanding(arq)
  PROVE  k \in Nat /\ Index(k) \in Slots /\ PsnAt(arq, k) \in PSN /\ Num(PsnAt(arq, k)) \in Nat
<1>1. k \in Nat
  BY DEF arq_context_t, Ctr, Outstanding
<1>2. Index(k) \in Slots
  BY <1>1, IndexInSlots
<1>3. PsnAt(arq, k) \in PSN
  BY <1>2 DEF PsnAt, arq_context_t, arq_send_entry_t
<1>4. Num(PsnAt(arq, k)) \in Nat
  BY <1>3, NumType
<1>5. QED
  BY <1>1, <1>2, <1>3, <1>4

LEMMA NextOrdered ==
  ASSUME OInv, [Next]_vars, ShortRun
  PROVE  Ordered'
<1>1. /\ arq \in arq_context_t /\ lan_rx \in Nat /\ MaxLan \in Nat /\ WINDOW_SIZE \in Nat
      /\ arq.send_base \in Nat /\ arq.send_next \in Nat
      /\ arq.send_base <= arq.send_next /\ arq.send_next <= lan_rx
      /\ WINDOW_SIZE > 0
  BY WindowAssumption, ArqAssumption DEF OInv, RInv, IInv, TypeOK, arq_context_t, Ctr
<1>2. ASSUME NEW m, NEW psn \in LanPsns, SendTracked(m, psn) PROVE Ordered'
  <2> DEFINE next == arq.send_next
  <2>1. /\ lan_rx' = lan_rx + 1 /\ lan_rx < MaxLan /\ arq' = arq_send_pkt(arq, m, psn)
        /\ psn = PsnOf(lan_rx)
    BY <1>2 DEF SendTracked, LanPsns, ShortRun
  <2>2. next + 1 < CTR_MOD
    BY <1>1, <2>1, ArqAssumption DEF ShortRun
  <2>3. /\ arq'.send_base = arq.send_base /\ arq'.send_next = next + 1
        /\ arq'.send_window[Index(next)].psn = psn
        /\ \A i \in Slots : i # Index(next) => arq'.send_window[i] = arq.send_window[i]
    BY <1>1, <2>1, <2>2, SendKeepsOrder
  <2>4. PsnAt(arq', next) = psn /\ Num(psn) = lan_rx
    BY <1>1, <2>1, <2>3, NumOf DEF PsnAt
  <2>5. ASSUME NEW k \in Owned(arq'), k # next
        PROVE  k \in Owned(arq) /\ k < next /\ PsnAt(arq', k) = PsnAt(arq, k) /\ Num(PsnAt(arq, k)) \in Nat
    <3>1. k \in Owned(arq) /\ k < next /\ next < k + WINDOW_SIZE /\ k \in Nat
      BY <1>1, <2>3, <2>5 DEF Owned, Outstanding
    <3>2. Index(k) # Index(next) /\ Index(k) \in Slots
      BY <1>1, <3>1, IndexApart, IndexInSlots
    <3>3. Num(PsnAt(arq, k)) \in Nat
      BY <1>1, <3>1, OwnedSlots DEF Owned
    <3>4. QED
      BY <2>3, <3>1, <3>2, <3>3 DEF PsnAt
  <2>6. ASSUME NEW k \in Owned(arq')
        PROVE  Num(PsnAt(arq', k)) < lan_rx'
    BY <1>1, <2>1, <2>4, <2>5 DEF OInv, Ordered
  <2>7. ASSUME NEW k \in Owned(arq'), NEW j \in Owned(arq'), j < k
        PROVE  Num(PsnAt(arq', j)) < Num(PsnAt(arq', k))
    <3>1. j # next
      BY <1>1, <2>3, <2>7 DEF Owned, Outstanding
    <3>2. CASE k = next
      BY <2>4, <2>5, <3>1, <3>2 DEF OInv, Ordered
    <3>3. CASE k # next
      BY <2>5, <2>7, <3>1, <3>3 DEF OInv, Ordered
    <3>4. QED
      BY <3>2, <3>3
  <2>8. QED
    BY <2>6, <2>7 DEF Ordered, Num
<1>3. ASSUME lan_rx' \in {lan_rx, lan_rx + 1}, Owned(arq') \subseteq Owned(arq),
             \A i \in Slots : arq'.send_window[i].psn = arq.send_window[i].psn
      PROVE  Ordered'
  <2>1. ASSUME NEW k \in Owned(arq') PROVE k \in Owned(arq) /\ PsnAt(arq', k) = PsnAt(arq, k) /\ Num(PsnAt(arq, k)) \in Nat
    BY <1>1, <1>3, OwnedSlots DEF Owned, PsnAt
  <2>2. QED
    BY <1>1, <1>3, <2>1 DEF OInv, Ordered, Num
<1>4. ASSUME NEW m, NEW psn, SendUntracked(m, psn) PROVE Ordered'
  BY <1>3, <1>4 DEF SendUntracked, Owned
<1>5. ASSUME NEW psn, HandleAck(psn) PROVE Ordered'
  <2>1. lan_rx' = lan_rx /\ arq' = arq_handle_ack(arq, psn)
    BY <1>5 DEF HandleAck
  <2>2. arq'.send_base \in Nat /\ arq.send_base <= arq'.send_base
    BY <1>1, <2>1, AckedPrefixIs DEF Ctr
  <2>3. /\ arq'.send_next = arq.send_next
        /\ \A i \in Slots : arq'.send_window[i].psn = arq.send_window[i].psn
    BY <1>1, <2>1, AckKeepsOrder
  <2>4. Owned(arq') \subseteq Owned(arq)
    BY <1>1, <2>2, <2>3 DEF Owned, Outstanding
  <2>5. QED
    BY <1>3, <2>1, <2>3, <2>4
<1>6. ASSUME lan_rx' = lan_rx,
             \/ \E psn : arq' = arq_handle_nack(arq, psn)
             \/ arq' = arq_check_timeouts(arq)
             \/ arq' = Older(arq)
      PROVE  Ordered'
  <2>1. /\ arq'.send_base = arq.send_base
        /\ arq'.send_next = arq.send_next
        /\ \A i \in Slots : arq'.send_window[i].psn = arq.send_window[i].psn
    BY <1>1, <1>6, ScansKeepOrder, Zenon
  <2>2. Owned(arq') = Owned(arq)
    BY <2>1 DEF Owned, Outstanding
  <2>3. QED
    BY <1>3, <1>6, <2>1, <2>2
<1>7. ASSUME arq' = arq, lan_rx' = lan_rx PROVE Ordered'
  BY <1>3, <1>7 DEF Owned
<1>8. QED
  BY <1>2, <1>4, <1>5, <1>6, <1>7
     DEF Next, HandleNack, CheckTimeouts, TxComplete, Tick, vars

\* After an ACK, the entry the loop stopped at is not covered, and nothing
\* behind it is.
LEMMA AckCallStep ==
  ASSUME OInv, OInv', ShortRun, NEW psn \in AckPsns, HandleAck(psn)
  PROVE  AckIsCumulative'
<1> DEFINE base == arq'.send_base
<1>1. /\ arq \in arq_context_t /\ arq' \in arq_context_t /\ lan_rx \in 0 .. MaxLan
      /\ lan_rx' = lan_rx
      /\ arq' = arq_handle_ack(arq, psn) /\ call'.psn = psn
  BY DEF HandleAck, OInv, RInv, IInv, TypeOK
<1>2. /\ base \in Nat /\ arq'.send_next \in Nat /\ base <= arq'.send_next
      /\ arq'.send_next < CTR_MOD /\ WINDOW_SIZE \in Nat /\ CTR_MOD \in Nat
  BY <1>1, ArqAssumption DEF arq_context_t, Ctr, OInv, RInv
<1>3. arq'.send_next = arq.send_next
      /\ \A i \in Slots : arq'.send_window[i].psn = arq.send_window[i].psn
  BY <1>1, AckKeepsOrder
<1>4. base < arq.send_next => ~AtOrBefore(arq.send_window[Index(base)].psn, psn)
  BY <1>1, AckedPrefixIs
<1>5. psn \in PSN /\ Num(psn) < MAX_PSN \div 2
  <2>1. PICK n \in 0 .. lan_rx - 1 : psn = PsnOf(n)
    BY DEF AckPsns, ShortRun
  <2>2. n \in 0 .. MaxLan - 1
    BY <1>1, WindowAssumption
  <2>3. QED
    BY <2>1, <2>2, NumOf
<1>6. ASSUME Span(arq') <= WINDOW_SIZE, NEW i \in Slots, arq'.send_window[i].in_flight
      PROVE  ~AtOrBefore(arq'.send_window[i].psn, psn)
  <2>1. PICK k \in Outstanding(arq') : Index(k) = i
    BY <1>6 DEF OInv, RInv, InFlightReachable
  <2>2. Span(arq') = arq'.send_next - base
    BY <1>2 DEF Span
  <2>3. k \in Owned(arq') /\ base \in Owned(arq') /\ base <= k /\ k \in Nat
    BY <1>2, <1>6, <2>1, <2>2 DEF Owned, Outstanding
  <2>4. ASSUME NEW x \in Owned(arq')
        PROVE  /\ PsnAt(arq', x) \in PSN /\ Num(PsnAt(arq', x)) \in Nat
               /\ Num(PsnAt(arq', x)) < MAX_PSN \div 2
               /\ AtOrBefore(PsnAt(arq', x), psn) <=> Num(PsnAt(arq', x)) <= Num(psn)
    <3>1. x \in Nat /\ Index(x) \in Slots
      BY <1>2, IndexInSlots DEF Owned, Outstanding
    <3>2. PsnAt(arq', x) \in PSN
      BY <1>1, <3>1 DEF PsnAt, arq_context_t, arq_send_entry_t
    <3>3. Num(PsnAt(arq', x)) \in Nat
      BY <3>2, NumType
    <3>4. Num(PsnAt(arq', x)) < lan_rx
      BY <1>1, <2>4 DEF OInv, Ordered, Num
    <3>5. Num(PsnAt(arq', x)) < MAX_PSN \div 2
      BY <1>1, <3>3, <3>4, WindowAssumption, PsnAssumption DEF ShortRun
    <3>6. QED
      BY <1>5, <3>2, <3>3, <3>5, BeforeIs, WindowAssumption DEF Num
  <2>5. Num(PsnAt(arq', base)) \in Nat /\ Num(PsnAt(arq', k)) \in Nat
    BY <2>3, <2>4
  <2>6. Num(PsnAt(arq', base)) <= Num(PsnAt(arq', k))
    <3>1. CASE base = k
      BY <2>5, <3>1
    <3>2. CASE base < k
      <4>1. Num(PsnAt(arq', base)) < Num(PsnAt(arq', k))
        BY <2>3, <3>2 DEF OInv, Ordered, Num
      <4>2. QED
        BY <2>5, <4>1
    <3>3. QED
      BY <1>2, <2>3, <3>1, <3>2
  <2>7. ~(Num(PsnAt(arq', base)) <= Num(psn))
    <3>1. PsnAt(arq', base) = arq.send_window[Index(base)].psn
      BY <1>2, <1>3, IndexInSlots DEF PsnAt
    <3>2. base < arq.send_next
      BY <1>2, <1>3, <2>1, <2>3 DEF Outstanding
    <3>3. QED
      BY <1>4, <2>3, <2>4, <3>1, <3>2
  <2>8. Num(psn) \in Nat
    BY <1>5, NumType
  <2>9. ~(Num(PsnAt(arq', k)) <= Num(psn))
    BY <2>6, <2>7, <2>8, <2>5
  <2>10. QED
    BY <2>1, <2>3, <2>4, <2>9 DEF PsnAt
<1>7. QED
  BY <1>1, <1>6, Zenon DEF AckIsCumulative

\* For an in-order host, within half the PSN circle: an ACK releases everything
\* up to its PSN, although the loop of arq_handle_ack stops at the first entry
\* that is not covered, and although slots given up after a timeout are taken
\* over by later packets.
THEOREM AckCumulative == ShortRun => (Spec => []AckIsCumulative)
<1> SUFFICES ASSUME ShortRun PROVE Spec => []AckIsCumulative
  OBVIOUS
<1>1. Init => OInv /\ AckIsCumulative
  <2> SUFFICES ASSUME Init PROVE OInv /\ AckIsCumulative
    OBVIOUS
  <2>1. Owned(arq) = {} /\ call.op = "none"
    BY DEF Init, EmptyContext, Owned, Outstanding, Idle
  <2>2. QED
    BY <2>1, InitRInv DEF OInv, Ordered, AckIsCumulative
<1>2. ASSUME OInv, AckIsCumulative, [Next]_vars
      PROVE  OInv' /\ AckIsCumulative'
  <2>1. OInv'
    BY <1>2, NextRInv, NextOrdered DEF OInv, ShortRun
  <2>2. ASSUME NEW psn \in AckPsns, HandleAck(psn) PROVE AckIsCumulative'
    BY <1>2, <2>1, <2>2, AckCallStep
  <2>3. ASSUME call'.op # "ack" PROVE AckIsCumulative'
    BY <2>3 DEF AckIsCumulative
  <2>4. CASE UNCHANGED vars
    <3>1. arq' = arq /\ call' = call
      BY <2>4 DEF vars
    <3>2. QED
      BY <1>2, <2>1, <3>1 DEF AckIsCumulative
  <2>5. QED
    BY <1>2, <2>1, <2>2, <2>3, <2>4
       DEF Next, SendTracked, SendUntracked, HandleNack, CheckTimeouts, TxComplete, Tick, Idle
<1>3. QED
  BY <1>1, <1>2, PTL DEF Spec

============================================================================
