-------------------------- MODULE ReassemblyProofs --------------------------
(***************************************************************************)
(* The jitter buffer at work, for every size of the table and of its       *)
(* contexts, every PSN space, every set of QPs with their streams, both    *)
(* locks, both wires, and every number of packets.                         *)
(***************************************************************************)
EXTENDS Reassembly, JitterBufferProofs, SequenceTheorems

----------------------------------------------------------------------------
(* The inductive invariant. *)

Context == jb_write_context_t(QPNs, Mbufs)

\* Every context of the table is one jitter_buffer.c can have built, and none
\* of them is ready for delivery.
Contexts == \A i \in Entries : Sound(writes[i]) /\ ~Complete(writes[i])

Packet == [psn: PSN, seg: SegTypes \cup {NONE}, sent: BOOLEAN]

DeliveredType == delivered \in [QPNs -> Seq(Seq(Packet))]

IInv ==
  /\ TypeOK
  /\ Contexts
  /\ DeliveredType
  /\ TableExact
  /\ MbufsAccounted

----------------------------------------------------------------------------
(* The inputs and the table. *)

LEMMA InputTypes ==
  ASSUME NEW q \in QPNs, NEW n \in DOMAIN Stream[q]
  PROVE  PsnAt(q, n) \in PSN /\ Stream[q][n] \in SegTypes /\ n \in Nat
<1>1. Stream[q] \in Seq(SegTypes) /\ FirstPsn[q] \in PSN
  BY ReassemblyAssumption
<1>2. n \in 1 .. Len(Stream[q]) /\ Stream[q][n] \in SegTypes
  BY <1>1
<1>3. FirstPsn[q] \in Nat
  BY <1>1, PsnIsInt, Zenon
<1>4. n \in Nat /\ FirstPsn[q] + n - 1 \in Int
  BY <1>2, <1>3
<1>5. PsnAt(q, n) \in PSN
  BY <1>4, PsnIsInt, Zenon DEF PsnAt
<1>6. QED
  BY <1>2, <1>4, <1>5

LEMMA EntriesAre == Entries \subseteq Nat \ {0} /\ IsFiniteSet(Entries)
<1>1. JB_MAX_PENDING_WRITES \in Int /\ 1 \in Int
  BY ReassemblyAssumption
<1>2. QED
  BY <1>1, FS_Interval DEF Entries

LEMMA FindIs ==
  ASSUME TypeOK, NEW q
  PROVE  /\ jb_find(writes, q) = 0 => \A i \in Entries : writes[i].qpn # q
         /\ jb_find(writes, q) # 0 => /\ jb_find(writes, q) \in Entries
                                      /\ writes[jb_find(writes, q)].qpn = q
<1> DEFINE hits == {i \in DOMAIN writes : writes[i].qpn = q}
<1>1. DOMAIN writes = Entries
  BY DEF TypeOK
<1>2. hits \subseteq Nat \ {0}
  BY <1>1, EntriesAre
<1>3. jb_find(writes, q) = FirstEntry(hits)
  BY DEF jb_find
<1>4. /\ hits = {} => FirstEntry(hits) = 0
      /\ hits # {} => FirstEntry(hits) \in hits /\ FirstEntry(hits) # 0
  BY <1>2, FirstEntryIs
<1>5. QED
  BY <1>1, <1>3, <1>4

LEMMA FreeEntryIs ==
  ASSUME TypeOK, FreeEntry(writes) # 0
  PROVE  /\ FreeEntry(writes) \in Entries
         /\ writes[FreeEntry(writes)].qpn = 0
         /\ writes[FreeEntry(writes)].segment_count = 0
<1> DEFINE hits == {i \in DOMAIN writes : writes[i].segment_count = 0 /\ writes[i].qpn = 0}
<1>1. DOMAIN writes = Entries
  BY DEF TypeOK
<1>2. hits \subseteq Nat \ {0}
  BY <1>1, EntriesAre
<1>3. FreeEntry(writes) = FirstEntry(hits)
  BY DEF FreeEntry
<1>4. /\ hits = {} => FirstEntry(hits) = 0
      /\ hits # {} => FirstEntry(hits) \in hits /\ FirstEntry(hits) # 0
  BY <1>2, FirstEntryIs
<1>5. QED
  BY <1>1, <1>3, <1>4

\* A context without segments holds no mbuf.
LEMMA NothingReceived ==
  ASSUME NEW c, Sound(c), c.segment_count = 0
  PROVE  ReceivedSlots(c) = {}
<1>1. Cardinality(ReceivedSlots(c)) = 0
  BY DEF Sound, CountExact
<1>2. QED
  BY <1>1, ReceivedFinite, FS_EmptySet

LEMMA NothingStored ==
  ASSUME NEW c, Sound(c), c.segment_count = 0
  PROVE  \A j \in SegSlots : c.segments[j].mbuf = 0
  BY NothingReceived DEF ReceivedSlots, Sound, SlotsSound

----------------------------------------------------------------------------
(* A segment that is not a duplicate: the entry it goes to, the context it   *)
(* finds and the one it leaves behind.                                       *)

Known(q)  == jb_find(writes, q) # 0
At(q)     == IF Known(q) THEN jb_find(writes, q) ELSE FreeEntry(writes)
Old(q, n) == IF Known(q) THEN writes[At(q)] ELSE NewWrite(q, PsnAt(q, n))
New(q, n, buf) == jb_add_seg(Old(q, n), PsnAt(q, n), Stream[q][n], buf)
Count(q)  == IF Known(q) THEN active ELSE (active + 1) % UINT_MOD
Said(q, n, buf) == [Silent EXCEPT !.qpn = q, !.added = TRUE, !.nack = NackOf(New(q, n, buf))]

LEMMA ArriveIs ==
  ASSUME IInv, NEW q \in QPNs, NEW n \in DOMAIN Stream[q], NEW buf \in Mbufs, Arrive(q, n, buf)
  PROVE  /\ rx' \in 0 .. MaxRx
         /\ hung = FALSE
         /\ buf # 0
         /\ pool \in [Mbufs -> Nat] /\ pool[buf] > 0
         /\ Take(buf) \in [Mbufs -> Nat]
         /\ \A m \in Mbufs : Take(buf)[m] = IF m = buf THEN pool[m] - 1 ELSE pool[m]
<1>1. rx \in Nat /\ rx < MaxRx /\ MaxRx \in Nat /\ rx' = rx + 1 /\ hung = FALSE
  BY ReassemblyAssumption DEF Arrive, IInv, TypeOK
<1>2. pool \in [Mbufs -> Nat] /\ pool[buf] > 0 /\ pool[buf] - 1 \in Nat
  BY DEF Arrive, IInv, TypeOK
<1>3. /\ Take(buf) \in [Mbufs -> Nat]
      /\ \A m \in Mbufs : Take(buf)[m] = IF m = buf THEN pool[m] - 1 ELSE pool[m]
  BY <1>2 DEF Take
<1>4. QED
  BY <1>1, <1>2, <1>3, ReassemblyAssumption

LEMMA SegmentIs ==
  ASSUME IInv, NEW q \in QPNs, NEW n \in DOMAIN Stream[q], NEW buf \in Mbufs,
         ReceiveSegment(q, n, buf)
  PROVE  /\ Arrive(q, n, buf)
         /\ At(q) \in Entries
         /\ Old(q, n) \in Context /\ Sound(Old(q, n)) /\ ~Complete(Old(q, n))
         /\ ~Received(Old(q, n), PsnAt(q, n))
         /\ Old(q, n).qpn = q
         /\ \A j \in SegSlots :
              Old(q, n).segments[j].mbuf = writes[At(q)].segments[j].mbuf
         /\ Known(q) => Old(q, n) = writes[At(q)]
         /\ ~Known(q) => /\ writes[At(q)].qpn = 0
                         /\ \A i \in Entries : writes[i].qpn # q
         /\ Conclude(At(q), New(q, n, buf), PsnAt(q, n), buf, Count(q), Take(buf), Said(q, n, buf))
         /\ lock' = lock /\ hung' = hung
<1>1. /\ Arrive(q, n, buf)
      /\ At(q) # 0
      /\ ~Received(Old(q, n), PsnAt(q, n))
      /\ Conclude(At(q), New(q, n, buf), PsnAt(q, n), buf, Count(q), Take(buf), Said(q, n, buf))
      /\ lock' = lock /\ hung' = hung
  BY DEF ReceiveSegment, Known, At, Old, New, Count, Said
<1>2. TypeOK
  BY DEF IInv
<1>3. CASE Known(q)
  <2>1. At(q) \in Entries /\ writes[At(q)].qpn = q /\ Old(q, n) = writes[At(q)]
    BY <1>2, <1>3, FindIs DEF Known, At, Old
  <2>2. writes[At(q)] \in Context /\ Sound(writes[At(q)]) /\ ~Complete(writes[At(q)])
    BY <1>2, <2>1 DEF IInv, Contexts, TypeOK, Context
  <2>3. QED
    BY <1>1, <1>3, <2>1, <2>2
<1>4. CASE ~Known(q)
  <2>1. At(q) = FreeEntry(writes) /\ Old(q, n) = NewWrite(q, PsnAt(q, n))
    BY <1>4 DEF At, Old
  <2>2. /\ At(q) \in Entries /\ writes[At(q)].qpn = 0 /\ writes[At(q)].segment_count = 0
    BY <1>1, <1>2, <2>1, FreeEntryIs
  <2>3. \A i \in Entries : writes[i].qpn # q
    BY <1>2, <1>4, FindIs DEF Known
  <2>4. /\ Old(q, n) \in Context /\ Sound(Old(q, n)) /\ ~Complete(Old(q, n))
        /\ Old(q, n).qpn = q
        /\ \A j \in SegSlots : Old(q, n).segments[j].mbuf = 0
    <3>1. PsnAt(q, n) \in PSN
      BY InputTypes
    <3>2. /\ NewWrite(q, PsnAt(q, n)) \in jb_write_context_t(QPNs, Mbufs)
          /\ Sound(NewWrite(q, PsnAt(q, n))) /\ ~Complete(NewWrite(q, PsnAt(q, n)))
          /\ NewWrite(q, PsnAt(q, n)).qpn = q
          /\ \A j \in SegSlots : NewWrite(q, PsnAt(q, n)).segments[j].mbuf = 0
      BY <3>1, NewWriteIs
    <3>3. QED
      BY <2>1, <3>2 DEF Context
  <2>5. \A j \in SegSlots : writes[At(q)].segments[j].mbuf = 0
    BY <2>2, NothingStored DEF IInv, Contexts
  <2>6. QED
    BY <1>1, <1>4, <2>2, <2>3, <2>4, <2>5
<1>5. QED
  BY <1>3, <1>4

LEMMA NewIs ==
  ASSUME IInv, NEW q \in QPNs, NEW n \in DOMAIN Stream[q], NEW buf \in Mbufs,
         ReceiveSegment(q, n, buf)
  PROVE  /\ New(q, n, buf) \in Context /\ Sound(New(q, n, buf))
         /\ New(q, n, buf).qpn = q
         /\ New(q, n, buf).segment_count \in Nat /\ New(q, n, buf).segment_count > 0
         /\ NackOf(New(q, n, buf)) \in PSN \cup {NONE}
         /\ \E s \in SegSlots :
              /\ Old(q, n).segments[s].mbuf = 0
              /\ New(q, n, buf).segments[s].mbuf = buf
              /\ \A j \in SegSlots : j # s =>
                   New(q, n, buf).segments[j].mbuf = Old(q, n).segments[j].mbuf
<1> DEFINE psn == PsnAt(q, n)
           seg == Stream[q][n]
           old == Old(q, n)
           s   == Idx(old, psn)
<1>1. /\ old \in jb_write_context_t(QPNs, Mbufs) /\ Sound(old) /\ ~Received(old, psn)
      /\ old.qpn = q
      /\ Arrive(q, n, buf)
  BY SegmentIs DEF Context
<1>2. psn \in PSN /\ seg \in SegTypes
  BY InputTypes
<1>3. buf \in Mbufs /\ buf # 0
  BY <1>1, ArriveIs
<1> HIDE DEF psn, seg, old
<1>4. New(q, n, buf) = jb_add_seg(old, psn, seg, buf)
  BY DEF New, psn, seg, old
<1>5. /\ New(q, n, buf) \in jb_write_context_t(QPNs, Mbufs)
      /\ s \in SegSlots
      /\ New(q, n, buf).qpn = old.qpn
      /\ New(q, n, buf).segment_count = old.segment_count + 1
      /\ New(q, n, buf).segments[s] = [state |-> "RECEIVED", psn |-> psn,
                                  segment_type |-> seg, mbuf |-> buf]
      /\ \A j \in SegSlots : j # s => New(q, n, buf).segments[j].mbuf = old.segments[j].mbuf
  BY <1>1, <1>2, <1>3, <1>4, AddIs
<1>6. Sound(New(q, n, buf))
  BY <1>1, <1>2, <1>3, <1>4, AddSound
<1>7. old.segment_count \in Nat /\ New(q, n, buf).expected_psn \in PSN
  BY <1>1, <1>5 DEF jb_write_context_t
<1>8. NackOf(New(q, n, buf)) \in PSN \cup {NONE}
  <2>1. 0 \in PSN
    BY PsnAssumption DEF PSN
  <2>2. QED
    BY <1>7, <2>1 DEF NackOf, jb_check_missing
<1>9. old.segments[s].mbuf = 0
  BY <1>1, <1>5 DEF Received, Sound, SlotsSound
<1>10. QED
  BY <1>1, <1>5, <1>6, <1>7, <1>8, <1>9 DEF Context, old

----------------------------------------------------------------------------
(* Who holds which mbuf. *)

Mb(table, i, j) == table[i].segments[j].mbuf

LEMMA SlotsFinite == IsFiniteSet(SegSlots)
  BY JbBasics, FS_Interval DEF SegSlots

\* The positions Copies counts.
Places(segs, ks, m) == {k \in ks : segs[k].mbuf = m}

LEMMA CopiesFinite ==
  ASSUME NEW segs, NEW ks, IsFiniteSet(ks), NEW m
  PROVE  /\ IsFiniteSet(Places(segs, ks, m))
         /\ Copies(segs, ks, m) = Cardinality(Places(segs, ks, m))
         /\ Copies(segs, ks, m) \in Nat
<1>1. Places(segs, ks, m) \in SUBSET ks
  BY DEF Places
<1>2. IsFiniteSet(Places(segs, ks, m))
  BY <1>1, FS_Subset
<1>3. Copies(segs, ks, m) = Cardinality(Places(segs, ks, m))
  BY DEF Copies, Places
<1>4. QED
  BY <1>2, <1>3, FS_CardinalityType

LEMMA HoldingFinite ==
  ASSUME NEW table, NEW m
  PROVE  IsFiniteSet(Holding(table, m)) /\ Cardinality(Holding(table, m)) \in Nat
<1>1. IsFiniteSet(Entries \X SegSlots)
  BY EntriesAre, SlotsFinite, FS_Product
<1>2. Holding(table, m) \in SUBSET (Entries \X SegSlots)
  BY DEF Holding
<1>3. IsFiniteSet(Holding(table, m))
  BY <1>1, <1>2, FS_Subset
<1>4. QED
  BY <1>3, FS_CardinalityType

\* What is taken by the NIC and what is refused make up what was offered.
LEMMA CopiesSplit ==
  ASSUME NEW segs, NEW ks, IsFiniteSet(ks), NEW part \in SUBSET ks, NEW m
  PROVE  /\ Copies(segs, part, m) + Copies(segs, ks \ part, m) = Copies(segs, ks, m)
         /\ Copies(segs, part, m) \in Nat /\ Copies(segs, ks \ part, m) \in Nat
<1> DEFINE S == Places(segs, part, m)
           T == Places(segs, ks \ part, m)
           U == Places(segs, ks, m)
<1>1. IsFiniteSet(part) /\ IsFiniteSet(ks \ part)
  BY FS_Subset, FS_Difference
<1>2. /\ IsFiniteSet(S) /\ IsFiniteSet(T)
      /\ Copies(segs, part, m) \in Nat /\ Copies(segs, ks \ part, m) \in Nat
  BY <1>1, CopiesFinite
<1>3. S \cup T = U /\ S \cap T = {}
  BY DEF Places
<1>4. Copies(segs, part, m) = Cardinality(S) /\ Copies(segs, ks \ part, m) = Cardinality(T)
      /\ Copies(segs, ks, m) = Cardinality(U)
  BY <1>1, CopiesFinite
<1> HIDE DEF S, T, U
<1>5. Cardinality(U) = Cardinality(S) + Cardinality(T)
  <2>1. Cardinality(S \cup T) = Cardinality(S) + Cardinality(T) - Cardinality(S \cap T)
    BY <1>2, FS_Union
  <2>2. Cardinality(S \cap T) = 0
    BY <1>3, FS_EmptySet
  <2>3. Cardinality(S) \in Nat /\ Cardinality(T) \in Nat
    BY <1>2, <1>4
  <2>4. Cardinality(S \cup T) = Cardinality(U)
    BY <1>3, Zenon
  <2>5. QED
    BY <2>1, <2>2, <2>3, <2>4
<1>6. QED
  BY <1>2, <1>4, <1>5

\* Slot s, empty before, gets mbuf b.
LEMMA CopiesStore ==
  ASSUME NEW old, NEW new, NEW s \in SegSlots, NEW b, NEW m, m # 0,
         old[s].mbuf = 0, new[s].mbuf = b,
         \A j \in SegSlots : j # s => new[j].mbuf = old[j].mbuf
  PROVE  /\ m = b => Copies(new, SegSlots, m) = Copies(old, SegSlots, m) + 1
         /\ m # b => Copies(new, SegSlots, m) = Copies(old, SegSlots, m)
         /\ Copies(old, SegSlots, m) \in Nat
<1> DEFINE O == Places(old, SegSlots, m)
           N == Places(new, SegSlots, m)
<1>1. IsFiniteSet(O) /\ Copies(old, SegSlots, m) \in Nat
  BY SlotsFinite, CopiesFinite
<1>2. s \notin O
  BY DEF Places
<1>3. N = IF m = b THEN O \cup {s} ELSE O
  BY DEF Places
<1>4. Copies(old, SegSlots, m) = Cardinality(O) /\ Copies(new, SegSlots, m) = Cardinality(N)
  BY SlotsFinite, CopiesFinite
<1> HIDE DEF O, N
<1>5. Cardinality(O \cup {s}) = Cardinality(O) + 1
  BY <1>1, <1>2, FS_AddElement
<1>6. QED
  BY <1>1, <1>3, <1>4, <1>5

\* Slot s of entry e, empty before, gets mbuf b; all others keep theirs.
Fills(old, new, e, s, b) ==
  /\ Mb(old, e, s) = 0
  /\ \A i \in Entries, j \in SegSlots :
       Mb(new, i, j) = IF i = e /\ j = s THEN b ELSE Mb(old, i, j)

LEMMA HoldingStore ==
  ASSUME NEW old, NEW new, NEW e \in Entries, NEW s \in SegSlots, NEW b, NEW m, m # 0,
         Fills(old, new, e, s, b)
  PROVE  /\ m = b => Cardinality(Holding(new, m)) = Cardinality(Holding(old, m)) + 1
         /\ m # b => Cardinality(Holding(new, m)) = Cardinality(Holding(old, m))
<1>1. <<e, s>> \notin Holding(old, m)
  BY DEF Holding, Mb, Fills
<1>2. Holding(new, m) = IF m = b THEN Holding(old, m) \cup {<<e, s>>} ELSE Holding(old, m)
  <2>1. ASSUME NEW i \in Entries, NEW j \in SegSlots
        PROVE  /\ <<i, j>> \in Holding(new, m) <=> Mb(new, i, j) = m
               /\ <<i, j>> \in Holding(old, m) <=> Mb(old, i, j) = m
    BY <2>1 DEF Holding, Mb
  <2>2. ASSUME NEW i \in Entries, NEW j \in SegSlots
        PROVE  <<i, j>> \in Holding(new, m)
                 <=> <<i, j>> \in Holding(old, m) \/ (m = b /\ i = e /\ j = s)
    BY <2>1 DEF Fills
  <2>3. /\ Holding(new, m) \subseteq Entries \X SegSlots
        /\ Holding(old, m) \subseteq Entries \X SegSlots
    BY DEF Holding
  <2>4. QED
    BY <2>2, <2>3
<1>3. Cardinality(Holding(old, m) \cup {<<e, s>>}) = Cardinality(Holding(old, m)) + 1
  BY <1>1, HoldingFinite, FS_AddElement
<1>4. QED
  BY <1>2, <1>3, HoldingFinite

\* Entry e is cleared: as many slots stop holding m as the entry had copies.
LEMMA HoldingClear ==
  ASSUME NEW old, NEW new, NEW e \in Entries, NEW m, m # 0,
         \A i \in Entries, j \in SegSlots :
            Mb(new, i, j) = IF i = e THEN 0 ELSE Mb(old, i, j)
  PROVE  Cardinality(Holding(old, m))
           = Cardinality(Holding(new, m)) + Copies(old[e].segments, SegSlots, m)
<1> DEFINE J == Places(old[e].segments, SegSlots, m)
           P == {e} \X J
           H == Holding(old, m)
           K == Holding(new, m)
<1>1. IsFiniteSet(J)
  BY SlotsFinite, CopiesFinite
<1>2. IsFiniteSet({e}) /\ Cardinality({e}) = 1
  BY FS_Singleton
<1>3. IsFiniteSet(P) /\ Cardinality(P) = 1 * Cardinality(J)
  BY <1>1, <1>2, FS_Product
<1>4. ASSUME NEW i \in Entries, NEW j \in SegSlots
      PROVE  /\ <<i, j>> \in K <=> Mb(new, i, j) = m
             /\ <<i, j>> \in H <=> Mb(old, i, j) = m
             /\ <<i, j>> \in P <=> i = e /\ Mb(old, i, j) = m
  BY <1>4 DEF Holding, Mb, Places
<1>5. K \subseteq Entries \X SegSlots /\ H \subseteq Entries \X SegSlots
      /\ P \subseteq Entries \X SegSlots
  BY DEF Holding, Places
<1>6. Copies(old[e].segments, SegSlots, m) = Cardinality(J)
  BY SlotsFinite, CopiesFinite
<1>7. IsFiniteSet(K) /\ Cardinality(K) \in Nat /\ IsFiniteSet(H) /\ Cardinality(J) \in Nat
  BY <1>1, HoldingFinite, FS_CardinalityType
<1> HIDE DEF J, P, H, K
<1>8. ASSUME NEW i \in Entries, NEW j \in SegSlots
      PROVE  /\ <<i, j>> \in H <=> <<i, j>> \in K \/ <<i, j>> \in P
             /\ ~(<<i, j>> \in K /\ <<i, j>> \in P)
  BY <1>4
<1>9. H = K \cup P /\ K \cap P = {}
  BY <1>5, <1>8
<1>10. Cardinality(H) = Cardinality(K) + Cardinality(P)
  <2>1. Cardinality(K \cup P) = Cardinality(K) + Cardinality(P) - Cardinality(K \cap P)
    BY <1>3, <1>7, FS_Union
  <2>2. Cardinality(K \cap P) = 0
    BY <1>9, FS_EmptySet
  <2>3. Cardinality(P) \in Nat
    BY <1>3, FS_CardinalityType
  <2>4. QED
    BY <1>7, <1>9, <2>1, <2>2, <2>3
<1>11. QED
  BY <1>3, <1>6, <1>7, <1>10 DEF H, K

\* A packet stored moves its mbuf from the pool to a slot.
LEMMA StoreAccounted ==
  ASSUME IInv, hung = FALSE, NEW b \in Mbufs, pool \in [Mbufs -> Nat],
         \A m \in Mbufs : pool'[m] = IF m = b THEN pool[m] - 1 ELSE pool[m],
         NEW e \in Entries, NEW s \in SegSlots, Fills(writes, writes', e, s, b),
         nic' = nic, offered' = offered
  PROVE  MbufsAccounted'
<1> SUFFICES ASSUME NEW m \in Mbufs
             PROVE  pool'[m] + Cardinality(Holding(writes', m)) + nic'[m] = 1 + offered'[m]
  BY DEF MbufsAccounted
<1>1. m # 0
  BY ReassemblyAssumption
<1>2. /\ m = b => Cardinality(Holding(writes', m)) = Cardinality(Holding(writes, m)) + 1
      /\ m # b => Cardinality(Holding(writes', m)) = Cardinality(Holding(writes, m))
  BY <1>1, HoldingStore
<1>3. pool[m] + Cardinality(Holding(writes, m)) + nic[m] = 1 + offered[m]
  BY DEF IInv, MbufsAccounted
<1>4. /\ pool[m] \in Nat /\ nic[m] \in Nat /\ offered[m] \in Nat
      /\ Cardinality(Holding(writes, m)) \in Nat
  BY HoldingFinite DEF IInv, TypeOK
<1>5. QED
  BY <1>2, <1>3, <1>4

\* A write delivered puts the mbuf of each of its slots into the pool, and each
\* segment offered into the ring or, refused, into the pool once more.
Empties(e, s, b, c) ==
  /\ Mb(writes, e, s) = 0
  /\ c.segments[s].mbuf = b
  /\ \A j \in SegSlots : j # s => c.segments[j].mbuf = Mb(writes, e, j)
  /\ \A i \in Entries, j \in SegSlots :
       Mb(writes', i, j) = IF i = e THEN 0 ELSE Mb(writes, i, j)

Hands(b, c, segs, refused) ==
  \A m \in Mbufs :
    /\ pool'[m] = (IF m = b THEN pool[m] - 1 ELSE pool[m])
                    + Copies(segs, refused, m) + Copies(c.segments, SegSlots, m)
    /\ nic'[m] = nic[m] + Copies(segs, DOMAIN segs \ refused, m)
    /\ offered'[m] = offered[m] + Copies(segs, DOMAIN segs, m)

LEMMA DeliverAccounted ==
  ASSUME IInv, hung = FALSE, NEW b \in Mbufs, NEW c,
         NEW e \in Entries, NEW s \in SegSlots, Empties(e, s, b, c),
         NEW segs, IsFiniteSet(DOMAIN segs), NEW refused \in SUBSET DOMAIN segs,
         Hands(b, c, segs, refused)
  PROVE  MbufsAccounted'
<1> SUFFICES ASSUME NEW m \in Mbufs
             PROVE  pool'[m] + Cardinality(Holding(writes', m)) + nic'[m] = 1 + offered'[m]
  BY DEF MbufsAccounted
<1> DEFINE old  == writes[e].segments
           R    == Copies(segs, refused, m)
           A    == Copies(segs, DOMAIN segs \ refused, m)
           O    == Copies(segs, DOMAIN segs, m)
           K    == Copies(old, SegSlots, m)
           C    == Copies(c.segments, SegSlots, m)
           H    == Cardinality(Holding(writes, m))
           H2   == Cardinality(Holding(writes', m))
<1>1. m # 0
  BY ReassemblyAssumption
<1>2. R + A = O /\ R \in Nat /\ A \in Nat
  BY CopiesSplit
<1>3. (m = b => C = K + 1) /\ (m # b => C = K) /\ K \in Nat
  <2>1. /\ old[s].mbuf = 0 /\ c.segments[s].mbuf = b
        /\ \A j \in SegSlots : j # s => c.segments[j].mbuf = old[j].mbuf
    BY DEF Mb, Empties
  <2>2. QED
    BY <1>1, <2>1, CopiesStore
<1>4. H = H2 + K
  BY <1>1, HoldingClear DEF Empties
<1>5. H2 \in Nat
  BY HoldingFinite
<1>6. pool[m] + H + nic[m] = 1 + offered[m]
  BY DEF IInv, MbufsAccounted
<1>7. pool[m] \in Nat /\ nic[m] \in Nat /\ offered[m] \in Nat
  BY DEF IInv, TypeOK
<1>8. /\ pool'[m] = (IF m = b THEN pool[m] - 1 ELSE pool[m]) + R + C
      /\ nic'[m] = nic[m] + A /\ offered'[m] = offered[m] + O
  BY DEF Hands
<1> HIDE DEF R, A, O, K, C, H, H2
<1>9. pool'[m] + H2 + nic'[m] = 1 + offered'[m]
  <2>1. CASE m = b
    BY <1>2, <1>3, <1>4, <1>5, <1>6, <1>7, <1>8, <2>1
  <2>2. CASE m # b
    BY <1>2, <1>3, <1>4, <1>5, <1>6, <1>7, <1>8, <2>2
  <2>3. QED
    BY <2>1, <2>2
<1>10. QED
  BY <1>9 DEF H2

----------------------------------------------------------------------------
(* The table and its counter. *)

Claimed(table) == {i \in Entries : table[i].qpn # 0}

\* What the deliveries of QPN 0 have taken from active_write_count.
Unclaimed(batches) == IF 0 \in QPNs THEN Len(batches[0]) ELSE 0

\* The parts of TableExact about the entries alone.
EntriesExact ==
  /\ \A i \in Entries :
       /\ writes[i].segment_count = Cardinality(ReceivedSlots(writes[i]))
       /\ writes[i].qpn # 0 => writes[i].segment_count > 0
  /\ \A i, j \in Entries : writes[i].qpn # 0 /\ writes[i].qpn = writes[j].qpn => i = j

LEMMA TableIs ==
  TableExact <=> /\ EntriesExact
                 /\ active = (Cardinality(Claimed(writes)) - Unclaimed(delivered)) % UINT_MOD
  BY DEF TableExact, EntriesExact, Claimed, Unclaimed

LEMMA ClaimedFinite ==
  ASSUME NEW table
  PROVE  IsFiniteSet(Claimed(table)) /\ Cardinality(Claimed(table)) \in Nat
<1>1. IsFiniteSet(Claimed(table))
  BY EntriesAre, FS_Subset DEF Claimed
<1>2. QED
  BY <1>1, FS_CardinalityType

\* One entry is written.
LEMMA EntryStep ==
  ASSUME IInv, NEW e \in Entries, NEW c \in Context, Sound(c), ~Complete(c),
         c.qpn # 0 => /\ c.segment_count > 0
                      /\ \A i \in Entries : i # e => writes[i].qpn # c.qpn,
         writes' = [writes EXCEPT ![e] = c]
  PROVE  /\ writes' \in [Entries -> Context]
         /\ Contexts'
         /\ EntriesExact'
<1>1. writes \in [Entries -> Context]
  BY DEF IInv, TypeOK, Context
<1>2. \A i \in Entries : writes'[i] = IF i = e THEN c ELSE writes[i]
  BY <1>1
<1>3. writes' \in [Entries -> Context]
  BY <1>1
<1>4. Contexts'
  BY <1>2 DEF IInv, Contexts
<1>5. EntriesExact
  BY TableIs DEF IInv
<1>6. \A i \in Entries : /\ writes'[i].segment_count = Cardinality(ReceivedSlots(writes'[i]))
                         /\ writes'[i].qpn # 0 => writes'[i].segment_count > 0
  BY <1>2, <1>5 DEF EntriesExact, Sound, CountExact
<1>7. ASSUME NEW i \in Entries, NEW j \in Entries,
             writes'[i].qpn # 0, writes'[i].qpn = writes'[j].qpn
      PROVE  i = j
  <2>1. CASE i = e
    BY <1>2, <1>7, <2>1
  <2>2. CASE i # e /\ j = e
    BY <1>2, <1>7, <2>2
  <2>3. CASE i # e /\ j # e
    BY <1>2, <1>5, <1>7, <2>3 DEF EntriesExact
  <2>4. QED
    BY <2>1, <2>2, <2>3
<1>8. QED
  BY <1>3, <1>4, <1>6, <1>7 DEF EntriesExact

LEMMA ClaimedStep ==
  ASSUME NEW e \in Entries, NEW c, NEW table, NEW after,
         \A i \in Entries : after[i] = IF i = e THEN c ELSE table[i]
  PROVE  /\ (table[e].qpn # 0 <=> c.qpn # 0) =>
              Cardinality(Claimed(after)) = Cardinality(Claimed(table))
         /\ table[e].qpn = 0 /\ c.qpn # 0 =>
              Cardinality(Claimed(after)) = Cardinality(Claimed(table)) + 1
         /\ table[e].qpn # 0 /\ c.qpn = 0 =>
              Cardinality(Claimed(after)) = Cardinality(Claimed(table)) - 1
<1> DEFINE A == Claimed(after)
           T == Claimed(table)
<1>1. \A i \in Entries : after[i] = IF i = e THEN c ELSE table[i]
  OBVIOUS
<1>2. IsFiniteSet(A) /\ IsFiniteSet(T) /\ Cardinality(A) \in Nat /\ Cardinality(T) \in Nat
  BY ClaimedFinite
<1>3. CASE table[e].qpn # 0 <=> c.qpn # 0
  <2>1. A = T
    BY <1>1, <1>3 DEF Claimed
  <2>2. QED
    BY <1>3, <2>1
<1>4. CASE table[e].qpn = 0 /\ c.qpn # 0
  <2>1. A = T \cup {e} /\ e \notin T
    BY <1>1, <1>4 DEF Claimed
  <2> HIDE DEF A, T
  <2>2. Cardinality(A) = Cardinality(T) + 1
    BY <1>2, <2>1, FS_AddElement
  <2>3. QED
    BY <1>4, <2>2 DEF A, T
<1>5. CASE table[e].qpn # 0 /\ c.qpn = 0
  <2>1. T = A \cup {e} /\ e \notin A
    BY <1>1, <1>5 DEF Claimed
  <2> HIDE DEF A, T
  <2>2. Cardinality(T) = Cardinality(A) + 1
    BY <1>2, <2>1, FS_AddElement
  <2>3. Cardinality(A) = Cardinality(T) - 1
    BY <1>2, <2>2
  <2>4. QED
    BY <1>5, <2>3 DEF A, T
<1>6. QED
  BY <1>3, <1>4, <1>5

\* The counter modulo 2^32.
LEMMA ActiveIs ==
  ASSUME IInv
  PROVE  LET x == Cardinality(Claimed(writes)) - Unclaimed(delivered)
         IN  /\ x \in Int
             /\ UINT_MOD \in Nat /\ UINT_MOD > 0
             /\ active = x % UINT_MOD
             /\ (active + 1) % UINT_MOD = (x + 1) % UINT_MOD
             /\ (active - 1) % UINT_MOD = (x - 1) % UINT_MOD
             /\ (((active + 1) % UINT_MOD) - 1) % UINT_MOD = active
<1> DEFINE x == Cardinality(Claimed(writes)) - Unclaimed(delivered)
<1>1. UINT_MOD \in Nat /\ UINT_MOD > 0
  BY ReassemblyAssumption
<1>2. Unclaimed(delivered) \in Nat
  <2>1. CASE 0 \in QPNs
    <3>1. delivered[0] \in Seq(Seq(Packet))
      BY <2>1 DEF IInv, DeliveredType
    <3>2. QED
      BY <2>1, <3>1 DEF Unclaimed
  <2>2. CASE 0 \notin QPNs
    BY <2>2 DEF Unclaimed
  <2>3. QED
    BY <2>1, <2>2
<1>3. x \in Int
  BY <1>2, ClaimedFinite
<1>4. active = x % UINT_MOD
  BY TableIs DEF IInv
<1> HIDE DEF x
<1>5. active \in 0 .. UINT_MOD - 1
  BY DEF IInv, TypeOK
<1>6. (active + 1) % UINT_MOD = (x + 1) % UINT_MOD
  <2>1. 1 \in Int
    OBVIOUS
  <2>2. QED
    BY <1>1, <1>3, <1>4, <2>1, ModPlus, Zenon
<1>7. (active - 1) % UINT_MOD = (x - 1) % UINT_MOD
  <2>1. ((x % UINT_MOD) + (-1)) % UINT_MOD = (x + (-1)) % UINT_MOD
    <3>1. -1 \in Int
      OBVIOUS
    <3>2. QED
      BY <1>1, <1>3, <3>1, ModPlus, Zenon
  <2>2. active + (-1) = active - 1 /\ x + (-1) = x - 1
    BY <1>1, <1>3, <1>5
  <2>3. QED
    BY <1>4, <2>1, <2>2
<1>8. (((active + 1) % UINT_MOD) - 1) % UINT_MOD = active
  BY <1>1, <1>5
<1>9. QED
  BY <1>1, <1>3, <1>4, <1>6, <1>7, <1>8 DEF x

----------------------------------------------------------------------------
(* What the gateway says. *)

OutType == [qpn: QPNs \cup {NONE}, added: BOOLEAN,
            nack: PSN \cup {NONE}, ack: PSN \cup {NONE}, live: BOOLEAN]

LEMMA SilentType == Silent \in OutType
  BY DEF Silent, OutType

LEMMA SaidIs ==
  ASSUME IInv, NEW q \in QPNs, NEW n \in DOMAIN Stream[q], NEW buf \in Mbufs,
         ReceiveSegment(q, n, buf)
  PROVE  /\ Said(q, n, buf) \in OutType
         /\ Said(q, n, buf).qpn = q /\ Said(q, n, buf).ack = NONE
         /\ Said(q, n, buf).nack = NackOf(New(q, n, buf))
<1>1. NackOf(New(q, n, buf)) \in PSN \cup {NONE}
  BY NewIs
<1>2. Said(q, n, buf) \in OutType
  BY <1>1, SilentType, Zenon DEF Said, OutType
<1>3. QED
  BY <1>2 DEF Said, Silent

LEMMA AnswerIs ==
  ASSUME NEW said \in OutType, NEW psn \in PSN, NEW live \in BOOLEAN
  PROVE  LET answer == [said EXCEPT !.ack = psn, !.live = live]
         IN  /\ answer \in OutType
             /\ answer.qpn = said.qpn /\ answer.nack = said.nack /\ answer.ack = psn
<1>1. [said EXCEPT !.ack = psn, !.live = live] \in OutType
  BY Zenon DEF OutType
<1>2. QED
  BY <1>1 DEF OutType

----------------------------------------------------------------------------
(* The invariant is inductive. *)

LEMMA InitIInv == Init => IInv
<1> SUFFICES ASSUME Init PROVE IInv
  OBVIOUS
<1>1. \A i \in Entries : writes[i] = EmptyWrite
  BY DEF Init
<1>2. /\ EmptyWrite \in Context /\ Sound(EmptyWrite) /\ ~Complete(EmptyWrite)
      /\ EmptyWrite.qpn = 0 /\ EmptyWrite.segment_count = 0
      /\ \A j \in SegSlots : EmptyWrite.segments[j].mbuf = 0
  BY EmptyIs DEF Context
<1>3. TypeOK
  <2>1. writes \in [Entries -> Context]
    BY <1>2 DEF Init
  <2>2. active \in 0 .. UINT_MOD - 1 /\ rx \in 0 .. MaxRx
    BY ReassemblyAssumption DEF Init
  <2>3. out \in OutType
    BY SilentType DEF Init
  <2>4. pool \in [Mbufs -> Nat] /\ nic \in [Mbufs -> Nat] /\ offered \in [Mbufs -> Nat]
    BY DEF Init
  <2>5. lock \in Locks /\ hung \in BOOLEAN
    BY DEF Init
  <2>6. QED
    BY <2>1, <2>2, <2>3, <2>4, <2>5 DEF TypeOK, Context, OutType
<1>4. Contexts
  BY <1>1, <1>2 DEF Contexts
<1>5. DeliveredType
  BY DEF Init, DeliveredType
<1>6. EntriesExact
  BY <1>1, <1>2 DEF EntriesExact, Sound, CountExact
<1>7. active = (Cardinality(Claimed(writes)) - Unclaimed(delivered)) % UINT_MOD
  <2>1. Claimed(writes) = {}
    BY <1>1, <1>2 DEF Claimed
  <2>2. Cardinality(Claimed(writes)) = 0
    BY <2>1, FS_EmptySet
  <2>3. Unclaimed(delivered) = 0
    BY DEF Init, Unclaimed
  <2>4. 0 % UINT_MOD = 0
    BY ReassemblyAssumption
  <2>5. active = 0
    BY DEF Init
  <2>6. QED
    BY <2>2, <2>3, <2>4, <2>5
<1>8. TableExact
  BY <1>6, <1>7, TableIs
<1>9. MbufsAccounted
  <2>1. ASSUME NEW m \in Mbufs PROVE Cardinality(Holding(writes, m)) = 0
    <3>1. \A i \in Entries, j \in SegSlots : Mb(writes, i, j) # m
      BY <1>1, <1>2, ReassemblyAssumption DEF Mb
    <3>2. Holding(writes, m) = {}
      BY <3>1 DEF Holding, Mb
    <3>3. QED
      BY <3>2, FS_EmptySet
  <2>2. QED
    BY <2>1 DEF Init, MbufsAccounted
<1>10. QED
  BY <1>3, <1>4, <1>5, <1>8, <1>9 DEF IInv

\* A segment that does not complete its write stays.
LEMMA KeepStep ==
  ASSUME IInv, NEW q \in QPNs, NEW n \in DOMAIN Stream[q], NEW buf \in Mbufs,
         ReceiveSegment(q, n, buf),
         ~Complete(New(q, n, buf))
  PROVE  IInv'
<1> DEFINE e == At(q)
           c == New(q, n, buf)
<1>1. /\ writes' = [writes EXCEPT ![e] = c]
      /\ active' = Count(q)
      /\ pool' = Take(buf)
      /\ out' = Said(q, n, buf)
      /\ nic' = nic /\ offered' = offered /\ delivered' = delivered
      /\ lock' = lock /\ hung' = hung
  BY SegmentIs DEF Conclude, Keep
<1>2. e \in Entries /\ Arrive(q, n, buf)
  BY SegmentIs
<1>3. /\ c \in Context /\ Sound(c) /\ c.qpn = q /\ c.segment_count > 0
  BY NewIs
<1>4. \A i \in Entries : i # e => writes[i].qpn # q \/ q = 0
  <2>1. CASE Known(q)
    <3>1. writes[e].qpn = q
      BY <2>1, SegmentIs
    <3>2. QED
      BY <1>2, <3>1 DEF IInv, TableExact
  <2>2. CASE ~Known(q)
    BY <2>2, SegmentIs
  <2>3. QED
    BY <2>1, <2>2
<1> HIDE DEF e, c
<1>5. writes' \in [Entries -> Context] /\ Contexts' /\ EntriesExact'
  <2>1. ~Complete(c)
    BY DEF c
  <2>2. QED
    BY <1>1, <1>2, <1>3, <1>4, <2>1, EntryStep
<1>6. /\ rx' \in 0 .. MaxRx /\ hung = FALSE /\ pool \in [Mbufs -> Nat]
      /\ Take(buf) \in [Mbufs -> Nat]
      /\ \A m \in Mbufs : Take(buf)[m] = IF m = buf THEN pool[m] - 1 ELSE pool[m]
  BY <1>2, ArriveIs
<1>7. MbufsAccounted'
  <2>1. PICK s \in SegSlots :
          /\ Old(q, n).segments[s].mbuf = 0
          /\ New(q, n, buf).segments[s].mbuf = buf
          /\ \A j \in SegSlots : j # s =>
               New(q, n, buf).segments[j].mbuf = Old(q, n).segments[j].mbuf
    BY NewIs
  <2>2. \A j \in SegSlots : Old(q, n).segments[j].mbuf = writes[e].segments[j].mbuf
    BY SegmentIs DEF e
  <2>3. DOMAIN writes = Entries
    BY DEF IInv, TypeOK
  <2>4. \A i \in Entries : writes'[i] = IF i = e THEN c ELSE writes[i]
    BY <1>1, <2>3
  <2>5. \A i \in Entries, j \in SegSlots :
           Mb(writes', i, j) = IF i = e /\ j = s THEN buf ELSE Mb(writes, i, j)
    BY <2>1, <2>2, <2>4 DEF Mb, c
  <2>6. Mb(writes, e, s) = 0
    BY <2>1, <2>2 DEF Mb
  <2>7. \A m \in Mbufs : pool'[m] = IF m = buf THEN pool[m] - 1 ELSE pool[m]
    BY <1>1, <1>6
  <2>8. Fills(writes, writes', e, s, buf)
    BY <2>5, <2>6 DEF Fills
  <2>9. QED
    BY <1>1, <1>2, <1>6, <2>7, <2>8, StoreAccounted
<1>8. active' = (Cardinality(Claimed(writes')) - Unclaimed(delivered')) % UINT_MOD
      /\ active' \in 0 .. UINT_MOD - 1
  <2> DEFINE x == Cardinality(Claimed(writes)) - Unclaimed(delivered)
             k == Cardinality(Claimed(writes))
             k2 == Cardinality(Claimed(writes'))
             u == Unclaimed(delivered)
  <2>1. /\ x \in Int /\ UINT_MOD \in Nat /\ UINT_MOD > 0
        /\ active = x % UINT_MOD
        /\ (active + 1) % UINT_MOD = (x + 1) % UINT_MOD
    BY ActiveIs
  <2>2. DOMAIN writes = Entries
    BY DEF IInv, TypeOK
  <2>3. /\ (writes[e].qpn # 0 <=> c.qpn # 0) => k2 = k
        /\ writes[e].qpn = 0 /\ c.qpn # 0 => k2 = k + 1
    <3>1. e \in Entries /\ \A i \in Entries : writes'[i] = IF i = e THEN c ELSE writes[i]
      BY <1>1, <1>2, <2>2
    <3>2. QED
      BY <3>1, ClaimedStep
  <2>4. k \in Nat /\ k2 \in Nat
    BY ClaimedFinite
  <2>5. CASE Known(q)
    <3>1. writes[e].qpn = q /\ active' = active
      BY <1>1, <2>5, SegmentIs DEF e, Count
    <3>2. active \in 0 .. UINT_MOD - 1
      BY DEF IInv, TypeOK
    <3>3. k2 = k
      BY <1>3, <2>3, <3>1
    <3>4. QED
      BY <1>1, <2>1, <3>1, <3>2, <3>3
  <2>6. CASE ~Known(q)
    <3>1. writes[e].qpn = 0 /\ writes[e].qpn # q /\ active' = (active + 1) % UINT_MOD
      BY <1>1, <1>2, <2>6, SegmentIs DEF e, Count
    <3>2. k2 = k + 1
      BY <1>3, <2>3, <3>1
    <3>3. u \in Int
      <4>1. delivered \in [QPNs -> Seq(Seq(Packet))]
        BY DEF IInv, DeliveredType
      <4>2. QED
        BY <4>1 DEF Unclaimed
    <3> HIDE DEF k, k2, u
    <3>4. k2 - u = x + 1
      BY <2>4, <3>2, <3>3 DEF k, u
    <3> HIDE DEF x
    <3>5. (x + 1) % UINT_MOD \in 0 .. UINT_MOD - 1
      BY <2>1
    <3>6. QED
      BY <1>1, <2>1, <3>1, <3>4, <3>5 DEF k2, u
  <2>7. QED
    BY <2>5, <2>6
<1>9. TableExact'
  <2>1. TableExact' <=> /\ EntriesExact'
                        /\ active' = (Cardinality(Claimed(writes')) - Unclaimed(delivered')) % UINT_MOD
    BY DEF TableExact, EntriesExact, Claimed, Unclaimed
  <2>2. QED
    BY <1>5, <1>8, <2>1
<1>10. TypeOK'
  <2>1. pool' \in [Mbufs -> Nat]
    BY <1>1, <1>6
  <2>2. out' \in OutType
    BY <1>1, SaidIs
  <2>3. /\ lock' \in Locks /\ nic' \in [Mbufs -> Nat] /\ offered' \in [Mbufs -> Nat]
        /\ hung' \in BOOLEAN
    BY <1>1 DEF IInv, TypeOK
  <2>4. QED
    BY <1>5, <1>6, <1>8, <2>1, <2>2, <2>3 DEF TypeOK, Context, OutType
<1>11. DeliveredType'
  BY <1>1 DEF IInv, DeliveredType
<1>12. QED
  BY <1>5, <1>7, <1>9, <1>10, <1>11 DEF IInv

\* What a complete write hands to the LAN.
Segs(q, n, buf) == jb_get_ordered_segs(New(q, n, buf))
Batch(q, n, buf, refused) ==
  [k \in DOMAIN Segs(q, n, buf) |->
     [psn |-> Segs(q, n, buf)[k].psn, seg |-> Segs(q, n, buf)[k].segment_type,
      sent |-> k \notin refused]]

LEMMA BatchIs ==
  ASSUME IInv, NEW q \in QPNs, NEW n \in DOMAIN Stream[q], NEW buf \in Mbufs,
         ReceiveSegment(q, n, buf),
         Complete(New(q, n, buf)), NEW refused
  PROVE  /\ IsFiniteSet(DOMAIN Segs(q, n, buf))
         /\ Batch(q, n, buf, refused) \in Seq(Packet)
         /\ \E k \in DOMAIN Batch(q, n, buf, refused) :
              Batch(q, n, buf, refused)[k].psn = PsnAt(q, n)
<1> DEFINE c == New(q, n, buf)
<1>1. c \in Context /\ Sound(c) /\ Complete(c)
  BY NewIs
<1>2. /\ \A j \in SegSlots : c.segments[j] \in jb_segment_t(Mbufs)
      /\ EndSeen(c) /\ SlotsSound(c)
  BY <1>1 DEF Context, jb_write_context_t, Sound
<1> HIDE DEF c
<1>3. PICK w \in 1 .. JB_MAX_SEGMENTS :
        /\ Walk(c) = 0 .. w - 1
        /\ jb_get_ordered_segs(c) = [k \in 1 .. w |-> c.segments[k - 1]]
        /\ \A j \in 0 .. w - 1 : /\ c.segments[j].state = "RECEIVED"
                                 /\ EndsWrite(c.segments[j].segment_type) <=> j = w - 1
  BY <1>1, <1>2, OrderedIs
<1>4. Segs(q, n, buf) = [k \in 1 .. w |-> c.segments[k - 1]]
  BY <1>3 DEF Segs, c
<1>5. w \in Nat /\ \A k \in 1 .. w : k - 1 \in SegSlots /\ k - 1 \in 0 .. w - 1
  BY JbBasics DEF SegSlots
<1>6. ASSUME NEW k \in 1 .. w
      PROVE  /\ Segs(q, n, buf)[k] = c.segments[k - 1]
             /\ Segs(q, n, buf)[k] \in jb_segment_t(Mbufs)
             /\ Segs(q, n, buf)[k].mbuf # 0
  <2>1. k - 1 \in SegSlots /\ k - 1 \in 0 .. w - 1
    BY <1>5
  <2>2. Segs(q, n, buf)[k] = c.segments[k - 1]
    BY <1>4
  <2>3. c.segments[k - 1] \in jb_segment_t(Mbufs) /\ c.segments[k - 1].state = "RECEIVED"
    BY <1>2, <1>3, <2>1
  <2>4. c.segments[k - 1].mbuf # 0
    BY <1>2, <2>1, <2>3 DEF SlotsSound
  <2>5. QED
    BY <2>2, <2>3, <2>4
<1>7. DOMAIN Segs(q, n, buf) = 1 .. w
  BY <1>4
<1>8. IsFiniteSet(DOMAIN Segs(q, n, buf))
  BY <1>5, <1>7, FS_Interval
<1>9. Batch(q, n, buf, refused) \in Seq(Packet)
  <2>1. \A k \in 1 .. w : [psn |-> Segs(q, n, buf)[k].psn, seg |-> Segs(q, n, buf)[k].segment_type,
                           sent |-> k \notin refused] \in Packet
    BY <1>6 DEF jb_segment_t, Packet
  <2>2. Batch(q, n, buf, refused) \in [1 .. w -> Packet]
    BY <1>7, <2>1 DEF Batch
  <2>3. QED
    BY <1>5, <2>2
<1>10. \E k \in DOMAIN Segs(q, n, buf) : Segs(q, n, buf)[k].psn = PsnAt(q, n)
  <2> DEFINE psn == PsnAt(q, n)
             seg == Stream[q][n]
             old == Old(q, n)
  <2>1. /\ old \in jb_write_context_t(QPNs, Mbufs) /\ Sound(old) /\ ~Complete(old)
        /\ ~Received(old, psn) /\ Arrive(q, n, buf)
    BY SegmentIs DEF Context
  <2>2. psn \in PSN /\ seg \in SegTypes
    BY InputTypes
  <2>3. buf \in Mbufs /\ buf # 0
    BY <2>1, ArriveIs
  <2> HIDE DEF psn, seg, old
  <2>4. New(q, n, buf) = jb_add_seg(old, psn, seg, buf)
    BY DEF New, psn, seg, old
  <2>5. Complete(jb_add_seg(old, psn, seg, buf))
    BY <2>4
  <2>6. \E k \in DOMAIN jb_get_ordered_segs(jb_add_seg(old, psn, seg, buf)) :
           jb_get_ordered_segs(jb_add_seg(old, psn, seg, buf))[k].psn = psn
    BY <2>1, <2>2, <2>3, <2>5, AddedIsDelivered
  <2>7. QED
    BY <2>4, <2>6 DEF Segs, psn
<1>11. QED
  BY <1>8, <1>9, <1>10 DEF Batch, c

\* The step of a segment that completes its write.
Delivery(q, n, buf, refused) ==
  /\ writes' = [writes EXCEPT ![At(q)] = EmptyWrite]
  /\ active' = (Count(q) - 1) % UINT_MOD
  /\ pool' = [m \in Mbufs |-> Take(buf)[m] + Copies(Segs(q, n, buf), refused, m)
                                 + Copies(New(q, n, buf).segments, SegSlots, m)]
  /\ nic' = [m \in Mbufs |-> nic[m]
                + Copies(Segs(q, n, buf), DOMAIN Segs(q, n, buf) \ refused, m)]
  /\ offered' = [m \in Mbufs |-> offered[m]
                    + Copies(Segs(q, n, buf), DOMAIN Segs(q, n, buf), m)]
  /\ delivered' = [delivered EXCEPT ![q] = Append(@, Batch(q, n, buf, refused))]
  /\ out' = [Said(q, n, buf) EXCEPT !.ack = PsnAt(q, n), !.live = pool'[buf] = 0]
  /\ lock' = lock /\ hung' = hung

LEMMA DeliveryIs ==
  ASSUME IInv, NEW q \in QPNs, NEW n \in DOMAIN Stream[q], NEW buf \in Mbufs,
         ReceiveSegment(q, n, buf), Complete(New(q, n, buf))
  PROVE  \E refused \in SUBSET DOMAIN Segs(q, n, buf) : Delivery(q, n, buf, refused)
<1>1. New(q, n, buf).qpn = q
  BY NewIs
<1>2. /\ Deliver(At(q), New(q, n, buf), PsnAt(q, n), buf, Count(q), Take(buf), Said(q, n, buf))
      /\ lock' = lock /\ hung' = hung
  BY SegmentIs DEF Conclude
<1>3. QED
  BY <1>1, <1>2 DEF Deliver, Segs, Batch, Delivery

\* A segment that completes its write sends it to the LAN.
LEMMA DeliverStep ==
  ASSUME IInv, NEW q \in QPNs, NEW n \in DOMAIN Stream[q], NEW buf \in Mbufs,
         ReceiveSegment(q, n, buf),
         Complete(New(q, n, buf))
  PROVE  IInv'
<1> DEFINE e == At(q)
           c == New(q, n, buf)
           segs == Segs(q, n, buf)
<1>1. PICK refused \in SUBSET DOMAIN segs : Delivery(q, n, buf, refused)
  BY DeliveryIs
<1>1a. /\ writes' = [writes EXCEPT ![e] = EmptyWrite]
       /\ active' = (Count(q) - 1) % UINT_MOD
       /\ pool' = [m \in Mbufs |-> Take(buf)[m] + Copies(segs, refused, m)
                                      + Copies(c.segments, SegSlots, m)]
       /\ nic' = [m \in Mbufs |-> nic[m] + Copies(segs, DOMAIN segs \ refused, m)]
       /\ offered' = [m \in Mbufs |-> offered[m] + Copies(segs, DOMAIN segs, m)]
       /\ delivered' = [delivered EXCEPT ![q] = Append(@, Batch(q, n, buf, refused))]
       /\ out' = [Said(q, n, buf) EXCEPT !.ack = PsnAt(q, n), !.live = pool'[buf] = 0]
       /\ lock' = lock /\ hung' = hung
  BY <1>1, Zenon DEF Delivery
<1>2. e \in Entries /\ Arrive(q, n, buf)
  BY SegmentIs
<1>3. IsFiniteSet(DOMAIN segs) /\ Batch(q, n, buf, refused) \in Seq(Packet)
  BY BatchIs
<1>4. /\ EmptyWrite \in Context /\ Sound(EmptyWrite) /\ ~Complete(EmptyWrite)
      /\ EmptyWrite.qpn = 0
      /\ \A j \in SegSlots : EmptyWrite.segments[j].mbuf = 0
  BY EmptyIs DEF Context
<1>5. /\ rx' \in 0 .. MaxRx /\ hung = FALSE /\ pool \in [Mbufs -> Nat]
      /\ Take(buf) \in [Mbufs -> Nat]
      /\ \A m \in Mbufs : Take(buf)[m] = IF m = buf THEN pool[m] - 1 ELSE pool[m]
  BY <1>2, ArriveIs
<1>6. DOMAIN writes = Entries /\ delivered \in [QPNs -> Seq(Seq(Packet))]
  BY DEF IInv, TypeOK, DeliveredType
<1>7. \A i \in Entries : writes'[i] = IF i = e THEN EmptyWrite ELSE writes[i]
  BY <1>1a, <1>6
<1>8. PICK s \in SegSlots :
        /\ Mb(writes, e, s) = 0
        /\ c.segments[s].mbuf = buf
        /\ \A j \in SegSlots : j # s => c.segments[j].mbuf = Mb(writes, e, j)
  <2>1. PICK s \in SegSlots :
          /\ Old(q, n).segments[s].mbuf = 0
          /\ c.segments[s].mbuf = buf
          /\ \A j \in SegSlots : j # s =>
               c.segments[j].mbuf = Old(q, n).segments[j].mbuf
    BY NewIs
  <2>2. \A j \in SegSlots : Old(q, n).segments[j].mbuf = Mb(writes, e, j)
    BY SegmentIs DEF Mb
  <2> HIDE DEF c, e
  <2>3. QED
    BY <2>1, <2>2
<1> HIDE DEF e, c, segs
<1>9. writes' \in [Entries -> Context] /\ Contexts' /\ EntriesExact'
  BY <1>1a, <1>2, <1>4, EntryStep
<1>10. MbufsAccounted'
  <2>1. \A i \in Entries, j \in SegSlots :
           Mb(writes', i, j) = IF i = e THEN 0 ELSE Mb(writes, i, j)
    BY <1>4, <1>7 DEF Mb
  <2>2. \A m \in Mbufs :
           /\ pool'[m] = (IF m = buf THEN pool[m] - 1 ELSE pool[m])
                           + Copies(segs, refused, m) + Copies(c.segments, SegSlots, m)
           /\ nic'[m] = nic[m] + Copies(segs, DOMAIN segs \ refused, m)
           /\ offered'[m] = offered[m] + Copies(segs, DOMAIN segs, m)
    BY <1>1a, <1>5
  <2>3. refused \in SUBSET DOMAIN segs
    BY <1>1
  <2>4. Empties(e, s, buf, c) /\ Hands(buf, c, segs, refused)
    BY <1>8, <2>1, <2>2 DEF Empties, Hands
  <2>5. QED
    BY <1>2, <1>3, <1>5, <1>8, <2>3, <2>4, DeliverAccounted
<1>11. DeliveredType'
  BY <1>1a, <1>3, <1>6 DEF DeliveredType
<1>12. /\ 0 \in QPNs /\ q = 0 => Unclaimed(delivered') = Unclaimed(delivered) + 1
       /\ q # 0 => Unclaimed(delivered') = Unclaimed(delivered)
  <2>1. CASE 0 \in QPNs /\ q = 0
    <3>1. delivered'[0] = Append(delivered[0], Batch(q, n, buf, refused))
      BY <1>1a, <1>6, <2>1
    <3>2. delivered[0] \in Seq(Seq(Packet))
      BY <1>6, <2>1
    <3>3. QED
      BY <1>3, <2>1, <3>1, <3>2 DEF Unclaimed
  <2>2. CASE q # 0
    BY <1>1a, <1>6, <2>2 DEF Unclaimed
  <2>3. QED
    BY <2>1, <2>2
<1>13. active' = (Cardinality(Claimed(writes')) - Unclaimed(delivered')) % UINT_MOD
       /\ active' \in 0 .. UINT_MOD - 1
  <2> DEFINE x == Cardinality(Claimed(writes)) - Unclaimed(delivered)
             k == Cardinality(Claimed(writes))
             k2 == Cardinality(Claimed(writes'))
             u == Unclaimed(delivered)
             u2 == Unclaimed(delivered')
  <2>1. /\ x \in Int /\ UINT_MOD \in Nat /\ UINT_MOD > 0
        /\ active = x % UINT_MOD
        /\ (active - 1) % UINT_MOD = (x - 1) % UINT_MOD
        /\ (((active + 1) % UINT_MOD) - 1) % UINT_MOD = active
    BY ActiveIs
  <2>2. /\ writes[e].qpn = 0 => k2 = k
        /\ writes[e].qpn # 0 => k2 = k - 1
    BY <1>2, <1>4, <1>7, ClaimedStep
  <2>3. k \in Nat /\ k2 \in Nat
    BY ClaimedFinite
  <2>4. u \in Int
    BY <1>6 DEF Unclaimed
  <2>5. active \in 0 .. UINT_MOD - 1
    BY DEF IInv, TypeOK
  <2> HIDE DEF k, k2, u, u2
  <2>6. CASE Known(q)
    <3>1. writes[e].qpn = q /\ active' = (active - 1) % UINT_MOD
      BY <1>1a, <2>6, SegmentIs DEF e, Count
    <3>2. k2 - u2 = (k - u) - 1
      BY <1>12, <2>2, <2>3, <2>4, <3>1 DEF u, u2
    <3>3. k2 - u2 = x - 1
      BY <3>2 DEF k, u
    <3> HIDE DEF x
    <3>4. (x - 1) % UINT_MOD \in 0 .. UINT_MOD - 1
      BY <2>1
    <3>5. active' = (k2 - u2) % UINT_MOD /\ active' \in 0 .. UINT_MOD - 1
      BY <2>1, <3>1, <3>3, <3>4
    <3>6. QED
      BY <3>5 DEF k2, u2
  <2>7. CASE ~Known(q)
    <3>1. writes[e].qpn = 0 /\ writes[e].qpn # q
          /\ active' = (((active + 1) % UINT_MOD) - 1) % UINT_MOD
      BY <1>1a, <1>2, <2>7, SegmentIs DEF e, Count
    <3>2. k2 - u2 = x
      BY <1>12, <2>2, <3>1 DEF u, u2, k
    <3>3. QED
      BY <2>1, <2>5, <3>1, <3>2 DEF k2, u2
  <2>8. QED
    BY <2>6, <2>7
<1>14. TableExact'
  <2>1. TableExact' <=> /\ EntriesExact'
                        /\ active' = (Cardinality(Claimed(writes')) - Unclaimed(delivered')) % UINT_MOD
    BY DEF TableExact, EntriesExact, Claimed, Unclaimed
  <2>2. QED
    BY <1>9, <1>13, <2>1
<1>15. TypeOK'
  <2>1. ASSUME NEW m \in Mbufs
        PROVE  /\ Copies(segs, refused, m) \in Nat /\ Copies(c.segments, SegSlots, m) \in Nat
               /\ Copies(segs, DOMAIN segs \ refused, m) \in Nat
               /\ Copies(segs, DOMAIN segs, m) \in Nat
    <3>1. refused \in SUBSET DOMAIN segs
      BY <1>1
    <3>2. QED
      BY <1>3, <3>1, SlotsFinite, CopiesFinite, CopiesSplit
  <2>2. pool' \in [Mbufs -> Nat] /\ nic' \in [Mbufs -> Nat] /\ offered' \in [Mbufs -> Nat]
    <3>1. nic \in [Mbufs -> Nat] /\ offered \in [Mbufs -> Nat]
      BY DEF IInv, TypeOK
    <3>2. \A m \in Mbufs : /\ Take(buf)[m] \in Nat /\ nic[m] \in Nat /\ offered[m] \in Nat
      BY <1>5, <3>1
    <3>3. \A m \in Mbufs :
             /\ Take(buf)[m] + Copies(segs, refused, m) + Copies(c.segments, SegSlots, m) \in Nat
             /\ nic[m] + Copies(segs, DOMAIN segs \ refused, m) \in Nat
             /\ offered[m] + Copies(segs, DOMAIN segs, m) \in Nat
      BY <2>1, <3>2
    <3>4. QED
      BY <1>1a, <3>3, Zenon
  <2>3. out' \in OutType
    <3>1. Said(q, n, buf) \in OutType /\ PsnAt(q, n) \in PSN
      BY SaidIs, InputTypes
    <3>2. (pool'[buf] = 0) \in BOOLEAN
      OBVIOUS
    <3>3. out' = [Said(q, n, buf) EXCEPT !.ack = PsnAt(q, n), !.live = pool'[buf] = 0]
      BY <1>1a
    <3>4. QED
      BY <3>1, <3>2, <3>3, Zenon DEF OutType
  <2>4. lock' \in Locks /\ hung' \in BOOLEAN
    BY <1>1a DEF IInv, TypeOK
  <2>5. QED
    BY <1>5, <1>9, <1>13, <2>2, <2>3, <2>4 DEF TypeOK, Context, OutType
<1>16. QED
  BY <1>9, <1>10, <1>11, <1>14, <1>15 DEF IInv

\* The steps that leave the table alone.
LEMMA TableKept ==
  ASSUME IInv, writes' = writes, active' = active, delivered' = delivered, lock' = lock,
         rx' \in 0 .. MaxRx, hung' \in BOOLEAN, out' \in OutType,
         pool' \in [Mbufs -> Nat], nic' \in [Mbufs -> Nat], offered' = offered,
         ~hung' => ~hung /\ \A m \in Mbufs : pool'[m] + nic'[m] = pool[m] + nic[m]
  PROVE  IInv'
<1>1. TypeOK'
  BY DEF IInv, TypeOK, OutType
<1>2. Contexts' /\ DeliveredType' /\ TableExact'
  BY DEF IInv, Contexts, DeliveredType, TableExact
<1>3. MbufsAccounted'
  <2> SUFFICES ASSUME ~hung', NEW m \in Mbufs
               PROVE  pool'[m] + Cardinality(Holding(writes, m)) + nic'[m] = 1 + offered[m]
    BY DEF MbufsAccounted
  <2> DEFINE h == Cardinality(Holding(writes, m))
  <2>1. pool[m] + h + nic[m] = 1 + offered[m]
    BY DEF IInv, MbufsAccounted
  <2>2. /\ pool[m] \in Nat /\ nic[m] \in Nat /\ pool'[m] \in Nat /\ nic'[m] \in Nat
        /\ offered[m] \in Nat /\ h \in Nat
    BY HoldingFinite DEF IInv, TypeOK
  <2>3. pool'[m] + nic'[m] = pool[m] + nic[m]
    OBVIOUS
  <2> HIDE DEF h
  <2>4. pool'[m] + h + nic'[m] = 1 + offered[m]
    BY <2>1, <2>2, <2>3
  <2>5. QED
    BY <2>4 DEF h
<1>4. QED
  BY <1>1, <1>2, <1>3 DEF IInv

\* A duplicate finds a write that is not complete, so that nothing is
\* delivered twice.
LEMMA DuplicateIs ==
  ASSUME IInv, NEW q \in QPNs, NEW n \in DOMAIN Stream[q], NEW buf \in Mbufs,
         ReceiveDuplicate(q, n, buf)
  PROVE  /\ Arrive(q, n, buf)
         /\ writes' = writes /\ active' = active /\ pool' = pool /\ offered' = offered
         /\ nic' = nic /\ delivered' = delivered /\ lock' = lock /\ hung' = hung
         /\ out' = [Silent EXCEPT !.qpn = q]
<1> DEFINE i == jb_find(writes, q)
<1>1. /\ Arrive(q, n, buf) /\ i # 0
      /\ Conclude(i, writes[i], PsnAt(q, n), buf, active, pool,
                  [Silent EXCEPT !.qpn = q])
      /\ lock' = lock /\ hung' = hung
  BY DEF ReceiveDuplicate
<1>2. TypeOK
  BY DEF IInv
<1>3. i \in Entries
  BY <1>1, <1>2, FindIs
<1>4. ~Complete(writes[i])
  BY <1>3 DEF IInv, Contexts
<1> HIDE DEF i
<1>5. /\ writes' = [writes EXCEPT ![i] = writes[i]] /\ active' = active
      /\ pool' = pool /\ offered' = offered
      /\ out' = [Silent EXCEPT !.qpn = q]
      /\ nic' = nic /\ delivered' = delivered
  BY <1>1, <1>4 DEF Conclude, Keep
<1>6. writes' = writes
  BY <1>2, <1>3, <1>5 DEF TypeOK
<1>7. QED
  BY <1>1, <1>5, <1>6

LEMMA NextIInv == IInv /\ [Next]_vars => IInv'
<1> SUFFICES ASSUME IInv, [Next]_vars PROVE IInv'
  OBVIOUS
<1>0. /\ rx \in 0 .. MaxRx /\ pool \in [Mbufs -> Nat] /\ nic \in [Mbufs -> Nat]
      /\ out \in OutType /\ hung \in BOOLEAN
  BY DEF IInv, TypeOK, OutType
<1>1. ASSUME NEW q \in QPNs, NEW n \in DOMAIN Stream[q], NEW buf \in Mbufs,
             ReceiveSegment(q, n, buf)
      PROVE  IInv'
  BY <1>1, KeepStep, DeliverStep
<1>2. ASSUME NEW q \in QPNs, NEW n \in DOMAIN Stream[q], NEW buf \in Mbufs,
             ReceiveDuplicate(q, n, buf)
      PROVE  IInv'
  <2>1. /\ Arrive(q, n, buf)
        /\ writes' = writes /\ active' = active /\ pool' = pool /\ offered' = offered
        /\ nic' = nic /\ delivered' = delivered /\ lock' = lock /\ hung' = hung
        /\ out' = [Silent EXCEPT !.qpn = q]
    BY <1>2, DuplicateIs
  <2>2. rx' \in 0 .. MaxRx
    BY <2>1, ArriveIs
  <2>3. out' \in OutType
    BY <2>1, SilentType DEF OutType
  <2>4. QED
    BY <1>0, <2>1, <2>2, <2>3, TableKept
<1>3. ASSUME NEW q \in QPNs, NEW n \in DOMAIN Stream[q], NEW buf \in Mbufs,
             ReceiveRejected(q, n, buf)
      PROVE  IInv'
  <2>1. /\ Arrive(q, n, buf)
        /\ writes' = writes /\ active' = active /\ pool' = pool /\ offered' = offered
        /\ nic' = nic /\ delivered' = delivered /\ lock' = lock /\ hung' = hung
        /\ out' = Silent
    BY <1>3 DEF ReceiveRejected
  <2>2. rx' \in 0 .. MaxRx /\ out' \in OutType
    BY <2>1, ArriveIs, SilentType
  <2>3. QED
    BY <1>0, <2>1, <2>2, TableKept
<1>4. ASSUME NEW q \in QPNs, NEW n \in DOMAIN Stream[q], NEW buf \in Mbufs,
             SelfDeadlock(q, n, buf)
      PROVE  IInv'
  <2>1. /\ Arrive(q, n, buf)
        /\ writes' = writes /\ active' = active /\ pool' = Take(buf) /\ offered' = offered
        /\ nic' = nic /\ delivered' = delivered /\ lock' = lock /\ hung' = TRUE
        /\ out' = Silent
    BY <1>4 DEF SelfDeadlock
  <2>2. rx' \in 0 .. MaxRx /\ out' \in OutType /\ pool' \in [Mbufs -> Nat]
    BY <2>1, ArriveIs, SilentType
  <2>3. QED
    BY <1>0, <2>1, <2>2, TableKept
<1>5. ASSUME NEW m \in Mbufs, TxDone(m) PROVE IInv'
  <2>1. /\ nic[m] > 0 /\ nic' = [nic EXCEPT ![m] = nic[m] - 1]
        /\ pool' = [pool EXCEPT ![m] = pool[m] + 1] /\ offered' = offered
        /\ writes' = writes /\ active' = active /\ rx' = rx
        /\ delivered' = delivered /\ lock' = lock /\ hung' = hung /\ out' = out
    BY <1>5 DEF TxDone
  <2>2. nic[m] \in Nat /\ pool[m] \in Nat
    BY <1>0
  <2>3. /\ pool' \in [Mbufs -> Nat] /\ nic' \in [Mbufs -> Nat]
        /\ \A l \in Mbufs : l # m => pool'[l] = pool[l] /\ nic'[l] = nic[l]
        /\ pool'[m] = pool[m] + 1 /\ nic'[m] = nic[m] - 1
    BY <1>0, <2>1, <2>2
  <2>4. \A l \in Mbufs : pool'[l] + nic'[l] = pool[l] + nic[l]
    BY <2>2, <2>3
  <2>5. QED
    BY <1>0, <2>1, <2>3, <2>4, TableKept
<1>6. CASE UNCHANGED vars
  BY <1>6 DEF vars, IInv, TypeOK, Contexts, DeliveredType, TableExact, MbufsAccounted, Holding
<1>7. QED
  BY <1>1, <1>2, <1>3, <1>4, <1>5, <1>6 DEF Next, Quiet

LEMMA Invariant == Spec => []IInv
<1>1. Init => IInv
  BY InitIInv
<1>2. IInv /\ [Next]_vars => IInv'
  BY NextIInv
<1>3. QED
  BY <1>1, <1>2, PTL DEF Spec

----------------------------------------------------------------------------
(* The theorems. *)

\* The state of the jitter buffer stays within its types: every PSN within 24
\* bits, every count a number, every mbuf one that was received.
THEOREM TypeCorrect == Spec => []TypeOK
<1>1. IInv => TypeOK
  BY DEF IInv
<1>2. QED
  BY <1>1, Invariant, PTL

\* The table of contexts agrees with itself: segment_count, the claimed
\* entries, one entry per QP and active_write_count, wrap-around included.
THEOREM TableConsistent == Spec => []TableExact
<1>1. IInv => TableExact
  BY DEF IInv
<1>2. QED
  BY <1>1, Invariant, PTL

\* expected_psn never runs ahead of what is stored: everything from first_psn up
\* to it has been received and is in its slot, whatever the wire does.
THEOREM PrefixReceived == Spec => []ExpectedIsPrefix
<1>1. IInv => ExpectedIsPrefix
  BY DEF IInv, Contexts, Sound, PrefixStored, ExpectedIsPrefix
<1>2. QED
  BY <1>1, Invariant, PTL

\* No path of the WAN handler loses an mbuf or frees one it does not hold, for
\* every size of the pool and however often it hands the same mbuf out: an mbuf
\* is in the pool, in slots and in the ring of the NIC as often as it was offered
\* to the LAN port and once more.  The copy more that every offer leaves behind
\* is jb_remove_write freeing what the NIC was given.
THEOREM MbufsCounted == Spec => []MbufsAccounted
<1>1. IInv => MbufsAccounted
  BY DEF IInv
<1>2. QED
  BY <1>1, Invariant, PTL

\* A write is delivered by the packet that makes it deliverable: no context ever
\* waits with all its segments up to the end of the write received.
THEOREM NoWriteWaits == Spec => []NothingDeliverableWaits
<1>1. IInv => NothingDeliverableWaits
  <2> SUFFICES ASSUME IInv, NEW i \in Entries, NEW k \in SegSlots,
                      \A j \in 0 .. k : writes[i].segments[j].state = "RECEIVED"
               PROVE  ~EndsWrite(writes[i].segments[k].segment_type)
    BY DEF NothingDeliverableWaits
  <2>1. EndSeen(writes[i]) /\ ~Complete(writes[i])
    BY DEF IInv, Contexts, Sound
  <2>2. QED
    BY <2>1, DeliverableIsComplete
<1>2. QED
  BY <1>1, Invariant, PTL

\* The PSN a gateway acknowledges is one of the batch it has just offered to
\* the LAN port, whether or not the port took it.
THEOREM AckOfOffered == Spec => []AckNamesOffered
<1>1. Init => AckNamesOffered
  BY DEF Init, Silent, AckNamesOffered
<1>2. IInv /\ AckNamesOffered /\ [Next]_vars => AckNamesOffered'
  <2> SUFFICES ASSUME IInv, AckNamesOffered, [Next]_vars PROVE AckNamesOffered'
    OBVIOUS
  <2>1. ASSUME NEW q \in QPNs, NEW n \in DOMAIN Stream[q], NEW buf \in Mbufs,
               ReceiveSegment(q, n, buf)
        PROVE  AckNamesOffered'
    <3>1. Said(q, n, buf) \in OutType /\ Said(q, n, buf).qpn = q /\ Said(q, n, buf).ack = NONE
      BY <2>1, SaidIs
    <3>2. CASE ~Complete(New(q, n, buf))
      <4>1. out' = Said(q, n, buf)
        BY <2>1, <3>2, SegmentIs DEF Conclude, Keep
      <4>2. QED
        BY <3>1, <4>1 DEF AckNamesOffered
    <3>3. CASE Complete(New(q, n, buf))
      <4>1. PICK refused \in SUBSET DOMAIN Segs(q, n, buf) :
              /\ delivered' = [delivered EXCEPT ![q] = Append(@, Batch(q, n, buf, refused))]
              /\ out' = [Said(q, n, buf) EXCEPT !.ack = PsnAt(q, n), !.live = pool'[buf] = 0]
        <5>1. PICK r \in SUBSET DOMAIN Segs(q, n, buf) : Delivery(q, n, buf, r)
          BY <2>1, <3>3, DeliveryIs
        <5>2. QED
          BY <5>1, Zenon DEF Delivery
      <4>2. out'.qpn = q /\ out'.ack = PsnAt(q, n)
        BY <3>1, <4>1 DEF OutType
      <4>3. delivered[q] \in Seq(Seq(Packet)) /\ delivered \in [QPNs -> Seq(Seq(Packet))]
        BY DEF IInv, DeliveredType
      <4>4. /\ Batch(q, n, buf, refused) \in Seq(Packet)
            /\ \E k \in DOMAIN Batch(q, n, buf, refused) :
                 Batch(q, n, buf, refused)[k].psn = PsnAt(q, n)
        BY <2>1, <3>3, BatchIs
      <4>5. delivered'[q] = Append(delivered[q], Batch(q, n, buf, refused))
        BY <4>1, <4>3
      <4>6. delivered'[q][Len(delivered'[q])] = Batch(q, n, buf, refused)
        BY <4>3, <4>4, <4>5
      <4>7. QED
        BY <4>2, <4>4, <4>6 DEF AckNamesOffered
    <3>4. QED
      BY <3>2, <3>3
  <2>2. ASSUME NEW q \in QPNs, NEW n \in DOMAIN Stream[q], NEW buf \in Mbufs,
               ReceiveDuplicate(q, n, buf)
        PROVE  AckNamesOffered'
    <3>1. out' = [Silent EXCEPT !.qpn = q]
      BY <2>2, DuplicateIs
    <3>2. QED
      BY <3>1 DEF AckNamesOffered, Silent
  <2>3. ASSUME NEW q \in QPNs, NEW n \in DOMAIN Stream[q], NEW buf \in Mbufs,
               ReceiveRejected(q, n, buf) \/ SelfDeadlock(q, n, buf)
        PROVE  AckNamesOffered'
    <3>1. out' = Silent
      BY <2>3 DEF ReceiveRejected, SelfDeadlock
    <3>2. QED
      BY <3>1 DEF AckNamesOffered, Silent
  <2>4. ASSUME NEW m \in Mbufs, TxDone(m) PROVE AckNamesOffered'
    BY <2>4 DEF TxDone, AckNamesOffered
  <2>5. CASE UNCHANGED vars
    BY <2>5 DEF vars, AckNamesOffered
  <2>6. QED
    BY <2>1, <2>2, <2>3, <2>4, <2>5 DEF Next, Quiet
<1>3. QED
  BY <1>1, <1>2, Invariant, PTL DEF Spec

\* jb_check_missing names the first PSN of the write that is not stored.
LEMMA NackIs ==
  ASSUME NEW c \in Context, Sound(c), NackOf(c) # NONE
  PROVE  /\ \A k \in ReceivedSlots(c) : c.segments[k].psn # NackOf(c)
         /\ \A d \in 0 .. psn_forward_dist(c.first_psn, NackOf(c)) - 1 :
              \E k \in ReceivedSlots(c) : c.segments[k].psn = (c.first_psn + d) % MAX_PSN
<1>1. NackOf(c) = c.expected_psn /\ ~Received(c, c.expected_psn)
  BY DEF NackOf, jb_check_missing
<1>2. \A k \in ReceivedSlots(c) : c.segments[k].psn # NackOf(c)
  BY <1>1 DEF Sound, SlotsSound, ReceivedSlots, Received
<1> DEFINE d == psn_forward_dist(c.first_psn, c.expected_psn)
<1>3. d \in Nat /\ d <= JB_MAX_SEGMENTS
  <2>1. c.first_psn \in PSN /\ c.expected_psn \in PSN
    BY DEF Context, jb_write_context_t
  <2>2. d \in 0 .. MAX_PSN - 1
    BY <2>1, DistIs
  <2>3. QED
    BY <2>2, PsnIsInt DEF Sound, PrefixStored
<1>4. \A k \in 0 .. d - 1 : /\ c.segments[k].state = "RECEIVED"
                            /\ c.segments[k].psn = (c.first_psn + k) % MAX_PSN
  BY DEF Sound, PrefixStored
<1> HIDE DEF d
<1>5. \A k \in 0 .. d - 1 : k \in ReceivedSlots(c)
  BY <1>3, <1>4, JbBasics DEF ReceivedSlots, SegSlots
<1>6. QED
  BY <1>1, <1>2, <1>4, <1>5 DEF d

\* A NACK asks for the first missing PSN of its write, provided that no other
\* entry can hold segments of the same QP: either no QP has the number 0, which
\* also marks a free entry, or the table has one entry.
THEOREM NackOfFirstMissing ==
  (0 \notin QPNs \/ JB_MAX_PENDING_WRITES = 1) => (Spec => []NackNamesFirstMissing)
<1> SUFFICES ASSUME 0 \notin QPNs \/ JB_MAX_PENDING_WRITES = 1
             PROVE  Spec => []NackNamesFirstMissing
  OBVIOUS
<1>1. Init => NackNamesFirstMissing
  BY DEF Init, Silent, NackNamesFirstMissing
<1>2. IInv /\ NackNamesFirstMissing /\ [Next]_vars => NackNamesFirstMissing'
  <2> SUFFICES ASSUME IInv, NackNamesFirstMissing, [Next]_vars
               PROVE  NackNamesFirstMissing'
    OBVIOUS
  <2>1. ASSUME NEW q \in QPNs, NEW n \in DOMAIN Stream[q], NEW buf \in Mbufs,
               ReceiveSegment(q, n, buf)
        PROVE  NackNamesFirstMissing'
    <3> DEFINE e == At(q)
               c == New(q, n, buf)
    <3>1. /\ Said(q, n, buf) \in OutType /\ Said(q, n, buf).qpn = q
          /\ Said(q, n, buf).nack = NackOf(c)
      BY <2>1, SaidIs
    <3>2. e \in Entries /\ DOMAIN writes = Entries
      BY <2>1, SegmentIs DEF IInv, TypeOK
    <3>3. \A i \in Entries : i # e => writes[i].qpn # q
      <4>1. CASE JB_MAX_PENDING_WRITES = 1
        BY <3>2, <4>1 DEF Entries
      <4>2. CASE 0 \notin QPNs
        <5>1. q # 0
          BY <4>2
        <5>2. CASE Known(q)
          <6>1. writes[e].qpn = q
            BY <2>1, <5>2, SegmentIs
          <6>2. QED
            BY <3>2, <5>1, <6>1 DEF IInv, TableExact
        <5>3. CASE ~Known(q)
          BY <2>1, <5>3, SegmentIs
        <5>4. QED
          BY <5>2, <5>3
      <4>3. QED
        BY <4>1, <4>2
    <3>4. CASE ~Complete(c)
      <4>1. out' = Said(q, n, buf) /\ writes' = [writes EXCEPT ![e] = c]
        BY <2>1, <3>4, SegmentIs DEF Conclude, Keep
      <4>2. c \in Context /\ Sound(c)
        BY <2>1, NewIs
      <4> HIDE DEF c, e
      <4>3. \A i \in Entries : writes'[i] = IF i = e THEN c ELSE writes[i]
        BY <3>2, <4>1
      <4>4. out'.qpn = q /\ out'.nack = NackOf(c)
        BY <3>1, <4>1
      <4>5. SUFFICES ASSUME NackOf(c) # NONE, NEW i \in Entries,
                            writes'[i].qpn = q, writes'[i].segment_count > 0
                     PROVE  /\ ~ \E k \in ReceivedSlots(c) : c.segments[k].psn = NackOf(c)
                            /\ \A d \in 0 .. psn_forward_dist(c.first_psn, NackOf(c)) - 1 :
                                 \E k \in ReceivedSlots(c) :
                                   c.segments[k].psn = (c.first_psn + d) % MAX_PSN
                            /\ writes'[i] = c
        BY <4>4 DEF NackNamesFirstMissing
      <4>6. writes'[i] = c
        BY <3>3, <4>3, <4>5
      <4>7. QED
        BY <4>2, <4>5, <4>6, NackIs
    <3>5. CASE Complete(c)
      <4>1. /\ writes' = [writes EXCEPT ![e] = EmptyWrite]
            /\ out' = [Said(q, n, buf) EXCEPT !.ack = PsnAt(q, n), !.live = pool'[buf] = 0]
        <5>1. PICK r \in SUBSET DOMAIN Segs(q, n, buf) : Delivery(q, n, buf, r)
          BY <2>1, <3>5, DeliveryIs
        <5>2. QED
          BY <5>1, Zenon DEF Delivery
      <4>2. out'.qpn = q
        BY <3>1, <4>1 DEF OutType
      <4>3. \A i \in Entries : writes'[i] = IF i = e THEN EmptyWrite ELSE writes[i]
        BY <3>2, <4>1
      <4>4. EmptyWrite.segment_count = 0
        BY DEF EmptyWrite
      <4>5. \A i \in Entries : ~(writes'[i].qpn = out'.qpn /\ writes'[i].segment_count > 0)
        BY <3>3, <4>2, <4>3, <4>4
      <4>6. QED
        BY <4>5 DEF NackNamesFirstMissing
    <3>6. QED
      BY <3>4, <3>5
  <2>2. ASSUME NEW q \in QPNs, NEW n \in DOMAIN Stream[q], NEW buf \in Mbufs,
               ReceiveDuplicate(q, n, buf)
        PROVE  NackNamesFirstMissing'
    <3>1. out' = [Silent EXCEPT !.qpn = q]
      BY <2>2, DuplicateIs
    <3>2. QED
      BY <3>1 DEF NackNamesFirstMissing, Silent
  <2>3. ASSUME NEW q \in QPNs, NEW n \in DOMAIN Stream[q], NEW buf \in Mbufs,
               ReceiveRejected(q, n, buf) \/ SelfDeadlock(q, n, buf)
        PROVE  NackNamesFirstMissing'
    <3>1. out' = Silent
      BY <2>3 DEF ReceiveRejected, SelfDeadlock
    <3>2. QED
      BY <3>1 DEF NackNamesFirstMissing, Silent
  <2>4. ASSUME NEW m \in Mbufs, TxDone(m) PROVE NackNamesFirstMissing'
    <3>1. writes' = writes /\ out' = out
      BY <2>4 DEF TxDone
    <3>2. QED
      BY <3>1 DEF NackNamesFirstMissing
  <2>5. CASE UNCHANGED vars
    BY <2>5 DEF vars, NackNamesFirstMissing
  <2>6. QED
    BY <2>1, <2>2, <2>3, <2>4, <2>5 DEF Next, Quiet
<1>3. QED
  BY <1>1, <1>2, Invariant, PTL DEF Spec

----------------------------------------------------------------------------
(* Batches. *)

\* A context cannot tell a PSN from one JB_MAX_SEGMENTS away, and the one a
\* segment of QPN 0 finds in a free entry starts at PSN 0.  For streams within
\* these limits, whose last packet ends a write, every slot of a batch holds
\* the packet it should.
ShortStreams ==
  /\ \A q \in QPNs : Stream[q] # << >> =>
       /\ Len(Stream[q]) <= JB_MAX_SEGMENTS
       /\ EndsWrite(Stream[q][Len(Stream[q])])
  /\ 0 \in QPNs => FirstPsn[0] = 0

\* The slot of packet n in a context started by packet f.
Slot(f, n) == IF n >= f THEN n - f ELSE JB_MAX_SEGMENTS - (f - n)

\* c was started by packet f of q and holds packets of q in their slots.
FromStream(c, q, f) ==
  /\ c.first_psn = PsnAt(q, f)
  /\ \A j \in ReceivedSlots(c) : \E n \in DOMAIN Stream[q] :
       /\ c.segments[j].psn = PsnAt(q, n)
       /\ c.segments[j].segment_type = Stream[q][n]
       /\ Slot(f, n) = j

Provenance ==
  \A i \in Entries :
    /\ writes[i].segment_count = 0 => writes[i].first_psn = 0
    /\ writes[i].segment_count # 0 =>
         /\ writes[i].qpn \in QPNs
         /\ \E f \in DOMAIN Stream[writes[i].qpn] : FromStream(writes[i], writes[i].qpn, f)

LEMMA StreamIs ==
  ASSUME ShortStreams, NEW q \in QPNs, NEW n \in DOMAIN Stream[q]
  PROVE  /\ Len(Stream[q]) \in Nat /\ Len(Stream[q]) > 0
         /\ Len(Stream[q]) <= JB_MAX_SEGMENTS
         /\ DOMAIN Stream[q] = 1 .. Len(Stream[q])
         /\ EndsWrite(Stream[q][Len(Stream[q])])
         /\ FirstPsn[q] \in Nat
<1>1. Stream[q] \in Seq(SegTypes) /\ FirstPsn[q] \in PSN
  BY ReassemblyAssumption
<1>2. Stream[q] # << >>
  BY <1>1
<1>3. FirstPsn[q] \in Nat
  BY <1>1, PsnIsInt, Zenon
<1>4. QED
  BY <1>1, <1>2, <1>3 DEF ShortStreams

LEMMA SlotIs ==
  ASSUME ShortStreams, NEW q \in QPNs, NEW f \in DOMAIN Stream[q], NEW n \in DOMAIN Stream[q],
         NEW c, c.first_psn = PsnAt(q, f)
  PROVE  Idx(c, PsnAt(q, n)) = Slot(f, n)
<1> DEFINE J == JB_MAX_SEGMENTS
           M == MAX_PSN
           a == FirstPsn[q] + f - 1
           d == IF n >= f THEN n - f ELSE M - (f - n)
<1>1. /\ FirstPsn[q] \in Nat /\ f \in Nat /\ n \in Nat /\ f > 0 /\ n > 0 /\ f <= J /\ n <= J
      /\ J \in Nat /\ J > 0 /\ J < M /\ M \in Nat /\ M > 0 /\ M % J = 0
  <2>1. /\ Len(Stream[q]) \in Nat /\ Len(Stream[q]) <= J /\ FirstPsn[q] \in Nat
        /\ DOMAIN Stream[q] = 1 .. Len(Stream[q])
    BY StreamIs
  <2>2. J \in Nat /\ J > 0 /\ J < M /\ M \in Nat /\ M > 0
    BY JbBasics, PsnIsInt
  <2>3. M % J = 0
    BY JitterBufferAssumption
  <2>4. f \in 1 .. Len(Stream[q]) /\ n \in 1 .. Len(Stream[q])
    BY <2>1
  <2>5. QED
    BY <2>1, <2>2, <2>3, <2>4
<1>2. PsnAt(q, f) = a % M /\ PsnAt(q, f) \in PSN
  BY InputTypes DEF PsnAt
<1>3. a \in Int /\ d \in Int /\ d \in 0 .. M - 1
  BY <1>1
<1>4. ((a % M) + d) % M = (a + d) % M
  <2> HIDE DEF a, d
  <2>1. QED
    BY <1>1, <1>3, ModPlus, Zenon
<1>5. (a + d) % M = PsnAt(q, n)
  <2> DEFINE b == FirstPsn[q] + n - 1
  <2>1. b \in Int
    BY <1>1
  <2>2. CASE n >= f
    <3>1. a + d = b
      BY <1>1, <2>2
    <3>2. QED
      BY <3>1 DEF PsnAt
  <2>3. CASE ~(n >= f)
    <3>1. a + d = b + M
      BY <1>1, <2>3
    <3> HIDE DEF a, b, d
    <3>2. (b + M) % M = b % M
      BY <1>1, <2>1, ModSelf
    <3>3. QED
      BY <3>1, <3>2 DEF PsnAt, b
  <2>4. QED
    BY <2>2, <2>3
<1>6. psn_forward_dist(PsnAt(q, f), PsnAt(q, n)) = d
  <2> HIDE DEF d, a
  <2>1. psn_forward_dist(PsnAt(q, f), (PsnAt(q, f) + d) % M) = d
    BY <1>2, <1>3, DistOf
  <2>2. QED
    BY <1>2, <1>4, <1>5, <2>1
<1>7. d % J = Slot(f, n)
  <2>1. CASE n >= f
    <3>1. n - f \in 0 .. J - 1
      BY <1>1, <2>1
    <3>2. QED
      BY <1>1, <2>1, <3>1 DEF Slot
  <2>2. CASE ~(n >= f)
    <3> DEFINE y == n - f
    <3>1. y \in Int /\ y + J \in 0 .. J - 1 /\ M + y = d /\ y + J = Slot(f, n)
      BY <1>1, <2>2 DEF Slot
    <3> HIDE DEF y, d
    <3>2. ((M % J) + y) % J = (M + y) % J
      <4>1. M \in Int
        BY <1>1
      <4>2. QED
        BY <1>1, <3>1, <4>1, ModPlus
    <3>3. (M % J) + y = y
      BY <1>1, <3>1
    <3>4. (y + J) % J = y % J
      BY <1>1, <3>1, ModSelf
    <3>5. (y + J) % J = y + J
      BY <1>1, <3>1
    <3>6. QED
      BY <3>1, <3>2, <3>3, <3>4, <3>5
  <2>3. QED
    BY <2>1, <2>2
<1>8. QED
  BY <1>6, <1>7 DEF Idx

\* The context a segment leaves behind holds packets of its QP only.
LEMMA NewFromStream ==
  ASSUME ShortStreams, IInv, Provenance,
         NEW q \in QPNs, NEW n \in DOMAIN Stream[q], NEW buf \in Mbufs, ReceiveSegment(q, n, buf)
  PROVE  \E f \in DOMAIN Stream[q] : FromStream(New(q, n, buf), q, f)
<1> DEFINE old == Old(q, n)
           psn == PsnAt(q, n)
           c   == New(q, n, buf)
<1>1. /\ old \in jb_write_context_t(QPNs, Mbufs) /\ Arrive(q, n, buf) /\ At(q) \in Entries
      /\ Sound(old)
      /\ Known(q) => old = writes[At(q)] /\ writes[At(q)].qpn = q
  BY SegmentIs DEF Context
<1>2. PICK f \in DOMAIN Stream[q] : FromStream(old, q, f)
  <2>1. CASE ~Known(q)
    <3>1. old = NewWrite(q, psn)
      BY <2>1 DEF Old
    <3>2. old.first_psn = psn /\ old.segment_count = 0 /\ Sound(old)
      BY <1>1, <3>1 DEF NewWrite, EmptyWrite
    <3>3. ReceivedSlots(old) = {}
      BY <3>2, NothingReceived
    <3>4. FromStream(old, q, n)
      BY <3>2, <3>3 DEF FromStream
    <3>5. QED
      BY <3>4
  <2>2. CASE Known(q) /\ old.segment_count = 0
    <3>1. old.first_psn = 0 /\ old.qpn = q
      BY <1>1, <2>2 DEF Provenance
    <3>2. q = 0
      BY <1>1, <2>2 DEF IInv, TableExact
    <3>3. 1 \in DOMAIN Stream[q] /\ PsnAt(q, 1) = 0
      <4>1. 1 \in DOMAIN Stream[q]
        BY StreamIs
      <4>2. FirstPsn[q] = 0
        BY <3>2 DEF ShortStreams
      <4>3. FirstPsn[q] + 1 - 1 = 0 /\ 0 % MAX_PSN = 0
        BY <4>2, PsnIsInt
      <4>4. QED
        BY <4>1, <4>3 DEF PsnAt
    <3>4. ReceivedSlots(old) = {}
      BY <1>1, <2>2, NothingReceived
    <3>5. FromStream(old, q, 1)
      BY <3>1, <3>3, <3>4 DEF FromStream
    <3>6. QED
      BY <3>3, <3>5
  <2>3. CASE Known(q) /\ old.segment_count # 0
    BY <1>1, <2>3 DEF Provenance
  <2>4. QED
    BY <2>1, <2>2, <2>3
<1>3. psn \in PSN /\ Stream[q][n] \in SegTypes /\ buf \in Mbufs
  BY <1>1, InputTypes, ArriveIs
<1> DEFINE s == Idx(old, psn)
<1>4. c = jb_add_seg(old, psn, Stream[q][n], buf)
  BY DEF New
<1> HIDE DEF c, old, psn
<1>5. /\ c.first_psn = old.first_psn
      /\ c.segments[s] = [state |-> "RECEIVED", psn |-> psn,
                          segment_type |-> Stream[q][n], mbuf |-> buf]
      /\ \A j \in SegSlots : j # s =>
           /\ c.segments[j].psn = old.segments[j].psn
           /\ c.segments[j].segment_type = old.segments[j].segment_type
  BY <1>1, <1>3, <1>4, AddIs
<1>6. ReceivedSlots(c) = ReceivedSlots(old) \cup {s}
  BY <1>1, <1>3, <1>4, AddReceived
<1>7. s = Slot(f, n)
  BY <1>2, SlotIs DEF FromStream, psn
<1>8. ASSUME NEW j \in ReceivedSlots(c)
      PROVE  \E k \in DOMAIN Stream[q] : /\ c.segments[j].psn = PsnAt(q, k)
                                         /\ c.segments[j].segment_type = Stream[q][k]
                                         /\ Slot(f, k) = j
  <2>1. CASE j = s
    <3>1. c.segments[j].psn = PsnAt(q, n) /\ c.segments[j].segment_type = Stream[q][n]
      BY <1>5, <2>1 DEF psn
    <3>2. QED
      BY <1>7, <2>1, <3>1
  <2>2. CASE j # s
    <3>1. j \in ReceivedSlots(old) /\ j \in SegSlots
      BY <1>6, <1>8, <2>2 DEF ReceivedSlots
    <3>2. QED
      BY <1>2, <1>5, <2>2, <3>1 DEF FromStream
  <2>3. QED
    BY <2>1, <2>2
<1>9. FromStream(c, q, f)
  BY <1>2, <1>5, <1>8 DEF FromStream
<1>10. QED
  BY <1>9 DEF c

LEMMA ProvenanceStep ==
  ASSUME ShortStreams, IInv, Provenance, [Next]_vars PROVE Provenance'
<1>1. ASSUME NEW q \in QPNs, NEW n \in DOMAIN Stream[q], NEW buf \in Mbufs,
             ReceiveSegment(q, n, buf)
      PROVE  Provenance'
  <2>1. At(q) \in Entries /\ DOMAIN writes = Entries
    BY <1>1, SegmentIs DEF IInv, TypeOK
  <2>2. CASE ~Complete(New(q, n, buf))
    <3>1. writes' = [writes EXCEPT ![At(q)] = New(q, n, buf)]
      BY <1>1, <2>2, SegmentIs DEF Conclude, Keep
    <3>2. \A i \in Entries : writes'[i] = IF i = At(q) THEN New(q, n, buf) ELSE writes[i]
      BY <2>1, <3>1
    <3>3. New(q, n, buf).segment_count # 0 /\ New(q, n, buf).qpn = q
      BY <1>1, NewIs
    <3>4. \E f \in DOMAIN Stream[q] : FromStream(New(q, n, buf), q, f)
      BY <1>1, NewFromStream
    <3>5. QED
      BY <3>2, <3>3, <3>4 DEF Provenance
  <2>3. CASE Complete(New(q, n, buf))
    <3>1. writes' = [writes EXCEPT ![At(q)] = EmptyWrite]
      <4>1. PICK r \in SUBSET DOMAIN Segs(q, n, buf) : Delivery(q, n, buf, r)
        BY <1>1, <2>3, DeliveryIs
      <4>2. QED
        BY <4>1, Zenon DEF Delivery
    <3>2. \A i \in Entries : writes'[i] = IF i = At(q) THEN EmptyWrite ELSE writes[i]
      BY <2>1, <3>1
    <3>3. EmptyWrite.segment_count = 0 /\ EmptyWrite.first_psn = 0
      BY DEF EmptyWrite
    <3>4. QED
      BY <3>2, <3>3 DEF Provenance
  <2>4. QED
    BY <2>2, <2>3
<1>2. CASE writes' = writes
  BY <1>2 DEF Provenance
<1>3. QED
  BY <1>1, <1>2, DuplicateIs DEF Next, ReceiveRejected, SelfDeadlock, TxDone, Quiet, vars

Contiguous(batch) ==
  \A k \in DOMAIN batch : /\ batch[k].psn = (batch[1].psn + k - 1) % MAX_PSN
                          /\ EndsWrite(batch[k].seg) <=> k = Len(batch)

\* The batch a complete context is turned into.
LEMMA NewContiguous ==
  ASSUME ShortStreams, IInv, Provenance,
         NEW q \in QPNs, NEW n \in DOMAIN Stream[q], NEW buf \in Mbufs, ReceiveSegment(q, n, buf),
         Complete(New(q, n, buf)), NEW refused
  PROVE  Contiguous(Batch(q, n, buf, refused))
<1> DEFINE c == New(q, n, buf)
           L == Len(Stream[q])
           J == JB_MAX_SEGMENTS
           batch == Batch(q, n, buf, refused)
<1>1. Complete(c) /\ EndSeen(c)
  BY NewIs DEF Sound
<1>2. PICK f \in DOMAIN Stream[q] : FromStream(c, q, f)
  BY NewFromStream
<1>3. /\ L \in Nat /\ L > 0 /\ L <= J /\ DOMAIN Stream[q] = 1 .. L
      /\ EndsWrite(Stream[q][L]) /\ FirstPsn[q] \in Nat
  BY StreamIs
<1> HIDE DEF c, L
<1>4. PICK w \in 1 .. J :
        /\ Walk(c) = 0 .. w - 1
        /\ jb_get_ordered_segs(c) = [k \in 1 .. w |-> c.segments[k - 1]]
        /\ \A j \in 0 .. w - 1 : /\ c.segments[j].state = "RECEIVED"
                                 /\ EndsWrite(c.segments[j].segment_type) <=> j = w - 1
  BY <1>1, OrderedIs
<1>5. J \in Nat /\ w \in Nat /\ w > 0 /\ w <= J /\ f \in Nat /\ f > 0 /\ f <= L
  BY <1>3, JbBasics
\* Every slot holds a packet of the stream.
<1>6. \A j \in 0 .. w - 1 : \E k \in 1 .. L :
         /\ c.segments[j].psn = PsnAt(q, k)
         /\ c.segments[j].segment_type = Stream[q][k]
         /\ Slot(f, k) = j
  <2>1. \A j \in 0 .. w - 1 : j \in ReceivedSlots(c)
    BY <1>4, <1>5 DEF ReceivedSlots, SegSlots
  <2>2. QED
    BY <1>2, <1>3, <2>1 DEF FromStream
\* The last packet of the stream is where the walk stops at the latest.
<1>7. w - 1 <= L - f
  <2> SUFFICES ASSUME ~(w - 1 <= L - f) PROVE FALSE
    OBVIOUS
  <2>1. L - f \in 0 .. w - 1 /\ L - f # w - 1
    BY <1>3, <1>5
  <2>2. PICK k \in 1 .. L : /\ c.segments[L - f].segment_type = Stream[q][k]
                            /\ Slot(f, k) = L - f
    BY <1>6, <2>1
  <2>3. k = L
    BY <1>3, <1>5, <2>2 DEF Slot
  <2>4. EndsWrite(c.segments[L - f].segment_type)
    BY <1>3, <2>2, <2>3
  <2>5. QED
    BY <1>4, <2>1, <2>4
<1>8. \A j \in 0 .. w - 1 : c.segments[j].psn = PsnAt(q, f + j)
  <2>1. ASSUME NEW j \in 0 .. w - 1 PROVE c.segments[j].psn = PsnAt(q, f + j)
    <3>1. PICK k \in 1 .. L : c.segments[j].psn = PsnAt(q, k) /\ Slot(f, k) = j
      BY <1>6
    <3>2. k = f + j
      BY <1>3, <1>5, <1>7, <3>1 DEF Slot
    <3>3. QED
      BY <3>1, <3>2
  <2>2. QED
    BY <2>1
<1>9. Segs(q, n, buf) = [k \in 1 .. w |-> c.segments[k - 1]]
  BY <1>4 DEF Segs, c
<1>10. /\ DOMAIN batch = 1 .. w
       /\ \A k \in 1 .. w : /\ batch[k].psn = c.segments[k - 1].psn
                            /\ batch[k].seg = c.segments[k - 1].segment_type
  BY <1>9 DEF Batch
<1>11. Len(batch) = w
  <2>1. batch \in Seq(Packet)
    BY BatchIs
  <2>2. QED
    BY <1>5, <1>10, <2>1
<1> HIDE DEF batch
<1>12. ASSUME NEW k \in 1 .. w
       PROVE  /\ batch[k].psn = (batch[1].psn + k - 1) % MAX_PSN
              /\ EndsWrite(batch[k].seg) <=> k = w
  <2>1. k - 1 \in 0 .. w - 1 /\ 0 \in 0 .. w - 1 /\ k \in Nat /\ 1 \in 1 .. w
    BY <1>5
  <2>2. batch[k].psn = PsnAt(q, f + (k - 1)) /\ batch[1].psn = PsnAt(q, f)
    <3>1. batch[k].psn = c.segments[k - 1].psn /\ batch[1].psn = c.segments[1 - 1].psn
      BY <1>10, <2>1
    <3>2. 1 - 1 = 0 /\ f + 0 = f
      BY <1>5
    <3>3. c.segments[k - 1].psn = PsnAt(q, f + (k - 1)) /\ c.segments[0].psn = PsnAt(q, f + 0)
      BY <1>8, <2>1
    <3>4. QED
      BY <3>1, <3>2, <3>3
  <2> DEFINE a == FirstPsn[q] + f - 1
             d == k - 1
  <2>3. a \in Int /\ d \in Int /\ MAX_PSN \in Nat /\ MAX_PSN > 0
    <3>1. MAX_PSN \in Nat /\ MAX_PSN > 0
      BY PsnIsInt
    <3>2. QED
      BY <1>3, <1>5, <2>1, <3>1
  <2>4. ((a % MAX_PSN) + d) % MAX_PSN = (a + d) % MAX_PSN
    <3> HIDE DEF a, d
    <3>1. QED
      BY <2>3, ModPlus, Zenon
  <2>5. a + d = FirstPsn[q] + (f + (k - 1)) - 1
    BY <1>3, <1>5, <2>1
  <2>6. batch[k].psn = (a + d) % MAX_PSN /\ batch[1].psn = a % MAX_PSN
    BY <2>2, <2>5 DEF PsnAt
  <2>7. batch[k].psn = (batch[1].psn + k - 1) % MAX_PSN
    BY <2>4, <2>6
  <2>8. EndsWrite(batch[k].seg) <=> k - 1 = w - 1
    BY <1>4, <1>10, <2>1
  <2>9. k - 1 = w - 1 <=> k = w
    BY <1>5, <2>1
  <2>10. QED
    BY <2>7, <2>8, <2>9
<1>13. QED
  BY <1>10, <1>11, <1>12 DEF Contiguous, batch

\* Everything a jitter buffer hands to the LAN is a run of consecutive PSNs that
\* ends with the end of a write and holds no other end of one, over a wire that
\* loses, repeats and reorders, for streams no longer than a context.
THEOREM BatchesContiguous == ShortStreams => (Spec => []BatchContiguous)
<1> SUFFICES ASSUME ShortStreams PROVE Spec => []BatchContiguous
  OBVIOUS
<1> DEFINE All == \A q \in QPNs : \A b \in DOMAIN delivered[q] : Contiguous(delivered[q][b])
<1>1. All => BatchContiguous
  BY DEF BatchContiguous, Batches, Contiguous
<1>2. Init => Provenance /\ All
  <2> SUFFICES ASSUME Init PROVE Provenance /\ All
    OBVIOUS
  <2>1. \A i \in Entries : writes[i] = EmptyWrite
    BY DEF Init
  <2>2. EmptyWrite.segment_count = 0 /\ EmptyWrite.first_psn = 0
    BY DEF EmptyWrite
  <2>3. All
    BY DEF Init
  <2>4. QED
    BY <2>1, <2>2, <2>3 DEF Provenance
<1>3. IInv /\ Provenance /\ All /\ [Next]_vars => Provenance' /\ All'
  <2> SUFFICES ASSUME IInv, Provenance, All, [Next]_vars PROVE Provenance' /\ All'
    OBVIOUS
  <2>1. Provenance'
    BY ProvenanceStep
  <2>2. ASSUME NEW q \in QPNs, NEW n \in DOMAIN Stream[q], NEW buf \in Mbufs,
               ReceiveSegment(q, n, buf)
        PROVE  All'
    <3>1. CASE ~Complete(New(q, n, buf))
      <4>1. delivered' = delivered
        BY <2>2, <3>1, SegmentIs DEF Conclude, Keep
      <4>2. QED
        BY <4>1
    <3>2. CASE Complete(New(q, n, buf))
      <4>1. PICK refused \in SUBSET DOMAIN Segs(q, n, buf) :
              /\ delivered' = [delivered EXCEPT ![q] = Append(@, Batch(q, n, buf, refused))]
              /\ lock' = lock
        <5>1. PICK r \in SUBSET DOMAIN Segs(q, n, buf) : Delivery(q, n, buf, r)
          BY <2>2, <3>2, DeliveryIs
        <5>2. QED
          BY <5>1, Zenon DEF Delivery
      <4>2. Contiguous(Batch(q, n, buf, refused)) /\ Batch(q, n, buf, refused) \in Seq(Packet)
        BY <2>2, <3>2, NewContiguous, BatchIs
      <4>3. delivered \in [QPNs -> Seq(Seq(Packet))]
        BY DEF IInv, DeliveredType
      <4>4. /\ delivered'[q] = Append(delivered[q], Batch(q, n, buf, refused))
            /\ \A p \in QPNs : p # q => delivered'[p] = delivered[p]
        BY <4>1, <4>3
      <4>5. \A b \in DOMAIN delivered'[q] :
               delivered'[q][b] = IF b \in DOMAIN delivered[q] THEN delivered[q][b]
                                                               ELSE Batch(q, n, buf, refused)
        <5>1. delivered[q] \in Seq(Seq(Packet))
          BY <4>3
        <5>2. QED
          BY <4>2, <4>4, <5>1
      <4>6. QED
        BY <4>2, <4>4, <4>5
    <3>3. QED
      BY <3>1, <3>2
  <2>3. ASSUME delivered' = delivered PROVE All'
    BY <2>3
  <2>4. All'
    BY <2>2, <2>3, DuplicateIs DEF Next, ReceiveRejected, SelfDeadlock, TxDone, Quiet, vars
  <2>5. QED
    BY <2>1, <2>4
<1>4. QED
  BY <1>1, <1>2, <1>3, Invariant, PTL DEF Spec

----------------------------------------------------------------------------
(* Over a wire that keeps the order the buffer implements WriteDelivery.     *)

\* What the promise rests on.  The wire neither loses nor reorders, no QP is
\* numbered 0 (a QPN that RoCE reserves, and the mark of a free entry), every
\* QP finds an entry in the table, and every write fits into a context.
OrderlyWire ==
  /\ Channel = "fifo"
  /\ 0 \notin QPNs
  /\ IsFiniteSet(QPNs) /\ Cardinality(QPNs) <= JB_MAX_PENDING_WRITES
  /\ \A q \in QPNs : \A n \in DOMAIN Stream[q] : n > JB_MAX_SEGMENTS =>
       \E e \in n - JB_MAX_SEGMENTS .. n - 1 : EndsWrite(Stream[q][e])

\* s is the last end of a write of q before packet n, or 0.
EndBefore(q, s, n) ==
  /\ s \in {0} \cup Ends(q)
  /\ s < n
  /\ \A k \in s + 1 .. n - 1 : ~EndsWrite(Stream[q][k])

\* c holds the packets of q after s and before n, in their order, and no other.
Holds(c, q, s, n) ==
  /\ c.first_psn = PsnAt(q, s + 1)
  /\ c.expected_psn = PsnAt(q, n)
  /\ \A j \in SegSlots :
       /\ c.segments[j].state = "RECEIVED" <=> j < n - (s + 1)
       /\ j < n - (s + 1) => /\ c.segments[j].psn = PsnAt(q, s + 1 + j)
                             /\ c.segments[j].segment_type = Stream[q][s + 1 + j]

EndsUpTo(q, s) == {x \in Ends(q) : x <= s}

\* The write of q in progress starts after s: whatever arrived of it is in its
\* context, and every write that ended by s has been delivered.
InProgress(q, s) ==
  /\ EndBefore(q, s, next[q])
  /\ \A i \in Entries : writes[i].qpn = q => Holds(writes[i], q, s, next[q])
  /\ s + 1 < next[q] => \E i \in Entries : writes[i].qpn = q
  /\ Len(delivered[q]) = Cardinality(EndsUpTo(q, s))

InOrder ==
  /\ next \in [QPNs -> Nat]
  /\ \A i \in Entries : writes[i].qpn = 0 => writes[i].segment_count = 0
  /\ ~hung => \A q \in QPNs : \E s \in Nat : InProgress(q, s)

LEMMA StreamTypes ==
  ASSUME NEW q \in QPNs
  PROVE  /\ Len(Stream[q]) \in Nat /\ DOMAIN Stream[q] = 1 .. Len(Stream[q])
         /\ FirstPsn[q] \in Nat
         /\ Ends(q) \subseteq Nat \ {0} /\ IsFiniteSet(Ends(q))
<1>1. Stream[q] \in Seq(SegTypes) /\ FirstPsn[q] \in PSN
  BY ReassemblyAssumption
<1>2. FirstPsn[q] \in Nat
  BY <1>1, PsnIsInt, Zenon
<1>3. Len(Stream[q]) \in Nat /\ DOMAIN Stream[q] = 1 .. Len(Stream[q])
  BY <1>1
<1>4. Ends(q) \subseteq 1 .. Len(Stream[q])
  BY <1>3 DEF Ends
<1>5. IsFiniteSet(1 .. Len(Stream[q]))
  BY <1>3, FS_Interval
<1>6. IsFiniteSet(Ends(q))
  BY <1>4, <1>5, FS_Subset
<1>7. QED
  BY <1>2, <1>3, <1>4, <1>6

\* Packet n of a write that started after s goes to slot n - (s + 1).
LEMMA SlotInOrder ==
  ASSUME OrderlyWire, NEW q \in QPNs, NEW n \in DOMAIN Stream[q], NEW s \in Nat,
         EndBefore(q, s, n), NEW c, c.first_psn = PsnAt(q, s + 1)
  PROVE  /\ n - (s + 1) \in SegSlots
         /\ Idx(c, PsnAt(q, n)) = n - (s + 1)
<1> DEFINE J == JB_MAX_SEGMENTS
           M == MAX_PSN
           d == n - (s + 1)
           a == FirstPsn[q] + s
<1>1. /\ J \in Nat /\ J > 0 /\ J < M /\ M \in Nat /\ M > 0
      /\ FirstPsn[q] \in Nat /\ n \in Nat /\ n > 0 /\ s < n
  <2>1. J \in Nat /\ J > 0 /\ J < M /\ M \in Nat /\ M > 0
    BY JbBasics, PsnIsInt
  <2>2. FirstPsn[q] \in Nat /\ n \in 1 .. Len(Stream[q]) /\ Len(Stream[q]) \in Nat
    BY StreamTypes
  <2>3. QED
    BY <2>1, <2>2 DEF EndBefore
<1>2. d \in 0 .. J - 1
  <2>1. CASE n <= J
    BY <1>1, <2>1
  <2>2. CASE n > J
    <3>1. PICK e \in n - J .. n - 1 : EndsWrite(Stream[q][e])
      BY <2>2 DEF OrderlyWire
    <3>2. e \in Int /\ e <= n - 1 /\ n - J <= e
      BY <1>1
    <3>3. ~(e \in s + 1 .. n - 1)
      BY <3>1 DEF EndBefore
    <3>4. QED
      BY <1>1, <3>2, <3>3
  <2>3. QED
    BY <1>1, <2>1, <2>2
<1>3. a \in Int /\ d \in Int /\ d \in 0 .. M - 1 /\ a % M \in PSN
  <2>1. a \in Int /\ d \in Int /\ d \in 0 .. M - 1
    BY <1>1, <1>2
  <2>2. QED
    BY <2>1, PsnIsInt
<1>4. PsnAt(q, s + 1) = a % M /\ PsnAt(q, n) = (a + d) % M
  <2>1. FirstPsn[q] + (s + 1) - 1 = a /\ FirstPsn[q] + n - 1 = a + d
    BY <1>1
  <2>2. QED
    BY <2>1 DEF PsnAt
<1> HIDE DEF a, d
<1>5. ((a % M) + d) % M = (a + d) % M
  BY <1>1, <1>3, ModPlus, Zenon
<1>6. psn_forward_dist(a % M, ((a % M) + d) % M) = d
  BY <1>3, DistOf
<1>7. psn_forward_dist(c.first_psn, PsnAt(q, n)) = d
  BY <1>4, <1>5, <1>6
<1>8. d % J = d
  BY <1>1, <1>2
<1>9. QED
  BY <1>2, <1>7, <1>8 DEF Idx, SegSlots, d

\* A packet that arrives in its turn is the next of its context, or starts one.
LEMMA OldHolds ==
  ASSUME OrderlyWire, IInv, NEW q \in QPNs, NEW n \in DOMAIN Stream[q],
         NEW s \in Nat, InProgress(q, s), n = next[q], NEW buf \in Mbufs,
         ReceiveSegment(q, n, buf)
  PROVE  Holds(Old(q, n), q, s, n)
<1>1. CASE Known(q)
  <2>1. Old(q, n) = writes[At(q)] /\ At(q) \in Entries /\ Old(q, n).qpn = q
    BY <1>1, SegmentIs
  <2>2. QED
    BY <2>1 DEF InProgress
<1>2. CASE ~Known(q)
  <2>1. \A i \in Entries : writes[i].qpn # q
    BY <1>2, SegmentIs
  <2>2. n \in Nat /\ s < n /\ ~(s + 1 < n)
    <3>1. n \in Nat
      BY InputTypes
    <3>2. QED
      BY <2>1, <3>1 DEF InProgress, EndBefore
  <2>3. n = s + 1
    BY <2>2
  <2>4. Old(q, n) = NewWrite(q, PsnAt(q, n))
    BY <1>2 DEF Old
  <2>5. /\ Old(q, n).first_psn = PsnAt(q, n) /\ Old(q, n).expected_psn = PsnAt(q, n)
        /\ Old(q, n).segments = [i \in SegSlots |-> FreeSegment]
    BY <2>4 DEF NewWrite, EmptyWrite
  <2>6. \A j \in SegSlots : /\ Old(q, n).segments[j].state # "RECEIVED"
                            /\ ~(j < n - (s + 1))
    BY <2>3, <2>5, JbBasics DEF FreeSegment
  <2>7. QED
    BY <2>3, <2>5, <2>6 DEF Holds
<1>3. QED
  BY <1>1, <1>2

\* A segment that is added leaves the other slots as they were.
LEMMA AddKeeps ==
  ASSUME NEW Q, NEW M, NEW c \in jb_write_context_t(Q, M),
         NEW psn \in PSN, NEW seg \in SegTypes, NEW m \in M,
         NEW j \in SegSlots, j # Idx(c, psn)
  PROVE  LET a == jb_add_seg(c, psn, seg, m)
         IN  /\ a.segments[j].psn = c.segments[j].psn
             /\ a.segments[j].segment_type = c.segments[j].segment_type
             /\ (a.segments[j].state = "RECEIVED" <=> c.segments[j].state = "RECEIVED")
<1> DEFINE a == jb_add_seg(c, psn, seg, m)
           s == Idx(c, psn)
           e == [state |-> "RECEIVED", psn |-> psn, segment_type |-> seg, mbuf |-> m]
<1>1. /\ a \in jb_write_context_t(Q, M) /\ s \in SegSlots /\ a.segments[s] = e
      /\ \A k \in SegSlots : k # s =>
           /\ a.segments[k].psn = c.segments[k].psn
           /\ a.segments[k].segment_type = c.segments[k].segment_type
           /\ a.segments[k].mbuf = c.segments[k].mbuf
           /\ (a.segments[k].state = "RECEIVED" <=> c.segments[k].state = "RECEIVED")
  BY AddIs
<1> HIDE DEF a, s, e
<1>2. QED
  BY <1>1 DEF a, s

LEMMA NewHolds ==
  ASSUME OrderlyWire, IInv, NEW q \in QPNs, NEW n \in DOMAIN Stream[q],
         NEW s \in Nat, InProgress(q, s), n = next[q], NEW buf \in Mbufs,
         ReceiveSegment(q, n, buf)
  PROVE  Holds(New(q, n, buf), q, s, n + 1) /\ n - (s + 1) \in SegSlots
<1> DEFINE old == Old(q, n)
           psn == PsnAt(q, n)
           c   == New(q, n, buf)
           d   == n - (s + 1)
<1>1. Holds(old, q, s, n)
  BY OldHolds
<1>2. /\ old \in jb_write_context_t(QPNs, Mbufs) /\ Arrive(q, n, buf)
  BY SegmentIs DEF Context
<1>3. psn \in PSN /\ Stream[q][n] \in SegTypes /\ buf \in Mbufs /\ n \in Nat
  BY <1>2, InputTypes, ArriveIs
<1>4. EndBefore(q, s, n)
  BY DEF InProgress
<1>5. d \in SegSlots /\ Idx(old, psn) = d
  BY <1>1, <1>4, SlotInOrder DEF Holds
<1>6. c = jb_add_seg(old, psn, Stream[q][n], buf)
  BY DEF New
<1>7. old.expected_psn = psn
  BY <1>1 DEF Holds
<1> HIDE DEF c, old, psn
<1>8. /\ c.first_psn = old.first_psn
      /\ c.expected_psn = (psn + 1) % MAX_PSN
      /\ c.segments[d] = [state |-> "RECEIVED", psn |-> psn,
                          segment_type |-> Stream[q][n], mbuf |-> buf]
      /\ \A j \in SegSlots : j # d =>
           /\ c.segments[j].psn = old.segments[j].psn
           /\ c.segments[j].segment_type = old.segments[j].segment_type
           /\ (c.segments[j].state = "RECEIVED" <=> old.segments[j].state = "RECEIVED")
  <2> DEFINE seg == Stream[q][n]
             m   == buf
  <2>1. seg \in SegTypes /\ m \in Mbufs
    BY <1>3
  <2>2. c = jb_add_seg(old, psn, seg, m)
    BY <1>6
  <2> HIDE DEF seg, m, d
  <2>3. /\ c.first_psn = old.first_psn
        /\ c.expected_psn = IF psn = old.expected_psn THEN (psn + 1) % MAX_PSN
                                                      ELSE old.expected_psn
        /\ c.segments[d] = [state |-> "RECEIVED", psn |-> psn, segment_type |-> seg, mbuf |-> m]
    BY <1>2, <1>3, <1>5, <2>1, <2>2, AddIs
  <2>4. \A j \in SegSlots : j # d =>
          /\ c.segments[j].psn = old.segments[j].psn
          /\ c.segments[j].segment_type = old.segments[j].segment_type
          /\ (c.segments[j].state = "RECEIVED" <=> old.segments[j].state = "RECEIVED")
    BY <1>2, <1>3, <1>5, <2>1, <2>2, AddKeeps
  <2>5. c.expected_psn = (psn + 1) % MAX_PSN
    BY <1>7, <2>3
  <2>6. QED
    BY <2>3, <2>4, <2>5 DEF seg, m, d
<1>9. c.expected_psn = PsnAt(q, n + 1)
  <2> DEFINE a == FirstPsn[q] + n - 1
  <2>1. a \in Int /\ 1 \in Int /\ MAX_PSN \in Nat /\ MAX_PSN > 0
        /\ a + 1 = FirstPsn[q] + (n + 1) - 1
    <3>1. FirstPsn[q] \in Nat /\ MAX_PSN \in Nat /\ MAX_PSN > 0
      BY StreamTypes, PsnIsInt
    <3>2. QED
      BY <1>3, <3>1
  <2>2. psn = a % MAX_PSN /\ PsnAt(q, n + 1) = (a + 1) % MAX_PSN
    BY <2>1 DEF PsnAt, psn
  <2> HIDE DEF a
  <2>3. ((a % MAX_PSN) + 1) % MAX_PSN = (a + 1) % MAX_PSN
    BY <2>1, ModPlus, Zenon
  <2>4. QED
    BY <1>8, <2>2, <2>3
<1>10. ASSUME NEW j \in SegSlots
       PROVE  /\ c.segments[j].state = "RECEIVED" <=> j < (n + 1) - (s + 1)
              /\ j < (n + 1) - (s + 1) =>
                   /\ c.segments[j].psn = PsnAt(q, s + 1 + j)
                   /\ c.segments[j].segment_type = Stream[q][s + 1 + j]
  <2>1. j \in Nat
    BY JbBasics
  <2>2. CASE j = d
    <3>1. j < (n + 1) - (s + 1) /\ s + 1 + j = n
      BY <1>3, <2>2
    <3>2. /\ c.segments[j].state = "RECEIVED" /\ c.segments[j].psn = PsnAt(q, n)
          /\ c.segments[j].segment_type = Stream[q][n]
      BY <1>8, <2>2 DEF psn
    <3>3. QED
      BY <3>1, <3>2
  <2>3. CASE j # d
    <3>1. j < (n + 1) - (s + 1) <=> j < n - (s + 1)
      BY <1>3, <2>1, <2>3
    <3>2. QED
      BY <1>1, <1>8, <2>3, <3>1 DEF Holds
  <2>4. QED
    BY <2>2, <2>3
<1>11. Holds(c, q, s, n + 1)
  BY <1>1, <1>8, <1>9, <1>10 DEF Holds
<1>12. QED
  BY <1>5, <1>11 DEF c

\* The write is complete exactly when the packet ends it.
LEMMA CompleteInOrder ==
  ASSUME OrderlyWire, IInv, NEW q \in QPNs, NEW n \in DOMAIN Stream[q],
         NEW s \in Nat, InProgress(q, s), n = next[q], NEW buf \in Mbufs,
         ReceiveSegment(q, n, buf)
  PROVE  Complete(New(q, n, buf)) <=> EndsWrite(Stream[q][n])
<1> DEFINE c == New(q, n, buf)
           d == n - (s + 1)
<1>1. Holds(c, q, s, n + 1) /\ d \in SegSlots /\ n \in Nat /\ d \in Nat
  BY NewHolds, InputTypes, JbBasics
<1>2. EndSeen(c)
  BY NewIs DEF Sound
<1>3. \A k \in s + 1 .. n - 1 : ~EndsWrite(Stream[q][k])
  BY DEF InProgress, EndBefore
<1> HIDE DEF c
<1>4. ASSUME NEW j \in SegSlots
      PROVE  c.segments[j].state = "RECEIVED" <=> j <= d
  <2>1. j \in Nat /\ (j < (n + 1) - (s + 1) <=> j <= d)
    BY <1>1, JbBasics
  <2>2. QED
    BY <1>1, <2>1 DEF Holds
<1>5. ASSUME NEW j \in SegSlots, j <= d
      PROVE  /\ c.segments[j].psn = PsnAt(q, s + 1 + j)
             /\ c.segments[j].segment_type = Stream[q][s + 1 + j]
  <2>1. j \in Nat /\ j < (n + 1) - (s + 1)
    BY <1>1, <1>5, JbBasics
  <2>2. QED
    BY <1>1, <2>1 DEF Holds
<1>6. CASE EndsWrite(Stream[q][n])
  <2>1. s + 1 + d = n /\ d <= d
    BY <1>1
  <2>2. EndsWrite(c.segments[d].segment_type)
    BY <1>1, <1>5, <1>6, <2>1
  <2>3. \A j \in 0 .. d : c.segments[j].state = "RECEIVED"
    <3>1. \A j \in 0 .. d : j \in SegSlots /\ j <= d
      BY <1>1, JbBasics DEF SegSlots
    <3>2. QED
      BY <1>4, <3>1
  <2>4. Complete(c)
    BY <1>1, <1>2, <2>2, <2>3, DeliverableIsComplete
  <2>5. QED
    BY <1>6, <2>4 DEF c
<1>7. CASE ~EndsWrite(Stream[q][n])
  <2>1. ASSUME NEW j \in ReceivedSlots(c) PROVE ~EndsWrite(c.segments[j].segment_type)
    <3>1. j \in SegSlots /\ j <= d
      BY <1>4 DEF ReceivedSlots
    <3>2. j \in Nat /\ s + 1 + j \in s + 1 .. n
      BY <1>1, <3>1, JbBasics
    <3>3. s + 1 + j = n \/ s + 1 + j \in s + 1 .. n - 1
      BY <1>1, <3>2
    <3>4. ~EndsWrite(Stream[q][s + 1 + j])
      BY <1>3, <1>7, <3>3
    <3>5. QED
      BY <1>5, <3>1, <3>4
  <2>2. ~c.write_complete
    BY <1>2, <2>1 DEF EndSeen
  <2>3. QED
    BY <1>7, <2>2 DEF Complete, c
<1>8. QED
  BY <1>6, <1>7

\* The ends of writes are numbered in their order.
LEMMA EndsUpToIs ==
  ASSUME NEW q \in QPNs, NEW s \in Nat
  PROVE  /\ IsFiniteSet(EndsUpTo(q, s)) /\ Cardinality(EndsUpTo(q, s)) \in Nat
         /\ Cardinality(EndsUpTo(q, s)) <= Cardinality(Ends(q))
         /\ Cardinality(Ends(q)) \in Nat
<1>1. EndsUpTo(q, s) \in SUBSET Ends(q) /\ IsFiniteSet(Ends(q))
  BY StreamTypes DEF EndsUpTo
<1>2. QED
  BY <1>1, FS_Subset, FS_CardinalityType

LEMMA EndsGrow ==
  ASSUME NEW q \in QPNs, NEW s \in Nat, NEW e \in Ends(q), s < e
  PROVE  Cardinality(EndsUpTo(q, s)) < Cardinality(EndsUpTo(q, e))
<1>1. Ends(q) \subseteq Nat /\ e \in Nat
  BY StreamTypes
<1>2. /\ IsFiniteSet(EndsUpTo(q, s)) /\ Cardinality(EndsUpTo(q, s)) \in Nat
      /\ IsFiniteSet(EndsUpTo(q, e)) /\ Cardinality(EndsUpTo(q, e)) \in Nat
  BY <1>1, EndsUpToIs
<1>3. e \notin EndsUpTo(q, s)
  BY <1>1 DEF EndsUpTo
<1>4. EndsUpTo(q, s) \cup {e} \in SUBSET EndsUpTo(q, e)
  BY <1>1 DEF EndsUpTo
<1>5. Cardinality(EndsUpTo(q, s) \cup {e}) = Cardinality(EndsUpTo(q, s)) + 1
  BY <1>2, <1>3, FS_AddElement
<1>6. Cardinality(EndsUpTo(q, s) \cup {e}) <= Cardinality(EndsUpTo(q, e))
  BY <1>2, <1>4, FS_Subset
<1>7. Cardinality(EndsUpTo(q, s) \cup {e}) \in Nat
  BY <1>2, <1>5
<1>8. QED
  BY <1>2, <1>5, <1>6, <1>7

LEMMA NthEndIs ==
  ASSUME NEW q \in QPNs, NEW e \in {0} \cup Ends(q)
  PROVE  NthEnd(q, Cardinality(EndsUpTo(q, e))) = e
<1>1. Ends(q) \subseteq Nat \ {0} /\ e \in Nat
  BY StreamTypes
<1>2. CASE e = 0
  <2>1. EndsUpTo(q, e) = {}
    BY <1>1, <1>2 DEF EndsUpTo
  <2>2. QED
    BY <1>2, <2>1, FS_EmptySet DEF NthEnd
<1>3. CASE e # 0
  <2>1. e \in Ends(q)
    BY <1>3
  <2>2. ASSUME NEW x \in Ends(q),
               Cardinality(EndsUpTo(q, x)) = Cardinality(EndsUpTo(q, e))
        PROVE  x = e
    <3>1. x \in Nat /\ Cardinality(EndsUpTo(q, x)) \in Nat
      BY <1>1, EndsUpToIs
    <3>2. ~(x < e) /\ ~(e < x)
      BY <1>1, <2>1, <2>2, <3>1, EndsGrow
    <3>3. QED
      BY <1>1, <3>1, <3>2
  <2>3. Cardinality(EndsUpTo(q, e)) # 0
    <3>1. e \in EndsUpTo(q, e)
      BY <1>1, <2>1 DEF EndsUpTo
    <3>2. QED
      BY <1>1, <3>1, EndsUpToIs, FS_EmptySet
  <2>4. NthEnd(q, Cardinality(EndsUpTo(q, e)))
          = CHOOSE x \in Ends(q) : Cardinality(EndsUpTo(q, x)) = Cardinality(EndsUpTo(q, e))
    BY <2>3 DEF NthEnd, EndsUpTo
  <2>5. QED
    BY <2>1, <2>2, <2>4
<1>4. QED
  BY <1>2, <1>3

\* A write that ends moves the count of ended writes by one.
LEMMA EndCounts ==
  ASSUME NEW q \in QPNs, NEW s \in Nat, NEW n \in Ends(q), EndBefore(q, s, n)
  PROVE  Cardinality(EndsUpTo(q, n)) = Cardinality(EndsUpTo(q, s)) + 1
<1>1. Ends(q) \subseteq Nat /\ n \in Nat /\ s < n
  BY StreamTypes DEF EndBefore
<1>2. ASSUME NEW x \in Ends(q), x <= n, x # n PROVE x <= s
  <2>1. x \in Nat /\ EndsWrite(Stream[q][x])
    BY <1>1 DEF Ends
  <2>2. ~(x \in s + 1 .. n - 1)
    BY <2>1 DEF EndBefore
  <2>3. QED
    BY <1>1, <1>2, <2>1, <2>2
<1>3. \A x \in Ends(q) : x <= s => x <= n
  BY <1>1
<1>4. EndsUpTo(q, n) = EndsUpTo(q, s) \cup {n}
  BY <1>1, <1>2, <1>3 DEF EndsUpTo
<1>5. n \notin EndsUpTo(q, s)
  BY <1>1 DEF EndsUpTo
<1>6. QED
  BY <1>4, <1>5, EndsUpToIs, FS_AddElement

LEMMA SentIs ==
  ASSUME NEW q \in QPNs, NEW k \in 1 .. Cardinality(Ends(q)), NEW a, NEW b,
         NthEnd(q, k - 1) = a, NthEnd(q, k) = b
  PROVE  WritesSent[q][k]
           = [j \in 1 .. b - a |-> [psn |-> PsnAt(q, a + j), seg |-> Stream[q][a + j]]]
<1> DEFINE G(p, i) == [j \in 1 .. NthEnd(p, i) - NthEnd(p, i - 1) |->
                         [psn |-> PsnAt(p, NthEnd(p, i - 1) + j),
                          seg |-> Stream[p][NthEnd(p, i - 1) + j]]]
<1>1. WritesSent = [p \in QPNs |-> [i \in 1 .. Cardinality(Ends(p)) |-> G(p, i)]]
  BY DEF WritesSent
<1>2. G(q, k) = [j \in 1 .. b - a |-> [psn |-> PsnAt(q, a + j), seg |-> Stream[q][a + j]]]
  OBVIOUS
<1> HIDE DEF G
<1>3. WritesSent[q][k] = G(q, k)
  BY <1>1
<1>4. QED
  BY <1>2, <1>3

\* What the buffer hands over when packet n ends the write after s is the write
\* the remote host sent.
LEMMA BatchIsWrite ==
  ASSUME OrderlyWire, IInv, NEW q \in QPNs, NEW n \in DOMAIN Stream[q],
         NEW s \in Nat, InProgress(q, s), n = next[q], NEW buf \in Mbufs,
         ReceiveSegment(q, n, buf),
         Complete(New(q, n, buf)), NEW refused
  PROVE  /\ Len(delivered[q]) + 1 \in DOMAIN WritesSent[q]
         /\ [k \in DOMAIN Batch(q, n, buf, refused) |->
               [psn |-> Batch(q, n, buf, refused)[k].psn, seg |-> Batch(q, n, buf, refused)[k].seg]]
              = WritesSent[q][Len(delivered[q]) + 1]
<1> DEFINE c == New(q, n, buf)
           d == n - (s + 1)
           batch == Batch(q, n, buf, refused)
<1>0. PICK K \in Nat : K = Len(delivered[q])
  BY EndsUpToIs DEF InProgress
<1>1. /\ Holds(c, q, s, n + 1) /\ d \in SegSlots /\ n \in Nat /\ d \in Nat
      /\ EndsWrite(Stream[q][n]) /\ EndSeen(c) /\ Complete(c)
  BY NewHolds, InputTypes, JbBasics, CompleteInOrder, NewIs DEF Sound
<1>2. /\ n \in Ends(q) /\ s \in {0} \cup Ends(q) /\ EndBefore(q, s, n)
      /\ K = Cardinality(EndsUpTo(q, s)) /\ K \in Nat
  BY <1>0, <1>1, EndsUpToIs DEF Ends, InProgress, EndBefore
<1>3. Cardinality(EndsUpTo(q, n)) = K + 1
  BY <1>2, EndCounts
<1>4. NthEnd(q, K + 1) = n /\ NthEnd(q, K) = s
  BY <1>2, <1>3, NthEndIs
<1>5. K + 1 \in 1 .. Cardinality(Ends(q))
  <2>1. K + 1 <= Cardinality(Ends(q)) /\ Cardinality(Ends(q)) \in Nat
    BY <1>1, <1>3, EndsUpToIs
  <2>2. QED
    BY <1>2, <2>1
<1> HIDE DEF c
<1>6. PICK w \in 1 .. JB_MAX_SEGMENTS :
        /\ jb_get_ordered_segs(c) = [k \in 1 .. w |-> c.segments[k - 1]]
        /\ \A j \in 0 .. w - 1 : /\ c.segments[j].state = "RECEIVED"
                                 /\ EndsWrite(c.segments[j].segment_type) <=> j = w - 1
  BY <1>1, OrderedIs
<1>7. JB_MAX_SEGMENTS \in Nat /\ w \in Nat /\ w > 0 /\ w <= JB_MAX_SEGMENTS
  BY JbBasics
<1>8. ASSUME NEW j \in SegSlots, j <= d
      PROVE  /\ c.segments[j].psn = PsnAt(q, s + 1 + j)
             /\ c.segments[j].segment_type = Stream[q][s + 1 + j]
  <2>1. j \in Nat /\ j < (n + 1) - (s + 1)
    BY <1>1, <1>8, JbBasics
  <2>2. QED
    BY <1>1, <2>1 DEF Holds
\* The walk stops at packet n.
<1>9. w = n - s
  <2>1. w - 1 <= d
    <3>1. w - 1 \in SegSlots /\ c.segments[w - 1].state = "RECEIVED"
      BY <1>6, <1>7 DEF SegSlots
    <3>2. w - 1 < (n + 1) - (s + 1)
      BY <1>1, <3>1 DEF Holds
    <3>3. QED
      BY <1>1, <1>7, <3>2
  <2>2. s + 1 + d = n /\ d <= d
    BY <1>1
  <2>3. EndsWrite(c.segments[d].segment_type)
    BY <1>1, <1>8, <2>2
  <2>4. ASSUME w - 1 < d PROVE FALSE
    <3>1. w - 1 \in 0 .. w - 1 /\ w - 1 \in SegSlots /\ w - 1 <= d
      BY <1>1, <1>7, <2>4 DEF SegSlots
    <3>2. EndsWrite(c.segments[w - 1].segment_type)
      BY <1>6, <3>1
    <3>3. EndsWrite(Stream[q][s + 1 + (w - 1)])
      BY <1>8, <3>1, <3>2
    <3>4. s + 1 + (w - 1) \in s + 1 .. n - 1
      BY <1>1, <1>7, <2>4
    <3>5. QED
      BY <1>2, <3>3, <3>4 DEF EndBefore
  <2>5. QED
    BY <1>1, <1>7, <2>1, <2>4
<1>10. Segs(q, n, buf) = [k \in 1 .. w |-> c.segments[k - 1]]
  BY <1>6 DEF Segs, c
<1>11. /\ DOMAIN batch = 1 .. n - s
       /\ \A k \in 1 .. n - s : /\ batch[k].psn = c.segments[k - 1].psn
                                /\ batch[k].seg = c.segments[k - 1].segment_type
  BY <1>9, <1>10 DEF Batch
<1> HIDE DEF batch
<1>12. ASSUME NEW k \in 1 .. n - s
       PROVE  batch[k].psn = PsnAt(q, s + k) /\ batch[k].seg = Stream[q][s + k]
  <2>1. k - 1 \in SegSlots /\ k - 1 <= d /\ s + 1 + (k - 1) = s + k
    BY <1>1, <1>7, <1>9 DEF SegSlots
  <2>2. QED
    BY <1>8, <1>11, <2>1
<1>13. WritesSent[q][K + 1]
         = [k \in 1 .. n - s |-> [psn |-> PsnAt(q, s + k), seg |-> Stream[q][s + k]]]
  <2>1. PICK L \in 1 .. Cardinality(Ends(q)) : L = K + 1
    BY <1>5
  <2>2. L - 1 = K
    BY <1>2, <2>1
  <2>3. NthEnd(q, L - 1) = s /\ NthEnd(q, L) = n
    BY <1>4, <2>1, <2>2
  <2>4. WritesSent[q][L]
          = [k \in 1 .. n - s |-> [psn |-> PsnAt(q, s + k), seg |-> Stream[q][s + k]]]
    BY <2>3, SentIs
  <2>5. QED
    BY <2>1, <2>4
<1>14. [k \in DOMAIN batch |-> [psn |-> batch[k].psn, seg |-> batch[k].seg]]
         = WritesSent[q][K + 1]
  BY <1>11, <1>12, <1>13
<1>15. K + 1 \in DOMAIN WritesSent[q]
  BY <1>5 DEF WritesSent
<1>16. QED
  BY <1>0, <1>14, <1>15 DEF batch

LEMMA NextArrives ==
  ASSUME OrderlyWire, InOrder, NEW q \in QPNs, NEW n \in DOMAIN Stream[q], NEW buf \in Mbufs,
         Arrive(q, n, buf)
  PROVE  /\ n = next[q] /\ hung = FALSE
         /\ next' \in [QPNs -> Nat]
         /\ next'[q] = n + 1
         /\ \A p \in QPNs : p # q => next'[p] = next[p]
         /\ \E s \in Nat : InProgress(q, s)
<1>1. n = next[q] /\ ~hung /\ next' = [next EXCEPT ![q] = n + 1]
  BY DEF Arrive, Arrivals, OrderlyWire
<1>2. next \in [QPNs -> Nat] /\ \E s \in Nat : InProgress(q, s)
  BY <1>1 DEF InOrder
<1>3. n + 1 \in Nat
  BY InputTypes
<1>4. hung = FALSE
  BY <1>1 DEF Arrive
<1>5. QED
  BY <1>1, <1>2, <1>3, <1>4

\* A QP without a context finds a free entry: there is one for each.
LEMMA RoomForAll ==
  ASSUME OrderlyWire, IInv, InOrder, NEW q \in QPNs, \A i \in Entries : writes[i].qpn # q
  PROVE  FreeEntry(writes) # 0
<1> SUFFICES ASSUME FreeEntry(writes) = 0 PROVE FALSE
  OBVIOUS
<1> DEFINE hits == {i \in DOMAIN writes : writes[i].segment_count = 0 /\ writes[i].qpn = 0}
           others == QPNs \ {q}
           owner == [i \in Entries |-> writes[i].qpn]
<1>1. DOMAIN writes = Entries
  BY DEF IInv, TypeOK
<1>2. hits = {}
  <2>1. hits \subseteq Nat \ {0}
    BY <1>1, EntriesAre
  <2>2. hits # {} => FirstEntry(hits) # 0
    BY <2>1, FirstEntryIs
  <2>3. QED
    BY <2>2 DEF FreeEntry
<1>3. \A i \in Entries : writes[i].qpn # 0 /\ writes[i].qpn \in others
  <2>1. \A i \in Entries : writes[i].qpn \in QPNs \cup {0}
    BY DEF IInv, TypeOK, jb_write_context_t
  <2>2. QED
    BY <1>1, <1>2, <2>1 DEF InOrder
<1>4. owner \in [Entries -> others]
  BY <1>3
<1>5. /\ IsFiniteSet(others) /\ Cardinality(others) = Cardinality(QPNs) - 1
      /\ Cardinality(QPNs) \in Nat
  BY FS_RemoveElement, FS_CardinalityType DEF OrderlyWire
<1>6. IsFiniteSet(Entries) /\ Cardinality(Entries) = JB_MAX_PENDING_WRITES
      /\ JB_MAX_PENDING_WRITES \in Nat
  <2>1. JB_MAX_PENDING_WRITES \in Nat /\ JB_MAX_PENDING_WRITES > 0 /\ 1 \in Int
    BY ReassemblyAssumption
  <2>2. QED
    BY <2>1, FS_Interval DEF Entries
<1>7. Cardinality(others) < Cardinality(Entries)
  <2>1. Cardinality(QPNs) <= JB_MAX_PENDING_WRITES
    BY DEF OrderlyWire
  <2>2. QED
    BY <1>5, <1>6, <2>1
<1> HIDE DEF others, owner
<1>8. PICK x \in Entries, y \in Entries : x # y /\ owner[x] = owner[y]
  BY <1>4, <1>5, <1>6, <1>7, FS_PigeonHole
<1>9. writes[x].qpn = writes[y].qpn /\ writes[x].qpn # 0
  BY <1>3, <1>8 DEF owner
<1>10. QED
  BY <1>8, <1>9 DEF IInv, TableExact

\* The packets that arrive in their turn are all stored: none is taken for a
\* duplicate and none is dropped.
LEMMA NoDuplicate ==
  ASSUME OrderlyWire, IInv, InOrder, NEW q \in QPNs, NEW n \in DOMAIN Stream[q],
         NEW buf \in Mbufs
  PROVE  ~ReceiveDuplicate(q, n, buf)
<1> SUFFICES ASSUME ReceiveDuplicate(q, n, buf) PROVE FALSE
  OBVIOUS
<1>1. /\ Arrive(q, n, buf) /\ jb_find(writes, q) # 0
      /\ Received(writes[jb_find(writes, q)], PsnAt(q, n))
  BY DEF ReceiveDuplicate
<1>2. jb_find(writes, q) \in Entries /\ writes[jb_find(writes, q)].qpn = q
  BY <1>1, FindIs DEF IInv
<1>3. PICK s \in Nat : InProgress(q, s)
  BY <1>1, NextArrives
<1>4. n = next[q] /\ n \in Nat
  BY <1>1, NextArrives, InputTypes
<1> DEFINE c == writes[jb_find(writes, q)]
<1>5. Holds(c, q, s, n) /\ EndBefore(q, s, n)
  BY <1>2, <1>3, <1>4 DEF InProgress
<1> HIDE DEF c
<1>6. n - (s + 1) \in SegSlots /\ Idx(c, PsnAt(q, n)) = n - (s + 1)
  BY <1>5, SlotInOrder DEF Holds
<1>7. c.segments[n - (s + 1)].state = "RECEIVED"
  BY <1>1, <1>6 DEF Received, c
<1>8. n - (s + 1) < n - (s + 1)
  BY <1>5, <1>6, <1>7 DEF Holds
<1>9. QED
  BY <1>4, <1>8

LEMMA NoRejection ==
  ASSUME OrderlyWire, IInv, InOrder, NEW q \in QPNs, NEW n \in DOMAIN Stream[q],
         NEW buf \in Mbufs
  PROVE  ~ReceiveRejected(q, n, buf)
<1> SUFFICES ASSUME ReceiveRejected(q, n, buf) PROVE FALSE
  OBVIOUS
<1>1. jb_find(writes, q) = 0 /\ FreeEntry(writes) = 0
  BY DEF ReceiveRejected
<1>2. \A i \in Entries : writes[i].qpn # q
  BY <1>1, FindIs DEF IInv
<1>3. QED
  BY <1>1, <1>2, RoomForAll

\* A step that leaves the entry of p alone leaves its write in progress alone.
LEMMA OthersKept ==
  ASSUME NEW e \in Entries, NEW p \in QPNs, NEW s \in Nat, InProgress(p, s),
         next'[p] = next[p], delivered'[p] = delivered[p],
         \A i \in Entries : i # e => writes'[i] = writes[i],
         writes[e].qpn # p, writes'[e].qpn # p
  PROVE  InProgress(p, s)'
<1>1. EndBefore(p, s, next'[p])
  BY DEF InProgress
<1>2. \A i \in Entries : writes'[i].qpn = p => Holds(writes'[i], p, s, next'[p])
  BY DEF InProgress
<1>3. s + 1 < next'[p] => \E i \in Entries : writes'[i].qpn = p
  BY DEF InProgress
<1>4. Len(delivered'[p]) = Cardinality(EndsUpTo(p, s))
  BY DEF InProgress
<1>5. QED
  BY <1>1, <1>2, <1>3, <1>4 DEF InProgress

LEMMA SegmentInOrder ==
  ASSUME OrderlyWire, IInv, InOrder, NEW q \in QPNs, NEW n \in DOMAIN Stream[q], NEW buf \in Mbufs,
         ReceiveSegment(q, n, buf)
  PROVE  InOrder'
<1>1. /\ Arrive(q, n, buf) /\ At(q) \in Entries
      /\ Known(q) => writes[At(q)] = Old(q, n)
      /\ ~Known(q) => writes[At(q)].qpn = 0 /\ \A i \in Entries : writes[i].qpn # q
      /\ Old(q, n).qpn = q
  BY SegmentIs
<1>2. /\ n = next[q] /\ hung = FALSE /\ next' \in [QPNs -> Nat] /\ next'[q] = n + 1
      /\ \A p \in QPNs : p # q => next'[p] = next[p]
  BY <1>1, NextArrives
<1>3. PICK s \in Nat : InProgress(q, s)
  BY <1>1, NextArrives
<1>4. n \in Nat /\ EndBefore(q, s, n)
  BY <1>2, <1>3, InputTypes DEF InProgress
<1>5. New(q, n, buf).qpn = q /\ q # 0
  BY NewIs DEF OrderlyWire
<1>6. DOMAIN writes = Entries /\ delivered \in [QPNs -> Seq(Seq(Packet))]
  BY DEF IInv, TypeOK, DeliveredType
<1>7. \A i \in Entries : i # At(q) => writes[i].qpn # q
  <2>1. CASE Known(q)
    BY <1>1, <1>5, <2>1 DEF IInv, TableExact
  <2>2. CASE ~Known(q)
    BY <1>1, <2>2
  <2>3. QED
    BY <2>1, <2>2
<1>8. ASSUME writes'[At(q)].qpn \in {0, q},
             \A i \in Entries : i # At(q) => writes'[i] = writes[i],
             NEW p \in QPNs, p # q, delivered'[p] = delivered[p]
      PROVE  \E t \in Nat : InProgress(p, t)'
  <2>1. PICK t \in Nat : InProgress(p, t)
    BY <1>2 DEF InOrder
  <2>2. writes[At(q)].qpn # p /\ p # 0
    BY <1>1, <1>8 DEF OrderlyWire
  <2>3. writes'[At(q)].qpn # p /\ next'[p] = next[p]
    BY <1>2, <1>8, <2>2
  <2>4. InProgress(p, t)'
    BY <1>1, <1>8, <2>1, <2>2, <2>3, OthersKept
  <2>5. QED
    BY <2>4
<1>9. CASE ~Complete(New(q, n, buf))
  <2>1. writes' = [writes EXCEPT ![At(q)] = New(q, n, buf)] /\ delivered' = delivered
    BY <1>9, SegmentIs DEF Conclude, Keep
  <2>2. \A i \in Entries : writes'[i] = IF i = At(q) THEN New(q, n, buf) ELSE writes[i]
    BY <1>1, <1>6, <2>1
  <2>3. Holds(New(q, n, buf), q, s, n + 1)
    BY <1>2, <1>3, NewHolds
  <2>4. ~EndsWrite(Stream[q][n])
    BY <1>2, <1>3, <1>9, CompleteInOrder
  <2>5. EndBefore(q, s, n + 1)
    <3>1. \A k \in s + 1 .. (n + 1) - 1 : k = n \/ k \in s + 1 .. n - 1
      BY <1>4
    <3>2. s < n + 1
      BY <1>4 DEF EndBefore
    <3>3. QED
      BY <1>4, <2>4, <3>1, <3>2 DEF EndBefore
  <2>6. EndBefore(q, s, next'[q])
    BY <1>2, <2>5
  <2>7. \A i \in Entries : writes'[i].qpn = q => Holds(writes'[i], q, s, next'[q])
    BY <1>2, <1>7, <2>2, <2>3
  <2>8. \E i \in Entries : writes'[i].qpn = q
    BY <1>1, <1>5, <2>2
  <2>9. Len(delivered'[q]) = Cardinality(EndsUpTo(q, s))
    BY <1>3, <2>1 DEF InProgress
  <2>10. InProgress(q, s)'
    BY <2>6, <2>7, <2>8, <2>9 DEF InProgress
  <2>11. \A p \in QPNs : \E t \in Nat : InProgress(p, t)'
    BY <1>1, <1>5, <1>8, <2>1, <2>2, <2>10
  <2>12. \A i \in Entries : writes'[i].qpn = 0 => writes'[i].segment_count = 0
    BY <1>5, <2>2 DEF InOrder
  <2>13. QED
    BY <1>2, <2>11, <2>12 DEF InOrder
<1>10. CASE Complete(New(q, n, buf))
  <2>1. PICK refused \in SUBSET DOMAIN Segs(q, n, buf) :
          /\ writes' = [writes EXCEPT ![At(q)] = EmptyWrite]
          /\ active' = (Count(q) - 1) % UINT_MOD
          /\ delivered' = [delivered EXCEPT ![q] = Append(@, Batch(q, n, buf, refused))]
          /\ out' = [Said(q, n, buf) EXCEPT !.ack = PsnAt(q, n), !.live = pool'[buf] = 0]
          /\ lock' = lock /\ hung' = hung
    <3>1. PICK r \in SUBSET DOMAIN Segs(q, n, buf) : Delivery(q, n, buf, r)
      BY <1>10, DeliveryIs
    <3>2. QED
      BY <3>1, Zenon DEF Delivery
  <2>2. \A i \in Entries : writes'[i] = IF i = At(q) THEN EmptyWrite ELSE writes[i]
    BY <1>1, <1>6, <2>1
  <2>3. EmptyWrite.qpn = 0 /\ EmptyWrite.segment_count = 0
    BY DEF EmptyWrite
  <2>4. n \in Ends(q) /\ EndsWrite(Stream[q][n])
    BY <1>2, <1>3, <1>10, CompleteInOrder DEF Ends
  <2>5. EndBefore(q, n, next'[q])
    <3>1. n < n + 1 /\ ~\E k : k \in n + 1 .. (n + 1) - 1
      BY <1>4
    <3>2. QED
      BY <1>2, <2>4, <3>1 DEF EndBefore
  <2>6. \A i \in Entries : writes'[i].qpn # q
    BY <1>5, <1>7, <2>2, <2>3
  <2>7. ~(n + 1 < next'[q])
    BY <1>2, <1>4
  <2>8. Len(delivered'[q]) = Cardinality(EndsUpTo(q, n))
    <3>1. delivered[q] \in Seq(Seq(Packet)) /\ Batch(q, n, buf, refused) \in Seq(Packet)
      BY <1>6, <1>10, BatchIs
    <3>2. Len(delivered'[q]) = Len(delivered[q]) + 1
      BY <1>6, <2>1, <3>1
    <3>3. Cardinality(EndsUpTo(q, n)) = Cardinality(EndsUpTo(q, s)) + 1
      BY <1>4, <2>4, EndCounts
    <3>4. QED
      BY <1>3, <3>2, <3>3 DEF InProgress
  <2>9. InProgress(q, n)'
    BY <2>5, <2>6, <2>7, <2>8 DEF InProgress
  <2>10. \A p \in QPNs : p # q => delivered'[p] = delivered[p]
    BY <1>6, <2>1
  <2>11. \A p \in QPNs : \E t \in Nat : InProgress(p, t)'
    BY <1>1, <1>4, <1>8, <2>2, <2>3, <2>9, <2>10
  <2>12. \A i \in Entries : writes'[i].qpn = 0 => writes'[i].segment_count = 0
    BY <2>2, <2>3 DEF InOrder
  <2>13. QED
    BY <1>2, <2>11, <2>12 DEF InOrder
<1>11. QED
  BY <1>9, <1>10

LEMMA InOrderInit == OrderlyWire /\ Init => InOrder
<1> SUFFICES ASSUME OrderlyWire, Init PROVE InOrder
  OBVIOUS
<1>1. \A i \in Entries : writes[i] = EmptyWrite
  BY DEF Init
<1>2. EmptyWrite.qpn = 0 /\ EmptyWrite.segment_count = 0
  BY DEF EmptyWrite
<1>3. ASSUME NEW q \in QPNs PROVE InProgress(q, 0)
  <2>1. next[q] = 1 /\ delivered[q] = << >> /\ q # 0
    BY DEF Init, OrderlyWire
  <2>2. EndBefore(q, 0, next[q])
    BY <2>1 DEF EndBefore
  <2>3. EndsUpTo(q, 0) = {}
    BY StreamTypes DEF EndsUpTo
  <2>4. Len(delivered[q]) = Cardinality(EndsUpTo(q, 0))
    BY <2>1, <2>3, FS_EmptySet
  <2>5. QED
    BY <1>1, <1>2, <2>1, <2>2, <2>4 DEF InProgress
<1>4. next \in [QPNs -> Nat]
  BY DEF Init
<1>5. QED
  BY <1>1, <1>2, <1>3, <1>4 DEF InOrder

LEMMA InOrderNext == OrderlyWire /\ IInv /\ InOrder /\ [Next]_vars => InOrder'
<1> SUFFICES ASSUME OrderlyWire, IInv, InOrder, [Next]_vars PROVE InOrder'
  OBVIOUS
<1>1. ASSUME NEW q \in QPNs, NEW n \in DOMAIN Stream[q], NEW buf \in Mbufs,
             ReceiveSegment(q, n, buf)
      PROVE  InOrder'
  BY <1>1, SegmentInOrder
<1>2. ASSUME NEW q \in QPNs, NEW n \in DOMAIN Stream[q], NEW buf \in Mbufs,
             ReceiveDuplicate(q, n, buf) \/ ReceiveRejected(q, n, buf)
      PROVE  InOrder'
  BY <1>2, NoDuplicate, NoRejection
\* A core that hangs handles no packet any more.
<1>3. ASSUME NEW q \in QPNs, NEW n \in DOMAIN Stream[q], NEW buf \in Mbufs,
             SelfDeadlock(q, n, buf)
      PROVE  InOrder'
  <2>1. Arrive(q, n, buf) /\ hung' = TRUE /\ writes' = writes
    BY <1>3 DEF SelfDeadlock
  <2>2. next' \in [QPNs -> Nat]
    BY <2>1, NextArrives
  <2>3. QED
    BY <2>1, <2>2 DEF InOrder
<1>4. CASE UNCHANGED <<writes, next, hung, delivered>>
  BY <1>4 DEF InOrder, InProgress
<1>5. QED
  BY <1>1, <1>2, <1>3, <1>4 DEF Next, TxDone, Quiet, vars

\* A batch as the promise sees it.
Stripped(batch) == [k \in DOMAIN batch |-> [psn |-> batch[k].psn, seg |-> batch[k].seg]]
Plain == [psn: PSN, seg: SegTypes \cup {NONE}]

LEMMA StrippedIs ==
  ASSUME NEW batch \in Seq(Packet) PROVE Stripped(batch) \in Seq(Plain)
<1>1. Len(batch) \in Nat /\ DOMAIN batch = 1 .. Len(batch)
  OBVIOUS
<1>2. \A k \in 1 .. Len(batch) : [psn |-> batch[k].psn, seg |-> batch[k].seg] \in Plain
  <2>1. \A k \in 1 .. Len(batch) : batch[k] \in Packet
    BY <1>1
  <2>2. QED
    BY <2>1 DEF Packet, Plain
<1>3. Stripped(batch) \in [1 .. Len(batch) -> Plain]
  BY <1>1, <1>2 DEF Stripped
<1>4. QED
  BY <1>1, <1>3

LEMMA AppendStripped ==
  ASSUME NEW D \in Seq(Seq(Packet)), NEW B \in Seq(Packet)
  PROVE  /\ [b \in DOMAIN D |-> Stripped(D[b])] \in Seq(Seq(Plain))
         /\ Len([b \in DOMAIN D |-> Stripped(D[b])]) = Len(D)
         /\ [b \in DOMAIN Append(D, B) |-> Stripped(Append(D, B)[b])]
              = Append([b \in DOMAIN D |-> Stripped(D[b])], Stripped(B))
<1> DEFINE L == Len(D)
           E == Append(D, B)
           H == [b \in DOMAIN D |-> Stripped(D[b])]
           I == [b \in DOMAIN E |-> Stripped(E[b])]
           A == Append(H, Stripped(B))
<1>1. L \in Nat /\ DOMAIN D = 1 .. L /\ \A b \in 1 .. L : D[b] \in Seq(Packet)
  OBVIOUS
<1>2. /\ DOMAIN E = 1 .. L + 1 /\ E[L + 1] = B
      /\ \A b \in 1 .. L : E[b] = D[b]
  BY <1>1
<1>3. Stripped(B) \in Seq(Plain) /\ \A b \in 1 .. L : Stripped(D[b]) \in Seq(Plain)
  BY <1>1, StrippedIs
<1> HIDE DEF L, E
<1>4. H \in [1 .. L -> Seq(Plain)]
  BY <1>1, <1>3
<1>5. H \in Seq(Seq(Plain)) /\ Len(H) = L
  <2> HIDE DEF H
  <2>1. H \in Seq(Seq(Plain))
    BY <1>1, <1>4
  <2>2. PICK m \in Nat : m = Len(H) /\ DOMAIN H = 1 .. m
    BY <2>1
  <2>3. 1 .. m = 1 .. L
    BY <1>4, <2>2
  <2>4. m = L
    <3>1. m \in 1 .. m \/ m = 0
      OBVIOUS
    <3>2. L \in 1 .. L \/ L = 0
      BY <1>1
    <3>3. m <= L /\ L <= m
      BY <1>1, <2>3, <3>1, <3>2
    <3>4. QED
      BY <1>1, <3>3
  <2>5. QED
    BY <2>1, <2>2, <2>4
<1>6. \A b \in 1 .. L : H[b] = Stripped(D[b])
  BY <1>1
<1> HIDE DEF H
<1>7. /\ A \in Seq(Seq(Plain)) /\ DOMAIN A = 1 .. L + 1 /\ A[L + 1] = Stripped(B)
      /\ \A b \in 1 .. L : A[b] = H[b]
  BY <1>1, <1>3, <1>5
<1> HIDE DEF A
<1>8. \A b \in 1 .. L + 1 : Stripped(E[b]) = A[b]
  <2>1. \A b \in 1 .. L + 1 : b = L + 1 \/ b \in 1 .. L
    BY <1>1
  <2>2. QED
    BY <1>2, <1>6, <1>7, <2>1
<1>9. A = [b \in 1 .. L + 1 |-> A[b]]
  BY <1>7
<1>10. I = A
  BY <1>2, <1>8, <1>9
<1>11. QED
  BY <1>5, <1>10 DEF H, I, A, E, L

\* The step that completes a write hands over the next write of its QP.
LEMMA CompletionHands ==
  ASSUME OrderlyWire, IInv, InOrder, NEW q \in QPNs, NEW n \in DOMAIN Stream[q], NEW buf \in Mbufs,
         ReceiveSegment(q, n, buf), Complete(New(q, n, buf))
  PROVE  Promise!Hand(q)
<1>1. PICK refused \in SUBSET DOMAIN Segs(q, n, buf) :
        /\ writes' = [writes EXCEPT ![At(q)] = EmptyWrite]
        /\ active' = (Count(q) - 1) % UINT_MOD
        /\ delivered' = [delivered EXCEPT ![q] = Append(@, Batch(q, n, buf, refused))]
        /\ out' = [Said(q, n, buf) EXCEPT !.ack = PsnAt(q, n), !.live = pool'[buf] = 0]
        /\ lock' = lock /\ hung' = hung
  <2>1. PICK r \in SUBSET DOMAIN Segs(q, n, buf) : Delivery(q, n, buf, r)
    BY DeliveryIs
  <2>2. QED
    BY <2>1, Zenon DEF Delivery
<1> DEFINE B == Batch(q, n, buf, refused)
           D == delivered[q]
           W == WritesSent[q][Len(D) + 1]
<1>2. Arrive(q, n, buf)
  BY SegmentIs
<1>3. PICK s \in Nat : InProgress(q, s)
  BY <1>2, NextArrives
<1>4. n = next[q]
  BY <1>2, NextArrives
<1>5. Len(D) + 1 \in DOMAIN WritesSent[q] /\ Stripped(B) = W
  BY <1>3, <1>4, BatchIsWrite DEF Stripped
<1>6. B \in Seq(Packet) /\ delivered \in [QPNs -> Seq(Seq(Packet))] /\ D \in Seq(Seq(Packet))
  BY BatchIs DEF IInv, DeliveredType
<1>7. /\ delivered'[q] = Append(D, B)
      /\ \A p \in QPNs : p # q => delivered'[p] = delivered[p]
  BY <1>1, <1>6
<1>8. /\ HandedOver = [p \in QPNs |-> [b \in DOMAIN delivered[p] |-> Stripped(delivered[p][b])]]
      /\ HandedOver'
           = [p \in QPNs |-> [b \in DOMAIN delivered'[p] |-> Stripped(delivered'[p][b])]]
  BY DEF HandedOver, Stripped
<1> HIDE DEF B, D
<1>9. /\ Len([b \in DOMAIN D |-> Stripped(D[b])]) = Len(D) /\ Len(D) \in Nat
      /\ [b \in DOMAIN Append(D, B) |-> Stripped(Append(D, B)[b])]
           = Append([b \in DOMAIN D |-> Stripped(D[b])], Stripped(B))
  BY <1>6, AppendStripped
<1>10. HandedOver[q] = [b \in DOMAIN D |-> Stripped(D[b])]
  BY <1>8 DEF D
<1>11. HandedOver'[q] = Append(HandedOver[q], W) /\ Len(HandedOver[q]) = Len(D)
  BY <1>5, <1>7, <1>8, <1>9, <1>10
<1>12. \A p \in QPNs : p # q => HandedOver'[p] = HandedOver[p]
  BY <1>7, <1>8
<1>13. HandedOver' = [HandedOver EXCEPT ![q] = Append(@, WritesSent[q][Len(@) + 1])]
  <2>1. DOMAIN HandedOver = QPNs /\ DOMAIN HandedOver' = QPNs
        /\ HandedOver' = [p \in QPNs |-> HandedOver'[p]]
    BY <1>8
  <2> HIDE DEF W
  <2>2. HandedOver' = [HandedOver EXCEPT ![q] = Append(HandedOver[q], W)]
    BY <1>8, <1>11, <1>12, <2>1
  <2>3. QED
    BY <1>11, <2>2 DEF W
<1>14. Len(HandedOver[q]) < Len(WritesSent[q])
  <2>1. WritesSent[q] = [k \in 1 .. Cardinality(Ends(q)) |-> WritesSent[q][k]]
    BY DEF WritesSent
  <2>2. Cardinality(Ends(q)) \in Nat
    BY EndsUpToIs
  <2>3. Len(WritesSent[q]) = Cardinality(Ends(q)) /\ DOMAIN WritesSent[q] = 1 .. Cardinality(Ends(q))
    BY <2>1, <2>2
  <2>4. QED
    BY <1>5, <1>9, <1>11, <2>2, <2>3
<1>15. QED
  BY <1>13, <1>14 DEF Promise!Hand

\* Over a wire that keeps the order, and with an entry for every QP and a slot
\* for every segment, the jitter buffer hands each QP's writes to the LAN whole,
\* in the order they were sent and once: it implements WriteDelivery, for
\* streams of any length and PSNs that wrap any number of times.
THEOREM WholeWritesDelivered == OrderlyWire => (Spec => DeliversWholeWrites)
<1> SUFFICES ASSUME OrderlyWire PROVE Spec => DeliversWholeWrites
  OBVIOUS
<1>1. Init => InOrder
  BY InOrderInit
<1>2. IInv /\ InOrder /\ [Next]_vars => InOrder'
  BY InOrderNext
<1>3. Init => Promise!Init
  <2> SUFFICES ASSUME Init PROVE Promise!Init
    OBVIOUS
  <2>1. \A q \in QPNs : delivered[q] = << >>
    BY DEF Init
  <2>2. QED
    BY <2>1 DEF HandedOver, Promise!Init
<1>4. IInv /\ InOrder /\ [Next]_vars => [Promise!Next]_HandedOver
  <2> SUFFICES ASSUME IInv, InOrder, [Next]_vars PROVE [Promise!Next]_HandedOver
    OBVIOUS
  <2>1. CASE delivered' = delivered
    BY <2>1 DEF HandedOver
  <2>2. ASSUME NEW q \in QPNs, NEW n \in DOMAIN Stream[q], NEW buf \in Mbufs,
               ReceiveSegment(q, n, buf)
        PROVE  [Promise!Next]_HandedOver
    <3>1. CASE Complete(New(q, n, buf))
      BY <2>2, <3>1, CompletionHands DEF Promise!Next
    <3>2. CASE ~Complete(New(q, n, buf))
      <4>1. delivered' = delivered
        BY <2>2, <3>2, SegmentIs DEF Conclude, Keep
      <4>2. QED
        BY <2>1, <4>1
    <3>3. QED
      BY <3>1, <3>2
  <2>3. QED
    BY <2>1, <2>2, DuplicateIs DEF Next, ReceiveRejected, SelfDeadlock, TxDone, Quiet, vars
<1>5. QED
  BY <1>1, <1>2, <1>3, <1>4, Invariant, PTL DEF Spec, DeliversWholeWrites, Promise!Spec

============================================================================
