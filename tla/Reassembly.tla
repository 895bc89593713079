----------------------------- MODULE Reassembly -----------------------------
(***************************************************************************)
(* The WAN side of one lcore: the jitter buffer of src/jitter_buffer.c and *)
(* the data branch of proc_process_wan_rx that drives it.  A WRITE packet  *)
(* is one step: jb_add_seg, the NACK check, and, once the write is         *)
(* complete, its delivery to the LAN, the removal of its context and the   *)
(* ACK.  The buffer belongs to one lcore, so no other step comes between.  *)
(*                                                                         *)
(* Only the wire and the NIC are concurrent with it: Channel says in which *)
(* order packets arrive, and the NIC gives mbufs back when it has sent     *)
(* them.  A control message stands for what arq_build_ctrl_msg is called   *)
(* with; whether it gets through is up to the wire.                        *)
(*                                                                         *)
(* No reference is ever added to an mbuf on this path, so that every       *)
(* rte_pktmbuf_free puts it into the mempool, which does not look whether  *)
(* it is there already: what is freed twice is in the pool twice, and is   *)
(* handed out twice to packets that arrive.                                *)
(***************************************************************************)
EXTENDS JitterBuffer

CONSTANTS
  JB_MAX_PENDING_WRITES,   \* jitter_buffer.h: 64
  UINT_MOD,                \* active_write_count is uint32_t: 2^32
  QPNs,                    \* queue pairs of the remote hosts
  Stream,                  \* Stream[q]: segment types of the packets of q
  FirstPsn,                \* FirstPsn[q]: PSN of the first of them
  Channel,                 \* "fifo": in order, once; "any": lost, repeated, reordered
  Locks,                   \* the locks to consider, see the variable lock
  Mbufs,                   \* the mempool that packets are received into
  MaxRx                    \* bound: packets received

ASSUME ReassemblyAssumption ==
  /\ JB_MAX_PENDING_WRITES \in Nat \ {0}
  /\ UINT_MOD \in Nat \ {0}
  /\ QPNs \subseteq Nat                    \* 0 also marks a free table entry
  /\ Stream \in [QPNs -> Seq(SegTypes)]
  /\ FirstPsn \in [QPNs -> PSN]
  /\ Channel \in {"fifo", "any"}
  /\ Locks \subseteq {"spinlock", "recursive"}
  /\ 0 \notin Mbufs                        \* 0 is no mbuf
  /\ MaxRx \in Nat

Entries == 1 .. JB_MAX_PENDING_WRITES

VARIABLES
  lock,           \* global_lock: the rte_spinlock_t it is, or the recursive lock under
                  \* which jb_add_seg may call jb_get_or_create_write; never changes
  writes,         \* the table of write contexts
  active,         \* active_write_count
  rx,             \* packets received so far
  next,           \* "fifo": position of the next packet of each QP
  pool,           \* pool[m]: how many times m is in the mempool
  nic,            \* nic[m]: how many times m is in the LAN TX ring
  offered,        \* offered[m]: how often m has been handed to the LAN port
  hung,           \* the lcore spins on a lock it holds itself
  delivered,      \* delivered[q]: the batches handed to the LAN port, each packet as
                  \* the slot of its context describes it
  out             \* what the last packet handled made the gateway say

vars == <<lock, writes, active, rx, next, pool, nic, offered, hung, delivered, out>>

Silent == [qpn |-> NONE, added |-> FALSE, nack |-> NONE, ack |-> NONE,
           live |-> TRUE]

Init ==
  /\ lock \in Locks
  /\ writes = [i \in Entries |-> EmptyWrite]
  /\ active = 0
  /\ rx = 0
  /\ next = [q \in QPNs |-> 1]
  /\ pool = [m \in Mbufs |-> 1]
  /\ nic = [m \in Mbufs |-> 0]
  /\ offered = [m \in Mbufs |-> 0]
  /\ hung = FALSE
  /\ delivered = [q \in QPNs |-> << >>]
  /\ out = Silent

----------------------------------------------------------------------------
(* proc_process_wan_rx, the data branch, for a packet (psn, seg) of qpn in   *)
(* mbuf m.                                                                   *)

\* How many of the segments at the positions ks are in mbuf m.
Copies(segs, ks, m) == Cardinality({k \in ks : segs[k].mbuf = m})

\* The mempool as the packet in hand, in mbuf m, was taken from it.
Take(m) == [pool EXCEPT ![m] = @ - 1]

\* Every segment of a complete write is handed to the LAN port; one the NIC
\* refuses is freed at once.  jb_remove_write then frees the mbuf of every slot
\* of the context, those sent included; the ACK carries the PSN of the packet at
\* hand, and is addressed from the header in its mbuf, whether or not that is
\* back in the pool.
Deliver(i, c, psn, m, count, free, said) ==
  LET segs == jb_get_ordered_segs(c)
  IN  \E refused \in SUBSET DOMAIN segs :
        /\ writes' = [writes EXCEPT ![i] = EmptyWrite]
        /\ active' = (count - 1) % UINT_MOD
        /\ pool' = [b \in Mbufs |-> free[b] + Copies(segs, refused, b)
                                            + Copies(c.segments, SegSlots, b)]
        /\ nic' = [b \in Mbufs |-> nic[b] + Copies(segs, DOMAIN segs \ refused, b)]
        /\ offered' = [b \in Mbufs |-> offered[b] + Copies(segs, DOMAIN segs, b)]
        /\ delivered' = [delivered EXCEPT ![c.qpn] = Append(@,
              [k \in DOMAIN segs |->
                 [psn |-> segs[k].psn, seg |-> segs[k].segment_type,
                  sent |-> k \notin refused]])]
        /\ out' = [said EXCEPT !.ack = psn, !.live = pool'[m] = 0]

\* The write stays in the buffer.
Keep(i, c, count, free, said) ==
  /\ writes' = [writes EXCEPT ![i] = c]
  /\ active' = count
  /\ pool' = free
  /\ out' = said
  /\ UNCHANGED <<nic, offered, delivered>>

\* Mutant: the ACK carries the next PSN expected.
Conclude_AckExpected(i, c, psn, m, count, free, said) ==
  IF Complete(c) THEN Deliver(i, c, c.expected_psn, m, count, free, said)
                 ELSE Keep(i, c, count, free, said)

\* jb_is_write_complete and what depends on it.  c is context i after the
\* packet; count and free are active_write_count and the mempool by then, and
\* said is the NACK already sent.
Conclude(i, c, psn, m, count, free, said) ==
  IF Complete(c) THEN Deliver(i, c, psn, m, count, free, said)
                 ELSE Keep(i, c, count, free, said)

PsnAt(q, n) == (FirstPsn[q] + n - 1) % MAX_PSN

\* The packets of q the wire can hand over next.
Arrivals(q) == IF Channel = "fifo" THEN {next[q]} \cap DOMAIN Stream[q]
                                   ELSE DOMAIN Stream[q]

\* The packet comes in an mbuf the driver took from the pool.
Arrive(q, n, m) ==
  /\ ~hung
  /\ rx < MaxRx
  /\ n \in Arrivals(q)
  /\ pool[m] > 0
  /\ rx' = rx + 1
  /\ next' = IF Channel = "fifo" THEN [next EXCEPT ![q] = n + 1] ELSE next

\* A segment of a write in progress, or the first to arrive of a new one.
ReceiveSegment(q, n, m) ==
  LET psn   == PsnAt(q, n)
      known == jb_find(writes, q) # 0
      i     == IF known THEN jb_find(writes, q) ELSE FreeEntry(writes)
      old   == IF known THEN writes[i] ELSE NewWrite(q, psn)
      c     == jb_add_seg(old, psn, Stream[q][n], m)
  IN  /\ Arrive(q, n, m)
      /\ known \/ lock = "recursive"
      /\ i # 0
      /\ ~Received(old, psn)
      /\ Conclude(i, c, psn, m, IF known THEN active ELSE (active + 1) % UINT_MOD, Take(m),
                  [Silent EXCEPT !.qpn = q, !.added = TRUE, !.nack = NackOf(c)])
      /\ UNCHANGED <<lock, hung>>

\* A duplicate goes straight back to the pool; the completion test is made all
\* the same.
ReceiveDuplicate(q, n, m) ==
  LET psn == PsnAt(q, n)
      i   == jb_find(writes, q)
  IN  /\ Arrive(q, n, m)
      /\ i # 0
      /\ Received(writes[i], psn)
      /\ Conclude(i, writes[i], psn, m, active, pool, [Silent EXCEPT !.qpn = q])
      /\ UNCHANGED <<lock, hung>>

\* Mutant: the packet is dropped, and its mbuf with it.
ReceiveRejected_Leak(q, n, m) ==
  /\ Arrive(q, n, m)
  /\ jb_find(writes, q) = 0
  /\ lock = "recursive"
  /\ FreeEntry(writes) = 0
  /\ pool' = Take(m)
  /\ out' = Silent
  /\ UNCHANGED <<lock, writes, active, nic, offered, hung, delivered>>

\* No table entry is left: the packet is dropped, and its mbuf freed.
ReceiveRejected(q, n, m) ==
  /\ Arrive(q, n, m)
  /\ jb_find(writes, q) = 0
  /\ lock = "recursive"
  /\ FreeEntry(writes) = 0
  /\ out' = Silent
  /\ UNCHANGED <<lock, writes, active, pool, nic, offered, hung, delivered>>

\* jb_add_seg holds global_lock when jb_get_or_create_write takes it again.
SelfDeadlock(q, n, m) ==
  /\ Arrive(q, n, m)
  /\ jb_find(writes, q) = 0
  /\ lock = "spinlock"
  /\ hung' = TRUE
  /\ pool' = Take(m)
  /\ out' = Silent
  /\ UNCHANGED <<lock, writes, active, nic, offered, delivered>>

\* The NIC has sent an mbuf of the LAN ring and frees it.
TxDone(m) ==
  /\ nic[m] > 0
  /\ nic' = [nic EXCEPT ![m] = @ - 1]
  /\ pool' = [pool EXCEPT ![m] = @ + 1]
  /\ UNCHANGED <<lock, writes, active, rx, next, offered, hung, delivered, out>>

\* The wire has nothing more to hand over.
Quiet ==
  /\ \/ hung \/ rx = MaxRx
     \/ \A q \in QPNs : Arrivals(q) = {}
     \/ \A m \in Mbufs : pool[m] = 0
  /\ \A m \in Mbufs : nic[m] = 0
  /\ UNCHANGED vars

Next ==
  \/ \E q \in QPNs, m \in Mbufs : \E n \in DOMAIN Stream[q] :
       \/ ReceiveSegment(q, n, m)
       \/ ReceiveDuplicate(q, n, m)
       \/ ReceiveRejected(q, n, m)
       \/ SelfDeadlock(q, n, m)
  \/ \E m \in Mbufs : TxDone(m)
  \/ Quiet

Spec == Init /\ [][Next]_vars

----------------------------------------------------------------------------
(* Properties. *)

TypeOK ==
  /\ lock \in Locks
  /\ writes \in [Entries -> jb_write_context_t(QPNs, Mbufs)]
  /\ active \in 0 .. UINT_MOD - 1
  /\ rx \in 0 .. MaxRx
  /\ pool \in [Mbufs -> Nat]
  /\ nic \in [Mbufs -> Nat]
  /\ offered \in [Mbufs -> Nat]
  /\ hung \in BOOLEAN
  /\ out \in [qpn: QPNs \cup {NONE}, added: BOOLEAN,
              nack: PSN \cup {NONE}, ack: PSN \cup {NONE}, live: BOOLEAN]

\* The table agrees with itself: segment_count counts the received segments,
\* a claimed entry is never without one (jb_get_or_create_write tells claimed
\* from free entries that way), a QP has one entry, and active_write_count
\* counts the claimed ones, less one for every write of QPN 0 delivered: those
\* live in a free entry that nobody has claimed.
TableExact ==
  /\ \A i \in Entries :
       /\ writes[i].segment_count = Cardinality(ReceivedSlots(writes[i]))
       /\ writes[i].qpn # 0 => writes[i].segment_count > 0
  /\ \A i, j \in Entries : writes[i].qpn # 0 /\ writes[i].qpn = writes[j].qpn => i = j
  /\ active = (Cardinality({i \in Entries : writes[i].qpn # 0})
               - (IF 0 \in QPNs THEN Len(delivered[0]) ELSE 0)) % UINT_MOD

\* Everything from first_psn up to expected_psn has been received and is
\* stored under its own PSN, at most JB_MAX_SEGMENTS segments of it, in
\* whatever order and however often the segments arrive.
ExpectedIsPrefix ==
  \A i \in Entries :
    LET c == writes[i]
        d == psn_forward_dist(c.first_psn, c.expected_psn)
    IN  /\ d <= JB_MAX_SEGMENTS
        /\ \A k \in 0 .. d - 1 : /\ c.segments[k].state = "RECEIVED"
                                 /\ c.segments[k].psn = (c.first_psn + k) % MAX_PSN

\* The PSN a NACK asks for is the first one of the write that is not in the
\* buffer, however many gaps the segments received so far have left.
NackNamesFirstMissing ==
  out.nack # NONE =>
    \A i \in Entries : writes[i].qpn = out.qpn /\ writes[i].segment_count > 0 =>
      LET InBuffer(psn) == \E k \in ReceivedSlots(writes[i]) : writes[i].segments[k].psn = psn
          before == psn_forward_dist(writes[i].first_psn, out.nack)
      IN  /\ ~InBuffer(out.nack)
          /\ \A d \in 0 .. before - 1 : InBuffer((writes[i].first_psn + d) % MAX_PSN)

\* The slots of the table that hold mbuf m.
Holding(table, m) == {s \in Entries \X SegSlots : table[s[1]].segments[s[2]].mbuf = m}

\* Every mbuf is accounted for, however often the pool hands it out: it is in
\* the pool, in a slot or in the ring of the NIC as often as it has been offered
\* to the LAN, and once more.  Nothing is lost on any path, and an mbuf that has
\* never been offered has exactly one owner.
MbufsAccounted ==
  ~hung => \A m \in Mbufs :
    pool[m] + Cardinality(Holding(writes, m)) + nic[m] = 1 + offered[m]

\* No write that could be delivered is left waiting for another packet.
NothingDeliverableWaits ==
  \A i \in Entries, k \in SegSlots :
    (\A j \in 0 .. k : writes[i].segments[j].state = "RECEIVED") =>
       ~EndsWrite(writes[i].segments[k].segment_type)

Batches == UNION {{delivered[q][b] : b \in DOMAIN delivered[q]} : q \in QPNs}

\* A batch is a run of consecutive PSNs that ends with the end of a write and
\* holds no other.
BatchContiguous ==
  \A batch \in Batches : \A k \in DOMAIN batch :
    /\ batch[k].psn = (batch[1].psn + k - 1) % MAX_PSN
    /\ EndsWrite(batch[k].seg) <=> k = Len(batch)

\* The PSN a gateway acknowledges is that of a packet of the batch it has just
\* offered to the LAN port, taken by the NIC or not.
AckNamesOffered ==
  out.ack # NONE =>
    LET batch == delivered[out.qpn][Len(delivered[out.qpn])] IN
    \E k \in DOMAIN batch : batch[k].psn = out.ack

\* The lcore never waits for a lock it holds.
CoreKeepsRunning == ~hung

\* An mbuf the NIC is still sending is not in the pool, none is there twice, and
\* the header an ACK is addressed from is read while its mbuf is not.
NoPrematureFree ==
  /\ \A m \in Mbufs : nic[m] > 0 => pool[m] = 0
  /\ \A m \in Mbufs : pool[m] <= 1
  /\ out.live

----------------------------------------------------------------------------
(* Over a wire that neither loses nor reorders, the buffer implements the    *)
(* abstract delivery of whole writes.                                        *)

Ends(q) == {n \in DOMAIN Stream[q] : EndsWrite(Stream[q][n])}
NthEnd(q, k) == IF k = 0 THEN 0
                ELSE CHOOSE e \in Ends(q) : Cardinality({x \in Ends(q) : x <= e}) = k

WritesSent ==
  [q \in QPNs |-> [k \in 1 .. Cardinality(Ends(q)) |->
     [j \in 1 .. NthEnd(q, k) - NthEnd(q, k - 1) |->
        LET n == NthEnd(q, k - 1) + j IN [psn |-> PsnAt(q, n), seg |-> Stream[q][n]]]]]

HandedOver ==
  [q \in QPNs |-> [b \in DOMAIN delivered[q] |->
     [k \in DOMAIN delivered[q][b] |->
        [psn |-> delivered[q][b][k].psn, seg |-> delivered[q][b][k].seg]]]]

Promise == INSTANCE WriteDelivery WITH Writes <- WritesSent, handed <- HandedOver

\* Every step hands over the next whole write of one QP, or none.
DeliversWholeWrites == Promise!Spec

=============================================================================
