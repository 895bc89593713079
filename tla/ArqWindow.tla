----------------------------- MODULE ArqWindow -----------------------------
(***************************************************************************)
(* One ARQ context at work: the calls processor.c makes on it, the         *)
(* reference counts of the mbufs it keeps, and the NIC, which drops its    *)
(* own reference when a transmission completes.                            *)
(*                                                                         *)
(* The comments of processor.c and arq.c state the rule the whole          *)
(* retransmission layer rests on: the window owns one reference, each      *)
(* transmission takes one more before the NIC sees the mbuf, and the NIC   *)
(* frees only that extra one.                                              *)
(***************************************************************************)
EXTENDS Arq, FiniteSetsExt

CONSTANTS
  TX_RING_SIZE,   \* main.c: 1024, descriptors of the WAN TX queue
  FirstPsn,       \* PSN of the first packet of an in-order host
  InOrderHost,    \* TRUE: the host numbers its packets consecutively and
                  \* the peer only answers about packets it can have seen
  MaxLan          \* bound: packets the LAN host sends

ASSUME WindowAssumption ==
  /\ TX_RING_SIZE \in Nat
  /\ FirstPsn \in PSN
  /\ InOrderHost \in BOOLEAN
  /\ MaxLan \in Nat

VARIABLES
  arq,      \* the context
  refcnt,   \* reference count of every mbuf; 0: it is in the pool
  nic,      \* references held by descriptors of the TX ring
  lan_rx,   \* number of WRITE packets received from the LAN
  call      \* the last control message handled, and what it retransmitted

vars == <<arq, refcnt, nic, lan_rx, call>>

Idle == [op |-> "none", psn |-> 0, retx |-> {}]

Init ==
  /\ arq = EmptyContext
  /\ refcnt = [m \in Mbufs |-> 0]
  /\ nic = [m \in Mbufs |-> 0]
  /\ lan_rx = 0
  /\ call = Idle

----------------------------------------------------------------------------
(* The mbuf library and the NIC. *)

\* rte_eth_tx_burst takes an mbuf only while the ring has a free descriptor.
RingHasRoom(ring) == MapThenSumSet(LAMBDA m : ring[m], Mbufs) <= TX_RING_SIZE

\* rte_pktmbuf_free of every mbuf of a set.
FreeAll(counts, freed) ==
  [m \in Mbufs |-> IF m \in freed THEN counts[m] - 1 ELSE counts[m]]

\* Retransmission of slot i sent[i] times: refcnt_update(+1) before each
\* transmission the NIC accepts; a refused one is rolled back.
TimesSent(window, sent, m) ==
  IF \E i \in Slots : window[i].mbuf = m
    THEN sent[CHOOSE i \in Slots : window[i].mbuf = m] ELSE 0

AddReferences(counts, window, sent) ==
  [m \in Mbufs |-> counts[m] + TimesSent(window, sent, m)]

\* The NIC may refuse any of the transmissions asked for.
Accepted(asked) ==
  {sent \in [Slots -> 0 .. MAX_RETX_BURST] : \A i \in Slots : sent[i] <= asked[i]}

----------------------------------------------------------------------------
(* Inputs. *)

PsnOf(n) == (FirstPsn + n) % MAX_PSN

LanPsns == IF InOrderHost THEN {PsnOf(lan_rx)} ELSE PSN

\* The peer acknowledges packets it received; it NACKs those and the one it
\* expects next (jb_check_missing returns expected_psn).
AckPsns  == IF InOrderHost THEN {PsnOf(n) : n \in 0 .. lan_rx - 1} ELSE PSN
NackPsns == IF InOrderHost THEN {PsnOf(n) : n \in 0 .. lan_rx} ELSE PSN

----------------------------------------------------------------------------
(* proc_process_lan_rx, from arq_send_pkt on. *)

\* Mutant: no refcnt_update(+1) before the transmission.
SendTracked_NoBump(m, psn) ==
  /\ lan_rx < MaxLan
  /\ refcnt[m] = 0
  /\ HasRoom(arq)
  /\ arq' = arq_send_pkt(arq, m, psn)
  /\ refcnt' = [refcnt EXCEPT ![m] = 1]
  /\ \E ok \in {0, 1} : nic' = [nic EXCEPT ![m] = @ + ok]
  /\ RingHasRoom(nic')
  /\ lan_rx' = lan_rx + 1
  /\ call' = Idle

\* The packet enters the window; refcnt_update(+1), then the transmission.
SendTracked(m, psn) ==
  /\ lan_rx < MaxLan
  /\ refcnt[m] = 0
  /\ HasRoom(arq)
  /\ arq' = arq_send_pkt(arq, m, psn)
  /\ \E ok \in {0, 1} :
       /\ refcnt' = [refcnt EXCEPT ![m] = 1 + ok]
       /\ nic' = [nic EXCEPT ![m] = @ + ok]
  /\ RingHasRoom(nic')
  /\ lan_rx' = lan_rx + 1
  /\ call' = Idle

\* The window is full: the only reference goes to the NIC, or is freed when
\* the NIC refuses the packet.
SendUntracked(m, psn) ==
  /\ lan_rx < MaxLan
  /\ refcnt[m] = 0
  /\ ~HasRoom(arq)
  /\ \E ok \in {0, 1} :
       /\ refcnt' = [refcnt EXCEPT ![m] = ok]
       /\ nic' = [nic EXCEPT ![m] = @ + ok]
  /\ RingHasRoom(nic')
  /\ lan_rx' = lan_rx + 1
  /\ call' = Idle
  /\ UNCHANGED arq

(* proc_process_wan_rx, control messages. *)

HandleAck(psn) ==
  /\ arq' = arq_handle_ack(arq, psn)
  /\ refcnt' = FreeAll(refcnt, AckFrees(arq, psn))
  /\ call' = [op |-> "ack", psn |-> psn, retx |-> {}]
  /\ UNCHANGED <<nic, lan_rx>>

HandleNack(psn) ==
  LET asked == NackRetransmits(arq, psn) IN
  /\ arq' = arq_handle_nack(arq, psn)
  /\ \E sent \in Accepted(asked) :
       /\ refcnt' = AddReferences(refcnt, arq.send_window, sent)
       /\ nic' = AddReferences(nic, arq.send_window, sent)
  /\ RingHasRoom(nic')
  /\ call' = [op |-> "nack", psn |-> psn,
              retx |-> {arq.send_window[i].psn : i \in {j \in Slots : asked[j] > 0}}]
  /\ UNCHANGED lan_rx

(* proc_timer_callback on this context.  When nothing has expired the scan   *)
(* changes nothing.                                                          *)
CheckTimeouts ==
  /\ Expired(arq) # {}
  /\ arq' = arq_check_timeouts(arq)
  /\ \E sent \in Accepted(TimeoutRetransmits(arq)) :
       /\ refcnt' = FreeAll(AddReferences(refcnt, arq.send_window, sent), TimeoutFrees(arq))
       /\ nic' = AddReferences(nic, arq.send_window, sent)
  /\ RingHasRoom(nic')
  /\ call' = Idle
  /\ UNCHANGED lan_rx

(* The environment: the NIC has sent an mbuf and frees its reference; the    *)
(* clock advances.                                                           *)
TxComplete(m) ==
  /\ nic[m] > 0
  /\ nic' = [nic EXCEPT ![m] = @ - 1]
  /\ refcnt' = [refcnt EXCEPT ![m] = @ - 1]
  /\ call' = Idle
  /\ UNCHANGED <<arq, lan_rx>>

Tick ==
  /\ arq' = Older(arq)
  /\ arq' # arq
  /\ call' = Idle
  /\ UNCHANGED <<refcnt, nic, lan_rx>>

Next ==
  \/ \E m \in Mbufs, psn \in LanPsns : SendTracked(m, psn) \/ SendUntracked(m, psn)
  \/ \E psn \in AckPsns : HandleAck(psn)
  \/ \E psn \in NackPsns : HandleNack(psn)
  \/ CheckTimeouts
  \/ \E m \in Mbufs : TxComplete(m)
  \/ Tick

Spec == Init /\ [][Next]_vars

----------------------------------------------------------------------------
(* Properties. *)

TypeOK ==
  /\ arq \in arq_context_t
  /\ refcnt \in [Mbufs -> Nat]
  /\ nic \in [Mbufs -> Nat]
  /\ lan_rx \in 0 .. MaxLan
  /\ call \in [op: {"none", "ack", "nack"}, psn: PSN, retx: SUBSET PSN]

\* An entry is in flight exactly while it has an mbuf, and no mbuf sits in
\* two slots: what lets the timer and the NACK path use the pointer of an
\* in-flight entry without a NULL check.
SlotOwnership ==
  /\ \A i \in Slots : arq.send_window[i].in_flight <=> arq.send_window[i].mbuf # NULL
  /\ \A i, j \in Slots :
       /\ arq.send_window[i].mbuf # NULL
       /\ arq.send_window[i].mbuf = arq.send_window[j].mbuf
       => i = j

\* The reference rule: at every moment an mbuf is referenced once by the
\* window if it is in it, and once per descriptor of the TX ring, and by
\* nobody else.  No retransmission, acknowledgement or drop, in any order with
\* the NIC's completions, frees an mbuf that is still in use or leaks one.
RefcountExact ==
  \A m \in Mbufs : refcnt[m] = (IF Holds(arq, m) THEN 1 ELSE 0) + nic[m]

\* Every entry in flight lies between send_base and send_next, so the loops of
\* the ACK, NACK and timeout paths still reach it.
InFlightReachable ==
  \A i \in Slots : arq.send_window[i].in_flight =>
     \E k \in Outstanding(arq) : Index(k) = i

\* An ACK is cumulative: once it is handled nothing at or before its PSN is
\* still in flight, as long as the window has not overtaken itself.
AckIsCumulative ==
  (call.op = "ack" /\ Span(arq) <= WINDOW_SIZE) =>
     \A i \in Slots : arq.send_window[i].in_flight =>
        ~AtOrBefore(arq.send_window[i].psn, call.psn)

\* A NACK retransmits the entry it names, as long as fewer than
\* MAX_RETX_BURST entries precede that one in the window, which is all the
\* burst of arq_handle_nack, collected from send_base on, guarantees.
NackRetransmitsWithinBurst ==
  call.op = "nack" =>
     \A k \in Outstanding(arq) :
        /\ arq.send_window[Index(k)].in_flight
        /\ arq.send_window[Index(k)].psn = call.psn
        /\ k - arq.send_base < MAX_RETX_BURST
        => call.psn \in call.retx

============================================================================
