-------------------------------- MODULE Arq --------------------------------
(***************************************************************************)
(* The ARQ send window of src/arq.c, one arq_context_t, as operators on a  *)
(* record.  Each function of arq.c takes the context lock, works on the    *)
(* window and returns, and a context is used by one lcore only             *)
(* (processor.h), so each is one operator: the window it leaves behind     *)
(* and, next to it, the mbufs it frees and the entries it retransmits.     *)
(*                                                                         *)
(* Time is kept as the age of an entry (rte_rdtsc() - send_time), which    *)
(* stops counting once the entry has timed out.  segment_type and the      *)
(* total_* counters are written and never read, and are left out.          *)
(***************************************************************************)
EXTENDS Psn, FiniteSets

CONSTANTS
  WINDOW_SIZE,       \* qp_ctx.h: 256
  MAX_RETX_BURST,    \* arq.h: 64
  MAX_RETRY_COUNT,   \* qp_ctx.h: 3
  RETRY_TIMEOUT,     \* RETRY_TIMEOUT_MS, in ticks of the model's clock
  CTR_MOD,           \* send_base, send_next, send_max are uint32_t: 2^32
  RETRY_MOD,         \* retry_count is uint8_t: 2^8
  Mbufs,             \* the packet buffers
  NULL               \* no buffer

ASSUME ArqAssumption ==
  /\ WINDOW_SIZE \in Nat \ {0}
  /\ MAX_RETX_BURST \in Nat \ {0}
  /\ MAX_RETRY_COUNT \in Nat
  /\ RETRY_TIMEOUT \in Nat
  /\ CTR_MOD \in Nat \ {0}
  /\ CTR_MOD % WINDOW_SIZE = 0   \* 256 divides 2^32
  /\ WINDOW_SIZE < CTR_MOD
  /\ RETRY_MOD \in Nat \ {0}
  /\ NULL \notin Mbufs

Slots == 0 .. WINDOW_SIZE - 1
Ctr   == 0 .. CTR_MOD - 1

arq_send_entry_t ==
  [psn: PSN, mbuf: Mbufs \cup {NULL}, age: 0 .. RETRY_TIMEOUT + 1,
   retry_count: 0 .. RETRY_MOD - 1, in_flight: BOOLEAN]

arq_context_t ==
  [send_base: Ctr, send_next: Ctr, send_max: Ctr,
   send_window: [Slots -> arq_send_entry_t]]

\* The memset of a new context.
EmptyContext ==
  [send_base |-> 0, send_next |-> 0, send_max |-> 0,
   send_window |-> [i \in Slots |->
     [psn |-> 0, mbuf |-> NULL, age |-> 0, retry_count |-> 0, in_flight |-> FALSE]]]

Index(k) == k % WINDOW_SIZE

\* The window holds a reference to mbuf m.
Holds(arq, m) == \E i \in Slots : arq.send_window[i].mbuf = m

\* send_next - send_base, in uint32_t arithmetic.
Span(arq) == (arq.send_next - arq.send_base) % CTR_MOD

----------------------------------------------------------------------------
(* arq_send_pkt *)

\* The slot send_next points to is not in flight; otherwise the call
\* returns -1 and the packet is not tracked.
HasRoom(arq) == ~arq.send_window[Index(arq.send_next)].in_flight

arq_send_pkt(arq, m, psn) ==
  LET next == (arq.send_next + 1) % CTR_MOD
      used == (next - arq.send_base) % CTR_MOD
  IN  [send_base   |-> arq.send_base,
       send_next   |-> next,
       send_max    |-> IF used > arq.send_max THEN used ELSE arq.send_max,
       send_window |-> [arq.send_window EXCEPT ![Index(arq.send_next)] =
         [psn |-> psn, mbuf |-> m, age |-> 0, retry_count |-> 0, in_flight |-> TRUE]]]

----------------------------------------------------------------------------
(* The three loops over the window run while "send_base < send_next" (or    *)
(* "i < send_next"), a plain comparison of two counters that wrap: after    *)
(* send_next has wrapped and send_base has not, they see no entry at all.   *)
Outstanding(arq) == arq.send_base .. arq.send_next - 1

(* arq_handle_ack *)

\* Mutant: the acknowledged entry itself is kept.
AckedPrefix_Exclusive(arq, ack_psn) ==
  {k \in Outstanding(arq) : \A j \in arq.send_base .. k :
      /\ AtOrBefore(arq.send_window[Index(j)].psn, ack_psn)
      /\ arq.send_window[Index(j)].psn # ack_psn}

\* The entries the loop releases before its break.
AckedPrefix(arq, ack_psn) ==
  {k \in Outstanding(arq) : \A j \in arq.send_base .. k :
      AtOrBefore(arq.send_window[Index(j)].psn, ack_psn)}

AckedSlots(arq, ack_psn) == {Index(k) : k \in AckedPrefix(arq, ack_psn)}

AckFrees(arq, ack_psn) ==
  {arq.send_window[i].mbuf : i \in AckedSlots(arq, ack_psn)} \ {NULL}

\* Mutants: the pointer, or the flag, of a released entry is left behind.
Clear_KeepMbuf(window, slots) ==
  [i \in Slots |-> IF i \in slots THEN [window[i] EXCEPT !.in_flight = FALSE] ELSE window[i]]
Clear_KeepInFlight(window, slots) ==
  [i \in Slots |-> IF i \in slots THEN [window[i] EXCEPT !.mbuf = NULL] ELSE window[i]]

\* mbuf = NULL, in_flight = 0 in every slot of a set.
Clear(window, slots) ==
  [i \in Slots |-> IF i \in slots
                     THEN [window[i] EXCEPT !.mbuf = NULL, !.in_flight = FALSE]
                     ELSE window[i]]

\* Mutant: an ACK moves send_base up to send_next.
arq_handle_ack_All(arq, ack_psn) ==
  [arq EXCEPT !.send_base   = arq.send_next,
              !.send_window = Clear(@, AckedSlots(arq, ack_psn))]

arq_handle_ack(arq, ack_psn) ==
  [arq EXCEPT !.send_base   = @ + Cardinality(AckedPrefix(arq, ack_psn)),
              !.send_window = Clear(@, AckedSlots(arq, ack_psn))]

----------------------------------------------------------------------------
(* arq_handle_nack *)

\* Mutant: only what lies before the NACKed PSN.
NackBurst_Exclusive(arq, nack_psn) ==
  LET eligible == {k \in Outstanding(arq) :
                     /\ AtOrBefore(arq.send_window[Index(k)].psn, nack_psn)
                     /\ arq.send_window[Index(k)].psn # nack_psn}
  IN  {k \in eligible : Cardinality({j \in eligible : j < k}) < MAX_RETX_BURST}

\* The entries collected under the lock: the first MAX_RETX_BURST whose PSN
\* is the NACKed one or lies before it.
NackBurst(arq, nack_psn) ==
  LET eligible == {k \in Outstanding(arq) :
                     AtOrBefore(arq.send_window[Index(k)].psn, nack_psn)}
  IN  {k \in eligible : Cardinality({j \in eligible : j < k}) < MAX_RETX_BURST}

\* How often slot i was collected: more than once when the window has
\* overtaken itself and two counters share the slot.
NackHits(arq, nack_psn, i) ==
  Cardinality({k \in NackBurst(arq, nack_psn) : Index(k) = i})

\* Every collected entry that still has an mbuf is handed to the NIC.
NackRetransmits(arq, nack_psn) ==
  [i \in Slots |-> IF arq.send_window[i].mbuf = NULL
                     THEN 0 ELSE NackHits(arq, nack_psn, i)]

arq_handle_nack(arq, nack_psn) ==
  [arq EXCEPT !.send_window = [i \in Slots |->
     LET hits == NackHits(arq, nack_psn, i) IN
     IF hits = 0 THEN arq.send_window[i]
     ELSE [arq.send_window[i] EXCEPT !.age = 0,
                                     !.retry_count = (@ + hits) % RETRY_MOD]]]

----------------------------------------------------------------------------
(* arq_check_timeouts *)

Expired(arq) ==
  {i \in Slots : /\ arq.send_window[i].in_flight
                 /\ arq.send_window[i].age > RETRY_TIMEOUT
                 /\ \E k \in Outstanding(arq) : Index(k) = i}

Retried(arq) == {i \in Expired(arq) : arq.send_window[i].retry_count < MAX_RETRY_COUNT}
GivenUp(arq) == Expired(arq) \ Retried(arq)

TimeoutFrees(arq) == {arq.send_window[i].mbuf : i \in GivenUp(arq)} \ {NULL}

TimeoutRetransmits(arq) == [i \in Slots |-> IF i \in Retried(arq) THEN 1 ELSE 0]

arq_check_timeouts(arq) ==
  [arq EXCEPT !.send_window = [i \in Slots |->
     IF i \in Retried(arq)
       THEN [arq.send_window[i] EXCEPT !.age = 0,
                                       !.retry_count = (@ + 1) % RETRY_MOD]
       ELSE Clear(arq.send_window, GivenUp(arq))[i]]]

----------------------------------------------------------------------------
\* The clock advances: what rte_rdtsc() - send_time will show next.
Older(arq) ==
  [arq EXCEPT !.send_window = [i \in Slots |->
     IF arq.send_window[i].in_flight /\ arq.send_window[i].age <= RETRY_TIMEOUT
       THEN [arq.send_window[i] EXCEPT !.age = @ + 1]
       ELSE arq.send_window[i]]]

============================================================================
