----------------------------- MODULE Processor -----------------------------
(***************************************************************************)
(* The per-lcore processor contexts of src/processor.c and how the lcores  *)
(* use them: proc_process_lan_rx on the LAN cores, with the QP registry    *)
(* (qp_ctx.c), the table of ARQ contexts (arq.c) and the congestion check  *)
(* (congestion.c); the control branch of proc_process_wan_rx and           *)
(* proc_timer_callback on the WAN cores.  Every lcore works on its own     *)
(* context, as main.c hands them out.  The data branch of                  *)
(* proc_process_wan_rx is module Reassembly, the references to the mbufs   *)
(* are module ArqWindow; counters that are only reported (stats.c) are     *)
(* left out.                                                               *)
(***************************************************************************)
EXTENDS Arq, Tables

CONSTANTS
  LanCores, WanCores,
  QPNs,                       \* queue pairs of the local hosts; 0 may be one of them
  LanCoreOf,                  \* RSS: the LAN core that reads the packets of a QP
  MAX_QP_CTX,                 \* qp_ctx.h: 1024
  BUFFER_HIGH_WATER,          \* congestion.h: 80 percent
  BUFFER_LOW_WATER,           \* congestion.h: 60 percent
  CONGESTION_CHECK_INTERVAL,  \* processor.h: 5
  CNP_TIMER,                  \* CNP_TIMER_US, in ticks of the model's clock
  MaxLan                      \* bound: WRITE packets of the local hosts

ASSUME ProcessorAssumption ==
  /\ LanCores \cap WanCores = {}
  /\ QPNs \subseteq Nat
  /\ LanCoreOf \in [QPNs -> LanCores]
  /\ MAX_QP_CTX \in Nat \ {0}
  /\ BUFFER_LOW_WATER \in Nat /\ BUFFER_HIGH_WATER \in Nat
  /\ BUFFER_LOW_WATER < BUFFER_HIGH_WATER
  /\ CONGESTION_CHECK_INTERVAL \in Nat \ {0}
  /\ CNP_TIMER \in Nat \ {0}
  /\ MaxLan \in Nat
  /\ Mbufs = 1 .. MaxLan        \* the n-th WRITE packet is mbuf n

Cores   == LanCores \cup WanCores
Entries == 1 .. MAX_QP_CTX

VARIABLES
  proc,      \* g_processors: the context of every lcore
  received,  \* number of WRITE packets received from the LAN
  psn_next,  \* psn_next[q]: PSN of the next new packet of q
  acked,     \* the packets <<q, psn>> acknowledged to the local hosts
  cnp,       \* cnp[q]: CNPs sent to the sender of q, and ticks since the last
  last       \* the last ARQ control message handled

vars == <<proc, received, psn_next, acked, cnp, last>>

NoMessage == [type |-> "none", qpn |-> 0, psn |-> 0]

\* cnp_age is rte_rdtsc() - last_cnp_tsc, up to the point where a CNP is due.
InactiveQp == [active |-> FALSE, qpn |-> 0, cnp_age |-> CNP_TIMER]
FreeArq    == [qpn |-> 0, window |-> EmptyContext]

\* proc_init: qp_mgr_init, arq_mgr_init, cc_init.
proc_init ==
  [qps |-> [i \in Entries |-> InactiveQp], arqs |-> [i \in Entries |-> FreeArq],
   congestion_detected |-> FALSE, packet_counter |-> 0]

Init ==
  /\ proc = [c \in Cores |-> proc_init]
  /\ received = 0
  /\ psn_next = [q \in QPNs |-> 0]
  /\ acked = {}
  /\ cnp = [q \in QPNs |-> [sent |-> 0, age |-> CNP_TIMER]]
  /\ last = NoMessage

----------------------------------------------------------------------------
(* qp_ctx.c and the table of arq.c: the entry of a QP, claimed if need be;   *)
(* 0 when the table is full.                                                 *)

qp_find(p, q) == FirstEntry({i \in DOMAIN p.qps : p.qps[i].active /\ p.qps[i].qpn = q})

qp_get_or_create(p, q) ==
  IF qp_find(p, q) # 0 THEN qp_find(p, q) ELSE FirstEntry({i \in DOMAIN p.qps : ~p.qps[i].active})

\* Mutant: a QP is registered again with every packet.
WithQp_Always(p, q) ==
  LET i == FirstEntry({e \in DOMAIN p.qps : ~p.qps[e].active})
  IN  IF i = 0 THEN p
      ELSE [p EXCEPT !.qps[i] = [InactiveQp EXCEPT !.active = TRUE, !.qpn = q]]

WithQp(p, q) ==
  IF qp_find(p, q) # 0 THEN p
  ELSE [p EXCEPT !.qps[qp_get_or_create(p, q)] =
          [InactiveQp EXCEPT !.active = TRUE, !.qpn = q]]

arq_lookup(p, q) == FirstEntry({i \in DOMAIN p.arqs : p.arqs[i].qpn = q})

arq_get_or_create(p, q) ==
  IF arq_lookup(p, q) # 0 THEN arq_lookup(p, q) ELSE arq_lookup(p, 0)

\* Mutant: an ARQ context is cleared each time it is asked for.
WithArq_Clear(p, q) ==
  IF arq_get_or_create(p, q) = 0 THEN p
  ELSE [p EXCEPT !.arqs[arq_get_or_create(p, q)] = [FreeArq EXCEPT !.qpn = q]]

WithArq(p, q) ==
  IF arq_lookup(p, q) # 0 \/ arq_get_or_create(p, q) = 0 THEN p
  ELSE [p EXCEPT !.arqs[arq_get_or_create(p, q)] = [FreeArq EXCEPT !.qpn = q]]

----------------------------------------------------------------------------
(* congestion.c and the congestion part of processor.c. *)

\* Mutant: the size of the windows instead of what they hold.
calculate_arq_window_usage_Size(p) ==
  WINDOW_SIZE * Cardinality({i \in Entries : p.arqs[i].qpn # 0})

\* used_buffers after n contexts.
UsedBuffers(contexts) ==
  LET used[n \in 0 .. MAX_QP_CTX] ==
        IF n = 0 THEN 0
        ELSE used[n - 1] + (IF contexts[n].qpn # 0 THEN Span(contexts[n].window) ELSE 0)
  IN  used

calculate_arq_window_usage(p) == UsedBuffers(p.arqs)[MAX_QP_CTX]

UsagePercent(p) ==
  (calculate_arq_window_usage(p) * 100) \div (MAX_QP_CTX * WINDOW_SIZE)

\* Mutant: strictly above the high watermark.
cc_check_buffer_Above(p) ==
  [p EXCEPT !.congestion_detected = \/ UsagePercent(p) > BUFFER_HIGH_WATER
                                    \/ @ /\ UsagePercent(p) > BUFFER_LOW_WATER]

cc_check_buffer(p) ==
  [p EXCEPT !.congestion_detected = \/ UsagePercent(p) >= BUFFER_HIGH_WATER
                                    \/ @ /\ UsagePercent(p) > BUFFER_LOW_WATER]

\* The QPs a CNP is due for.
CnpDue(p) == {i \in Entries : p.qps[i].active /\ p.qps[i].cnp_age >= CNP_TIMER}

\* Mutant: last_cnp_tsc is not updated.
CnpEmitted_NoRestart(p, sent) == p

\* cnp_emit for the entries of a set: the timers restart.
CnpEmitted(p, sent) ==
  [p EXCEPT !.qps = [i \in Entries |->
     IF i \in sent THEN [p.qps[i] EXCEPT !.cnp_age = 0] ELSE p.qps[i]]]

Notify(counters, p, sent) ==
  [q \in QPNs |-> IF \E i \in sent : p.qps[i].qpn = q
                    THEN [sent |-> counters[q].sent + 1, age |-> 0] ELSE counters[q]]

----------------------------------------------------------------------------
(* proc_process_lan_rx for a WRITE packet of q.  Whatever is not an IPv4     *)
(* WRITE to a known peer is dropped or passed through and changes none of    *)
(* this.                                                                     *)

\* The QP registry is full.
LanDrop(q) ==
  /\ received < MaxLan
  /\ qp_get_or_create(proc[LanCoreOf[q]], q) = 0
  /\ received' = received + 1
  /\ last' = NoMessage
  /\ UNCHANGED <<proc, psn_next, acked, cnp>>

\* arq_send_pkt on the window of q: the packet is tracked when there is room.
Tracked(p, q, m, psn) ==
  LET i == arq_get_or_create(p, q)
  IN  IF i # 0 /\ HasRoom(WithArq(p, q).arqs[i].window)
        THEN [WithArq(p, q) EXCEPT !.arqs[i].window = arq_send_pkt(@, m, psn)]
        ELSE WithArq(p, q)

\* Mutant: packet_counter is never reduced.
Counted_Raw(p) == cc_check_buffer([p EXCEPT !.packet_counter = @ + 1])

\* packet_counter, and the check it triggers.
Counted(p) ==
  LET counted == [p EXCEPT !.packet_counter = (@ + 1) % CONGESTION_CHECK_INTERVAL]
  IN  IF counted.packet_counter = 0 THEN cc_check_buffer(counted) ELSE counted

\* The spoofed ACK for the packet gets out, or does not (no mbuf, or the NIC
\* refuses it); the caller goes on in either case.
forge_and_send_ack(q, psn) == {acked, acked \cup {<<q, psn>>}}

\* ce: the packet carries an ECN mark.  early and late are the CNPs that get
\* out, for this packet's mark and from the congestion check.
LanWrite(q, psn, ce) ==
  LET c  == LanCoreOf[q]
      p1 == WithQp(proc[c], q)
      me == qp_find(p1, q)
  IN  /\ received < MaxLan
      /\ qp_get_or_create(proc[c], q) # 0
      /\ \E early \in SUBSET (IF ce THEN {me} \cap CnpDue(p1) ELSE {}) :
         LET p2 == Counted(Tracked(CnpEmitted(p1, early), q, received + 1, psn)) IN
         \E late \in SUBSET (IF p2.packet_counter = 0 /\ p2.congestion_detected
                               THEN CnpDue(p2) ELSE {}) :
           /\ proc' = [proc EXCEPT ![c] = CnpEmitted(p2, late)]
           /\ cnp' = Notify(Notify(cnp, p1, early), p2, late)
      /\ acked' \in forge_and_send_ack(q, psn)
      /\ received' = received + 1
      /\ psn_next' = [psn_next EXCEPT ![q] = IF psn = @ THEN (@ + 1) % MAX_PSN ELSE @]
      /\ last' = NoMessage

----------------------------------------------------------------------------
(* The WAN cores. *)

OnWindow(p, i, window) == [p EXCEPT !.arqs[i].window = window]

\* proc_process_wan_rx, control port: the context is looked up in the
\* processor context of the lcore that received the message.
Control(c, type, q, psn) ==
  LET i == arq_lookup(proc[c], q)
      w == proc[c].arqs[i].window
  IN  /\ proc' = [proc EXCEPT ![c] =
            IF i = 0 THEN @
            ELSE OnWindow(@, i, IF type = "ack" THEN arq_handle_ack(w, psn)
                                                ELSE arq_handle_nack(w, psn))]
      /\ last' = [type |-> type, qpn |-> q, psn |-> psn]
      /\ UNCHANGED <<received, psn_next, acked, cnp>>

\* proc_timer_callback, on the contexts of the WAN core.
Timer(c) ==
  /\ proc' = [proc EXCEPT ![c].arqs = [i \in Entries |->
        IF proc[c].arqs[i].qpn # 0
          THEN [proc[c].arqs[i] EXCEPT !.window = arq_check_timeouts(@)]
          ELSE proc[c].arqs[i]]]
  /\ last' = NoMessage
  /\ UNCHANGED <<received, psn_next, acked, cnp>>

----------------------------------------------------------------------------
\* The clock advances.
Capped(age) == IF age < CNP_TIMER THEN age + 1 ELSE age

Tick ==
  /\ proc' = [c \in Cores |-> [proc[c] EXCEPT
        !.qps  = [i \in Entries |-> [proc[c].qps[i] EXCEPT !.cnp_age = Capped(@)]],
        !.arqs = [i \in Entries |-> [proc[c].arqs[i] EXCEPT !.window = Older(@)]]]]
  /\ cnp' = [q \in QPNs |-> [cnp[q] EXCEPT !.age = Capped(@)]]
  /\ UNCHANGED <<received, psn_next, acked, last>>

\* A host sends its next packet, or again one it sent before; the peer
\* answers about what it was sent.
SentBefore(q) == {psn \in PSN : psn < psn_next[q]}

Next ==
  \/ \E q \in QPNs : LanDrop(q)
  \/ \E q \in QPNs : \E psn \in SentBefore(q) \cup {psn_next[q]}, ce \in BOOLEAN :
       LanWrite(q, psn, ce)
  \/ \E c \in WanCores, type \in {"ack", "nack"}, q \in QPNs :
       \E psn \in SentBefore(q) : Control(c, type, q, psn)
  \/ \E c \in WanCores : Timer(c)
  \/ Tick

Spec == Init /\ [][Next]_vars

----------------------------------------------------------------------------
(* Properties. *)

TypeOK ==
  /\ proc \in [Cores ->
       [qps: [Entries -> [active: BOOLEAN, qpn: QPNs \cup {0}, cnp_age: 0 .. CNP_TIMER]],
        arqs: [Entries -> [qpn: QPNs \cup {0}, window: arq_context_t]],
        congestion_detected: BOOLEAN,
        packet_counter: 0 .. CONGESTION_CHECK_INTERVAL - 1]]
  /\ received \in 0 .. MaxLan
  /\ psn_next \in [QPNs -> PSN]
  /\ acked \subseteq QPNs \X PSN
  /\ cnp \in [QPNs -> [sent: Nat, age: 0 .. CNP_TIMER]]
  /\ last \in [type: {"none", "ack", "nack"}, qpn: QPNs \cup {0}, psn: PSN]

\* The QP registry and the table of ARQ contexts of a LAN core hold the same
\* QPs, each once: a QP that is admitted always has a window, so the "no
\* context" case of proc_process_lan_rx is the full window alone.  QPN 0 marks
\* a free context and is left aside: the registry holds it, arq_find(0) finds
\* the first free context, and the table stays in step for all others.
TablesInSync ==
  \A c \in LanCores : \A q \in QPNs \ {0} :
    LET qp  == {i \in Entries : proc[c].qps[i].active /\ proc[c].qps[i].qpn = q}
        arq == {i \in Entries : proc[c].arqs[i].qpn = q}
    IN  Cardinality(qp) = Cardinality(arq) /\ Cardinality(qp) <= 1

InFlight(window) == {i \in Slots : window.send_window[i].in_flight}

\* The buffers the congestion check adds up from the counters of the used
\* contexts are the ones the windows of all contexts hold, on a core that has
\* met no packet of QPN 0 (those sit in a context the loop takes for free).
Held(p) == {x \in Entries \X Slots : p.arqs[x[1]].window.send_window[x[2]].in_flight}

UsageExact ==
  \A c \in LanCores : qp_find(proc[c], 0) = 0 =>
    calculate_arq_window_usage(proc[c]) = Cardinality(Held(proc[c]))

\* Whenever a core has just made its periodic check, it is in the congested
\* state exactly when its buffers have reached the high watermark: nothing
\* drains a LAN core's windows, so the low watermark never comes into play.
CongestionSeen ==
  \A c \in LanCores : proc[c].packet_counter = 0 =>
    (proc[c].congestion_detected <=> UsagePercent(proc[c]) >= BUFFER_HIGH_WATER)

IsTracked(q, psn) ==
  \E c \in Cores, i \in Entries :
    /\ proc[c].arqs[i].qpn = q
    /\ \E j \in InFlight(proc[c].arqs[i].window) :
         proc[c].arqs[i].window.send_window[j].psn = psn

\* A packet acknowledged to its host in the receiver's stead is held in the
\* window of its QP, unless that window is full.  Not so for QPN 0, whose
\* context is cleared when it is given to the next new QP.
UntrackedOnlyWhenFull ==
  \A q \in QPNs \ {0}, psn \in PSN : <<q, psn>> \in acked =>
    \/ IsTracked(q, psn)
    \/ \E i \in Entries : /\ proc[LanCoreOf[q]].arqs[i].qpn = q
                          /\ InFlight(proc[LanCoreOf[q]].arqs[i].window) = Slots

\* The sender of a flow gets at most one CNP per CNP_TIMER, however the two
\* places that send them (the ECN mark and the congestion check, possibly in
\* the same call) follow each other.
CnpPaced ==
  [][\A q \in QPNs : cnp'[q].sent # cnp[q].sent =>
       /\ cnp'[q].sent = cnp[q].sent + 1
       /\ cnp[q].age >= CNP_TIMER]_vars

\* An ARQ ACK that has been handled leaves nothing it covers in flight.
AckReachesWindow ==
  last.type = "ack" => \A psn \in PSN :
    IsTracked(last.qpn, psn) => ~AtOrBefore(psn, last.psn)

============================================================================
