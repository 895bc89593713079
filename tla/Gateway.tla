------------------------------ MODULE Gateway ------------------------------
(***************************************************************************)
(* Two gateways and the WAN between them, for one queue pair: the host's   *)
(* WRITE packets enter the ARQ window of the gateway on its side (module   *)
(* Arq), travel over a wire that loses and reorders, are reassembled by    *)
(* the other gateway (module JitterBuffer) and handed to its LAN; ACKs and *)
(* NACKs travel back and act on the window.  A packet arrives more than    *)
(* once when it is retransmitted.                                          *)
(*                                                                         *)
(* Two things keep the code as it stands from getting far, and the model   *)
(* has the program with and without each of them (variable build): the     *)
(* control messages and the timer of the WAN lcore do not reach the window *)
(* the LAN lcore fills (AckReachesWindow of Processor), and a write        *)
(* context cannot be created, because global_lock is taken twice           *)
(* (CoreKeepsRunning of Reassembly).  What is shown here holds in all      *)
(* four.                                                                   *)
(*                                                                         *)
(* The NIC refusing a packet for the WAN is a loss on the wire, the        *)
(* references to mbufs are the business of ArqWindow and Reassembly, and   *)
(* the packets are named by their position in the host's stream.           *)
(***************************************************************************)
EXTENDS Arq, JitterBuffer

CONSTANTS
  QPN,               \* the queue pair
  Streams,           \* what the host may send: segment types, in order
  FirstPsn,          \* PSN of the first of them
  MaxCopies          \* bound: copies of a packet on the wire

Positions == Mbufs   \* the n-th packet is mbuf n

ASSUME GatewayAssumption ==
  /\ QPN \in Nat \ {0}
  /\ IsFiniteSet(Mbufs) /\ Mbufs = 1 .. Cardinality(Mbufs)
  /\ Streams \subseteq [Positions -> SegTypes]
  /\ FirstPsn \in PSN
  /\ MaxCopies \in Nat \ {0}
  /\ NULL = 0

VARIABLES
  build,   \* wired: the WAN lcore finds the window of its LAN lcore (shipped:
           \* no); lock: what global_lock is (shipped: a spinlock)
  hung,    \* the WAN lcore of the receiving gateway spins for ever
  stream,  \* the packets of the host
  sent,    \* packets the host has sent; all of them were acknowledged to it
  arq,     \* the window of the sending gateway
  wire,    \* wire[n]: copies of packet n on the WAN
  ctx,     \* the write context of the receiving gateway
  back,    \* the control messages on the WAN
  log      \* the packets offered to the LAN port of the receiving gateway,
           \* and those an ACK released from the window

vars == <<build, hung, stream, sent, arq, wire, ctx, back, log>>

Builds == [wired: BOOLEAN, lock: {"spinlock", "recursive"}]

Init ==
  /\ build \in Builds
  /\ hung = FALSE
  /\ stream \in Streams
  /\ sent = 0
  /\ arq = EmptyContext
  /\ wire = [n \in Positions |-> 0]
  /\ ctx = EmptyWrite
  /\ back = {}
  /\ log = [offered |-> {}, released |-> {}]

PsnOf(n) == (FirstPsn + n - 1) % MAX_PSN

\* Copies of the packets of a set enter the wire; what the bound has no room
\* for is lost.
OnWire(packets) ==
  [n \in Positions |-> IF n \in packets /\ wire[n] < MaxCopies THEN wire[n] + 1 ELSE wire[n]]

OffWire(n) == [wire EXCEPT ![n] = @ - 1]

----------------------------------------------------------------------------
(* The sending gateway. *)

\* proc_process_lan_rx: the next packet of the host is tracked when the window
\* has room, and sent in either case.
SendTracked ==
  /\ sent < Cardinality(Positions)
  /\ HasRoom(arq)
  /\ arq' = arq_send_pkt(arq, sent + 1, PsnOf(sent + 1))
  /\ sent' = sent + 1
  /\ wire' = OnWire({sent + 1})
  /\ UNCHANGED <<build, hung, stream, ctx, back, log>>

SendUntracked ==
  /\ sent < Cardinality(Positions)
  /\ ~HasRoom(arq)
  /\ sent' = sent + 1
  /\ wire' = OnWire({sent + 1})
  /\ UNCHANGED <<build, hung, stream, arq, ctx, back, log>>

\* proc_process_wan_rx, control messages: arq_lookup in the contexts of the
\* WAN lcore.
HandleAck(msg) ==
  /\ build.wired
  /\ msg \in back
  /\ msg.type = "ack"
  /\ back' = back \ {msg}
  /\ arq' = arq_handle_ack(arq, msg.psn)
  /\ log' = [log EXCEPT !.released = @ \cup AckFrees(arq, msg.psn)]
  /\ UNCHANGED <<build, hung, stream, sent, wire, ctx>>

\* The packets of the slots that are retransmitted.
Resent(window, times) == {window[i].mbuf : i \in {j \in Slots : times[j] > 0}}

HandleNack(msg) ==
  /\ build.wired
  /\ msg \in back
  /\ msg.type = "nack"
  /\ back' = back \ {msg}
  /\ arq' = arq_handle_nack(arq, msg.psn)
  /\ wire' = OnWire(Resent(arq.send_window, NackRetransmits(arq, msg.psn)))
  /\ UNCHANGED <<build, hung, stream, sent, ctx, log>>

\* It finds nothing there, and the message is freed.
NoContext(msg) ==
  /\ ~build.wired
  /\ msg \in back
  /\ back' = back \ {msg}
  /\ UNCHANGED <<build, hung, stream, sent, arq, wire, ctx, log>>

\* proc_timer_callback, over the contexts of the WAN lcore; when nothing has
\* expired it changes nothing.
CheckTimeouts ==
  /\ build.wired
  /\ Expired(arq) # {}
  /\ arq' = arq_check_timeouts(arq)
  /\ wire' = OnWire(Resent(arq.send_window, TimeoutRetransmits(arq)))
  /\ UNCHANGED <<build, hung, stream, sent, ctx, back, log>>

----------------------------------------------------------------------------
(* The receiving gateway: proc_process_wan_rx for packet n. *)

\* What a control message says; that it may not be built for want of an mbuf is
\* a loss on the wire.
arq_build_ctrl_msg(type, psn) == [type |-> type, psn |-> psn]

Nacks(c) ==
  IF NackOf(c) = NONE THEN {} ELSE {arq_build_ctrl_msg("nack", NackOf(c))}

\* The packets of a complete write.
Batch(c) ==
  LET segs == jb_get_ordered_segs(c) IN {segs[k].mbuf : k \in DOMAIN segs}

\* Mutant: the ACK asks for the next PSN, as a TCP acknowledgement does.
Conclude_AckNext(n, c, said) ==
  IF Complete(c)
    THEN /\ ctx' = EmptyWrite
         /\ log' = [log EXCEPT !.offered = @ \cup Batch(c)]
         /\ back' = back \cup said \cup {arq_build_ctrl_msg("ack", PsnOf(n + 1))}
    ELSE ctx' = c /\ back' = back \cup said /\ UNCHANGED log

\* c is the context after the packet, said the NACK sent for it.  A complete
\* write is offered to the LAN port and acknowledged with the PSN of the
\* packet at hand, whatever the port takes of it.
Conclude(n, c, said) ==
  IF Complete(c)
    THEN /\ ctx' = EmptyWrite
         /\ log' = [log EXCEPT !.offered = @ \cup Batch(c)]
         /\ back' = back \cup said \cup {arq_build_ctrl_msg("ack", PsnOf(n))}
    ELSE ctx' = c /\ back' = back \cup said /\ UNCHANGED log

Context(n) == IF ctx.qpn = QPN THEN ctx ELSE NewWrite(QPN, PsnOf(n))

\* jb_get_or_create_write can lock global_lock, or has no need to.
GetsContext == ctx.qpn = QPN \/ build.lock = "recursive"

ReceiveSegment(n) ==
  /\ ~hung
  /\ wire[n] > 0
  /\ GetsContext
  /\ ~Received(Context(n), PsnOf(n))
  /\ wire' = OffWire(n)
  /\ \E c \in {jb_add_seg(Context(n), PsnOf(n), stream[n], n)} :
       Conclude(n, c, Nacks(c))
  /\ UNCHANGED <<build, hung, stream, sent, arq>>

\* jb_add_seg holds the lock that jb_get_or_create_write waits for.
SelfDeadlock(n) ==
  /\ ~hung
  /\ wire[n] > 0
  /\ ~GetsContext
  /\ wire' = OffWire(n)
  /\ hung' = TRUE
  /\ UNCHANGED <<build, stream, sent, arq, ctx, back, log>>

ReceiveDuplicate(n) ==
  /\ ~hung
  /\ wire[n] > 0
  /\ Received(Context(n), PsnOf(n))
  /\ wire' = OffWire(n)
  /\ Conclude(n, ctx, {})
  /\ UNCHANGED <<build, hung, stream, sent, arq>>

----------------------------------------------------------------------------
(* The WAN and the clock. *)

LosePacket(n) ==
  /\ wire[n] > 0
  /\ wire' = OffWire(n)
  /\ UNCHANGED <<build, hung, stream, sent, arq, ctx, back, log>>

LoseMessage(msg) ==
  /\ msg \in back
  /\ back' = back \ {msg}
  /\ UNCHANGED <<build, hung, stream, sent, arq, wire, ctx, log>>

Tick ==
  /\ arq' = Older(arq)
  /\ arq' # arq
  /\ UNCHANGED <<build, hung, stream, sent, wire, ctx, back, log>>

\* Everything has been said.
Quiet ==
  /\ sent = Cardinality(Positions)
  /\ \A n \in Positions : wire[n] = 0 /\ (build.wired => ~Holds(arq, n))
  /\ back = {}
  /\ UNCHANGED vars

Next ==
  \/ SendTracked
  \/ SendUntracked
  \/ \E msg \in back : HandleAck(msg) \/ HandleNack(msg) \/ NoContext(msg)
  \/ CheckTimeouts
  \/ \E n \in Positions : ReceiveSegment(n) \/ ReceiveDuplicate(n) \/ SelfDeadlock(n)
                          \/ LosePacket(n)
  \/ \E msg \in back : LoseMessage(msg)
  \/ Tick
  \/ Quiet

Spec == Init /\ [][Next]_vars

----------------------------------------------------------------------------
(* Properties. *)

TypeOK ==
  /\ build \in Builds
  /\ hung \in BOOLEAN
  /\ stream \in Streams
  /\ sent \in 0 .. Cardinality(Positions)
  /\ arq \in arq_context_t
  /\ wire \in [Positions -> 0 .. MaxCopies]
  /\ ctx \in jb_write_context_t({QPN}, Positions)
  /\ back \subseteq [type: {"ack", "nack"}, psn: PSN]
  /\ log \in [offered: SUBSET Positions, released: SUBSET Positions]

\* An ACK never runs ahead of delivery: what it releases from the window lies
\* at or before a packet that has been offered to the LAN of the receiving
\* gateway, across the PSN wrap, with stale and repeated ACKs, a PSN 0 that
\* is never asked for and writes longer than the jitter buffer.
ReleasedUpToOffered ==
  \A n \in log.released : \E m \in log.offered : m >= n

============================================================================
