--------------------------- MODULE GatewayProofs ---------------------------
(***************************************************************************)
(* The two gateways together, for every window, jitter buffer, stream and  *)
(* number of copies on the wire.                                           *)
(***************************************************************************)
EXTENDS Gateway, ArqProofs, JitterBufferProofs

----------------------------------------------------------------------------
(* The inductive invariant. *)

\* The context of the receiver is one jitter_buffer.c can have built, and
\* never one that is ready for delivery.
ContextSound == Sound(ctx) /\ ~Complete(ctx)

\* Every ACK on the WAN carries the PSN of a packet that has been offered.
AcksAreTrue ==
  \A msg \in back : msg.type = "ack" => \E n \in log.offered : msg.psn = PsnOf(n)

\* A slot of the window carries the PSN of its packet.
WindowLabelled ==
  \A i \in Slots : arq.send_window[i].mbuf # NULL =>
    arq.send_window[i].psn = PsnOf(arq.send_window[i].mbuf)

IInv == TypeOK /\ ContextSound /\ AcksAreTrue /\ WindowLabelled

----------------------------------------------------------------------------

Ctx == jb_write_context_t({QPN}, Positions)
Messages == [type: {"ack", "nack"}, psn: PSN]

LEMMA PositionsAre ==
  /\ Cardinality(Positions) \in Nat
  /\ Positions = 1 .. Cardinality(Positions)
  /\ 0 \notin Positions
  /\ \A n \in Nat : PsnOf(n) \in PSN
<1>1. Cardinality(Positions) \in Nat
  BY GatewayAssumption, FS_CardinalityType DEF Positions
<1>2. Positions = 1 .. Cardinality(Positions)
  BY GatewayAssumption DEF Positions
<1>3. ASSUME NEW n \in Nat PROVE PsnOf(n) \in PSN
  <2>1. FirstPsn \in Nat
    BY GatewayAssumption, PsnIsInt, Zenon
  <2>2. FirstPsn + n - 1 \in Int
    BY <2>1
  <2>3. QED
    BY <2>2, PsnIsInt, Zenon DEF PsnOf
<1>4. 0 \notin Positions
  BY <1>1, <1>2
<1>5. QED
  BY <1>1, <1>2, <1>3, <1>4

\* The PSN of a packet tells how far it lies from the first.
LEMMA PsnOfIs ==
  ASSUME Cardinality(Positions) <= MAX_PSN \div 2, NEW n \in Positions
  PROVE  /\ PsnOf(n) \in PSN /\ FirstPsn \in PSN
         /\ psn_forward_dist(FirstPsn, PsnOf(n)) = n - 1
         /\ n - 1 < MAX_PSN \div 2
<1>1. n \in Nat /\ n > 0 /\ n - 1 < MAX_PSN \div 2 /\ MAX_PSN \in Nat
  <2>1. n \in 1 .. Cardinality(Positions) /\ Cardinality(Positions) \in Nat
    BY PositionsAre
  <2>2. MAX_PSN \in Nat
    BY PsnIsInt
  <2>3. QED
    BY <2>1, <2>2
<1>2. FirstPsn \in PSN
  BY GatewayAssumption
<1>3. FirstPsn \in Nat
  BY <1>2, PsnIsInt, Zenon
<1>4. FirstPsn + n - 1 = FirstPsn + (n - 1) /\ n - 1 \in 0 .. MAX_PSN - 1
  BY <1>1, <1>3
<1>5. psn_forward_dist(FirstPsn, (FirstPsn + (n - 1)) % MAX_PSN) = n - 1
  BY <1>2, <1>4, DistOf
<1>6. PsnOf(n) \in PSN
  BY <1>1, PositionsAre
<1>7. QED
  BY <1>1, <1>2, <1>4, <1>5, <1>6 DEF PsnOf

LEMMA OnWireType ==
  ASSUME wire \in [Positions -> 0 .. MaxCopies], NEW S
  PROVE  OnWire(S) \in [Positions -> 0 .. MaxCopies]
<1>1. MaxCopies \in Nat
  BY GatewayAssumption
<1>2. ASSUME NEW n \in Positions
      PROVE  (IF n \in S /\ wire[n] < MaxCopies THEN wire[n] + 1 ELSE wire[n]) \in 0 .. MaxCopies
  BY <1>1
<1>3. QED
  BY <1>2 DEF OnWire

LEMMA OffWireType ==
  ASSUME wire \in [Positions -> 0 .. MaxCopies], NEW n \in Positions, wire[n] > 0
  PROVE  OffWire(n) \in [Positions -> 0 .. MaxCopies]
<1>1. MaxCopies \in Nat /\ wire[n] - 1 \in 0 .. MaxCopies
  BY GatewayAssumption
<1>2. QED
  BY <1>1 DEF OffWire

\* A step of the sender that does not label any slot anew.
LEMMA LabelsKept ==
  ASSUME IInv,
         \/ \E psn : arq' = arq_handle_ack(arq, psn)
         \/ \E psn : arq' = arq_handle_nack(arq, psn)
         \/ arq' = arq_check_timeouts(arq)
         \/ arq' = Older(arq)
  PROVE  arq' \in arq_context_t /\ WindowLabelled'
<1>1. arq \in arq_context_t
  BY DEF IInv, TypeOK
<1>2. arq' \in arq_context_t
  BY <1>1, AckType, NackType, TimeoutType, OlderType
<1>3. \A i \in Slots : arq'.send_window[i].psn = arq.send_window[i].psn
  BY <1>1, ScansKeepOrder, AckKeepsOrder
<1>4. \A i \in Slots : arq'.send_window[i].mbuf \in {NULL, arq.send_window[i].mbuf}
  BY <1>1, ScansKeepMbufs
<1>5. WindowLabelled'
  BY <1>3, <1>4 DEF IInv, WindowLabelled, PsnOf
<1>6. QED
  BY <1>2, <1>5

\* The context a packet finds.
LEMMA FoundIs ==
  ASSUME IInv, NEW n \in Positions
  PROVE  Context(n) \in Ctx /\ Sound(Context(n)) /\ ~Complete(Context(n))
<1>1. PsnOf(n) \in PSN
  BY PositionsAre
<1>2. CASE ctx.qpn = QPN
  BY <1>2 DEF Context, IInv, ContextSound, TypeOK, Ctx
<1>3. CASE ctx.qpn # QPN
  <2>1. Context(n) = NewWrite(QPN, PsnOf(n)) /\ QPN \in {QPN}
    BY <1>3 DEF Context
  <2>2. QED
    BY <1>1, <1>3, <2>1, NewWriteIs DEF Ctx
<1>4. QED
  BY <1>2, <1>3

\* The batch of a complete context holds the packet that completed it.
LEMMA BatchIs ==
  ASSUME IInv, NEW n \in Positions, ~Received(Context(n), PsnOf(n)), NEW c,
         c = jb_add_seg(Context(n), PsnOf(n), stream[n], n)
  PROVE  /\ c \in Ctx /\ Sound(c)
         /\ Nacks(c) \subseteq Messages
         /\ \A msg \in Nacks(c) : msg.type # "ack"
         /\ Complete(c) => n \in Batch(c) /\ Batch(c) \subseteq Positions
<1> DEFINE old == Context(n)
           psn == PsnOf(n)
           seg == stream[n]
<1>1. /\ old \in jb_write_context_t({QPN}, Positions) /\ Sound(old) /\ ~Complete(old)
      /\ ~Received(old, psn)
  BY FoundIs DEF Ctx
<1>2. psn \in PSN /\ n # 0
  <2>1. n \in 1 .. Cardinality(Positions) /\ Cardinality(Positions) \in Nat
    BY PositionsAre
  <2>2. n \in Nat /\ n # 0
    BY <2>1
  <2>3. QED
    BY <2>2, PositionsAre, Zenon
<1>3. seg \in SegTypes
  BY GatewayAssumption DEF IInv, TypeOK
<1>4. c = jb_add_seg(old, psn, seg, n)
  OBVIOUS
<1> HIDE DEF old, psn, seg
<1>5. c \in Ctx /\ Sound(c)
  <2> DEFINE Q == {QPN}
  <2>0. old \in jb_write_context_t(Q, Positions) /\ Sound(old) /\ ~Received(old, psn)
    BY <1>1
  <2> HIDE DEF Q
  <2>1. c \in jb_write_context_t(Q, Positions)
    <3>1. jb_add_seg(old, psn, seg, n) \in jb_write_context_t(Q, Positions)
      BY <1>2, <1>3, <2>0, AddIs
    <3>2. QED
      BY <1>4, <3>1
  <2>2. Sound(c)
    BY <1>2, <1>3, <1>4, <2>0, AddSound
  <2>3. QED
    BY <2>1, <2>2 DEF Ctx, Q
<1>6. Nacks(c) \subseteq Messages /\ \A msg \in Nacks(c) : msg.type # "ack"
  <2>1. c.expected_psn \in PSN /\ 0 \in PSN
    BY <1>5, PsnAssumption DEF Ctx, jb_write_context_t, PSN
  <2>2. NackOf(c) # NONE => NackOf(c) \in PSN
    BY <2>1 DEF NackOf, jb_check_missing
  <2>3. QED
    BY <2>2 DEF Nacks, Messages, arq_build_ctrl_msg
<1>7. ASSUME Complete(c) PROVE n \in Batch(c) /\ Batch(c) \subseteq Positions
  <2> DEFINE segs == jb_get_ordered_segs(c)
  <2>1. \E k \in DOMAIN segs : segs[k].psn = psn /\ segs[k].mbuf = n
    BY <1>1, <1>2, <1>3, <1>4, <1>7, AddedIsDelivered
  <2>2. PICK w \in 1 .. JB_MAX_SEGMENTS :
          /\ Walk(c) = 0 .. w - 1
          /\ segs = [k \in 1 .. w |-> c.segments[k - 1]]
          /\ \A j \in 0 .. w - 1 : /\ c.segments[j].state = "RECEIVED"
                                   /\ EndsWrite(c.segments[j].segment_type) <=> j = w - 1
    BY <1>5, <1>7, OrderedIs DEF Sound
  <2>3. \A k \in 1 .. w : k - 1 \in SegSlots /\ k - 1 \in 0 .. w - 1
    BY JbBasics DEF SegSlots
  <2>4. \A j \in SegSlots : /\ c.segments[j].mbuf \in Positions \cup {0}
                            /\ c.segments[j].state = "RECEIVED" => c.segments[j].mbuf # 0
    BY <1>5 DEF Ctx, jb_write_context_t, jb_segment_t, Sound, SlotsSound
  <2>5. \A k \in DOMAIN segs : segs[k].mbuf \in Positions
    BY <2>2, <2>3, <2>4
  <2>6. QED
    BY <2>1, <2>5 DEF Batch
<1>8. QED
  BY <1>5, <1>6, <1>7

LEMMA SegmentStep ==
  ASSUME IInv, NEW n \in Positions, ReceiveSegment(n)
  PROVE  IInv' /\ log'.released = log.released /\ log.offered \subseteq log'.offered
<1> DEFINE c == jb_add_seg(Context(n), PsnOf(n), stream[n], n)
<1>1. /\ wire[n] > 0 /\ ~Received(Context(n), PsnOf(n)) /\ wire' = OffWire(n)
      /\ Conclude(n, c, Nacks(c))
      /\ stream' = stream /\ sent' = sent /\ arq' = arq /\ UNCHANGED <<build, hung>>
  BY DEF ReceiveSegment
<1>2. /\ c \in Ctx /\ Sound(c) /\ Nacks(c) \subseteq Messages
      /\ \A msg \in Nacks(c) : msg.type # "ack"
      /\ Complete(c) => n \in Batch(c) /\ Batch(c) \subseteq Positions
  BY <1>1, BatchIs
<1>3. /\ build \in Builds /\ hung \in BOOLEAN /\ stream \in Streams /\ sent \in 0 .. Cardinality(Positions)
      /\ arq \in arq_context_t
      /\ wire \in [Positions -> 0 .. MaxCopies] /\ back \subseteq Messages
      /\ log \in [offered: SUBSET Positions, released: SUBSET Positions]
  BY DEF IInv, TypeOK, Messages
<1>4. wire' \in [Positions -> 0 .. MaxCopies]
  BY <1>1, <1>3, OffWireType
<1>5. WindowLabelled'
  BY <1>1 DEF IInv, WindowLabelled, PsnOf
<1> HIDE DEF c
<1>6. CASE Complete(c)
  <2> DEFINE ack == [type |-> "ack", psn |-> PsnOf(n)]
  <2>1. /\ ctx' = EmptyWrite
        /\ log' = [log EXCEPT !.offered = @ \cup Batch(c)]
        /\ back' = back \cup Nacks(c) \cup {ack}
    BY <1>1, <1>6 DEF Conclude, arq_build_ctrl_msg
  <2>2. /\ log' \in [offered: SUBSET Positions, released: SUBSET Positions]
        /\ log'.offered = log.offered \cup Batch(c) /\ log'.released = log.released
    BY <1>2, <1>3, <1>6, <2>1
  <2>3. ack \in Messages /\ ack.psn = PsnOf(n)
    BY PositionsAre DEF Messages
  <2>4. back' \subseteq Messages
    BY <1>2, <1>3, <2>1, <2>3
  <2>5. ctx' \in Ctx /\ ContextSound'
    BY <2>1, EmptyIs DEF Ctx, ContextSound
  <2>6. AcksAreTrue'
    <3>1. ASSUME NEW msg \in back', msg.type = "ack"
          PROVE  \E m \in log'.offered : msg.psn = PsnOf(m)
      <4>1. CASE msg \in back
        <5>1. PICK m \in log.offered : msg.psn = PsnOf(m)
          BY <3>1, <4>1 DEF IInv, AcksAreTrue
        <5>2. QED
          BY <2>2, <5>1
      <4>2. CASE msg = ack
        BY <1>2, <1>6, <2>2, <2>3, <4>2
      <4>3. QED
        BY <1>2, <2>1, <3>1, <4>1, <4>2
    <3>2. QED
      BY <3>1 DEF AcksAreTrue, PsnOf
  <2>7. TypeOK'
    BY <1>1, <1>3, <1>4, <2>2, <2>4, <2>5 DEF TypeOK, Ctx, Messages
  <2>8. QED
    BY <1>5, <2>2, <2>5, <2>6, <2>7 DEF IInv
<1>7. CASE ~Complete(c)
  <2>1. ctx' = c /\ back' = back \cup Nacks(c) /\ log' = log
    BY <1>1, <1>7 DEF Conclude, arq_build_ctrl_msg
  <2>2. ContextSound'
    BY <1>2, <1>7, <2>1 DEF ContextSound
  <2>3. AcksAreTrue'
    BY <1>2, <2>1 DEF IInv, AcksAreTrue, PsnOf
  <2>4. TypeOK'
    BY <1>1, <1>2, <1>3, <1>4, <2>1 DEF TypeOK, Ctx, Messages
  <2>5. QED
    BY <1>5, <2>1, <2>2, <2>3, <2>4 DEF IInv
<1>8. QED
  BY <1>6, <1>7

LEMMA DuplicateStep ==
  ASSUME IInv, NEW n \in Positions, ReceiveDuplicate(n)
  PROVE  IInv' /\ log' = log
<1>1. /\ wire[n] > 0 /\ Received(Context(n), PsnOf(n)) /\ wire' = OffWire(n)
      /\ Conclude(n, ctx, {})
      /\ stream' = stream /\ sent' = sent /\ arq' = arq /\ UNCHANGED <<build, hung>>
  BY DEF ReceiveDuplicate
<1>2. ctx' = ctx /\ back' = back /\ log' = log
  BY <1>1 DEF Conclude, arq_build_ctrl_msg, IInv, ContextSound
<1>3. wire' \in [Positions -> 0 .. MaxCopies]
  BY <1>1, OffWireType DEF IInv, TypeOK
<1>4. QED
  BY <1>1, <1>2, <1>3 DEF IInv, TypeOK, ContextSound, AcksAreTrue, WindowLabelled, PsnOf

LEMMA SendStep ==
  ASSUME IInv, SendTracked \/ SendUntracked
  PROVE  IInv' /\ log' = log
<1>1. /\ sent < Cardinality(Positions) /\ sent' = sent + 1 /\ wire' = OnWire({sent + 1})
      /\ stream' = stream /\ ctx' = ctx /\ back' = back /\ log' = log
      /\ UNCHANGED <<build, hung>>
  BY DEF SendTracked, SendUntracked
<1>2. /\ sent + 1 \in Positions /\ sent' \in 0 .. Cardinality(Positions)
      /\ PsnOf(sent + 1) \in PSN
  <2>1. sent \in 0 .. Cardinality(Positions) /\ Cardinality(Positions) \in Nat
    BY PositionsAre DEF IInv, TypeOK
  <2>2. sent + 1 \in 1 .. Cardinality(Positions) /\ sent + 1 \in Nat
        /\ sent' \in 0 .. Cardinality(Positions)
    BY <1>1, <2>1
  <2>3. sent + 1 \in Positions
    BY <2>2, PositionsAre
  <2>4. PsnOf(sent + 1) \in PSN
    BY <2>2, PositionsAre, Zenon
  <2>5. QED
    BY <2>2, <2>3, <2>4
<1>3. wire' \in [Positions -> 0 .. MaxCopies]
  BY <1>1, OnWireType DEF IInv, TypeOK
<1>4. arq \in arq_context_t /\ WindowLabelled
  BY DEF IInv, TypeOK
<1>5. arq' \in arq_context_t /\ WindowLabelled'
  <2>1. CASE SendUntracked
    BY <1>4, <2>1 DEF SendUntracked, WindowLabelled, PsnOf
  <2>2. CASE SendTracked
    <3>1. arq' = arq_send_pkt(arq, sent + 1, PsnOf(sent + 1)) /\ sent + 1 \in Mbufs
      BY <1>2, <2>2 DEF SendTracked, Positions
    <3>2. arq' \in arq_context_t
      BY <1>2, <1>4, <3>1, SendType
    <3>3. arq.send_window \in [Slots -> arq_send_entry_t] /\ Index(arq.send_next) \in Slots
      <4>1. arq.send_next \in Nat
        BY <1>4 DEF arq_context_t, Ctr
      <4>2. QED
        BY <1>4, <4>1, IndexInSlots DEF arq_context_t
    <3>4. /\ arq'.send_window[Index(arq.send_next)].mbuf = sent + 1
          /\ arq'.send_window[Index(arq.send_next)].psn = PsnOf(sent + 1)
          /\ \A i \in Slots : i # Index(arq.send_next) =>
               arq'.send_window[i] = arq.send_window[i]
      BY <3>1, <3>3 DEF arq_send_pkt
    <3>5. WindowLabelled'
      BY <1>4, <3>3, <3>4 DEF WindowLabelled, PsnOf
    <3>6. QED
      BY <3>2, <3>5
  <2>3. QED
    BY <2>1, <2>2
<1>6. QED
  BY <1>1, <1>2, <1>3, <1>5 DEF IInv, TypeOK, ContextSound, AcksAreTrue, PsnOf

LEMMA AckStep ==
  ASSUME IInv, NEW msg \in back, HandleAck(msg)
  PROVE  /\ IInv'
         /\ log'.offered = log.offered
         /\ log'.released = log.released \cup AckFrees(arq, msg.psn)
<1>1. /\ back' = back \ {msg} /\ arq' = arq_handle_ack(arq, msg.psn)
      /\ log' = [log EXCEPT !.released = @ \cup AckFrees(arq, msg.psn)]
      /\ stream' = stream /\ sent' = sent /\ wire' = wire /\ ctx' = ctx
      /\ UNCHANGED <<build, hung>>
  BY DEF HandleAck
<1>2. arq' \in arq_context_t /\ WindowLabelled'
  BY <1>1, LabelsKept
<1>3. AckFrees(arq, msg.psn) \subseteq Positions
  <2>1. arq \in arq_context_t
    BY DEF IInv, TypeOK
  <2>2. AckedSlots(arq, msg.psn) \subseteq Slots
    <3>1. \A k \in Outstanding(arq) : k \in Nat
      BY <2>1 DEF Outstanding, arq_context_t, Ctr
    <3>2. QED
      BY <3>1, IndexInSlots DEF AckedSlots, AckedPrefix
  <2>3. QED
    BY <2>1, <2>2 DEF AckFrees, arq_context_t, arq_send_entry_t, Positions
<1>4. /\ log' \in [offered: SUBSET Positions, released: SUBSET Positions]
      /\ log'.offered = log.offered
      /\ log'.released = log.released \cup AckFrees(arq, msg.psn)
  BY <1>1, <1>3 DEF IInv, TypeOK
<1>5. TypeOK'
  BY <1>1, <1>2, <1>4 DEF IInv, TypeOK
<1>6. ContextSound' /\ AcksAreTrue'
  BY <1>1, <1>4 DEF IInv, ContextSound, AcksAreTrue, PsnOf
<1>7. QED
  BY <1>2, <1>4, <1>5, <1>6 DEF IInv

LEMMA OtherStep ==
  ASSUME IInv,
         \/ \E msg \in back : HandleNack(msg)
         \/ CheckTimeouts
         \/ \E n \in Positions : LosePacket(n) \/ SelfDeadlock(n)
         \/ \E msg \in back : LoseMessage(msg) \/ NoContext(msg)
         \/ Tick
         \/ UNCHANGED vars
  PROVE  IInv' /\ log' = log
<1>1. ASSUME NEW msg \in back, HandleNack(msg) PROVE IInv' /\ log' = log
  <2>1. /\ back' = back \ {msg} /\ arq' = arq_handle_nack(arq, msg.psn)
        /\ wire' = OnWire(Resent(arq.send_window, NackRetransmits(arq, msg.psn)))
        /\ stream' = stream /\ sent' = sent /\ ctx' = ctx /\ log' = log
        /\ UNCHANGED <<build, hung>>
    BY <1>1 DEF HandleNack
  <2>2. arq' \in arq_context_t /\ WindowLabelled'
    BY <2>1, LabelsKept
  <2>3. wire' \in [Positions -> 0 .. MaxCopies]
    BY <2>1, OnWireType DEF IInv, TypeOK
  <2>4. TypeOK'
    BY <2>1, <2>2, <2>3 DEF IInv, TypeOK
  <2>5. QED
    BY <2>1, <2>2, <2>4 DEF IInv, ContextSound, AcksAreTrue, PsnOf
<1>2. CASE CheckTimeouts
  <2>1. /\ arq' = arq_check_timeouts(arq)
        /\ wire' = OnWire(Resent(arq.send_window, TimeoutRetransmits(arq)))
        /\ back' = back /\ stream' = stream /\ sent' = sent /\ ctx' = ctx /\ log' = log
        /\ UNCHANGED <<build, hung>>
    BY <1>2 DEF CheckTimeouts
  <2>2. arq' \in arq_context_t /\ WindowLabelled'
    BY <2>1, LabelsKept
  <2>3. wire' \in [Positions -> 0 .. MaxCopies]
    BY <2>1, OnWireType DEF IInv, TypeOK
  <2>4. TypeOK'
    BY <2>1, <2>2, <2>3 DEF IInv, TypeOK
  <2>5. QED
    BY <2>1, <2>2, <2>4 DEF IInv, ContextSound, AcksAreTrue, PsnOf
<1>3. ASSUME NEW n \in Positions, LosePacket(n) \/ SelfDeadlock(n)
      PROVE  IInv' /\ log' = log
  <2>1. wire' \in [Positions -> 0 .. MaxCopies]
    BY <1>3, OffWireType DEF LosePacket, SelfDeadlock, IInv, TypeOK
  <2>2. QED
    BY <1>3, <2>1 DEF LosePacket, SelfDeadlock, IInv, TypeOK, ContextSound, AcksAreTrue,
                      WindowLabelled, PsnOf
<1>4. ASSUME NEW msg \in back, LoseMessage(msg) \/ NoContext(msg)
      PROVE  IInv' /\ log' = log
  BY <1>4 DEF LoseMessage, NoContext, IInv, TypeOK, ContextSound, AcksAreTrue, WindowLabelled, PsnOf
<1>5. CASE Tick
  <2>1. /\ arq' = Older(arq) /\ stream' = stream /\ sent' = sent /\ wire' = wire
        /\ ctx' = ctx /\ back' = back /\ log' = log /\ UNCHANGED <<build, hung>>
    BY <1>5 DEF Tick
  <2>2. arq' \in arq_context_t /\ WindowLabelled'
    BY <2>1, LabelsKept
  <2>3. QED
    BY <2>1, <2>2 DEF IInv, TypeOK, ContextSound, AcksAreTrue, PsnOf
<1>6. CASE UNCHANGED vars
  BY <1>6 DEF vars, IInv, TypeOK, ContextSound, AcksAreTrue, WindowLabelled, PsnOf
<1>7. QED
  BY <1>1, <1>2, <1>3, <1>4, <1>5, <1>6

LEMMA InitIInv == Init => IInv
<1> SUFFICES ASSUME Init PROVE IInv
  OBVIOUS
<1>1. arq \in arq_context_t /\ \A i \in Slots : arq.send_window[i].mbuf = NULL
  <2>1. 0 \in PSN /\ 0 \in Ctr /\ 0 \in 0 .. RETRY_TIMEOUT + 1 /\ 0 \in 0 .. RETRY_MOD - 1
    BY PsnAssumption, ArqAssumption DEF PSN, Ctr
  <2>2. QED
    BY <2>1 DEF Init, EmptyContext, arq_context_t, arq_send_entry_t
<1>2. ctx \in Ctx /\ ContextSound
  BY EmptyIs DEF Init, Ctx, ContextSound
<1>3. wire \in [Positions -> 0 .. MaxCopies]
  BY GatewayAssumption DEF Init
<1>4. sent \in 0 .. Cardinality(Positions)
  BY PositionsAre DEF Init
<1>5. TypeOK
  BY <1>1, <1>2, <1>3, <1>4 DEF Init, TypeOK, Ctx
<1>6. QED
  BY <1>1, <1>2, <1>5 DEF Init, IInv, AcksAreTrue, WindowLabelled

LEMMA NextIInv == IInv /\ [Next]_vars => IInv'
  BY SendStep, AckStep, SegmentStep, DuplicateStep, OtherStep DEF Next, Quiet

LEMMA Invariant == Spec => []IInv
<1>1. Init => IInv
  BY InitIInv
<1>2. IInv /\ [Next]_vars => IInv'
  BY NextIInv
<1>3. QED
  BY <1>1, <1>2, PTL DEF Spec

----------------------------------------------------------------------------
(* The theorems. *)

\* The two gateways and the messages between them stay within their types.
THEOREM TypeCorrect == Spec => []TypeOK
<1>1. IInv => TypeOK
  BY DEF IInv
<1>2. QED
  BY <1>1, Invariant, PTL

\* An ACK never runs ahead of delivery: whatever it releases from the window of
\* the sending gateway lies at or before a packet that has been offered to the
\* LAN of the receiving one, in every build, however packets and messages are
\* lost, reordered and repeated, as long as the stream spans no more than half the PSN space.
THEOREM AcksFollowDelivery ==
  Cardinality(Positions) <= MAX_PSN \div 2 => (Spec => []ReleasedUpToOffered)
<1> SUFFICES ASSUME Cardinality(Positions) <= MAX_PSN \div 2
             PROVE  Spec => []ReleasedUpToOffered
  OBVIOUS
<1>1. Init => ReleasedUpToOffered
  BY DEF Init, ReleasedUpToOffered
<1>2. IInv /\ ReleasedUpToOffered /\ [Next]_vars => ReleasedUpToOffered'
  <2> SUFFICES ASSUME IInv, ReleasedUpToOffered, [Next]_vars PROVE ReleasedUpToOffered'
    OBVIOUS
  <2>1. ASSUME log'.released = log.released, log.offered \subseteq log'.offered
        PROVE  ReleasedUpToOffered'
    BY <2>1 DEF ReleasedUpToOffered
  <2>2. ASSUME NEW msg \in back, HandleAck(msg) PROVE ReleasedUpToOffered'
    <3>1. /\ log'.offered = log.offered
          /\ log'.released = log.released \cup AckFrees(arq, msg.psn)
      BY <2>2, AckStep
    <3>2. PICK m \in log.offered : msg.psn = PsnOf(m)
      BY <2>2 DEF HandleAck, IInv, AcksAreTrue
    <3>3. m \in Positions
      BY DEF IInv, TypeOK
    <3>4. ASSUME NEW n \in AckFrees(arq, msg.psn) PROVE m >= n
      <4>1. arq \in arq_context_t
        BY DEF IInv, TypeOK
      <4>2. PICK k \in AckedPrefix(arq, msg.psn) :
              arq.send_window[Index(k)].mbuf = n /\ n # NULL
        BY DEF AckFrees, AckedSlots
      <4>3. /\ k \in Nat /\ k \in arq.send_base .. k
            /\ AtOrBefore(arq.send_window[Index(k)].psn, msg.psn)
        BY <4>1 DEF AckedPrefix, Outstanding, arq_context_t, Ctr
      <4>4. Index(k) \in Slots
        BY <4>3, IndexInSlots
      <4>5. n \in Positions /\ arq.send_window[Index(k)].psn = PsnOf(n)
        BY <4>1, <4>2, <4>4 DEF IInv, WindowLabelled, arq_context_t, arq_send_entry_t,
                                Positions
      <4>6. AtOrBefore(PsnOf(n), PsnOf(m))
        BY <3>2, <4>3, <4>5
      <4>7. /\ PsnOf(n) \in PSN /\ PsnOf(m) \in PSN /\ FirstPsn \in PSN
            /\ psn_forward_dist(FirstPsn, PsnOf(n)) = n - 1 /\ n - 1 < MAX_PSN \div 2
            /\ psn_forward_dist(FirstPsn, PsnOf(m)) = m - 1 /\ m - 1 < MAX_PSN \div 2
        BY <3>3, <4>5, PsnOfIs
      <4>8. n - 1 <= m - 1
        BY <4>6, <4>7, BeforeIs
      <4>9. n \in Nat /\ m \in Nat
        <5>1. n \in 1 .. Cardinality(Positions) /\ m \in 1 .. Cardinality(Positions)
              /\ Cardinality(Positions) \in Nat
          BY <3>3, <4>5, PositionsAre
        <5>2. QED
          BY <5>1
      <4>10. QED
        BY <4>8, <4>9
    <3>5. QED
      BY <3>1, <3>4 DEF ReleasedUpToOffered
  <2>3. ASSUME NEW n \in Positions, ReceiveSegment(n) PROVE ReleasedUpToOffered'
    BY <2>1, <2>3, SegmentStep
  <2>4. CASE log' = log
    BY <2>4 DEF ReleasedUpToOffered
  <2>5. QED
    BY <2>2, <2>3, <2>4, SendStep, DuplicateStep, OtherStep DEF Next, Quiet
<1>3. QED
  BY <1>1, <1>2, Invariant, PTL DEF Spec

============================================================================
