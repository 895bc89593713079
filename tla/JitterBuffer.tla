---------------------------- MODULE JitterBuffer ----------------------------
(***************************************************************************)
(* The jitter buffer of src/jitter_buffer.c as operators on the table of   *)
(* write contexts and on one context.  The functions take global_lock and  *)
(* a buffer is used by one lcore only (processor.h), so each is one        *)
(* operator.  recv_time is written and never read, and is left out.        *)
(***************************************************************************)
EXTENDS Psn, Tables, FiniteSets

CONSTANTS
  JB_MAX_SEGMENTS,         \* jitter_buffer.h: 256
  NONE                     \* no control message, no segment type

ASSUME JitterBufferAssumption ==
  /\ JB_MAX_SEGMENTS \in Nat \ {0}
  /\ MAX_PSN % JB_MAX_SEGMENTS = 0         \* 256 divides 2^24
  /\ JB_MAX_SEGMENTS <= MAX_PSN \div 2
  /\ NONE \notin Nat

SegTypes == {"FIRST", "MIDDLE", "LAST", "ONLY"}
EndsWrite(seg) == seg \in {"LAST", "ONLY"}

SegSlots == 0 .. JB_MAX_SEGMENTS - 1

\* 0 is no mbuf, and the QPN of a free entry.
jb_segment_t(mbufs) ==
  [state: {"FREE", "RECEIVED", "WAITING"}, psn: PSN,
   segment_type: SegTypes \cup {NONE}, mbuf: mbufs \cup {0}]

jb_write_context_t(qpns, mbufs) ==
  [qpn: qpns \cup {0}, expected_psn: PSN, first_psn: PSN, segment_count: Nat,
   write_complete: BOOLEAN, segments: [SegSlots -> jb_segment_t(mbufs)]]

FreeSegment == [state |-> "FREE", psn |-> 0, segment_type |-> NONE, mbuf |-> 0]

\* The memset of jb_init, jb_get_or_create_write and jb_remove_write.
EmptyWrite ==
  [qpn |-> 0, expected_psn |-> 0, first_psn |-> 0, segment_count |-> 0,
   write_complete |-> FALSE, segments |-> [i \in SegSlots |-> FreeSegment]]

----------------------------------------------------------------------------
(* The table of contexts. *)

jb_find(table, qpn) == FirstEntry({i \in DOMAIN table : table[i].qpn = qpn})

\* The second loop of jb_get_or_create_write.  Its first loop finds nothing
\* that jb_find has not found.
FreeEntry(table) ==
  FirstEntry({i \in DOMAIN table : table[i].segment_count = 0 /\ table[i].qpn = 0})

NewWrite(qpn, psn) ==
  [EmptyWrite EXCEPT !.qpn = qpn, !.expected_psn = psn, !.first_psn = psn]

----------------------------------------------------------------------------
(* One context. *)

Idx(c, psn) == psn_forward_dist(c.first_psn, psn) % JB_MAX_SEGMENTS

Received(c, psn) == c.segments[Idx(c, psn)].state = "RECEIVED"

\* The slots a segment has been stored in.
ReceivedSlots(c) == {j \in SegSlots : c.segments[j].state = "RECEIVED"}

\* The slots between expected_psn and psn that are still FREE.
NewlyMissing(c, psn) ==
  LET dist == psn_forward_dist(c.expected_psn, psn) IN
  {Idx(c, (c.expected_psn + i) % MAX_PSN) :
     i \in IF dist < JB_MAX_SEGMENTS THEN 0 .. dist - 1 ELSE {}}

Stored(c, psn, seg, m) ==
  [c.segments EXCEPT ![Idx(c, psn)] =
     [state |-> "RECEIVED", psn |-> psn, segment_type |-> seg, mbuf |-> m]]

\* Mutants of jb_add_seg (the marking of missing slots left out): expected_psn
\* is not masked, or jumps to whatever arrives; the segment is not counted; or
\* write_complete is overwritten by every segment.
Added(c, psn, seg, m, expected, count, complete) ==
  [c EXCEPT !.segments = Stored(c, psn, seg, m), !.expected_psn = expected,
            !.segment_count = count, !.write_complete = complete]
Advanced(c, psn) == IF psn = c.expected_psn THEN (psn + 1) % MAX_PSN ELSE c.expected_psn
jb_add_seg_NoMask(c, psn, seg, m) ==
  Added(c, psn, seg, m, IF psn = c.expected_psn THEN psn + 1 ELSE c.expected_psn,
        c.segment_count + 1, c.write_complete \/ EndsWrite(seg))
jb_add_seg_Jump(c, psn, seg, m) ==
  Added(c, psn, seg, m, (psn + 1) % MAX_PSN,
        c.segment_count + 1, c.write_complete \/ EndsWrite(seg))
jb_add_seg_NoCount(c, psn, seg, m) ==
  Added(c, psn, seg, m, Advanced(c, psn), c.segment_count, c.write_complete \/ EndsWrite(seg))
jb_add_seg_NotSticky(c, psn, seg, m) ==
  Added(c, psn, seg, m, Advanced(c, psn), c.segment_count + 1, EndsWrite(seg))

\* jb_add_seg from the duplicate test on, for a PSN that is not a duplicate.
jb_add_seg(c, psn, seg, m) ==
  LET stored == Stored(c, psn, seg, m)
  IN  [c EXCEPT
        !.segments = [i \in SegSlots |->
            IF i \in NewlyMissing(c, psn) /\ stored[i].state = "FREE"
              THEN [stored[i] EXCEPT !.state = "WAITING"] ELSE stored[i]],
        !.segment_count = @ + 1,
        !.expected_psn = IF psn = @ THEN (@ + 1) % MAX_PSN ELSE @,
        !.write_complete = @ \/ EndsWrite(seg)]

\* The slots jb_get_ordered_segs walks over: from 0 to the first segment that
\* ends the write.
Walk(c) ==
  {i \in SegSlots : \A j \in 0 .. i - 1 :
     c.segments[j].state = "RECEIVED" => ~EndsWrite(c.segments[j].segment_type)}

\* Mutants: missing slots are skipped; the last segment is left out.
jb_get_ordered_segs_SkipGaps(c) ==
  SelectSeq([i \in 1 .. Cardinality(Walk(c)) |-> c.segments[i - 1]],
            LAMBDA segment : segment.state = "RECEIVED")
jb_get_ordered_segs_DropLast(c) ==
  IF \A i \in Walk(c) : c.segments[i].state = "RECEIVED"
    THEN [i \in 1 .. Cardinality(Walk(c)) - 1 |-> c.segments[i - 1]]
    ELSE << >>

\* It succeeds when it meets no FREE or WAITING slot on the way.
jb_get_ordered_segs(c) ==
  IF \A i \in Walk(c) : c.segments[i].state = "RECEIVED"
    THEN [i \in 1 .. Cardinality(Walk(c)) |-> c.segments[i - 1]]
    ELSE << >>

\* Mutant: the PSN after the one expected.
jb_check_missing_Next(c) ==
  IF Received(c, c.expected_psn) THEN 0 ELSE (c.expected_psn + 1) % MAX_PSN

jb_check_missing(c) == IF Received(c, c.expected_psn) THEN 0 ELSE c.expected_psn

\* The mbufs jb_remove_write frees: those of every segment of the context.
Buffered(c) == {c.segments[i].mbuf : i \in SegSlots} \ {0}

\* jb_is_write_complete, and jb_get_ordered_segs succeeds.
Complete(c) == c.write_complete /\ jb_get_ordered_segs(c) # << >>

\* What the caller makes of jb_check_missing: it takes 0 for "nothing is
\* missing".
NackOf(c) == IF jb_check_missing(c) = 0 THEN NONE ELSE jb_check_missing(c)

=============================================================================
