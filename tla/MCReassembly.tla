---------------------------- MODULE MCReassembly ----------------------------
(* Instances of Reassembly for TLC: the streams of the remote hosts. *)
EXTENDS Reassembly, TLC

\* One mbuf is as good as another.
MbufSymmetry == Permutations(Mbufs)

\* One write of two segments followed by one of one.
TwoWrites   == [q \in QPNs |-> <<"FIRST", "LAST", "ONLY">>]
\* One write of three segments and the start of the next.
LongWrite   == [q \in QPNs |-> <<"FIRST", "MIDDLE", "LAST", "ONLY">>]
\* A write of three segments and the start of the next on one QP, a write of
\* one on the others.
LongAndShort == [q \in QPNs |-> IF q = 5 THEN <<"FIRST", "MIDDLE", "LAST", "ONLY">>
                                         ELSE <<"ONLY">>]

\* The PSN wraps within the stream.  QPN 0 gets what the memset of a free entry
\* has as first_psn.
StartAtWrap == [q \in QPNs |-> IF q = 0 THEN 0 ELSE MAX_PSN - 2]
=============================================================================
