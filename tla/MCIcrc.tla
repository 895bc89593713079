------------------------------- MODULE MCIcrc -------------------------------
(* Instances of Icrc for TLC: two-bit bytes and an eight-bit CRC. *)
EXTENDS Icrc, Bitwise

\* The ^ of C.
XorWords(v, w) == v ^^ w

\* No data, a tail only, a block, a block with a tail, and two blocks; the
\* third and the sixth byte are variant fields.
SomePackets ==
  {<< >>, <<1, 2, 3>>, <<3, 3, 3, 3, 3, 3, 3>>, <<0, 1, 2, 3, 3, 2, 1, 0>>,
   <<1, 0, 0, 0, 0, 0, 0, 0>>, <<3, 0, 0, 2, 1, 1, 0, 2, 3, 1>>,
   <<2, 0, 1, 3, 0, 3, 1, 2, 2, 2, 0, 1, 3, 0, 1, 1>>}
============================================================================
