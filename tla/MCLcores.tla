------------------------------ MODULE MCLcores ------------------------------
(* Instances of Lcores for TLC: four-bit addresses. *)
EXTENDS Lcores

\* A subnet across the octets, written with a host bit, and the prefix whose
\* mask is undefined.
TwoMappings == [subnet: {<<0, 1, 1, 1>>}, prefix: {0, 3}, peer: {1}]

\* Lcores numbered without a gap, with one to spare; with a gap; too few.
SomeLcores == {0 .. 3, {0, 2, 3}, {1, 2}}
=============================================================================
