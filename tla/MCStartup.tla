----------------------------- MODULE MCStartup -----------------------------
(* Instances of Startup for TLC: four-bit addresses. *)
EXTENDS Startup

Address(a, b, c, d) == <<a, b, c, d>>

\* A subnet in the first octet, one across the octets, one with host bits, a
\* host, and the prefix whose mask is undefined.
SomeOptions ==
  [subnet: {Address(1, 0, 0, 0)}, prefix: {2}, peer: Peers] \cup
  [subnet: {Address(0, 1, 1, 0)}, prefix: {0, 2, 3, 4}, peer: Peers]

============================================================================
