----------------------------- MODULE MCGateway -----------------------------
(* Instances of Gateway for TLC. *)
EXTENDS Gateway

\* A write of two segments and one of one; a write longer than the buffer.
SomeStreams == {<<"FIRST", "LAST", "ONLY">>, <<"FIRST", "MIDDLE", "LAST">>}
============================================================================
