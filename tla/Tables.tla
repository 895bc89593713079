------------------------------- MODULE Tables -------------------------------
(***************************************************************************)
(* The fixed-size tables of the gateway (QP contexts, ARQ contexts, write  *)
(* contexts, peers) are arrays searched from the front.                    *)
(***************************************************************************)
EXTENDS Integers, Sequences

\* What a search for the entries in hits returns: the first of them, or 0 when
\* there is none.
FirstEntry(hits) ==
  IF hits = {} THEN 0 ELSE CHOOSE i \in hits : \A j \in hits : i <= j

=============================================================================
