---------------------------- MODULE MCArqWindow ----------------------------
(* Instances of ArqWindow for TLC.  Mbufs are interchangeable. *)
EXTENDS ArqWindow, TLC

Symmetry == Permutations(Mbufs)
============================================================================
