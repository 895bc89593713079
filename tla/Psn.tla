-------------------------------- MODULE Psn --------------------------------
(***************************************************************************)
(* Packet sequence numbers as include/common.h computes with them: a PSN   *)
(* is a residue modulo MAX_PSN (2^24 on the wire), and every comparison is *)
(* made on the forward distance between two of them.                       *)
(***************************************************************************)
EXTENDS Integers

CONSTANT MAX_PSN   \* qp_ctx.h: 0x01000000

ASSUME PsnAssumption == /\ MAX_PSN \in Nat \ {0}
                        /\ MAX_PSN % 2 = 0

PSN == 0 .. MAX_PSN - 1

\* Both arguments are masked (& PSN_MASK) before they are compared.
psn_forward_dist(from, to) ==
  LET f == from % MAX_PSN
      t == to % MAX_PSN
  IN  IF t >= f THEN t - f ELSE MAX_PSN - f + t

\* The test "diff < 0x800000" of arq.c: p is q or lies in the half circle
\* that precedes q.
AtOrBefore(p, q) == psn_forward_dist(p, q) < MAX_PSN \div 2

============================================================================
