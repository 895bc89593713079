--------------------------- MODULE WriteDelivery ---------------------------
(***************************************************************************)
(* What the WAN side promises the local hosts (README: every WRITE message *)
(* is reassembled and handed to the LAN as a whole): for each queue pair,  *)
(* the batches handed to the LAN are its WRITEs, each complete, in order,  *)
(* once.                                                                   *)
(***************************************************************************)
EXTENDS Naturals, Sequences

CONSTANTS QPNs,    \* queue pairs
          Writes   \* Writes[q]: the WRITEs the remote host sends, as packets

VARIABLE handed    \* handed[q]: the batches handed to the LAN

Init == handed = [q \in QPNs |-> << >>]

Hand(q) ==
  /\ Len(handed[q]) < Len(Writes[q])
  /\ handed' = [handed EXCEPT ![q] = Append(@, Writes[q][Len(@) + 1])]

Next == \E q \in QPNs : Hand(q)

Spec == Init /\ [][Next]_handed

============================================================================
