---------------------------- MODULE MCProcessor ----------------------------
(* Instances of Processor for TLC: RSS sends every QP to the one LAN core. *)
EXTENDS Processor

OneLanCore == [q \in QPNs |-> CHOOSE c \in LanCores : TRUE]
AllMbufs   == 1 .. MaxLan
============================================================================
