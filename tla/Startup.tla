------------------------------ MODULE Startup ------------------------------
(***************************************************************************)
(* How the table of peer gateways comes about: main() of src/main.c parses *)
(* the --peer options into it, makes its checks, initialises the modules   *)
(* and starts the lcores, which look destinations up in it                 *)
(* (src/peer_manager.c).                                                   *)
(*                                                                         *)
(* An address is a function from bit positions to bits, most significant   *)
(* first, of two octets instead of four: what matters is that host order   *)
(* and network order (inet_addr, htonl) have their octets reversed on the  *)
(* little-endian machines DPDK is built for here (Makefile: SSE4.2).       *)
(***************************************************************************)
EXTENDS Tables, FiniteSetsExt

CONSTANTS
  OctetBits,    \* 8
  MAX_PEERS,    \* peer_manager.h: 32
  PeerOptions,  \* --peer subnet/prefix:peer-ip, as records
  Peers,        \* peer gateway addresses, none of them 0
  MaxOptions    \* bound: options on the command line

Bits      == 1 .. 2 * OctetBits
Addresses == [Bits -> {0, 1}]

ASSUME StartupAssumption ==
  /\ OctetBits \in Nat \ {0}
  /\ MAX_PEERS \in Nat \ {0}
  /\ PeerOptions \subseteq [subnet: Addresses, prefix: 0 .. 2 * OctetBits, peer: Peers]
  /\ 0 \notin Peers
  /\ MaxOptions \in Nat

VARIABLES
  stage,     \* "parsing", "running" or "exited"
  pm,        \* g_peer_manager
  given      \* the options parsed so far: the peer mappings asked for

vars == <<stage, pm, given>>

EmptyPm == [peers |-> << >>, default_peer_ip |-> 0]

Init == stage = "parsing" /\ pm = EmptyPm /\ given = << >>

----------------------------------------------------------------------------
(* Addresses. *)

\* htonl, ntohl, and the reading of inet_addr's result as an integer.
Swap(a) == [i \in Bits |-> IF i <= OctetBits THEN a[i + OctetBits] ELSE a[i - OctetBits]]

And(a, b) == [i \in Bits |-> a[i] * b[i]]

\* 0xFFFFFFFF << (32 - prefix_len).  A shift by 32 is undefined: x86 shifts
\* by 0, a compiler that folds it gives 0.
PrefixMasks(prefix) ==
  {[i \in Bits |-> IF i <= prefix THEN 1 ELSE 0]} \cup
  (IF prefix = 0 THEN {[i \in Bits |-> 1]} ELSE {})

\* The destination lies in the subnet the option names.
InSubnet(dst, option) ==
  \A i \in 1 .. option.prefix : dst[i] = option.subnet[i]

----------------------------------------------------------------------------
(* peer_manager.c *)

\* Mutant: the limit is not checked.
pm_add_Unbounded(m, subnet, mask, peer) ==
  [m EXCEPT !.peers = Append(@, [subnet |-> subnet, subnet_mask |-> mask, peer_ip |-> peer])]

pm_add(m, subnet, mask, peer) ==
  IF Len(m.peers) >= MAX_PEERS THEN m
  ELSE [m EXCEPT !.peers = Append(@, [subnet |-> subnet, subnet_mask |-> mask,
                                      peer_ip |-> peer])]

\* Mutant: a default that is there already stays.
pm_set_default_First(m, peer) ==
  IF m.default_peer_ip = 0 THEN [m EXCEPT !.default_peer_ip = peer] ELSE m

pm_set_default(m, peer) == [m EXCEPT !.default_peer_ip = peer]

pm_lookup(m, dst) ==
  LET hit == FirstEntry({i \in DOMAIN m.peers :
                           And(dst, m.peers[i].subnet_mask) = m.peers[i].subnet})
  IN  IF hit # 0 THEN m.peers[hit].peer_ip ELSE m.default_peer_ip

pm_init(m) == EmptyPm

----------------------------------------------------------------------------
(* main() *)

\* --peer subnet/prefix:peer-ip (parse_peer_string returns 0)
ParsePeer(option) ==
  /\ stage = "parsing"
  /\ Len(given) < MaxOptions
  /\ \E mask \in PrefixMasks(option.prefix) :
       pm' = pm_add(pm, Swap(option.subnet), Swap(mask), option.peer)
  /\ given' = Append(given, [default |-> FALSE, option |-> option, peer |-> option.peer])
  /\ UNCHANGED stage

\* --peer default:peer-ip (parse_peer_string returns 1)
ParseDefault(peer) ==
  /\ stage = "parsing"
  /\ Len(given) < MaxOptions
  /\ pm' = pm_set_default(pm, peer)
  /\ given' = Append(given, [default |-> TRUE, peer |-> peer])
  /\ UNCHANGED stage

\* A malformed option, a missing --src-ip, too few cores or no huge pages; or,
\* after pm_init, too few ports or a port that does not start.
Abort ==
  /\ stage = "parsing"
  /\ pm' \in {pm, pm_init(pm)}
  /\ stage' = "exited"
  /\ UNCHANGED given

\* The options are parsed; pm_init, then the lcores.
Launch ==
  /\ stage = "parsing"
  /\ pm' = pm_init(pm)
  /\ stage' = "running"
  /\ UNCHANGED given

\* SIGINT or SIGTERM.
Stop ==
  /\ stage = "running"
  /\ stage' = "exited"
  /\ UNCHANGED <<pm, given>>

Next ==
  \/ \E option \in PeerOptions : ParsePeer(option)
  \/ \E peer \in Peers : ParseDefault(peer)
  \/ Abort
  \/ Launch
  \/ Stop

Spec == Init /\ [][Next]_vars

----------------------------------------------------------------------------
(* Properties.  A lookup is made with the destination in host order. *)

TypeOK ==
  /\ stage \in {"parsing", "running", "exited"}
  /\ Len(pm.peers) <= MAX_PEERS
  /\ pm.default_peer_ip \in Peers \cup {0}
  /\ \A i \in DOMAIN pm.peers :
       pm.peers[i] \in [subnet: Addresses, subnet_mask: Addresses, peer_ip: Peers]

Defaults == {i \in DOMAIN given : given[i].default}

Mappings == DOMAIN given \ Defaults

\* The mapping options the table has room for, in the order they were given.
Kept == {i \in Mappings : Cardinality({j \in Mappings : j <= i}) <= MAX_PEERS}

\* The entry the option makes, both words in network order.  For prefix 0
\* there are two masks it may get.
EntriesFor(option) ==
  {[subnet |-> Swap(option.subnet), subnet_mask |-> Swap(mask), peer_ip |-> option.peer] :
     mask \in PrefixMasks(option.prefix)}

\* While the options are parsed the table holds the first MAX_PEERS mappings
\* in the order they were given, each with its subnet as it was written, host
\* bits included, and the default is the last one given: whatever the mix of
\* mappings, defaults and options beyond MAX_PEERS, nothing else gets in.
TableHoldsOptions ==
  stage = "parsing" =>
    /\ Len(pm.peers) = Min({Cardinality(Mappings), MAX_PEERS})
    /\ \A i \in Kept : pm.peers[Cardinality({j \in Mappings : j <= i})]
                         \in EntriesFor(given[i].option)
    /\ pm.default_peer_ip = IF Defaults = {} THEN 0 ELSE given[Max(Defaults)].peer

\* A running gateway with a --peer option for a subnet has a peer for the
\* destinations in it.
ConfiguredPeerUsed ==
  stage = "running" =>
    \A dst \in Addresses :
      (\E i \in DOMAIN given : given[i].default \/ InSubnet(dst, given[i].option))
        => pm_lookup(pm, dst) # 0

============================================================================
