------------------------------ MODULE Routing ------------------------------
(***************************************************************************)
(* The choice of the next hop (get_next_hop() in models/station.cpp): the  *)
(* first line of the routing table whose prefix is the destination under   *)
(* the line's mask.  An address is the four numbers parse_address() makes  *)
(* of the text.                                                            *)
(***************************************************************************)
EXTENDS Bitwise, Sequences, FiniteSetsExt

Address == [1 .. 4 -> 0 .. 255]

(* & is bitwise and. *)
Matches(r, dst) ==
  \A n \in 1 .. 4 : dst[n] & r.net_mask[n] = r.dest_addr[n]

(* none: the NextHop the code default-constructs, and finds no interface for *)
get_next_hop(routes, dst, none) ==
  LET lines == {n \in DOMAIN routes : Matches(routes[n], dst)} IN
  IF lines = {} THEN none
  ELSE [ip_addr |-> routes[Min(lines)].next_hop, iface |-> routes[Min(lines)].iface_name]
=============================================================================
