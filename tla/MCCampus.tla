----------------------------- MODULE MCCampus -----------------------------
(* The network of README.txt: Network with the constants of Campus. *)
EXTENDS Network

C == INSTANCE Campus

MCIface   == C!IfaceNames
MCIp      == C!Addresses
MCStation == C!Names
MCipaddr  == [i \in C!IfaceNames |-> C!AddressOf(i)]
MCmacaddr == [i \in C!IfaceNames |-> i]
MClanname == [i \in C!IfaceNames |-> C!LanOf(i)]
MCifaces  == [s \in C!Names |-> C!IfacesOf(s)]
MCisrouter == [s \in C!Names |-> s \in {"R1", "R2"}]
MCDirect  == C!Any
MCroute   ==
  [s \in C!Names |-> [a \in C!Addresses |->
     C!get_next_hop(C!RouteFile[s], a, [ip_addr |-> C!Any, iface |-> NoIface])]]

MCHosts == C!Addresses

(* Routers first. *)
MCOrders ==
  [b \in Lan |-> {CASE b = "cs1" -> <<"R1-cs1", "Acs1", "B">>
                    [] b = "cs2" -> <<"R1-cs2", "R2-cs2", "Acs2", "C">>
                    [] b = "cs3" -> <<"R2-cs3", "D", "E">>}]

(* What the proofs about a network in which nothing expires assume of the  *)
(* files, and of the bounds of this instance.                              *)
ASSUME CampusIsWellConfigured == WellConfigured /\ NothingExpires
=============================================================================
