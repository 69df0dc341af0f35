----------------------------- MODULE MCNetwork -----------------------------
(***************************************************************************)
(* Two LANs joined by a router: station H1 with interface h1 on LAN 1, H2  *)
(* with h2 on LAN 2, router R with r1 and r2.  Nobody has the address      *)
(* "nowhere": H1 has a default route for it, R and H2 have none.           *)
(***************************************************************************)
EXTENDS Network

MCIface == {"h1", "h2", "r1", "r2"}
MCIpAndNowhere == MCIface \cup {"nowhere"}
MCHosts == {"h1", "h2"}
MCFarHosts == {"h2", "nowhere"}
MCStation == {"H1", "H2", "R"}

(* Addresses are named after their interface. *)
MCipaddr  == [i \in Iface |-> i]
MCmacaddr == [i \in Iface |-> i]
MClanname == [i \in Iface |-> IF i \in {"h1", "r1"} THEN 1 ELSE 2]

MCifaces ==
  [s \in Station |-> CASE s = "H1" -> <<"h1">> [] s = "H2" -> <<"h2">>
                       [] s = "R" -> <<"r1", "r2">>]
MCisrouter == [s \in Station |-> s = "R"]

Lan1 == {"h1", "r1"}
Lan2 == {"h2", "r2"}

(* Directly if on the LAN, through the router otherwise. *)
Via(i, hop) == [iface |-> i, ip_addr |-> hop]

MCroute ==
  [s \in Station |-> [a \in Ip |->
     CASE s = "H1" -> Via("h1", IF a \in Lan1 THEN Direct ELSE "r1")
       [] s = "H2" /\ a \in Lan2 -> Via("h2", Direct)
       [] s = "H2" /\ a \in Lan1 -> Via("h2", "r2")
       [] s = "R" /\ a \in Lan1 -> Via("r1", Direct)
       [] s = "R" /\ a \in Lan2 -> Via("r2", Direct)
       [] OTHER -> Via(NoIface, Direct)]]

(* Which of two ports an interface has makes no difference: one order. *)
MCOneOrder == [b \in Lan |-> {IF b = 1 THEN <<"h1", "r1">> ELSE <<"h2", "r2">>}]

(* What the proof that frames keep their own source address assumes. *)
ASSUME NetworkRoutesAreLocal == RoutesAreLocal

(* What the proofs about a network in which nothing expires assume.  (With *)
(* messages to nowhere, H2 and R have no route for all of them.)           *)
ASSUME NetworkIsWellConfigured == Hosts \subseteq Iface => WellConfigured
=============================================================================
