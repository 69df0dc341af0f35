------------------------------- MODULE Campus -------------------------------
(***************************************************************************)
(* The network of README.txt, with the interfaces, routing tables and host *)
(* list the repository ships (ifaces, rtables, hosts).                     *)
(*                                                                         *)
(*        B              C                D                                *)
(*        |              |                |                                *)
(*       cs1-----R1------cs2------R2-----cs3                               *)
(*        |              |                |                                *)
(*        -------A--------                E                                *)
(***************************************************************************)
EXTENDS Routing

(* <name, IP address, LAN>, per station in the order of its file.  A MAC   *)
(* address is named after its interface: they are all different.           *)
IfaceFile ==
  [A  |-> << <<"Acs1",   <<128, 252, 11, 23>>, "cs1">>,
             <<"Acs2",   <<128, 252, 13, 40>>, "cs2">> >>,
   B  |-> << <<"B",      <<128, 252, 11, 38>>, "cs1">> >>,
   C  |-> << <<"C",      <<128, 252, 13, 33>>, "cs2">> >>,
   D  |-> << <<"D",      <<128, 252, 13, 67>>, "cs3">> >>,
   E  |-> << <<"E",      <<128, 252, 13, 69>>, "cs3">> >>,
   R1 |-> << <<"R1-cs1", <<128, 252, 11, 39>>, "cs1">>,
             <<"R1-cs2", <<128, 252, 13, 35>>, "cs2">> >>,
   R2 |-> << <<"R2-cs2", <<128, 252, 13, 38>>, "cs2">>,
             <<"R2-cs3", <<128, 252, 13, 66>>, "cs3">> >>]

Line(dest, hop, mask, name) ==
  [dest_addr |-> dest, next_hop |-> hop, net_mask |-> mask, iface_name |-> name]

Any  == <<0, 0, 0, 0>>
M255 == <<255, 255, 255, 0>>
M224 == <<255, 255, 255, 224>>
M244 == <<255, 255, 255, 244>>
Cs1  == <<128, 252, 11, 0>>
Cs2  == <<128, 252, 13, 32>>
Cs3  == <<128, 252, 13, 64>>
R1cs1 == <<128, 252, 11, 39>>
R1cs2 == <<128, 252, 13, 35>>
R2cs2 == <<128, 252, 13, 38>>
R2cs3 == <<128, 252, 13, 66>>

RouteFile ==
  [A  |-> << Line(Cs1, Any, M255, "Acs1"), Line(Cs2, Any, M224, "Acs2"),
             Line(Any, R2cs2, Any, "Acs2") >>,
   B  |-> << Line(Cs1, Any, M255, "B"),
             Line(<<128, 252, 13, 0>>, R1cs1, M255, "B"),
             Line(Any, R1cs1, Any, "B") >>,
   C  |-> << Line(Cs2, Any, M224, "C"), Line(Cs3, R2cs2, M224, "C"),
             Line(Cs1, R1cs2, M255, "C") >>,
   D  |-> << Line(Cs1, R2cs3, M255, "D"), Line(Cs2, R2cs3, M224, "D"),
             Line(Cs3, Any, M224, "D"), Line(Any, R2cs3, Any, "D") >>,
   E  |-> << Line(Cs1, R2cs3, M255, "E"), Line(Cs2, R2cs3, M244, "E"),
             Line(Cs3, Any, M244, "E"), Line(Any, R2cs3, Any, "E") >>,
   R1 |-> << Line(Cs1, Any, M255, "R1-cs1"), Line(Cs2, Any, M224, "R1-cs2"),
             Line(Cs3, R2cs2, M224, "R1-cs2") >>,
   R2 |-> << Line(Cs1, R1cs2, M255, "R2-cs2"), Line(Cs2, Any, M224, "R2-cs2"),
             Line(Cs3, Any, M224, "R2-cs3") >>]

Names == DOMAIN IfaceFile

Lines == UNION {{IfaceFile[s][n] : n \in DOMAIN IfaceFile[s]} : s \in Names}

IfaceNames == {l[1] : l \in Lines}
Addresses  == {l[2] : l \in Lines}

LineOf(i)    == CHOOSE l \in Lines : l[1] = i
AddressOf(i) == LineOf(i)[2]
LanOf(i)     == LineOf(i)[3]

IfacesOf(s) == [n \in DOMAIN IfaceFile[s] |-> IfaceFile[s][n][1]]
=============================================================================
