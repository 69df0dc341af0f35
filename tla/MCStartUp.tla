----------------------------- MODULE MCStartUp -----------------------------
(***************************************************************************)
(* A station with three cards, the first and the last on LAN 1, and        *)
(* another program, o, on LAN 1, which uses the bridge p1; two bridge      *)
(* processes for LAN 1 and one for LAN 2.                                  *)
(***************************************************************************)
EXTENDS StartUp

CONSTANTS p1, p2, p3

MCCard      == {"a", "b", "c", "o"}
MCnet       == [k \in Card |-> IF k = "b" THEN 2 ELSE 1]
MCargv1     == [p \in Proc |-> IF p = p3 THEN 2 ELSE 1]
MCIface     == {<<"a", p1>>, <<"a", p2>>, <<"b", p3>>, <<"c", p1>>, <<"c", p2>>, <<"o", p1>>}
MCipaddr    == [e \in Iface |-> "ip"]
MCmacaddr   == [e \in Iface |-> "mac"]
MClanname   == [e \in Iface |-> e[2]]
MCIfaceFile == <<"a", "b", "c">>
=============================================================================
