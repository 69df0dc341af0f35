------------------------------ MODULE MCBridge ------------------------------
(***************************************************************************)
(* One bridge and up to three interfaces with an address each.  The        *)
(* clients do one thing at a time and send frames with their own address;  *)
(* a bridge looks at nothing but the two MAC addresses of a frame.         *)
(***************************************************************************)
EXTENDS BridgeClients

CONSTANTS i1, i2, i3, m1, m2, m3, a1, cs1

CONSTANTS
  Budget,     \* bound: frames all clients together may send
  MaxUp,      \* bound: frames one client may have in flight
  Dials,      \* bound: connections all clients together may ask for
  Starts,     \* bound: bridge processes started
  Dest        \* bound: the destinations clients address frames to

VARIABLES
  budget,     \* frames that may still be sent
  dials,      \* connections that may still be asked for
  starts      \* processes that may still be started

counters == <<budget, dials, starts>>

MCipaddr  == [i \in Iface |-> a1]
MCmacaddr == [i \in Iface |-> CASE i = i1 -> m1 [] i = i2 -> m2 [] i = i3 -> m3]
MClanname == [i \in Iface |-> cs1]

FrameTo(i, m) ==
  ArpFrame(mac_addr[i], m, create_req_pkt(i, ip_addr[i]))

MCInit ==
  /\ Init
  /\ budget = Budget /\ dials = Dials /\ starts = Starts

MCStart(b) ==
  /\ starts > 0 /\ starts' = starts - 1
  /\ Start(b)
  /\ UNCHANGED <<budget, dials>>

MCConnect(i) ==
  /\ dials > 0 /\ dials' = dials - 1
  /\ ClientConnect(i)
  /\ UNCHANGED <<budget, starts>>

MCSend(i, m) ==
  /\ budget > 0 /\ Len(up[i]) < MaxUp /\ m # mac_addr[i]
  /\ budget' = budget - 1
  /\ ClientSend(i, FrameTo(i, m))
  /\ UNCHANGED <<dials, starts>>

MCNext ==
  \/ \E b \in Lan :
       \/ MCStart(b)
       \/ (BridgeStep(b) \/ Console(b) \/ Off(b) \/ StdinEof(b)) /\ UNCHANGED counters
  \/ \E i \in Iface :
       \/ MCConnect(i)
       \/ \E m \in Dest : MCSend(i, m)
       \/ (ClientRead(i) \/ ClientExit(i)) /\ UNCHANGED counters
  \/ Tick /\ UNCHANGED counters

MCSpec == MCInit /\ [][MCNext]_<<vars, counters>>

(* Select wakes the bridge whenever there is something to handle. Nothing  *)
(* makes a user type, or a client connect, send or exit.                   *)
MCFairSpec == MCSpec /\ \A b \in Lan : WF_vars(BridgeStep(b) /\ UNCHANGED counters)

(* Interfaces are interchangeable together with their MAC addresses. *)
Joint(p) == [x \in Iface \cup Mac |->
               IF x \in Iface THEN p[x]
               ELSE MCmacaddr[p[CHOOSE i \in Iface : MCmacaddr[i] = x]]]
Symmetry == {Joint(p) : p \in Permutations(Iface)}
=============================================================================
