---------------------------- MODULE BridgeClients ----------------------------
(***************************************************************************)
(* The bridges with the most general clients they can have: programs that  *)
(* connect any of their interfaces, read and write frames, and end at any  *)
(* moment, in an orderly way or not.  The clients the repository ships, in *)
(* StartUp and Network, are shown to be such programs, so that what holds  *)
(* here holds there.                                                       *)
(***************************************************************************)
EXTENDS Bridge

vars == <<sockVars, bridgeVars>>

(* connect() of an interface to the bridge of its LAN. *)
ClientConnect(i) ==
  LET b == lan_name[i] IN
  /\ alive[b] /\ sock[i] = "idle"
  /\ sock' = [sock EXCEPT ![i] = "syn"]
  /\ backlog' = [backlog EXCEPT ![b] = Append(@, i)]
  /\ UNCHANGED <<up, down, bridgeVars>>

(* What a turn of a client does to one connection: it reads at most once   *)
(* and writes at most once, or meets an error, ...                         *)
Uses(i) ==
  /\ \/ down'[i] = down[i]
     \/ down[i] # <<>> /\ down'[i] = Tail(down[i])
  /\ \/ up'[i] = up[i] /\ sock'[i] = sock[i]
     \/ /\ sock[i] = "open" /\ sock'[i] = "open"
        /\ up'[i] # <<>> /\ Last(up'[i]) \in EtherPkt
        /\ up'[i] = Append(up[i], Last(up'[i]))
     \/ up'[i] = up[i] /\ sock[i] = "eof" /\ sock'[i] = "pipe"
     \/ up'[i] = up[i] /\ sock[i] = "pipe" /\ sock'[i] = "dead"

(* ... or ends it, with what it has not read. *)
Closes(i) ==
  /\ sock[i] \notin {"fin", "rst"}
  /\ down'[i] = <<>> /\ up'[i] = up[i]
  /\ \/ sock'[i] = SockAfterClose(i, down[i])
     \/ down[i] # <<>> /\ sock'[i] = SockAfterClose(i, Tail(down[i]))

(* A turn of a client with any number of interfaces, or its end. *)
ClientTurn ==
  /\ sock' = [i \in Iface |-> sock'[i]]
  /\ up' = [i \in Iface |-> up'[i]]
  /\ down' = [i \in Iface |-> down'[i]]
  /\ \A i \in Iface : Uses(i) \/ Closes(i)
  /\ UNCHANGED <<backlog, bridgeVars>>

(* Turns that do one of these things only. *)
ClientSend(i, f) ==
  /\ sock[i] = "open"
  /\ up' = [up EXCEPT ![i] = Append(@, f)]
  /\ UNCHANGED <<sock, down, backlog, bridgeVars>>

ClientRead(i) ==
  /\ down[i] # <<>>
  /\ down' = [down EXCEPT ![i] = Tail(@)]
  /\ UNCHANGED <<sock, up, backlog, bridgeVars>>

(* The process of the client ends. *)
ClientExit(i) ==
  /\ sock[i] \notin {"idle", "fin", "rst"}
  /\ sock' = [sock EXCEPT ![i] = SockAfterClose(i, down[i])]
  /\ down' = [down EXCEPT ![i] = <<>>]
  /\ UNCHANGED <<up, backlog, bridgeVars>>

Tick ==
  /\ AgeTables
  /\ UNCHANGED <<sockVars, alive, clients, curr_ports, ports, peer, stdin_eof>>

Init == SocketsInit /\ BridgeInit

Next ==
  \/ BridgeNext
  \/ \E i \in Iface : ClientConnect(i)
  \/ ClientTurn
  \/ Tick

Spec == Init /\ [][Next]_vars
-----------------------------------------------------------------------------
(* Every variable keeps to its set of values. *)
TypeOK ==
  /\ SocketsTypeOK
  /\ BridgeTypeOK

(***************************************************************************)
(* The ports the bridge counts are the ports it serves.  curr_ports_ is    *)
(* the number of clients and within the limit; no descriptor is listed     *)
(* twice; every listed one has a table, so the find() that                 *)
(* add_arp_entry() dereferences unchecked never misses; and it leads to an *)
(* interface of this LAN that no other listed one leads to.                *)
(***************************************************************************)
PortsConsistentAt(b) ==
  /\ curr_ports[b] = Len(clients[b])
  /\ Len(clients[b]) <= NumPorts
  /\ ToSet(clients[b]) \subseteq ports[b]
  /\ \A j \in DOMAIN clients[b] :
       /\ Client(b, j) \in Iface
       /\ lan_name[Client(b, j)] = b
       /\ sock[Client(b, j)] \in {"open", "fin", "rst"}
       /\ \A k \in DOMAIN clients[b] :
            j # k => /\ clients[b][j] # clients[b][k]
                     /\ Client(b, j) # Client(b, k)

PortsConsistent == \A b \in Lan : PortsConsistentAt(b)

(***************************************************************************)
(* A request waits at the bridge of its own LAN, once, until it is         *)
(* answered, and no port serves its interface before: an answer, or the    *)
(* end of a station before its answer, never meets the connection of an    *)
(* accepted one.                                                           *)
(***************************************************************************)
BacklogConsistentAt(b) ==
  \A n \in DOMAIN backlog[b] :
    LET i == backlog[b][n] IN
    /\ lan_name[i] = b
    /\ sock[i] \in {"syn", "fin"}
    /\ \A m \in DOMAIN backlog[b] : backlog[b][m] = i => m = n
    /\ \A j \in DOMAIN clients[b] : Client(b, j) # i

BacklogConsistent == \A b \in Lan : BacklogConsistentAt(b)

(***************************************************************************)
(* No accepted station is forgotten: an open connection is one the bridge  *)
(* serves, and a waiting one is in its backlog.  Otherwise the station     *)
(* would wait for ever for frames or for its answer.                       *)
(***************************************************************************)
NoOneForgotten ==
  \A i \in Iface :
    LET b == lan_name[i] IN
    /\ sock[i] \in {"open", "rst"} => \E j \in DOMAIN clients[b] : Client(b, j) = i
    /\ sock[i] = "syn" => i \in ToSet(backlog[b])

(***************************************************************************)
(* The empty MAC address is never learned, so that an ARP request reaches  *)
(* every other station of its LAN: the bridge finds no port for it.        *)
(***************************************************************************)
RequestsAreFlooded ==
  \A b \in Lan : NextHops(b, btable[b], NoMac) = {}

(* A turn takes the first frame of i, and the bridge survives it. *)
Relays(i) ==
  /\ up[i] # <<>>
  /\ up'[i] = Tail(up[i])
  /\ alive'[lan_name[i]]

Receives(k, f) == down'[k] = Append(down[k], f)

(***************************************************************************)
(* A frame that does not go to all other stations goes to one at most, and *)
(* only because its address was entered for that one's port no longer than *)
(* ArpTime ago: monitor_arp_cache() runs between select and the lookup.    *)
(***************************************************************************)
ForwardedFresh(i) ==
  Relays(i) =>
    LET b      == lan_name[i]
        f      == Head(up[i])
        others == {Client(b, j) : j \in DOMAIN clients[b]} \ {i}
    IN  \/ \A k \in Iface :
             Receives(k, f) <=> k \in others /\ sock[k] = "open"
        \/ \E j \in DOMAIN clients[b] :
             /\ btable[b][clients[b][j]][f.mac_dst] \in 0 .. ArpTime
             /\ \A k \in Iface : Receives(k, f) => k = Client(b, j)

ForwardsOnFreshEntries == [][\A i \in Iface : ForwardedFresh(i)]_vars

(***************************************************************************)
(* A frame leaves a bridge unchanged, at most once on each port, only when *)
(* it was read, and only on the LAN it came from; nothing else is written  *)
(* but the answer to a connection request.                                 *)
(***************************************************************************)
WrittenRightly(k) ==
  \/ down'[k] \in {down[k], <<>>}
  \/ down[k] # <<>> /\ down'[k] = Tail(down[k])
  \/ \E i \in Iface :
       /\ lan_name[i] = lan_name[k] /\ up[i] # <<>>
       /\ Receives(k, Head(up[i]))
       /\ up'[i] = Tail(up[i]) \/ ~alive'[lan_name[i]]
  \/ k \in ToSet(backlog[lan_name[k]]) /\ k \notin ToSet(backlog'[lan_name[k]])

RelaysOnly == [][\A k \in Iface : WrittenRightly(k)]_vars

(***************************************************************************)
(* Of finitely many frames, which MCBridge has, every one is read in the   *)
(* end, although a turn always takes the first ready client of clients_,   *)
(* unless the bridge ends or its console is at end of file: then the turns *)
(* for the console never leave one for the clients.  Clients that never    *)
(* stop sending could keep those behind them waiting for ever.             *)
(***************************************************************************)
FramesAreServed ==
  \A i \in Iface :
    up[i] # <<>> ~> (up[i] = <<>> \/ stdin_eof[lan_name[i]] \/ ~alive[lan_name[i]])

(***************************************************************************)
(* Every station that asks for a port is answered, or sees the connection  *)
(* closed, even while the console is at end of file.                       *)
(***************************************************************************)
RequestsAreAnswered ==
  \A i \in Iface : sock[i] = "syn" ~> sock[i] # "syn"
-----------------------------------------------------------------------------
(* What comments say and the code does not do. *)

(***************************************************************************)
(* "Incoming station MAC address" (bridge.hpp): the address a turn enters  *)
(* for a port is the one the station on that port sends from.              *)
(***************************************************************************)
LearnsIncomingOnly ==
  [][\A i \in Iface :
       Relays(i) =>
         LET b == lan_name[i] IN
         \A j \in DOMAIN clients[b], m \in AnyMac :
           /\ Client(b, j) = i
           /\ btable[b][clients[b][j]][m] = Absent
           /\ btable'[b][clients[b][j]][m] # Absent
           => m = Head(up[i]).mac_src
    ]_vars
=============================================================================
