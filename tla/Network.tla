------------------------------ MODULE Network ------------------------------
(***************************************************************************)
(* Bridges, stations and routers together: the emulated internetwork.  It  *)
(* starts when every interface is connected and has read its "Accepted",   *)
(* as when the processes of README.txt are up; users send messages and     *)
(* stop processes, the clock runs, and the connections do the rest.        *)
(***************************************************************************)
EXTENDS BridgeClients, Station

CONSTANTS
  Orders,     \* Lan -> the orders in which its interfaces may have connected
  MaxNow,     \* bound: ticks of the clock
  MaxStops    \* bound: processes users stop, and consoles they close

OnLan(b) == {i \in Iface : lan_name[i] = b}

ASSUME NetworkAssumption ==
  /\ \A b \in Lan : \A o \in Orders[b] :
       o \in Seq(Iface) /\ IsInjective(o) /\ ToSet(o) = OnLan(b) /\ Len(o) <= NumPorts
  /\ \A i \in Iface : \E s \in Station : i \in Own(s)
  /\ MaxNow \in Nat /\ MaxStops \in Nat

VARIABLES
  sent,       \* the messages users have sent
  now,        \* ticks so far
  stops       \* stops so far

userVars == <<sent, now, stops>>

networkVars == <<sockVars, bridgeVars, stationVars, userVars>>

Message == [from : Station, dst : Ip, data : Data]

UsersTypeOK ==
  /\ sent \subseteq Message
  /\ now \in 0 .. MaxNow
  /\ stops \in 0 .. MaxStops

(* Descriptor n leads to the n-th interface that connected. *)
NetworkInit ==
  /\ \E order \in [Lan -> UNION {Orders[b] : b \in Lan}] :
       /\ \A b \in Lan : order[b] \in Orders[b]
       /\ clients = [b \in Lan |-> [n \in DOMAIN order[b] |-> n]]
       /\ peer = [b \in Lan |-> [p \in Fd |->
                    IF p \in DOMAIN order[b] THEN order[b][p] ELSE NoIface]]
  /\ curr_ports = [b \in Lan |-> Len(clients[b])]
  /\ ports = [b \in Lan |-> ToSet(clients[b])]
  /\ alive = [b \in Lan |-> TRUE]
  /\ btable = [b \in Lan |-> EmptyTable]
  /\ stdin_eof = [b \in Lan |-> FALSE]
  /\ sock = [i \in Iface |-> "open"]
  /\ up = [i \in Iface |-> <<>>]
  /\ down = [i \in Iface |-> <<>>]
  /\ backlog = [b \in Lan |-> <<>>]
  /\ StationInit
  /\ sent = {}
  /\ now = 0
  /\ stops = 0

(* All messages are different, so that copies can be told from repeats. *)
UserSends(s, dst, d) ==
  /\ \A m \in sent : m.data # d
  /\ send_cmd(s, dst, d)
  /\ sent' = sent \cup {[from |-> s, dst |-> dst, data |-> d]}
  /\ UNCHANGED <<bridgeVars, now, stops>>

UserStops ==
  /\ stops < MaxStops /\ stops' = stops + 1
  /\ \/ (\E b \in Lan : Off(b) \/ StdinEof(b)) /\ UNCHANGED stationVars
     \/ (\E s \in Station : OffCommand(s) \/ ConsoleEof(s)) /\ UNCHANGED bridgeVars
  /\ UNCHANGED <<sent, now>>

UserLooks ==
  /\ \/ (\E b \in Lan : Console(b)) /\ UNCHANGED stationVars
     \/ (\E s \in Station : OtherCommand(s)) /\ UNCHANGED bridgeVars
  /\ UNCHANGED userVars

BridgeTurn(b)  == BridgeStep(b) /\ UNCHANGED <<stationVars, userVars>>
StationTurn(s) == StationStep(s) /\ UNCHANGED <<bridgeVars, userVars>>

NetworkTick ==
  /\ now < MaxNow /\ now' = now + 1
  /\ AgeTables
  /\ AgeMappings
  /\ UNCHANGED <<sockVars, alive, clients, curr_ports, ports, peer, stdin_eof,
                 running, quit, read_set, recv_ether_pkt, again, pq, console_eof,
                 shown, sent, stops>>

NetworkNext ==
  \/ \E s \in Station, dst \in Ip, d \in Data : UserSends(s, dst, d)
  \/ UserStops
  \/ UserLooks
  \/ \E b \in Lan : BridgeTurn(b)
  \/ \E s \in Station : StationTurn(s)
  \/ NetworkTick

NetworkSpec == NetworkInit /\ [][NetworkNext]_networkVars

(* Select wakes a process whose input is ready; users do as they please. *)
NetworkFairSpec ==
  /\ NetworkSpec
  /\ \A b \in Lan : WF_networkVars(BridgeTurn(b))
  /\ \A s \in Station : WF_networkVars(StationTurn(s))
-----------------------------------------------------------------------------
(* Every variable keeps to its set of values. *)
NetworkTypeOK ==
  /\ SocketsTypeOK
  /\ BridgeTypeOK
  /\ StationTypeOK
  /\ UsersTypeOK

(* An interface of LAN b has this IP address and this MAC address. *)
Binding(b, ip, mac) ==
  \E k \in OnLan(b) : ip_addr[k] = ip /\ mac_addr[k] = mac

(***************************************************************************)
(* What a station believes about its neighbours is true: a mapping in its  *)
(* ARP cache is that of an interface on one of its own LANs, although it   *)
(* was copied from a frame that bridges may have delayed, flooded or sent  *)
(* astray, and is never compared with later ones.                          *)
(***************************************************************************)
ArpTruth ==
  \A s \in Station, a \in Ip :
    has_mapping(arp[s], a) => \E i \in Own(s) : Binding(lan_name[i], a, arp[s][a].mac)

(***************************************************************************)
(* A frame leaves an interface with that interface's MAC address as its    *)
(* source, also when a pending packet is sent where the response came in:  *)
(* bridges learn from it.                                                  *)
(***************************************************************************)
SourceMacIsOwn ==
  \A i \in Iface : \A n \in DOMAIN up[i] : up[i][n].mac_src = mac_addr[i]

(* A next hop is a neighbour: no own LAN but the route's has its address.  *)
RoutesAreLocal ==
  \A s \in Station, d \in Ip : \A i \in Own(s) :
    (\E k \in OnLan(lan_name[i]) : ip_addr[k] = NextHopIp(s, d))
      => route[s][d].iface \in {i, NoIface}

(* Interface k is the next hop of s on the way to d, and takes the packet. *)
LeadsTo(s, d, k) ==
  LET i == route[s][d].iface IN
  /\ i \in Own(s) /\ k \in OnLan(lan_name[i])
  /\ ip_addr[k] = NextHopIp(s, d)
  /\ \E t \in Station :
       k \in Own(t) /\ (is_router[t] \/ is_intended_ip_destination(t, d))

(***************************************************************************)
(* A network without mistakes in its files: no address is used twice, the  *)
(* interfaces of a station are on different LANs, and every routing table  *)
(* leads from neighbour to neighbour towards every host.                   *)
(***************************************************************************)
WellConfigured ==
  /\ IsInjective(ip_addr) /\ IsInjective(mac_addr)
  /\ \A s \in Station : \A i, k \in Own(s) : lan_name[i] = lan_name[k] => i = k
  /\ \A s \in Station, d \in Hosts : \E k \in Iface : LeadsTo(s, d, k)

(* No process stops, and the clock does not reach the age of any expiry.   *)
NothingExpires == MaxStops = 0 /\ MaxNow <= ArpTime /\ MaxNow < MaxTime

(* The queues a message can be in: pending, on its way up or down, shown.  *)
Places == ({"pq", "shown"} \X Station) \cup ({"up", "down"} \X Iface)

(* The positions of message d at place p.                                  *)
CopiesAt(p, d) ==
  LET Of(queue) == {n \in DOMAIN queue : queue[n].data = d}
      In(wire)  == {n \in DOMAIN wire : IsIp(wire[n]) /\ wire[n].ip_pkt.data = d}
  IN  CASE p[1] = "pq"    -> Of(pq[p[2]])
        [] p[1] = "shown" -> Of(shown[p[2]])
        [] p[1] = "up"    -> In(up[p[2]])
        [] p[1] = "down"  -> In(down[p[2]])

(***************************************************************************)
(* While no table entry has expired and no process has stopped, a message  *)
(* is neither lost nor doubled: there is one copy of it, pending, on its   *)
(* way, or shown.                                                          *)
(***************************************************************************)
OneCopy ==
  \A m \in sent :
    Cardinality(UNION {{<<p, n>> : n \in CopiesAt(p, m.data)} : p \in Places}) = 1

HowMany(queue, kind) == Cardinality({n \in DOMAIN queue : queue[n] \in kind})

(* Requests of interface i for the address of k, the responses to them,    *)
(* and the packets that wait for one.                                      *)
Asks(i, k) ==
  {f \in EtherPkt : /\ IsRequest(f) /\ f.mac_src = mac_addr[i]
                    /\ f.arp_pkt.dst_ip = ip_addr[k]}
Answers(i, k) ==
  {f \in EtherPkt : /\ IsResponse(f) /\ f.arp_pkt.src_ip = ip_addr[k]
                    /\ f.arp_pkt.dst_mac = mac_addr[i]}
Waits(i, k) ==
  {p \in PendingPkt : p.iface_name = i /\ p.next_hop_ipaddr = ip_addr[k]}

(***************************************************************************)
(* In the same circumstances no packet is stuck: there are as many packets *)
(* pending at an interface for a neighbour as requests and responses       *)
(* between the two on their way.  Each response releases one packet only.  *)
(***************************************************************************)
PendingHasRequest ==
  \A s \in Station : \A i \in Own(s), k \in Iface \ Own(s) :
    HowMany(pq[s], Waits(i, k)) =
      HowMany(up[i], Asks(i, k)) + HowMany(down[k], Asks(i, k))
        + HowMany(up[k], Answers(i, k)) + HowMany(down[i], Answers(i, k))

(***************************************************************************)
(* Every message to another station is shown in the end, if it has a route *)
(* there and, again, nothing expires or stops.                             *)
(***************************************************************************)
MessagesArrive ==
  \A d \in Data :
    (\E m \in sent : m.data = d /\ ~is_intended_ip_destination(m.from, m.dst))
      ~> \E m \in sent, s \in Station :
           /\ m.data = d /\ is_intended_ip_destination(s, m.dst)
           /\ \E n \in DOMAIN shown[s] : shown[s][n].data = d
-----------------------------------------------------------------------------
(* What a user reads of a packet, and what has been shown at each console. *)
Displayed(p) == [dst |-> p.dst_ip, data |-> p.data]

Inbox == [s \in Station |-> [n \in DOMAIN shown[s] |-> Displayed(shown[s][n])]]

(***************************************************************************)
(* The abstract service: a message is shown once, where it was sent.       *)
(***************************************************************************)
Service ==
  INSTANCE DatagramService WITH
    Host <- Station, Address <- Ip, Content <- Data,
    addresses <- [s \in Station |-> {ip_addr[i] : i \in Own(s)}],
    inbox <- Inbox

ImplementsService == Service!Spec
-----------------------------------------------------------------------------
(***************************************************************************)
(* Stations and routers are clients as BridgeClients describes them: what  *)
(* they do in a turn, in the middle of a snapshot, with a failed read or   *)
(* when they end, is one read and one write at most per connection, or its *)
(* end.  So what holds of bridges there holds here.                        *)
(***************************************************************************)
StationsAreClients == [][Next]_vars
-----------------------------------------------------------------------------
(* When processes stop. *)

(***************************************************************************)
(* The departure of a station, by "off", by the loss of a bridge or by a   *)
(* crash, is noticed by the bridges it was connected to: they close their  *)
(* ends, unless their consoles are at end of file.                         *)
(***************************************************************************)
DeparturesNoticed ==
  \A s \in Station :
    ~running[s] ~> \A i \in Own(s) : sock[i] = "idle" \/ stdin_eof[lan_name[i]]

(***************************************************************************)
(* A station whose bridge ends leaves as well, also the other LANs it is   *)
(* connected to, unless its console is at end of file.                     *)
(***************************************************************************)
BridgeLossEndsStations ==
  \A b \in Lan :
    ~alive[b] ~> \A s \in Station :
                   Own(s) \cap OnLan(b) # {} => ~running[s] \/ console_eof[s]
-----------------------------------------------------------------------------
(* What comments of the code say and the code does not do. *)

(***************************************************************************)
(* "Forward packet to next hop" (station.cpp): the packet a user is shown  *)
(* still has the address of the station that sent it.                      *)
(***************************************************************************)
SenderIsShown ==
  \A s \in Station : \A n \in DOMAIN shown[s] : \A m \in sent :
    m.data = shown[s][n].data =>
      is_intended_ip_destination(m.from, shown[s][n].src_ip)
=============================================================================
