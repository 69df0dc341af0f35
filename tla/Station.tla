------------------------------ MODULE Station ------------------------------
(***************************************************************************)
(* The process of each station or router (models/station.cpp, ip.cpp),     *)
(* from the moment its interfaces are connected: the console commands, the *)
(* ARP cache, the queue of pending packets, and forwarding.                *)
(*                                                                         *)
(* The loop in Station::start() takes a snapshot of the ready descriptors  *)
(* with select, and a turn handles either the console or, in the order of  *)
(* ifaces_, one frame of every interface of the snapshot.  One action here *)
(* is the console's turn, or one interface's share of a turn; read_set     *)
(* keeps what is left of the snapshot, and recv_ether_pkt the frame that   *)
(* was read last.  arp_.monitor_cache() runs BEFORE select waits, that is  *)
(* at the end of the turn before, however long ago that was.  Entries hold *)
(* their age, up to MaxTime, the first value the code treats as too old.   *)
(***************************************************************************)
EXTENDS Sockets

CONSTANTS
  Station,    \* the stations and routers
  ifaces,     \* ifaces_, per station: a sequence of interfaces
  is_router,  \* is_router_, per station
  route,      \* what get_next_hop() finds, per station and destination
  Direct,     \* "0.0.0.0" in next_hop: the destination is on the LAN
  Hosts,      \* the addresses of the file hosts, hosts_
  MaxTime     \* MAX_TIME, in ticks of the model's clock

Own(s) == {ifaces[s][n] : n \in DOMAIN ifaces[s]}

NextHop == [ip_addr : Ip \cup {Direct}, iface : Iface \cup {NoIface}]

ASSUME StationAssumption ==
  /\ ifaces \in [Station -> Seq(Iface)]
  /\ \A s \in Station : IsInjective(ifaces[s])
  /\ \A s, t \in Station : s # t => Own(s) \cap Own(t) = {}
  /\ \A s \in Station : \A i, k \in Own(s) : ip_addr[i] = ip_addr[k] => i = k
  /\ is_router \in [Station -> BOOLEAN]
  /\ route \in [Station -> [Ip -> NextHop]]
  /\ \A s \in Station, d \in Ip : route[s][d].iface \in Own(s) \cup {NoIface}
  /\ Direct \notin Ip
  /\ Hosts \subseteq Ip
  /\ MaxTime \in Nat

VARIABLES
  running,        \* running[s]: the process exists
  quit,           \* quit[s]: the loop ends with this turn
  read_set,       \* read_set[s]: the interfaces this turn still has to handle
  recv_ether_pkt, \* the frame this turn has read last, or NoFrame
  again,          \* again[s]: a failed read has left that frame to be handled again
  arp,            \* arp_, per station and IP address
  pq,             \* pq_, per station
  console_eof,    \* console_eof[s]: the standard input of s is at end of file
  shown           \* shown[s]: the packets printed with "From ...", in order

stationVars == <<running, quit, read_set, recv_ether_pkt, again, arp, pq,
                 console_eof, shown>>

(* What recv_ether_pkt holds before anything was read into it. *)
NoFrame == [type |-> -1]

NoMapping == [mac |-> NoMac, age |-> 0]

CacheContent == [mac : Mac, age : 0 .. MaxTime]

PendingPkt == [next_hop_ipaddr : Ip, dst_ipaddr : Ip, src_ipaddr : Ip,
               iface_name : Iface, data : Data]

StationTypeOK ==
  /\ running \in [Station -> BOOLEAN]
  /\ quit \in [Station -> BOOLEAN]
  /\ read_set \in [Station -> SUBSET Iface]
  /\ recv_ether_pkt \in [Station -> EtherPkt \cup {NoFrame}]
  /\ again \in [Station -> BOOLEAN]
  /\ arp \in [Station -> [Ip -> CacheContent \cup {NoMapping}]]
  /\ pq \in [Station -> Seq(PendingPkt)]
  /\ console_eof \in [Station -> BOOLEAN]
  /\ shown \in [Station -> Seq(IpPkt)]

StationInit ==
  /\ running = [s \in Station |-> TRUE]
  /\ quit = [s \in Station |-> FALSE]
  /\ read_set = [s \in Station |-> {}]
  /\ recv_ether_pkt = [s \in Station |-> NoFrame]
  /\ again = [s \in Station |-> FALSE]
  /\ arp = [s \in Station |-> [a \in Ip |-> NoMapping]]
  /\ pq = [s \in Station |-> <<>>]
  /\ console_eof = [s \in Station |-> FALSE]
  /\ shown = [s \in Station |-> <<>>]
-----------------------------------------------------------------------------
(* The ARP cache *)

has_mapping(cache, ip) == cache[ip] # NoMapping

(* map::insert: a mapping that is there keeps its MAC address and its age. *)
add_mapping(cache, ip, mac) ==
  IF has_mapping(cache, ip) THEN cache
                            ELSE [cache EXCEPT ![ip] = [mac |-> mac, age |-> 0]]

monitor_cache(cache) ==
  [a \in Ip |-> IF has_mapping(cache, a) /\ cache[a].age >= MaxTime
                THEN NoMapping ELSE cache[a]]

(* The clock of all stations: every mapping is one tick older. *)
AgeMappings ==
  arp' = [s \in Station |-> [a \in Ip |->
            IF has_mapping(arp[s], a) /\ arp[s][a].age < MaxTime
            THEN [arp[s][a] EXCEPT !.age = @ + 1]
            ELSE arp[s][a]]]

(* Mutant: every packet is taken for one's own. *)
AnyDestination(s, ip) == TRUE

is_intended_ip_destination(s, ip) == \E i \in Own(s) : ip_addr[i] = ip
-----------------------------------------------------------------------------
(* The process of s ends, with rest unread, and the kernel closes its      *)
(* sockets.                                                                *)
Ends(s, rest) ==
  /\ running' = [running EXCEPT ![s] = FALSE]
  /\ sock' = [i \in Iface |-> IF i \in Own(s) THEN SockAfterClose(i, rest[i])
                                             ELSE sock[i]]
  /\ down' = [i \in Iface |-> IF i \in Own(s) THEN <<>> ELSE down[i]]

(* What a step that has read its input, which leaves rest in the sockets,  *)
(* writes.  Writing to a broken connection raises SIGPIPE or, as long as   *)
(* its error has not been told, returns -1, which is printed at most.      *)
Write(s, rest, out) ==
  \/ /\ \E i \in DOMAIN out : sock[i] \in {"pipe", "dead"}
     /\ Ends(s, rest) /\ UNCHANGED up
  \/ /\ \A i \in DOMAIN out : sock[i] # "dead"
     /\ up' = UpAfterWrite(out)
     /\ sock' = SockAfterSend(DOMAIN out)
     /\ down' = rest
     /\ UNCHANGED running

NextHopIp(s, dst_ip) ==
  IF route[s][dst_ip].ip_addr = Direct THEN dst_ip ELSE route[s][dst_ip].ip_addr

(* Through the interface of the route: the packet itself if the next hop's *)
(* MAC address is known, with the address of THIS interface as its source; *)
(* otherwise a request for that address, and the packet is queued, for a   *)
(* router with the source it came with.  Without a route the interface is  *)
(* a null pointer.                                                         *)
send_ether_pkt(s, rest, src_ip, dst_ip, data) ==
  LET i   == route[s][dst_ip].iface
      hop == NextHopIp(s, dst_ip)
  IN
  CASE i = NoIface ->
         Ends(s, rest) /\ UNCHANGED <<up, pq>>
    [] i # NoIface /\ has_mapping(arp[s], hop) ->
         /\ Write(s, rest, [k \in {i} |-> IpFrame(mac_addr[i], arp[s][hop].mac,
                                               create_pkt(ip_addr[i], dst_ip, data))])
         /\ UNCHANGED pq
    [] i # NoIface /\ ~has_mapping(arp[s], hop) ->
         /\ pq' = [pq EXCEPT ![s] = Append(@,
              [next_hop_ipaddr |-> hop, dst_ipaddr |-> dst_ip,
               src_ipaddr |-> IF is_router[s] THEN src_ip ELSE ip_addr[i],
               iface_name |-> i, data |-> data])]
         /\ Write(s, rest,
                  [k \in {i} |-> ArpFrame(mac_addr[i], NoMac, create_req_pkt(i, hop))])
-----------------------------------------------------------------------------
(* A turn for the console, which goes before all interfaces. *)

ConsoleTurn(s) == running[s] /\ ~quit[s] /\ read_set[s] = {}

(* "send": stations only.  The host list has no name for other addresses.  *)
(* Stations pass "" as the source, which only a router would look at.      *)
send_cmd(s, dst, data) ==
  /\ ConsoleTurn(s) /\ ~console_eof[s]
  /\ ~is_router[s] /\ dst \in Hosts
  /\ send_ether_pkt(s, down, dst, dst, data)
  /\ arp' = [arp EXCEPT ![s] = monitor_cache(@)]
  /\ UNCHANGED <<backlog, quit, read_set, recv_ether_pkt, again, console_eof, shown>>

(* "show ...", "debug", an invalid command or destination, end of file. *)
OtherCommand(s) ==
  /\ ConsoleTurn(s)
  /\ arp' = [arp EXCEPT ![s] = monitor_cache(@)]
  /\ UNCHANGED <<sockVars, running, quit, read_set, recv_ether_pkt, again, pq,
                 console_eof, shown>>

(* "off" *)
OffCommand(s) ==
  /\ ConsoleTurn(s) /\ ~console_eof[s]
  /\ quit' = [quit EXCEPT ![s] = TRUE]
  /\ UNCHANGED <<sockVars, running, read_set, recv_ether_pkt, again, arp, pq,
                 console_eof, shown>>

(* From now on the console is always ready, and no frame is handled. *)
ConsoleEof(s) ==
  /\ running[s] /\ ~console_eof[s]
  /\ console_eof' = [console_eof EXCEPT ![s] = TRUE]
  /\ UNCHANGED <<sockVars, running, quit, read_set, recv_ether_pkt, again, arp, pq,
                 shown>>
-----------------------------------------------------------------------------
(* A turn for the interfaces. *)

Snapshot(s) ==
  IF read_set[s] # {} THEN read_set[s] ELSE {i \in Own(s) : HasInput(i)}

(* It is i's share: the first in the order of ifaces_. *)
IsShareOf(s, i) ==
  /\ running[s]
  /\ read_set[s] = {} => ~quit[s] /\ ~console_eof[s]
  /\ \E n \in DOMAIN ifaces[s] :
       /\ i = ifaces[s][n] /\ i \in Snapshot(s)
       /\ \A m \in DOMAIN ifaces[s] : m < n => ifaces[s][m] \notin Snapshot(s)

(* What it handles: the next frame of i, or the one that is there again. *)
HasFrame(s, i) == again[s] \/ down[i] # <<>>
Frame(s, i) == IF again[s] THEN recv_ether_pkt[s] ELSE Head(down[i])

(* Mutant: the rest of what has arrived is lost with it. *)
NoRest(s, i) == IF again[s] THEN down ELSE [down EXCEPT ![i] = <<>>]

Rest(s, i) == IF again[s] THEN down ELSE [down EXCEPT ![i] = Tail(@)]

(* i's share is done.  recv_ether_pkt lives until the end of the turn; it  *)
(* is kept if an interface still to come has no frame to replace it.       *)
Handles(s, i) ==
  /\ IsShareOf(s, i)
  /\ read_set' = [read_set EXCEPT ![s] = Snapshot(s) \ {i}]
  /\ recv_ether_pkt' = [recv_ether_pkt EXCEPT ![s] =
       IF \A k \in Snapshot(s) \ {i} : down[k] # <<>> THEN NoFrame
       ELSE IF HasFrame(s, i) THEN Frame(s, i) ELSE @]
  /\ again' = [again EXCEPT ![s] = FALSE]

(* The cache becomes c; the turn may be over, and the next one begins. *)
CacheAfter(s, i, c) ==
  arp' = [arp EXCEPT ![s] = IF Snapshot(s) = {i} THEN monitor_cache(c) ELSE c]

(* Every interface that has the requested address answers, on its own LAN. *)
ArpRequest(s, i) ==
  LET f     == Frame(s, i)
      asked == {k \in Own(s) : ip_addr[k] = f.arp_pkt.dst_ip}
  IN
  /\ Handles(s, i) /\ HasFrame(s, i) /\ IsRequest(f)
  /\ CacheAfter(s, i, IF asked = {} THEN arp[s]
                      ELSE add_mapping(arp[s], f.arp_pkt.src_ip, f.arp_pkt.src_mac))
  /\ Write(s, Rest(s, i), [k \in asked |->
       ArpFrame(mac_addr[k], f.mac_src,
                create_resp_pkt(f.arp_pkt, ip_addr[k], mac_addr[k]))])
  /\ UNCHANGED <<backlog, quit, pq, console_eof, shown>>

(* Mutant: the answer is compared with the destination of the packet. *)
WaitingForDestination(s, arp_pkt) ==
  {n \in DOMAIN pq[s] : /\ is_intended_ip_destination(s, arp_pkt.dst_ip)
                        /\ pq[s][n].dst_ipaddr = arp_pkt.src_ip}

(* The pending packets a response allows to be sent; the first one is. *)
Waiting(s, arp_pkt) ==
  {n \in DOMAIN pq[s] : /\ is_intended_ip_destination(s, arp_pkt.dst_ip)
                        /\ pq[s][n].next_hop_ipaddr = arp_pkt.src_ip}

(* Mutants: no source address; the one of the first interface. *)
ReleasedUnsigned(s, p, mac) ==
  IpFrame(NoMac, mac, create_pkt(p.src_ipaddr, p.dst_ipaddr, p.data))
ReleasedByFirst(s, p, mac) ==
  IpFrame(mac_addr[ifaces[s][1]], mac, create_pkt(p.src_ipaddr, p.dst_ipaddr, p.data))

(* The frame a pending packet leaves in. *)
Released(s, p, mac) ==
  IpFrame(mac_addr[p.iface_name], mac, create_pkt(p.src_ipaddr, p.dst_ipaddr, p.data))

(* Mutants: the packet stays in the queue; the whole queue is emptied. *)
KeepPending(s, n)  == pq[s]
ClearPending(s, n) == <<>>

(* pq_.erase() *)
PendingWithout(s, n) == RemoveAt(pq[s], n)

(* It goes out where the response came in, whatever its own interface is. *)
ArpResponse(s, i) ==
  LET f == Frame(s, i)
      n == Min(Waiting(s, f.arp_pkt))
  IN
  /\ Handles(s, i) /\ HasFrame(s, i) /\ IsResponse(f)
  /\ Waiting(s, f.arp_pkt) # {}
  /\ CacheAfter(s, i, add_mapping(arp[s], f.arp_pkt.src_ip, f.arp_pkt.src_mac))
  /\ pq' = [pq EXCEPT ![s] = PendingWithout(s, n)]
  /\ Write(s, Rest(s, i), [k \in {i} |-> Released(s, pq[s][n], f.arp_pkt.src_mac)])
  /\ UNCHANGED <<backlog, quit, console_eof, shown>>

Deliver(s, i) ==
  LET f == Frame(s, i) IN
  /\ Handles(s, i) /\ HasFrame(s, i) /\ IsIp(f)
  /\ is_intended_ip_destination(s, f.ip_pkt.dst_ip)
  /\ shown' = [shown EXCEPT ![s] = Append(@, f.ip_pkt)]
  /\ down' = Rest(s, i)
  /\ CacheAfter(s, i, arp[s])
  /\ UNCHANGED <<sock, up, backlog, running, quit, pq, console_eof>>

Forward(s, i) ==
  LET f == Frame(s, i) IN
  /\ Handles(s, i) /\ HasFrame(s, i) /\ IsIp(f)
  /\ ~is_intended_ip_destination(s, f.ip_pkt.dst_ip) /\ is_router[s]
  /\ send_ether_pkt(s, Rest(s, i), f.ip_pkt.src_ip, f.ip_pkt.dst_ip, f.ip_pkt.data)
  /\ CacheAfter(s, i, arp[s])
  /\ UNCHANGED <<backlog, quit, console_eof, shown>>

(* A response nothing waits for, or another station's packet.  No handler  *)
(* looks at mac_dst: what a bridge floods is ignored for its IP addresses. *)
Ignore(s, i) ==
  LET f == Frame(s, i) IN
  /\ Handles(s, i) /\ HasFrame(s, i)
  /\ \/ IsResponse(f) /\ Waiting(s, f.arp_pkt) = {}
     \/ IsIp(f) /\ ~is_intended_ip_destination(s, f.ip_pkt.dst_ip) /\ ~is_router[s]
  /\ down' = Rest(s, i)
  /\ CacheAfter(s, i, arp[s])
  /\ UNCHANGED <<sock, up, backlog, running, quit, pq, console_eof, shown>>

(* Mutant: the end of file is skipped. *)
SkipEof(s, i) ==
  /\ Handles(s, i) /\ ~HasFrame(s, i)
  /\ CacheAfter(s, i, arp[s])
  /\ UNCHANGED <<sockVars, running, quit, pq, console_eof, shown>>

(* read() returns 0. *)
ReadEof(s, i) ==
  /\ Handles(s, i) /\ ~HasFrame(s, i)
  /\ quit' = [quit EXCEPT ![s] = TRUE]
  /\ CacheAfter(s, i, arp[s])
  /\ UNCHANGED <<sockVars, running, pq, console_eof, shown>>

(* read() returns -1, which is taken for a frame: recv_ether_pkt is as it  *)
(* was.  Here it has the frame of an earlier interface of this turn, which *)
(* is handled once more, as if it had come in on i.                        *)
HandleAgain(s, i) ==
  /\ IsShareOf(s, i) /\ ~HasFrame(s, i) /\ sock[i] = "pipe"
  /\ recv_ether_pkt[s] # NoFrame
  /\ sock' = [sock EXCEPT ![i] = "dead"]
  /\ again' = [again EXCEPT ![s] = TRUE]
  /\ UNCHANGED <<up, down, backlog, running, quit, read_set, recv_ether_pkt, arp, pq,
                 console_eof, shown>>

(* Here it has no addresses and an uninitialized type.  Nothing comes of   *)
(* it, but for a router that takes it for a packet: stoi("") throws.       *)
ReadError(s, i) ==
  /\ Handles(s, i) /\ ~HasFrame(s, i) /\ sock[i] = "pipe"
  /\ recv_ether_pkt[s] = NoFrame
  /\ \/ sock' = [sock EXCEPT ![i] = "dead"] /\ UNCHANGED <<down, running>>
     \/ is_router[s] /\ Ends(s, down)
  /\ CacheAfter(s, i, arp[s])
  /\ UNCHANGED <<up, backlog, quit, pq, console_eof, shown>>

(* The loop is left, and main() returns. *)
Leave(s) ==
  /\ running[s] /\ quit[s] /\ read_set[s] = {}
  /\ Ends(s, down)
  /\ UNCHANGED <<up, backlog, quit, read_set, recv_ether_pkt, again, arp, pq,
                 console_eof, shown>>

StationStep(s) ==
  \/ \E i \in Own(s) : \/ ArpRequest(s, i) \/ ArpResponse(s, i) \/ Deliver(s, i)
                       \/ Forward(s, i) \/ Ignore(s, i)
                       \/ ReadEof(s, i) \/ HandleAgain(s, i) \/ ReadError(s, i)
  \/ Leave(s)
=============================================================================
