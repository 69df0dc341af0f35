------------------------- MODULE SettledInvariance -------------------------
(***************************************************************************)
(* The inductive invariant of an internetwork without mistakes in its      *)
(* files, while nothing expires and no process stops: for every topology   *)
(* and routing that is WellConfigured, and every age of the two caches     *)
(* that the clock does not reach (NothingExpires).                         *)
(*                                                                         *)
(* YInv follows a message from queue to queue.  Its core is Flows: what    *)
(* each queue holds has been sent, and is addressed to somebody on its own *)
(* LAN whom the bridge knows (Sound, Heard, SoundPending).  A bridge then  *)
(* gives a frame that is not a request to one port only, and whoever gets  *)
(* it has a use for it.  This needs the tables and the caches to be true   *)
(* (TablesTrue, CachesLearned), which they are because they are copied     *)
(* from such frames.                                                       *)
(*                                                                         *)
(* YoungStep shows that every step of the network is an Event, one of      *)
(* eight things that may happen to what is on its way.  The proofs in      *)
(* SettledProofs go through the events, and no more through the actions.   *)
(***************************************************************************)
EXTENDS NetworkInvariance

(* User sent message d to address a. *)
SentTo(d, a) == \E m \in sent : m.data = d /\ m.dst = a

(* The bridge of k has an entry for it. *)
Learned(k) ==
  LET b == lan_name[k] IN
  \E j \in DOMAIN clients[b] :
    Client(b, j) = k /\ has_arp_entry(btable[b], clients[b][j], mac_addr[k])

(* Whoever has interface k passes on a packet for d, or shows it. *)
Serving(k, d) ==
  \E t \in Station : k \in Own(t) /\ (is_router[t] \/ is_intended_ip_destination(t, d))

(* The frames interface i may send. *)
SoundRequest(i, f) ==
  /\ IsRequest(f) /\ f.mac_dst = NoMac
  /\ f.arp_pkt.src_ip = ip_addr[i] /\ f.arp_pkt.src_mac = mac_addr[i]
  /\ \E k \in OnLan(lan_name[i]) : f.arp_pkt.dst_ip = ip_addr[k]

SoundResponse(i, f) ==
  /\ IsResponse(f)
  /\ f.arp_pkt.src_ip = ip_addr[i] /\ f.arp_pkt.src_mac = mac_addr[i]
  /\ \E k \in OnLan(lan_name[i]) :
       /\ f.mac_dst = mac_addr[k] /\ Learned(k)
       /\ f.arp_pkt.dst_ip = ip_addr[k] /\ f.arp_pkt.dst_mac = mac_addr[k]

SoundPacket(i, f) ==
  /\ IsIp(f) /\ SentTo(f.ip_pkt.data, f.ip_pkt.dst_ip)
  /\ \E k \in OnLan(lan_name[i]) :
       f.mac_dst = mac_addr[k] /\ Learned(k) /\ Serving(k, f.ip_pkt.dst_ip)

Sound(i) ==
  {f \in EtherPkt :
     /\ f.mac_src = mac_addr[i]
     /\ SoundRequest(i, f) \/ SoundResponse(i, f) \/ SoundPacket(i, f)}

(* Whom the bridge gives frame f of interface i. *)
Addressees(i, f) ==
  {k \in OnLan(lan_name[i]) :
     IF f.mac_dst = NoMac THEN k # i ELSE f.mac_dst = mac_addr[k]}

(* The frames interface k may get: sound ones of a neighbour. *)
Heard(k) ==
  {f \in EtherPkt :
     \E i \in Iface : Learned(i) /\ f \in Sound(i) /\ k \in Addressees(i, f)}

(* The packets s may queue, and those a user may be shown. *)
SoundPending(s) ==
  {p \in PendingPkt : /\ p.iface_name = route[s][p.dst_ipaddr].iface
                      /\ p.next_hop_ipaddr = NextHopIp(s, p.dst_ipaddr)
                      /\ SentTo(p.data, p.dst_ipaddr)}

SentPacket == {p \in IpPkt : SentTo(p.data, p.dst_ip)}

Flows ==
  /\ \A i \in Iface : up[i] \in Seq(Sound(i)) /\ down[i] \in Seq(Heard(i))
  /\ \A s \in Station : pq[s] \in Seq(SoundPending(s)) /\ shown[s] \in Seq(SentPacket)
  /\ \A m \in sent : m.dst \in Hosts

(* No process has stopped or is about to. *)
Calm ==
  /\ \A b \in Lan : alive[b] /\ ~stdin_eof[b]
  /\ \A i \in Iface : sock[i] = "open"
  /\ \A s \in Station : running[s] /\ ~quit[s] /\ ~again[s] /\ ~console_eof[s]

(* What is left of a snapshot still has input. *)
Ready == \A s \in Station : \A i \in read_set[s] : i \in Own(s) /\ down[i] # <<>>

(* Every interface has its port. *)
Served ==
  \A i \in Iface : \E j \in DOMAIN clients[lan_name[i]] : Client(lan_name[i], j) = i

(* The table has the station's own address at most for each port, and      *)
(* nothing in it is older than the network.                                *)
TrueTable(b, tbl) ==
  \A j \in DOMAIN clients[b], m \in AnyMac :
    has_arp_entry(tbl, clients[b][j], m) =>
      m = mac_addr[Client(b, j)] /\ tbl[clients[b][j]][m] <= now

TablesTrue == \A b \in Lan : TrueTable(b, btable[b])

TrueMappings(c) ==
  \A a \in Ip : has_mapping(c, a) =>
    /\ c[a].age <= now
    /\ \E k \in Iface : ip_addr[k] = a /\ mac_addr[k] = c[a].mac /\ Learned(k)

CachesLearned == \A s \in Station : TrueMappings(arp[s])

(* All but what is on its way. *)
Quiet == Calm /\ Ready /\ Served /\ TablesTrue /\ CachesLearned

YInv == Quiet /\ Flows
-----------------------------------------------------------------------------
(* What may happen to what is on its way. *)

flowVars == <<up, down, pq, shown, sent>>

Takes(i) == down[i] # <<>> /\ down' = [down EXCEPT ![i] = Tail(@)]

Emits(i, f) == up' = [up EXCEPT ![i] = Append(@, f)]

RequestFor(i, a) == ArpFrame(mac_addr[i], NoMac, create_req_pkt(i, a))

AnswerTo(i, f) ==
  ArpFrame(mac_addr[i], f.mac_src, create_resp_pkt(f.arp_pkt, ip_addr[i], mac_addr[i]))

(* A bridge relays the next frame of i. *)
Relayed(i) ==
  LET f == Head(up[i]) IN
  /\ up[i] # <<>> /\ up' = [up EXCEPT ![i] = Tail(@)]
  /\ down' = [k \in Iface |-> IF k \in Addressees(i, f) THEN Append(down[k], f)
                                                      ELSE down[k]]
  /\ Learned(i)'
  /\ UNCHANGED <<pq, shown, sent>>

(* Message d for dst leaves s towards neighbour k, or waits for its MAC    *)
(* address and a request for that leaves.                                  *)
Departs(s, dst, d, k) ==
  LET i == route[s][dst].iface IN
  /\ LeadsTo(s, dst, k)
  /\ \/ /\ Learned(k) /\ UNCHANGED pq
        /\ \E src \in Ip :
             Emits(i, IpFrame(mac_addr[i], mac_addr[k], create_pkt(src, dst, d)))
     \/ /\ Emits(i, RequestFor(i, ip_addr[k]))
        /\ \E p \in PendingPkt :
             /\ p.iface_name = i /\ p.next_hop_ipaddr = ip_addr[k]
             /\ p.dst_ipaddr = dst /\ p.data = d
             /\ pq' = [pq EXCEPT ![s] = Append(@, p)]

Submitted(s, dst, d) ==
  /\ dst \in Hosts /\ \A m \in sent : m.data # d
  /\ sent' = sent \cup {[from |-> s, dst |-> dst, data |-> d]}
  /\ \E k \in Iface : Departs(s, dst, d, k)
  /\ UNCHANGED <<down, shown>>

Forwarded(s, i) ==
  LET f == Head(down[i]) IN
  /\ Takes(i) /\ IsIp(f)
  /\ \E k \in Iface : Departs(s, f.ip_pkt.dst_ip, f.ip_pkt.data, k)
  /\ UNCHANGED <<shown, sent>>

Delivered(s, i) ==
  LET f == Head(down[i]) IN
  /\ Takes(i) /\ IsIp(f) /\ is_intended_ip_destination(s, f.ip_pkt.dst_ip)
  /\ shown' = [shown EXCEPT ![s] = Append(@, f.ip_pkt)]
  /\ UNCHANGED <<up, pq, sent>>

Answered(i) ==
  LET f == Head(down[i]) IN
  /\ Takes(i) /\ IsRequest(f) /\ f.arp_pkt.dst_ip = ip_addr[i]
  /\ Emits(i, AnswerTo(i, f))
  /\ UNCHANGED <<pq, shown, sent>>

Unpended(s, i, n) ==
  LET f == Head(down[i]) IN
  /\ Takes(i) /\ IsResponse(f)
  /\ pq[s][n].next_hop_ipaddr = f.arp_pkt.src_ip
  /\ pq[s][n].iface_name = i
  /\ Emits(i, Released(s, pq[s][n], f.arp_pkt.src_mac))
  /\ pq' = [pq EXCEPT ![s] = RemoveAt(@, n)]
  /\ UNCHANGED <<shown, sent>>

Dropped(s, i) ==
  LET f == Head(down[i]) IN
  /\ Takes(i)
  /\ \/ IsRequest(f) /\ f.arp_pkt.dst_ip # ip_addr[i]
     \/ /\ IsResponse(f)
        /\ \A n \in DOMAIN pq[s] : pq[s][n].next_hop_ipaddr # f.arp_pkt.src_ip
  /\ UNCHANGED <<up, pq, shown, sent>>

Event ==
  \/ \E i \in Iface : Relayed(i)
  \/ \E s \in Station, dst \in Ip, d \in Data : Submitted(s, dst, d)
  \/ \E s \in Station : \E i \in Own(s) :
       \/ Forwarded(s, i) \/ Delivered(s, i) \/ Answered(i) \/ Dropped(s, i)
       \/ \E n \in DOMAIN pq[s] : Unpended(s, i, n)
  \/ UNCHANGED flowVars

(* Nothing learned is forgotten. *)
Kept == \A k \in Iface : Learned(k) => Learned(k)'
-----------------------------------------------------------------------------
(* Facts about the constants, the frames and the queues. *)

(* Different interfaces have different addresses. *)
LEMMA AddressesDiffer ==
  ASSUME WellConfigured
  PROVE  /\ \A i, k \in Iface : ip_addr[i] = ip_addr[k] => i = k
         /\ \A i, k \in Iface : mac_addr[i] = mac_addr[k] => i = k
         /\ \A i \in Iface : mac_addr[i] \in Mac /\ mac_addr[i] # NoMac
         /\ \A i \in Iface : ip_addr[i] \in Ip /\ lan_name[i] \in Lan
BY PacketsAssumption DEF WellConfigured, IsInjective

(* A frame is of one kind. *)
LEMMA OneKind ==
  ASSUME NEW f \in EtherPkt
  PROVE  /\ IsRequest(f) \/ IsResponse(f) \/ IsIp(f)
         /\ ~(IsRequest(f) /\ IsResponse(f))
         /\ ~(IsArp(f) /\ IsIp(f))
BY DEF EtherPkt, ArpPkt, IsRequest, IsResponse, IsIp, IsArp,
       TYPE_ARP_PKT, TYPE_IP_PKT, ARP_REQUEST, ARP_RESPONSE

(* What the frames stations make are. *)
LEMMA FrameShapes ==
  ASSUME NEW src, NEW dst
  PROVE  /\ \A p : LET f == ArpFrame(src, dst, p) IN
              /\ f.mac_src = src /\ f.mac_dst = dst /\ f.arp_pkt = p
              /\ IsArp(f) /\ ~IsIp(f)
              /\ IsRequest(f) <=> p.op = ARP_REQUEST
              /\ IsResponse(f) <=> p.op = ARP_RESPONSE
         /\ \A p : LET f == IpFrame(src, dst, p) IN
              /\ f.mac_src = src /\ f.mac_dst = dst /\ f.ip_pkt = p
              /\ IsIp(f) /\ ~IsRequest(f) /\ ~IsResponse(f)
BY DEF ArpFrame, IpFrame, IsArp, IsIp, IsRequest, IsResponse, TYPE_ARP_PKT, TYPE_IP_PKT

(* The next frame of i towards its bridge, and the next one from there.    *)
LEMMA NextUp ==
  ASSUME Flows, NEW i \in Iface, up[i] # <<>>
  PROVE  Head(up[i]) \in Sound(i) /\ Tail(up[i]) \in Seq(Sound(i))
BY HeadTailProperties DEF Flows

LEMMA NextDown ==
  ASSUME Flows, NEW i \in Iface, down[i] # <<>>
  PROVE  /\ Head(down[i]) \in Heard(i) /\ Head(down[i]) \in EtherPkt
         /\ Tail(down[i]) \in Seq(Heard(i))
<1>1. down[i] \in Seq(Heard(i))
  BY DEF Flows
<1>2. Head(down[i]) \in Heard(i) /\ Tail(down[i]) \in Seq(Heard(i))
  BY <1>1, HeadTailProperties
<1>3. QED
  BY <1>2 DEF Heard

(* What is known of a frame from who sent it. *)
LEMMA SoundFields ==
  ASSUME WellConfigured, NEW i \in Iface, NEW f \in Sound(i)
  PROVE  /\ f \in EtherPkt /\ f.mac_src = mac_addr[i]
         /\ IsArp(f) => f.arp_pkt.src_ip = ip_addr[i] /\ f.arp_pkt.src_mac = mac_addr[i]
         /\ IsRequest(f) <=> f.mac_dst = NoMac
         /\ IsRequest(f) => SoundRequest(i, f)
         /\ IsResponse(f) => SoundResponse(i, f)
         /\ IsIp(f) => SoundPacket(i, f)
         /\ f.mac_dst # NoMac =>
              \E k \in OnLan(lan_name[i]) : f.mac_dst = mac_addr[k] /\ Learned(k)
<1>1. /\ f \in EtherPkt /\ f.mac_src = mac_addr[i]
      /\ SoundRequest(i, f) \/ SoundResponse(i, f) \/ SoundPacket(i, f)
  BY DEF Sound
<1>2. /\ SoundRequest(i, f) => IsRequest(f)
      /\ SoundResponse(i, f) => IsResponse(f)
      /\ SoundPacket(i, f) => IsIp(f)
  BY DEF SoundRequest, SoundResponse, SoundPacket
<1>3. /\ IsRequest(f) => IsArp(f)
      /\ IsResponse(f) => IsArp(f)
  BY DEF IsRequest, IsResponse
<1>4. /\ IsRequest(f) => SoundRequest(i, f)
      /\ IsResponse(f) => SoundResponse(i, f)
      /\ IsIp(f) => SoundPacket(i, f)
  BY <1>1, <1>2, <1>3, OneKind
<1>5. IsArp(f) => f.arp_pkt.src_ip = ip_addr[i] /\ f.arp_pkt.src_mac = mac_addr[i]
  BY <1>1, <1>4, OneKind DEF SoundRequest, SoundResponse
<1>6. /\ IsRequest(f) => f.mac_dst = NoMac
      /\ ~IsRequest(f) => \E k \in OnLan(lan_name[i]) : f.mac_dst = mac_addr[k] /\ Learned(k)
  BY <1>1, <1>4, OneKind DEF SoundRequest, SoundResponse, SoundPacket
<1>7. \A k \in OnLan(lan_name[i]) : mac_addr[k] # NoMac
  BY AddressesDiffer DEF OnLan
<1>8. QED
  BY <1>1, <1>4, <1>5, <1>6, <1>7

(* Who has sent what i has got, and what it says. *)
LEMMA HeardFields ==
  ASSUME WellConfigured, NEW i \in Iface, NEW f \in Heard(i)
  PROVE  \E k \in Iface :
           /\ f \in Sound(k) /\ Learned(k) /\ lan_name[k] = lan_name[i]
           /\ IsRequest(f) => k # i
           /\ IsResponse(f) =>
                /\ f.mac_dst = mac_addr[i] /\ f.arp_pkt.dst_mac = mac_addr[i]
                /\ f.arp_pkt.dst_ip = ip_addr[i]
           /\ IsIp(f) => /\ SentTo(f.ip_pkt.data, f.ip_pkt.dst_ip)
                         /\ Serving(i, f.ip_pkt.dst_ip)
<1>1. PICK k \in Iface : Learned(k) /\ f \in Sound(k) /\ i \in Addressees(k, f)
  BY DEF Heard
<1>2. /\ lan_name[k] = lan_name[i]
      /\ f.mac_dst = NoMac => k # i
      /\ f.mac_dst # NoMac => f.mac_dst = mac_addr[i]
  BY <1>1 DEF Addressees, OnLan
<1>3. /\ f \in EtherPkt
      /\ IsRequest(f) <=> f.mac_dst = NoMac
      /\ IsResponse(f) => SoundResponse(k, f)
      /\ IsIp(f) => SoundPacket(k, f)
  BY <1>1, SoundFields
<1>4. IsRequest(f) => k # i
  BY <1>2, <1>3
<1>5. IsResponse(f) => /\ f.mac_dst = mac_addr[i] /\ f.arp_pkt.dst_mac = mac_addr[i]
                       /\ f.arp_pkt.dst_ip = ip_addr[i]
  <2>1. SUFFICES ASSUME IsResponse(f)
                 PROVE  /\ f.mac_dst = mac_addr[i] /\ f.arp_pkt.dst_mac = mac_addr[i]
                        /\ f.arp_pkt.dst_ip = ip_addr[i]
    OBVIOUS
  <2>2. PICK j \in OnLan(lan_name[k]) :
          /\ f.mac_dst = mac_addr[j]
          /\ f.arp_pkt.dst_ip = ip_addr[j] /\ f.arp_pkt.dst_mac = mac_addr[j]
    BY <1>3, <2>1 DEF SoundResponse
  <2>3. f.mac_dst = mac_addr[i] /\ j \in Iface
    BY <1>2, <1>3, <2>1, <2>2, OneKind DEF OnLan
  <2>4. j = i
    BY <2>2, <2>3, AddressesDiffer
  <2>5. QED
    BY <2>2, <2>4
<1>6. IsIp(f) => /\ SentTo(f.ip_pkt.data, f.ip_pkt.dst_ip)
                 /\ Serving(i, f.ip_pkt.dst_ip)
  <2>1. SUFFICES ASSUME IsIp(f)
                 PROVE  /\ SentTo(f.ip_pkt.data, f.ip_pkt.dst_ip)
                        /\ Serving(i, f.ip_pkt.dst_ip)
    OBVIOUS
  <2>2. SentTo(f.ip_pkt.data, f.ip_pkt.dst_ip)
    BY <1>3, <2>1 DEF SoundPacket
  <2>3. PICK j \in OnLan(lan_name[k]) :
          f.mac_dst = mac_addr[j] /\ Serving(j, f.ip_pkt.dst_ip)
    BY <1>3, <2>1 DEF SoundPacket
  <2>4. ~IsRequest(f) /\ j \in Iface
    BY <1>3, <2>1, OneKind DEF IsRequest, OnLan
  <2>5. j = i
    BY <1>2, <1>3, <2>3, <2>4, AddressesDiffer
  <2>6. QED
    BY <2>2, <2>3, <2>5
<1>7. QED
  BY <1>1, <1>2, <1>4, <1>5, <1>6
-----------------------------------------------------------------------------
(* The turns of bridges. *)

(* Nothing is old enough for monitor_arp_cache() to erase it. *)
LEMMA NoneExpired ==
  ASSUME NInv, TablesTrue, NothingExpires, NEW b \in Lan
  PROVE  /\ now \in Nat /\ now <= ArpTime /\ now < MaxTime /\ MaxTime \in Nat
         /\ \A j \in DOMAIN clients[b], m \in AnyMac :
              monitor_arp_cache(btable[b])[clients[b][j]][m] = btable[b][clients[b][j]][m]
<1>1. /\ now \in 0 .. MaxNow /\ MaxNow \in Nat /\ ArpTime \in Nat /\ MaxTime \in Nat
  BY NetworkAssumption, BridgeAssumption, StationAssumption DEF NInv, UsersTypeOK
<1>2. now \in Nat /\ now <= ArpTime /\ now < MaxTime
  BY <1>1 DEF NothingExpires
<1>3. ASSUME NEW j \in DOMAIN clients[b], NEW m \in AnyMac
      PROVE  monitor_arp_cache(btable[b])[clients[b][j]][m] = btable[b][clients[b][j]][m]
  <2>1. clients[b][j] \in Fd
    BY ServedClient DEF NInv
  <2>2. btable[b][clients[b][j]][m] \in Age \cup {Absent}
    BY <2>1 DEF NInv, IInv, TypeOK, BridgeTypeOK
  <2>3. btable[b][clients[b][j]][m] # Absent => btable[b][clients[b][j]][m] <= now
    BY DEF TablesTrue, TrueTable, has_arp_entry
  <2>4. ~(btable[b][clients[b][j]][m] > ArpTime)
    BY <1>1, <1>2, <2>2, <2>3 DEF Age, Absent
  <2>5. QED
    BY <2>1, <2>4 DEF monitor_arp_cache
<1>4. QED
  BY <1>1, <1>2, <1>3

(* Entries that are added, and none lost. *)
LEMMA TablesGrow ==
  ASSUME NInv, UNCHANGED <<clients, peer>>,
         \A b \in Lan : \A j \in DOMAIN clients[b], m \in AnyMac :
           /\ has_arp_entry(btable[b], clients[b][j], m) =>
                has_arp_entry(btable'[b], clients[b][j], m)
           /\ has_arp_entry(btable'[b], clients[b][j], m) =>
                /\ m = mac_addr[Client(b, j)]
                /\ btable'[b][clients[b][j]][m] <= now'
  PROVE  TablesTrue' /\ Kept
<1>1. TablesTrue'
  BY DEF TablesTrue, TrueTable, Client, has_arp_entry
<1>2. ASSUME NEW k \in Iface, Learned(k)
      PROVE  Learned(k)'
  <2>1. lan_name[k] \in Lan /\ mac_addr[k] \in AnyMac
    BY PacketsAssumption DEF AnyMac
  <2>2. QED
    BY <1>2, <2>1 DEF Learned, Client, has_arp_entry
<1>3. QED
  BY <1>1, <1>2 DEF Kept

(* A cache nobody writes to stays true. *)
LEMMA MappingsStay ==
  ASSUME CachesLearned, UNCHANGED <<arp, now>>, Kept
  PROVE  CachesLearned'
BY DEF CachesLearned, TrueMappings, Kept

(* A station's port. *)
LEMMA PortOf ==
  ASSUME NInv, Served, NEW i \in Iface
  PROVE  \E j \in DOMAIN clients[lan_name[i]] :
           /\ Client(lan_name[i], j) = i
           /\ \A k \in DOMAIN clients[lan_name[i]] : Client(lan_name[i], k) = i => k = j
<1>1. lan_name[i] \in Lan
  BY PacketsAssumption
<1>2. QED
  BY <1>1 DEF Served, NInv, IInv, PortsConsistent, PortsConsistentAt

(* Where a sound frame goes: to all others if it is a request, and to the  *)
(* one port of its destination if not.                                     *)
LEMMA RelayTargets ==
  ASSUME NInv, YInv, WellConfigured, NothingExpires,
         NEW b \in Lan, NEW j \in DOMAIN clients[b], NEW f \in Sound(Client(b, j))
  PROVE  LET tbl == monitor_arp_cache(btable[b])
         IN  /\ {Client(b, k) : k \in Targets(b, j, tbl, f.mac_dst)}
                  = Addressees(Client(b, j), f)
             /\ f.mac_dst = NoMac \/ NextHops(b, tbl, f.mac_dst) # {}
<1> DEFINE i   == Client(b, j)
           tbl == monitor_arp_cache(btable[b])
<1>0. /\ i \in Iface /\ lan_name[i] = b /\ NoMac \in AnyMac
      /\ DOMAIN clients[b] \in SUBSET Nat
  <2>1. DOMAIN clients[b] \subseteq Nat
    BY LenProperties DEF NInv, IInv, TypeOK, BridgeTypeOK
  <2>2. QED
    BY <2>1, ServedClient DEF NInv, AnyMac
<1>1. \A k \in DOMAIN clients[b], m \in AnyMac :
        has_arp_entry(tbl, clients[b][k], m) <=> has_arp_entry(btable[b], clients[b][k], m)
  BY NoneExpired DEF YInv, Quiet, has_arp_entry
<1>2. \A k \in DOMAIN clients[b], m \in AnyMac :
        has_arp_entry(tbl, clients[b][k], m) => m = mac_addr[Client(b, k)]
  BY <1>1 DEF YInv, Quiet, TablesTrue, TrueTable
<1>3. \A k \in DOMAIN clients[b] : Client(b, k) \in Iface /\ lan_name[Client(b, k)] = b
  BY ServedClient DEF NInv
<1>4. \A x \in OnLan(b) : \E k \in DOMAIN clients[b] : Client(b, k) = x
  BY DEF OnLan, YInv, Quiet, Served
<1> HIDE DEF tbl
<1>5. CASE f.mac_dst = NoMac
  <2>1. NextHops(b, tbl, NoMac) = {}
    BY <1>0, <1>2, <1>3, AddressesDiffer DEF NextHops
  <2>2. Targets(b, j, tbl, f.mac_dst) = DOMAIN clients[b] \ {j}
    BY <1>5, <2>1 DEF Targets, FloodTargets
  <2>3. \A k \in DOMAIN clients[b] : Client(b, k) = i => k = j
    BY <1>0, PortOf DEF YInv, Quiet
  <2>4. {Client(b, k) : k \in DOMAIN clients[b] \ {j}} = OnLan(b) \ {i}
    BY <1>3, <1>4, <2>3 DEF OnLan
  <2>5. Addressees(i, f) = OnLan(b) \ {i}
    BY <1>0, <1>5 DEF Addressees
  <2>6. QED
    BY <1>5, <2>2, <2>4, <2>5 DEF tbl
<1>6. CASE f.mac_dst # NoMac
  <2>1. PICK k \in OnLan(b) : f.mac_dst = mac_addr[k] /\ Learned(k)
    BY <1>0, <1>6, SoundFields
  <2>2. k \in Iface /\ lan_name[k] = b /\ mac_addr[k] \in AnyMac
    BY <2>1, PacketsAssumption DEF OnLan, AnyMac
  <2>3. PICK n \in DOMAIN clients[b] :
          Client(b, n) = k /\ has_arp_entry(btable[b], clients[b][n], mac_addr[k])
    BY <2>1, <2>2 DEF Learned
  <2>4. NextHops(b, tbl, f.mac_dst) = {n}
    <3>1. n \in NextHops(b, tbl, f.mac_dst)
      BY <1>1, <2>1, <2>2, <2>3 DEF NextHops
    <3>2. ASSUME NEW x \in NextHops(b, tbl, f.mac_dst)
          PROVE  x = n
      <4>1. x \in DOMAIN clients[b] /\ mac_addr[k] = mac_addr[Client(b, x)]
        BY <1>2, <2>1, <2>2, <3>2 DEF NextHops
      <4>2. Client(b, x) = k
        BY <1>3, <2>2, <4>1, AddressesDiffer
      <4>3. QED
        BY <2>2, <2>3, <4>1, <4>2, PortOf DEF YInv, Quiet
    <3>3. QED
      BY <3>1, <3>2
  <2>5. Targets(b, j, tbl, f.mac_dst) = {n}
    <3>1. Min({n}) = n
      BY <1>0, MinIsMember
    <3>2. QED
      BY <2>4, <3>1 DEF Targets
  <2>6. Addressees(i, f) = {k}
    BY <1>0, <1>6, <2>1, <2>2, AddressesDiffer DEF Addressees, OnLan
  <2>7. {Client(b, x) : x \in {n}} = {k}
    BY <2>3
  <2>8. QED
    BY <2>4, <2>5, <2>6, <2>7 DEF tbl
<1>7. QED
  BY <1>5, <1>6

(* What a turn leaves in the table besides: the source, on its own port.   *)
LEMMA RelayLearns ==
  ASSUME NInv, YInv, WellConfigured, NothingExpires,
         NEW b \in Lan, NEW j \in DOMAIN clients[b], NEW f \in Sound(Client(b, j)),
         UNCHANGED <<clients, peer, now>>,
         btable' = [btable EXCEPT ![b] = Learn(b, j, monitor_arp_cache(btable[b]), f)]
  PROVE  TablesTrue' /\ Kept /\ Learned(Client(b, j))'
<1> DEFINE i    == Client(b, j)
           tbl  == monitor_arp_cache(btable[b])
           port == clients[b][j]
<1>0. /\ i \in Iface /\ lan_name[i] = b /\ port \in Fd
      /\ mac_addr[i] \in AnyMac /\ f.mac_src = mac_addr[i]
      /\ tbl \in Table /\ now \in Nat
      /\ btable \in [Lan -> Table]
  <2>1. /\ i \in Iface /\ lan_name[i] = b /\ port \in Fd
        /\ mac_addr[i] \in AnyMac /\ f.mac_src = mac_addr[i]
    BY ServedClient, PacketsAssumption, SoundFields DEF NInv, AnyMac
  <2>2. btable \in [Lan -> Table]
    BY DEF NInv, IInv, TypeOK, BridgeTypeOK, Table
  <2>3. QED
    BY <2>1, <2>2, TableTypes, NoneExpired DEF YInv, Quiet
<1>1. \A k \in DOMAIN clients[b], m \in AnyMac :
        tbl[clients[b][k]][m] = btable[b][clients[b][k]][m]
  BY NoneExpired DEF YInv, Quiet
<1>2. btable'[b] = add_arp_entry(tbl, port, mac_addr[i])
  <2>1. f.mac_dst = NoMac \/ NextHops(b, tbl, f.mac_dst) # {}
    BY RelayTargets
  <2>2. QED
    BY <1>0, <2>1 DEF Learn
<1> HIDE DEF tbl
<1>3. ASSUME NEW k \in DOMAIN clients[b], NEW m \in AnyMac
      PROVE  btable'[b][clients[b][k]][m] =
               IF k = j /\ m = mac_addr[i] /\ btable[b][port][m] = Absent THEN 0
               ELSE btable[b][clients[b][k]][m]
  <2>1. clients[b][k] \in Fd /\ (clients[b][k] = port => k = j)
    BY ServedClient DEF NInv, IInv, PortsConsistent, PortsConsistentAt
  <2>2. CASE tbl[port][mac_addr[i]] # Absent
    BY <1>0, <1>1, <1>2, <2>1, <2>2 DEF add_arp_entry, has_arp_entry
  <2>3. CASE tbl[port][mac_addr[i]] = Absent
    <3>1. btable'[b] = [tbl EXCEPT ![port][mac_addr[i]] = 0]
      BY <1>2, <2>3 DEF add_arp_entry, has_arp_entry
    <3>2. btable'[b][clients[b][k]][m] =
            IF clients[b][k] = port /\ m = mac_addr[i] THEN 0 ELSE tbl[clients[b][k]][m]
      BY <1>0, <2>1, <3>1 DEF Table
    <3>3. QED
      BY <1>0, <1>1, <2>1, <2>3, <3>2
  <2>4. QED
    BY <2>2, <2>3
<1>4. \A c \in Lan : c # b => btable'[c] = btable[c]
  BY <1>0
<1>5. ASSUME NEW c \in Lan, NEW k \in DOMAIN clients[c], NEW m \in AnyMac
      PROVE  /\ has_arp_entry(btable[c], clients[c][k], m) =>
                  has_arp_entry(btable'[c], clients[c][k], m)
             /\ has_arp_entry(btable'[c], clients[c][k], m) =>
                  /\ m = mac_addr[Client(c, k)]
                  /\ btable'[c][clients[c][k]][m] <= now'
  <2>1. has_arp_entry(btable[c], clients[c][k], m) =>
          m = mac_addr[Client(c, k)] /\ btable[c][clients[c][k]][m] <= now
    BY DEF YInv, Quiet, TablesTrue, TrueTable
  <2>2. CASE c = b
    BY <1>0, <1>3, <2>1, <2>2 DEF has_arp_entry, Absent
  <2>3. CASE c # b
    BY <1>4, <2>1, <2>3 DEF has_arp_entry
  <2>4. QED
    BY <2>2, <2>3
<1>6. TablesTrue' /\ Kept
  BY <1>5, TablesGrow
<1>7. btable'[b][port][mac_addr[i]] # Absent
  BY <1>0, <1>3 DEF Absent
<1>8. Learned(i)'
  <2>1. j \in DOMAIN clients'[b] /\ Client(b, j)' = i /\ clients'[b][j] = port
    BY DEF Client
  <2>2. QED
    BY <1>0, <1>7, <2>1 DEF Learned, has_arp_entry, Client
<1>9. QED
  BY <1>6, <1>8

(* The turn of a bridge that reads a frame relays it to its addressees,    *)
(* and teaches the table what is true.                                     *)
LEMMA RelayTurn ==
  ASSUME NInv, YInv, WellConfigured, NothingExpires,
         NEW b \in Lan, NEW j \in DOMAIN clients[b], RelayFrame(b, j),
         UNCHANGED <<stationVars, userVars>>
  PROVE  Relayed(Client(b, j)) /\ Quiet' /\ Kept
<1> DEFINE i    == Client(b, j)
           f    == Head(up[i])
           outs == {Client(b, k) : k \in Targets(b, j, monitor_arp_cache(btable[b]), f.mac_dst)}
<1>0. /\ i \in Iface /\ lan_name[i] = b /\ up[i] # <<>>
      /\ sock \in [Iface -> SockState] /\ down \in [Iface -> Seq(EtherPkt \cup Reply)]
      /\ \A k \in Iface : sock[k] = "open"
  BY ServedClient DEF NInv, IInv, TypeOK, SocketsTypeOK, RelayFrame, YInv, Quiet, Calm
<1>1. f \in Sound(i)
  BY <1>0, NextUp DEF YInv
<1>2. /\ up' = [up EXCEPT ![i] = Tail(@)]
      /\ down' = DownAfterWrite(outs, f) /\ sock' = SockAfterWrite(outs)
      /\ btable' = [btable EXCEPT ![b] = Learn(b, j, monitor_arp_cache(btable[b]), f)]
      /\ UNCHANGED <<backlog, alive, clients, curr_ports, ports, peer, stdin_eof>>
      /\ UNCHANGED <<running, quit, read_set, recv_ether_pkt, again, arp, pq, console_eof,
                     shown, sent, now, stops>>
  BY DEF RelayFrame, stationVars, userVars
<1>3. outs = Addressees(i, f)
  BY <1>1, RelayTargets
<1> HIDE DEF f, outs
<1>4. TablesTrue' /\ Kept /\ Learned(i)'
  BY <1>1, <1>2, RelayLearns
<1>5. down' = [k \in Iface |-> IF k \in Addressees(i, f) THEN Append(down[k], f) ELSE down[k]]
  BY <1>0, <1>2, <1>3 DEF DownAfterWrite
<1>6. Relayed(i)
  BY <1>0, <1>2, <1>4, <1>5 DEF Relayed, f
<1>7. UNCHANGED sock
  BY <1>0, <1>2 DEF SockAfterWrite
<1>8. Calm' /\ Served'
  BY <1>2, <1>7 DEF YInv, Quiet, Calm, Served, Client
<1>9. Ready'
  <2>1. ASSUME NEW s \in Station, NEW k \in read_set[s]
        PROVE  k \in Own(s) /\ down'[k] # <<>>
    <3>1. k \in Own(s) /\ down[k] # <<>> /\ k \in Iface
      BY OwnIsIface DEF YInv, Quiet, Ready
    <3>2. Append(down[k], f) # <<>>
      <4>1. down[k] \in Seq(EtherPkt \cup Reply)
        BY <1>0, <3>1
      <4>2. f \in EtherPkt \cup Reply
        BY <1>1 DEF Sound
      <4>3. QED
        BY <4>1, <4>2, AppendProperties
    <3>3. QED
      BY <1>5, <3>1, <3>2
  <2>2. QED
    BY <1>2, <2>1 DEF Ready
<1>10. CachesLearned'
  BY <1>2, <1>4, MappingsStay DEF YInv, Quiet
<1>11. QED
  BY <1>4, <1>6, <1>8, <1>9, <1>10 DEF Quiet

(* A bridge that is asked for nothing and loses nobody does nothing else.  *)
LEMMA BridgeEvent ==
  ASSUME NInv, YInv, WellConfigured, NothingExpires, NEW b \in Lan,
         BridgeStep(b) \/ Console(b), UNCHANGED <<stationVars, userVars>>
  PROVE  Event /\ Quiet' /\ Kept
<1>0. backlog[b] = <<>> /\ \A k \in Iface : sock[k] = "open"
  BY DEF NInv, NoRequests, YInv, Quiet, Calm
<1>1. ~AcceptClient(b) /\ ~RejectClient(b)
  BY <1>0 DEF AcceptClient, RejectClient
<1>2. ASSUME NEW j \in DOMAIN clients[b]
      PROVE  ~BrokenPipe(b, j) /\ ~remove_client(b, j)
  <2>1. Client(b, j) \in Iface
    BY ServedClient DEF NInv
  <2>2. ~remove_client(b, j)
    BY <1>0, <2>1 DEF remove_client, Serves, Readable
  <2>3. ASSUME BrokenPipe(b, j)
        PROVE  FALSE
    <3>1. PICK k \in Targets(b, j, monitor_arp_cache(btable[b]), Head(up[Client(b, j)]).mac_dst) :
            sock[Client(b, k)] = "rst"
      BY <2>3 DEF BrokenPipe
    <3>2. k \in DOMAIN clients[b]
      BY TargetsAreClients DEF NInv
    <3>3. Client(b, k) \in Iface
      BY <3>2, ServedClient DEF NInv
    <3>4. QED
      BY <1>0, <3>1, <3>3
  <2>4. QED
    BY <2>2, <2>3
<1>3. ASSUME NEW j \in DOMAIN clients[b], RelayFrame(b, j)
      PROVE  Event /\ Quiet' /\ Kept
  <2>1. Relayed(Client(b, j)) /\ Quiet' /\ Kept
    BY <1>3, RelayTurn
  <2>2. Client(b, j) \in Iface
    BY ServedClient DEF NInv
  <2>3. QED
    BY <2>1, <2>2 DEF Event
<1>4. CASE Console(b)
  <2>1. /\ UNCHANGED <<alive, clients, peer, stdin_eof, sock, up, down>>
        /\ UNCHANGED <<running, quit, read_set, again, arp, pq, console_eof, shown, sent, now>>
        /\ btable' = [btable EXCEPT ![b] = monitor_arp_cache(@)]
        /\ btable \in [Lan -> Table]
    BY <1>4 DEF Console, sockVars, stationVars, userVars, NInv, IInv, TypeOK,
                BridgeTypeOK, Table
  <2>2. ASSUME NEW c \in Lan, NEW k \in DOMAIN clients[c], NEW m \in AnyMac
        PROVE  btable'[c][clients[c][k]][m] = btable[c][clients[c][k]][m]
    BY <2>1, NoneExpired DEF YInv, Quiet
  <2>3. TablesTrue' /\ Kept
    BY <2>1, <2>2, TablesGrow DEF YInv, Quiet, TablesTrue, TrueTable, has_arp_entry
  <2>4. CachesLearned'
    BY <2>1, <2>3, MappingsStay DEF YInv, Quiet
  <2>5. Calm' /\ Ready' /\ Served'
    BY <2>1 DEF YInv, Quiet, Calm, Ready, Served, Client
  <2>6. QED
    BY <2>1, <2>3, <2>4, <2>5 DEF Quiet, Event, flowVars
<1>5. QED
  BY <1>1, <1>2, <1>3, <1>4 DEF BridgeStep
-----------------------------------------------------------------------------
(* The turns of stations. *)

(* An interface whose share it is has input, and the frame is a new one.   *)
LEMMA CalmTurn ==
  ASSUME NInv, Quiet, NEW s \in Station, NEW i \in Own(s), IsShareOf(s, i)
  PROVE  /\ i \in Iface /\ down[i] # <<>> /\ HasFrame(s, i)
         /\ Frame(s, i) = Head(down[i])
         /\ Rest(s, i) = [down EXCEPT ![i] = Tail(@)]
         /\ \A k \in Snapshot(s) : k \in Own(s) /\ down[k] # <<>>
<1>1. i \in Snapshot(s) /\ ~again[s]
  BY DEF IsShareOf, Quiet, Calm
<1>2. ASSUME NEW k \in Snapshot(s)
      PROVE  k \in Own(s) /\ down[k] # <<>>
  <2>1. CASE read_set[s] # {}
    BY <1>2, <2>1 DEF Snapshot, Quiet, Ready
  <2>2. CASE read_set[s] = {}
    <3>1. k \in Own(s) /\ HasInput(k)
      BY <1>2, <2>2 DEF Snapshot
    <3>2. sock[k] = "open"
      BY <3>1, OwnIsIface DEF Quiet, Calm
    <3>3. QED
      BY <3>1, <3>2 DEF HasInput
  <2>3. QED
    BY <2>1, <2>2
<1>3. QED
  BY <1>1, <1>2, OwnIsIface DEF HasFrame, Frame, Rest

(* What stays quiet about a turn that handles i, and leaves cache c. *)
LEMMA HandlingIsQuiet ==
  ASSUME NInv, Quiet, NothingExpires, NEW s \in Station, NEW i \in Own(s),
         Handles(s, i), down' = Rest(s, i), NEW c, TrueMappings(c), CacheAfter(s, i, c),
         UNCHANGED <<sock, running, quit, console_eof, now>>, UNCHANGED bridgeVars
  PROVE  Quiet' /\ Kept /\ Takes(i)
<1>0. /\ UNCHANGED <<alive, clients, btable, peer, stdin_eof>>
      /\ read_set \in [Station -> SUBSET Iface] /\ again \in [Station -> BOOLEAN]
      /\ arp \in [Station -> Cache]
      /\ down \in [Iface -> Seq(EtherPkt \cup Reply)]
  BY DEF bridgeVars, NInv, StationTypeOK, Cache, IInv, TypeOK, SocketsTypeOK
<1>1. /\ IsShareOf(s, i)
      /\ read_set' = [read_set EXCEPT ![s] = Snapshot(s) \ {i}]
      /\ again' = [again EXCEPT ![s] = FALSE]
  BY DEF Handles
<1>2. /\ i \in Iface /\ down[i] # <<>>
      /\ down' = [down EXCEPT ![i] = Tail(@)]
      /\ \A k \in Snapshot(s) : k \in Own(s) /\ down[k] # <<>>
  BY <1>1, CalmTurn
<1>3. Calm' /\ Served'
  BY <1>0, <1>1 DEF Quiet, Calm, Served, Client
<1>4. Ready'
  <2>1. ASSUME NEW t \in Station, NEW k \in read_set'[t]
        PROVE  k \in Own(t) /\ down'[k] # <<>>
    <3>1. CASE t = s
      <4>1. k \in Snapshot(s) /\ k # i /\ k \in Iface
        BY <1>0, <1>1, <1>2, <2>1, <3>1, OwnIsIface
      <4>2. QED
        BY <1>0, <1>2, <3>1, <4>1
    <3>2. CASE t # s
      <4>1. k \in Own(t) /\ down[k] # <<>>
        BY <1>0, <1>1, <2>1, <3>2 DEF Quiet, Ready
      <4>2. k \in Iface /\ k # i
        BY <3>2, <4>1, OwnIsIface
      <4>3. QED
        BY <1>0, <1>2, <4>1, <4>2
    <3>3. QED
      BY <3>1, <3>2
  <2>2. QED
    BY <2>1 DEF Ready
<1>5. TablesTrue' /\ Kept
  <2>1. TablesTrue'
    BY <1>0 DEF Quiet, TablesTrue, TrueTable, has_arp_entry, Client
  <2>2. Kept
    BY <1>0 DEF Kept, Learned, has_arp_entry, Client
  <2>3. QED
    BY <2>1, <2>2
<1>6. CachesLearned'
  <2>1. ASSUME NEW t \in Station, NEW a \in Ip, has_mapping(arp'[t], a)
        PROVE  /\ arp'[t][a].age <= now
               /\ \E k \in Iface :
                    ip_addr[k] = a /\ mac_addr[k] = arp'[t][a].mac /\ Learned(k)
    <3>1. CASE t # s
      <4>1. arp'[t] = arp[t]
        BY <1>0, <3>1 DEF CacheAfter
      <4>2. QED
        BY <2>1, <4>1 DEF Quiet, CachesLearned, TrueMappings
    <3>2. CASE t = s
      <4>1. arp'[s] = c \/ arp'[s] = monitor_cache(c)
        BY <1>0 DEF CacheAfter
      <4>2. has_mapping(c, a) /\ arp'[s][a] = c[a]
        BY <2>1, <3>2, <4>1 DEF monitor_cache, has_mapping
      <4>3. QED
        BY <3>2, <4>2 DEF TrueMappings
    <3>3. QED
      BY <3>1, <3>2
  <2>2. QED
    BY <1>5, <2>1 DEF CachesLearned, TrueMappings, Kept, has_mapping
<1>7. QED
  BY <1>2, <1>3, <1>4, <1>5, <1>6 DEF Quiet, Takes

(* Writing succeeds. *)
LEMMA CalmWrite ==
  ASSUME NInv, Quiet, NEW s, NEW rest, NEW out, DOMAIN out \subseteq Iface,
         Write(s, rest, out)
  PROVE  up' = UpAfterWrite(out) /\ down' = rest /\ UNCHANGED <<sock, running>>
<1>1. /\ \A i \in Iface : sock[i] = "open"
      /\ sock \in [Iface -> SockState]
  BY DEF Quiet, Calm, NInv, IInv, TypeOK, SocketsTypeOK
<1>2. SockAfterSend(DOMAIN out) = sock
  BY <1>1 DEF SockAfterSend
<1>3. QED
  BY <1>1, <1>2 DEF Write

(* A turn that writes one frame appends it to one connection. *)
LEMMA CalmEmit ==
  ASSUME NInv, Quiet, NEW s, NEW rest, NEW i \in Iface, NEW out, DOMAIN out = {i},
         Write(s, rest, out)
  PROVE  Emits(i, out[i]) /\ down' = rest /\ UNCHANGED <<sock, running>>
<1>1. up' = UpAfterWrite(out) /\ down' = rest /\ UNCHANGED <<sock, running>>
  BY CalmWrite
<1>2. sock[i] = "open" /\ up \in [Iface -> Seq(EtherPkt)]
  BY DEF Quiet, Calm, NInv, IInv, TypeOK, SocketsTypeOK
<1>3. UpAfterWrite(out) = [up EXCEPT ![i] = Append(@, out[i])]
  BY <1>2 DEF UpAfterWrite
<1>4. QED
  BY <1>1, <1>3 DEF Emits

(* send_ether_pkt() finds the next neighbour on the way. *)
LEMMA CalmSend ==
  ASSUME NInv, Quiet, WellConfigured, NEW s \in Station, NEW rest,
         NEW src \in Ip, NEW dst \in Hosts, NEW d \in Data,
         send_ether_pkt(s, rest, src, dst, d)
  PROVE  /\ \E k \in Iface : Departs(s, dst, d, k)
         /\ down' = rest /\ UNCHANGED <<sock, running>>
<1> DEFINE i   == route[s][dst].iface
           hop == NextHopIp(s, dst)
<1>1. PICK k \in Iface : LeadsTo(s, dst, k)
  BY DEF WellConfigured
<1>2. /\ i \in Own(s) /\ i \in Iface /\ i # NoIface
      /\ ip_addr[k] = hop /\ hop \in Ip /\ dst \in Ip /\ ip_addr[i] \in Ip
  BY <1>1, OwnIsIface, PacketsAssumption, StationAssumption DEF LeadsTo
<1>3. CASE has_mapping(arp[s], hop)
  <2> DEFINE f   == IpFrame(mac_addr[i], arp[s][hop].mac, create_pkt(ip_addr[i], dst, d))
             out == [x \in {i} |-> f]
  <2>1. Write(s, rest, out) /\ UNCHANGED pq
    BY <1>2, <1>3, Zenon DEF send_ether_pkt
  <2>2. arp[s][hop].mac = mac_addr[k] /\ Learned(k)
    <3>1. PICK n \in Iface : ip_addr[n] = hop /\ mac_addr[n] = arp[s][hop].mac /\ Learned(n)
      BY <1>2, <1>3 DEF Quiet, CachesLearned, TrueMappings
    <3>2. n = k
      BY <1>2, <3>1, AddressesDiffer
    <3>3. QED
      BY <3>1, <3>2
  <2>3. Emits(i, f) /\ down' = rest /\ UNCHANGED <<sock, running>>
    <3>1. DOMAIN out = {i} /\ out[i] = f
      OBVIOUS
    <3> HIDE DEF out
    <3>2. QED
      BY <1>2, <2>1, <3>1, CalmEmit
  <2>4. Departs(s, dst, d, k)
    BY <1>1, <1>2, <2>1, <2>2, <2>3 DEF Departs
  <2>5. QED
    BY <2>3, <2>4
<1>4. CASE ~has_mapping(arp[s], hop)
  <2> DEFINE p == [next_hop_ipaddr |-> hop, dst_ipaddr |-> dst,
                   src_ipaddr |-> IF is_router[s] THEN src ELSE ip_addr[i],
                   iface_name |-> i, data |-> d]
             f == ArpFrame(mac_addr[i], NoMac, create_req_pkt(i, hop))
             out == [x \in {i} |-> f]
  <2>1. /\ Write(s, rest, out)
        /\ pq' = [pq EXCEPT ![s] = Append(@, p)]
    BY <1>2, <1>4, Zenon DEF send_ether_pkt
  <2>2. p \in PendingPkt
    BY <1>2 DEF PendingPkt
  <2>3. /\ p.iface_name = i /\ p.next_hop_ipaddr = ip_addr[k]
        /\ p.dst_ipaddr = dst /\ p.data = d
    BY <1>2
  <2>4. f = RequestFor(i, ip_addr[k])
    BY <1>2 DEF RequestFor
  <2> HIDE DEF p, f
  <2>5. Emits(i, f) /\ down' = rest /\ UNCHANGED <<sock, running>>
    <3>1. DOMAIN out = {i} /\ out[i] = f
      OBVIOUS
    <3> HIDE DEF out
    <3>2. QED
      BY <1>2, <2>1, <3>1, CalmEmit
  <2>6. Departs(s, dst, d, k)
    BY <1>1, <2>1, <2>2, <2>3, <2>4, <2>5 DEF Departs
  <2>7. QED
    BY <2>5, <2>6
<1>5. QED
  BY <1>3, <1>4

(* A mapping copied from a frame that came in is true. *)
LEMMA CopiedMapping ==
  ASSUME Quiet, WellConfigured, NothingExpires, NInv, NEW s \in Station,
         NEW k \in Iface, Learned(k)
  PROVE  TrueMappings(add_mapping(arp[s], ip_addr[k], mac_addr[k]))
<1> DEFINE e == [mac |-> mac_addr[k], age |-> 0]
<1>0. /\ arp[s] \in Cache /\ ip_addr[k] \in Ip /\ now \in Nat
      /\ e.mac = mac_addr[k] /\ e.age = 0
  BY AddressesDiffer, NetworkAssumption DEF NInv, StationTypeOK, Cache, UsersTypeOK
<1>1. TrueMappings(arp[s])
  BY DEF Quiet, CachesLearned
<1>2. add_mapping(arp[s], ip_addr[k], mac_addr[k]) \in
        {arp[s], [arp[s] EXCEPT ![ip_addr[k]] = e]}
  BY DEF add_mapping
<1> HIDE DEF e
<1>3. TrueMappings([arp[s] EXCEPT ![ip_addr[k]] = e])
  <2>1. ASSUME NEW a \in Ip, has_mapping([arp[s] EXCEPT ![ip_addr[k]] = e], a)
        PROVE  /\ [arp[s] EXCEPT ![ip_addr[k]] = e][a].age <= now
               /\ \E n \in Iface :
                    /\ ip_addr[n] = a
                    /\ mac_addr[n] = [arp[s] EXCEPT ![ip_addr[k]] = e][a].mac
                    /\ Learned(n)
    <3>1. CASE a = ip_addr[k]
      BY <1>0, <3>1 DEF Cache
    <3>2. CASE a # ip_addr[k]
      <4>1. [arp[s] EXCEPT ![ip_addr[k]] = e][a] = arp[s][a]
        BY <1>0, <3>2 DEF Cache
      <4>2. QED
        BY <1>1, <2>1, <4>1 DEF TrueMappings, has_mapping
    <3>3. QED
      BY <3>1, <3>2
  <2>2. QED
    BY <2>1, Zenon DEF TrueMappings
<1>4. QED
  BY <1>1, <1>2, <1>3

(* The frame a station handles is one it may hear. *)
LEMMA HandledHeard ==
  ASSUME NInv, YInv, NEW s \in Station, NEW i \in Own(s), Handles(s, i)
  PROVE  /\ i \in Iface /\ HasFrame(s, i) /\ Frame(s, i) = Head(down[i])
         /\ Frame(s, i) \in Heard(i) /\ Frame(s, i) \in EtherPkt
<1>1. IsShareOf(s, i)
  BY DEF Handles
<1>2. i \in Iface /\ down[i] # <<>> /\ HasFrame(s, i) /\ Frame(s, i) = Head(down[i])
  BY <1>1, CalmTurn DEF YInv
<1>3. QED
  BY <1>2, NextDown DEF YInv

(* A request is answered by the interface it asks for and dropped by the   *)
(* others.                                                                 *)
LEMMA RequestEvent ==
  ASSUME NInv, YInv, WellConfigured, NothingExpires, NEW s \in Station, NEW i \in Own(s),
         ArpRequest(s, i), UNCHANGED bridgeVars, UNCHANGED userVars
  PROVE  (Answered(i) \/ Dropped(s, i)) /\ Quiet' /\ Kept
<1> DEFINE f     == Frame(s, i)
           asked == {k \in Own(s) : ip_addr[k] = f.arp_pkt.dst_ip}
           out   == [k \in asked |-> ArpFrame(mac_addr[k], f.mac_src,
                       create_resp_pkt(f.arp_pkt, ip_addr[k], mac_addr[k]))]
           c     == IF asked = {} THEN arp[s]
                    ELSE add_mapping(arp[s], f.arp_pkt.src_ip, f.arp_pkt.src_mac)
<1>1. /\ Handles(s, i) /\ IsRequest(f)
      /\ CacheAfter(s, i, c) /\ Write(s, Rest(s, i), out)
      /\ UNCHANGED <<backlog, quit, pq, console_eof, shown>>
  BY DEF ArpRequest
<1>2. i \in Iface /\ f = Head(down[i]) /\ f \in Heard(i)
  BY <1>1, HandledHeard
<1>3. PICK k \in Iface : f \in Sound(k) /\ Learned(k) /\ lan_name[k] = lan_name[i]
  BY <1>2, HeardFields
<1>4. SoundRequest(k, f)
  BY <1>1, <1>3, SoundFields
<1>5. asked \subseteq {i}
  <2>1. PICK n \in Iface : lan_name[n] = lan_name[k] /\ f.arp_pkt.dst_ip = ip_addr[n]
    BY <1>4 DEF SoundRequest, OnLan
  <2>2. ASSUME NEW x \in asked
        PROVE  x = i
    <3>1. x \in Own(s) /\ x \in Iface /\ ip_addr[x] = ip_addr[n]
      BY <2>1, OwnIsIface
    <3>2. x = n
      BY <3>1, AddressesDiffer
    <3>3. lan_name[x] = lan_name[i]
      BY <1>3, <2>1, <3>2
    <3>4. QED
      BY <3>1, <3>3 DEF WellConfigured
  <2>3. QED
    BY <2>2
<1>6. TrueMappings(c)
  <2>1. TrueMappings(arp[s])
    BY DEF YInv, Quiet, CachesLearned
  <2>2. TrueMappings(add_mapping(arp[s], f.arp_pkt.src_ip, f.arp_pkt.src_mac))
    <3>1. f.arp_pkt.src_ip = ip_addr[k] /\ f.arp_pkt.src_mac = mac_addr[k]
      BY <1>4 DEF SoundRequest
    <3>2. QED
      BY <1>3, <3>1, CopiedMapping DEF YInv
  <2>3. QED
    BY <2>1, <2>2
<1>7. DOMAIN out = asked
  OBVIOUS
<1>8. i \in asked => out[i] = AnswerTo(i, f)
  BY DEF AnswerTo
<1>9. i \in asked <=> f.arp_pkt.dst_ip = ip_addr[i]
  OBVIOUS
<1> HIDE DEF f, asked, out, c
<1>10. up' = UpAfterWrite(out) /\ down' = Rest(s, i) /\ UNCHANGED <<sock, running>>
  BY <1>1, <1>2, <1>5, <1>7, CalmWrite DEF YInv
<1>11. Quiet' /\ Kept /\ Takes(i)
  BY <1>1, <1>6, <1>10, HandlingIsQuiet DEF YInv, userVars
<1>12. UNCHANGED sent
  BY DEF userVars
<1>13. CASE i \in asked
  <2>1. DOMAIN out = {i}
    BY <1>5, <1>7, <1>13
  <2>2. Emits(i, out[i])
    BY <1>1, <1>2, <2>1, CalmEmit DEF YInv
  <2>3. Answered(i)
    BY <1>1, <1>2, <1>8, <1>9, <1>11, <1>12, <1>13, <2>2 DEF Answered
  <2>4. QED
    BY <1>11, <2>3
<1>14. CASE i \notin asked
  <2>1. DOMAIN out = {}
    BY <1>5, <1>7, <1>14
  <2>2. up' = up
    BY <1>10, <2>1 DEF UpAfterWrite, NInv, IInv, TypeOK, SocketsTypeOK
  <2>3. Dropped(s, i)
    BY <1>1, <1>2, <1>9, <1>11, <1>12, <1>14, <2>2 DEF Dropped
  <2>4. QED
    BY <1>11, <2>3
<1>15. QED
  BY <1>13, <1>14

(* Who waits for the answer of k is an interface on the LAN of k. *)
LEMMA WaitsNearby ==
  ASSUME YInv, WellConfigured, NEW s \in Station, NEW n \in DOMAIN pq[s], NEW k \in Iface,
         pq[s][n].next_hop_ipaddr = ip_addr[k]
  PROVE  /\ pq[s][n] \in PendingPkt
         /\ pq[s][n].iface_name \in Own(s)
         /\ lan_name[pq[s][n].iface_name] = lan_name[k]
<1> DEFINE p == pq[s][n]
<1>1. p \in SoundPending(s)
  BY ElementOfSeq, LenProperties DEF YInv, Flows
<1>2. /\ p \in PendingPkt /\ p.iface_name = route[s][p.dst_ipaddr].iface
      /\ p.next_hop_ipaddr = NextHopIp(s, p.dst_ipaddr)
      /\ SentTo(p.data, p.dst_ipaddr)
  BY <1>1 DEF SoundPending
<1>3. p.dst_ipaddr \in Hosts
  BY <1>2 DEF SentTo, YInv, Flows
<1>4. PICK m \in Iface : LeadsTo(s, p.dst_ipaddr, m)
  BY <1>3 DEF WellConfigured
<1>5. m = k
  BY <1>2, <1>4, AddressesDiffer DEF LeadsTo
<1>6. QED
  BY <1>2, <1>4, <1>5 DEF LeadsTo, OnLan

(* A response finds a packet that has been waiting for it. *)
LEMMA ResponseEvent ==
  ASSUME NInv, YInv, WellConfigured, NothingExpires, NEW s \in Station, NEW i \in Own(s),
         ArpResponse(s, i), UNCHANGED bridgeVars, UNCHANGED userVars
  PROVE  (\E n \in DOMAIN pq[s] : Unpended(s, i, n)) /\ Quiet' /\ Kept
<1> DEFINE f   == Frame(s, i)
           n   == Min(Waiting(s, f.arp_pkt))
           c   == add_mapping(arp[s], f.arp_pkt.src_ip, f.arp_pkt.src_mac)
           out == [k \in {i} |-> Released(s, pq[s][n], f.arp_pkt.src_mac)]
<1>1. /\ Handles(s, i) /\ IsResponse(f)
      /\ Waiting(s, f.arp_pkt) # {}
      /\ CacheAfter(s, i, c) /\ Write(s, Rest(s, i), out)
      /\ pq' = [pq EXCEPT ![s] = RemoveAt(pq[s], n)]
      /\ UNCHANGED <<backlog, quit, console_eof, shown>>
  BY DEF ArpResponse, PendingWithout
<1>2. i \in Iface /\ f = Head(down[i]) /\ f \in Heard(i)
  BY <1>1, HandledHeard
<1>3. PICK k \in Iface : f \in Sound(k) /\ Learned(k) /\ lan_name[k] = lan_name[i]
  BY <1>2, HeardFields
<1>4. f.arp_pkt.src_ip = ip_addr[k] /\ f.arp_pkt.src_mac = mac_addr[k]
  BY <1>1, <1>3, SoundFields DEF SoundResponse
<1>5. /\ n \in DOMAIN pq[s]
      /\ pq[s][n].next_hop_ipaddr = f.arp_pkt.src_ip
  <2>1. DOMAIN pq[s] \subseteq Nat
    BY LenProperties DEF NInv, StationTypeOK
  <2>2. Waiting(s, f.arp_pkt) \in SUBSET Nat
    BY <2>1 DEF Waiting
  <2>3. n \in Waiting(s, f.arp_pkt)
    BY <1>1, <2>2, MinIsMember
  <2>4. QED
    BY <2>3 DEF Waiting
<1> HIDE DEF n
<1>6. pq[s][n].iface_name = i
  <2>1. pq[s][n].iface_name \in Own(s) /\ lan_name[pq[s][n].iface_name] = lan_name[i]
    BY <1>3, <1>4, <1>5, WaitsNearby
  <2>2. QED
    BY <2>1 DEF WellConfigured
<1>7. TrueMappings(c)
  BY <1>3, <1>4, CopiedMapping DEF YInv
<1>8. DOMAIN out = {i} /\ out[i] = Released(s, pq[s][n], f.arp_pkt.src_mac)
  OBVIOUS
<1> HIDE DEF f, out, c
<1>9. Emits(i, out[i]) /\ down' = Rest(s, i) /\ UNCHANGED <<sock, running>>
  BY <1>1, <1>2, <1>8, CalmEmit DEF YInv
<1>10. Quiet' /\ Kept /\ Takes(i)
  BY <1>1, <1>7, <1>9, HandlingIsQuiet DEF YInv, userVars
<1>11. UNCHANGED <<shown, sent>>
  BY <1>1 DEF userVars
<1>12. pq' = [pq EXCEPT ![s] = RemoveAt(@, n)]
  BY <1>1
<1>13. Unpended(s, i, n)
  BY <1>1, <1>2, <1>5, <1>6, <1>8, <1>9, <1>10, <1>11, <1>12 DEF Unpended
<1>14. QED
  BY <1>5, <1>10, <1>13

(* Whoever hears a packet has a use for it. *)
LEMMA HeardPacket ==
  ASSUME NInv, YInv, WellConfigured, NEW s \in Station, NEW i \in Own(s), Handles(s, i),
         IsIp(Frame(s, i))
  PROVE  LET p == Frame(s, i).ip_pkt
         IN  /\ p \in IpPkt /\ SentTo(p.data, p.dst_ip) /\ p.dst_ip \in Hosts
             /\ is_router[s] \/ is_intended_ip_destination(s, p.dst_ip)
<1> DEFINE f == Frame(s, i)
<1>1. i \in Iface /\ f \in Heard(i) /\ f \in EtherPkt
  BY HandledHeard
<1>2. SentTo(f.ip_pkt.data, f.ip_pkt.dst_ip) /\ Serving(i, f.ip_pkt.dst_ip)
  BY <1>1, HeardFields
<1>3. is_router[s] \/ is_intended_ip_destination(s, f.ip_pkt.dst_ip)
  BY <1>2, OwnIsIface DEF Serving
<1>4. f.ip_pkt \in IpPkt
  BY <1>1, FrameKinds
<1>5. f.ip_pkt.dst_ip \in Hosts
  BY <1>2 DEF SentTo, YInv, Flows
<1>6. QED
  BY <1>2, <1>3, <1>4, <1>5

(* A packet is shown at its destination and passed on by a router; only    *)
(* what is not an IP packet is ignored.                                    *)
LEMMA PacketEvents ==
  ASSUME NInv, YInv, WellConfigured, NothingExpires, NEW s \in Station, NEW i \in Own(s),
         Deliver(s, i) \/ Forward(s, i) \/ Ignore(s, i),
         UNCHANGED bridgeVars, UNCHANGED userVars
  PROVE  (Forwarded(s, i) \/ Delivered(s, i) \/ Dropped(s, i)) /\ Quiet' /\ Kept
<1> DEFINE f == Frame(s, i)
<1>1. /\ Handles(s, i) /\ CacheAfter(s, i, arp[s])
      /\ UNCHANGED <<quit, console_eof, now, sent>>
  BY DEF Deliver, Forward, Ignore, userVars
<1>2. i \in Iface /\ f = Head(down[i]) /\ f \in Heard(i) /\ f \in EtherPkt
  BY <1>1, HandledHeard
<1>3. TrueMappings(arp[s])
  BY DEF YInv, Quiet, CachesLearned
<1> HIDE DEF f
<1>4. CASE Deliver(s, i)
  <2>1. /\ IsIp(f) /\ is_intended_ip_destination(s, f.ip_pkt.dst_ip)
        /\ shown' = [shown EXCEPT ![s] = Append(@, f.ip_pkt)]
        /\ down' = Rest(s, i) /\ UNCHANGED <<sock, up, running, pq>>
    BY <1>4 DEF Deliver, f
  <2>2. Quiet' /\ Kept /\ Takes(i)
    BY <1>1, <1>3, <2>1, HandlingIsQuiet DEF YInv
  <2>3. QED
    BY <1>1, <1>2, <2>1, <2>2 DEF Delivered
<1>5. CASE Forward(s, i)
  <2>1. /\ IsIp(f)
        /\ send_ether_pkt(s, Rest(s, i), f.ip_pkt.src_ip, f.ip_pkt.dst_ip, f.ip_pkt.data)
        /\ UNCHANGED shown
    BY <1>5 DEF Forward, f
  <2>2. /\ f.ip_pkt.src_ip \in Ip /\ f.ip_pkt.dst_ip \in Hosts /\ f.ip_pkt.data \in Data
    BY <1>1, <1>2, <2>1, HeardPacket, FrameKinds DEF f
  <2>3. /\ \E k \in Iface : Departs(s, f.ip_pkt.dst_ip, f.ip_pkt.data, k)
        /\ down' = Rest(s, i) /\ UNCHANGED <<sock, running>>
    BY <2>1, <2>2, CalmSend DEF YInv
  <2>4. Quiet' /\ Kept /\ Takes(i)
    BY <1>1, <1>3, <2>3, HandlingIsQuiet DEF YInv
  <2>5. QED
    BY <1>1, <1>2, <2>1, <2>3, <2>4 DEF Forwarded
<1>6. CASE Ignore(s, i)
  <2>1. /\ \/ IsResponse(f) /\ Waiting(s, f.arp_pkt) = {}
           \/ /\ IsIp(f) /\ ~is_intended_ip_destination(s, f.ip_pkt.dst_ip)
              /\ ~is_router[s]
        /\ down' = Rest(s, i) /\ UNCHANGED <<sock, up, running, pq, shown>>
    BY <1>6 DEF Ignore, f
  <2>2. Quiet' /\ Kept /\ Takes(i)
    BY <1>1, <1>3, <2>1, HandlingIsQuiet DEF YInv
  <2>3. IsResponse(f) /\ Waiting(s, f.arp_pkt) = {}
    BY <1>1, <2>1, HeardPacket DEF f
  <2>4. is_intended_ip_destination(s, f.arp_pkt.dst_ip)
    BY <1>2, <2>3, HeardFields DEF is_intended_ip_destination
  <2>5. \A n \in DOMAIN pq[s] : pq[s][n].next_hop_ipaddr # f.arp_pkt.src_ip
    BY <2>3, <2>4 DEF Waiting
  <2>6. QED
    BY <1>1, <1>2, <2>1, <2>2, <2>3, <2>5 DEF Dropped
<1>7. QED
  BY <1>4, <1>5, <1>6

(* What stations do in their turns. *)
LEMMA StationEvent ==
  ASSUME NInv, YInv, WellConfigured, NothingExpires, NEW s \in Station, StationTurn(s)
  PROVE  Event /\ Quiet' /\ Kept
<1>1. StationStep(s) /\ UNCHANGED bridgeVars /\ UNCHANGED userVars
  BY DEF StationTurn
<1>2. ~Leave(s)
  BY DEF Leave, YInv, Quiet, Calm
<1>3. ASSUME NEW i \in Own(s)
      PROVE  ~ReadEof(s, i) /\ ~HandleAgain(s, i) /\ ~ReadError(s, i)
  <2>1. IsShareOf(s, i) => HasFrame(s, i)
    BY CalmTurn DEF YInv
  <2>2. QED
    BY <2>1 DEF ReadEof, HandleAgain, ReadError, Handles
<1>4. ASSUME NEW i \in Own(s), ArpRequest(s, i)
      PROVE  Event /\ Quiet' /\ Kept
  BY <1>1, <1>4, RequestEvent DEF Event
<1>5. ASSUME NEW i \in Own(s), ArpResponse(s, i)
      PROVE  Event /\ Quiet' /\ Kept
  BY <1>1, <1>5, ResponseEvent DEF Event
<1>6. ASSUME NEW i \in Own(s), Deliver(s, i) \/ Forward(s, i) \/ Ignore(s, i)
      PROVE  Event /\ Quiet' /\ Kept
  BY <1>1, <1>6, PacketEvents DEF Event
<1>7. QED
  BY <1>1, <1>2, <1>3, <1>4, <1>5, <1>6 DEF StationStep
-----------------------------------------------------------------------------
(* Users and the clock. *)

(* A turn of a console that begins the next turn of its station. *)
LEMMA ConsoleIsQuiet ==
  ASSUME NInv, Quiet, NEW s \in Station,
         arp' = [arp EXCEPT ![s] = monitor_cache(@)],
         UNCHANGED <<sock, down, running, quit, read_set, again, console_eof, now>>,
         UNCHANGED bridgeVars
  PROVE  Quiet' /\ Kept
<1>0. UNCHANGED <<alive, clients, btable, peer, stdin_eof>> /\ arp \in [Station -> Cache]
  BY DEF bridgeVars, NInv, StationTypeOK, Cache
<1>1. Calm' /\ Ready' /\ Served'
  BY <1>0 DEF Quiet, Calm, Ready, Served, Client
<1>2. TablesTrue'
  BY <1>0 DEF Quiet, TablesTrue, TrueTable, has_arp_entry, Client
<1>3. \A k \in Iface : Learned(k)' <=> Learned(k)
  BY <1>0 DEF Learned, has_arp_entry, Client
<1>4. ASSUME NEW t \in Station, NEW a \in Ip, has_mapping(arp'[t], a)
      PROVE  has_mapping(arp[t], a) /\ arp'[t][a] = arp[t][a]
  BY <1>0, <1>4 DEF monitor_cache, has_mapping
<1>5. CachesLearned'
  BY <1>3, <1>4 DEF Quiet, CachesLearned, TrueMappings, has_mapping
<1>6. QED
  BY <1>1, <1>2, <1>3, <1>5 DEF Quiet, Kept

(* What a user sends departs. *)
LEMMA SendEvent ==
  ASSUME NInv, YInv, WellConfigured, NEW s \in Station, NEW dst \in Ip, NEW d \in Data,
         UserSends(s, dst, d)
  PROVE  Submitted(s, dst, d) /\ Quiet' /\ Kept
<1>1. /\ \A m \in sent : m.data # d
      /\ dst \in Hosts /\ send_ether_pkt(s, down, dst, dst, d)
      /\ arp' = [arp EXCEPT ![s] = monitor_cache(@)]
      /\ UNCHANGED <<quit, read_set, again, console_eof, shown, now>>
      /\ sent' = sent \cup {[from |-> s, dst |-> dst, data |-> d]}
      /\ UNCHANGED bridgeVars
  BY DEF UserSends, send_cmd
<1>2. /\ \E k \in Iface : Departs(s, dst, d, k)
      /\ UNCHANGED down /\ UNCHANGED <<sock, running>>
  BY <1>1, CalmSend DEF YInv
<1>3. Quiet' /\ Kept
  BY <1>1, <1>2, ConsoleIsQuiet DEF YInv
<1>4. QED
  BY <1>1, <1>2, <1>3 DEF Submitted

(* The clock makes nothing older than the network. *)
LEMMA TickIsQuiet ==
  ASSUME NInv, YInv, NetworkTick
  PROVE  Quiet' /\ Kept
<1>0. /\ now \in Nat /\ now' = now + 1 /\ AgeTables /\ AgeMappings
      /\ UNCHANGED <<sock, down, alive, clients, peer, stdin_eof, running, quit, read_set,
                     again, console_eof>>
      /\ btable \in [Lan -> Table] /\ arp \in [Station -> Cache]
  BY NetworkAssumption DEF NetworkTick, sockVars, NInv, UsersTypeOK, IInv, TypeOK,
     BridgeTypeOK, Table, StationTypeOK, Cache
<1>1. Calm' /\ Ready' /\ Served'
  BY <1>0 DEF YInv, Quiet, Calm, Ready, Served, Client
<1>2. ASSUME NEW b \in Lan, NEW j \in DOMAIN clients[b], NEW m \in AnyMac
      PROVE  /\ has_arp_entry(btable'[b], clients[b][j], m) <=>
                  has_arp_entry(btable[b], clients[b][j], m)
             /\ has_arp_entry(btable[b], clients[b][j], m) =>
                  /\ m = mac_addr[Client(b, j)]
                  /\ btable'[b][clients[b][j]][m] <= now'
  <2> DEFINE e == btable[b][clients[b][j]][m]
  <2>1. clients[b][j] \in Fd
    BY ServedClient DEF NInv
  <2>2. e \in Age \cup {Absent} /\ ArpTime \in Nat
    BY <1>0, <2>1, BridgeAssumption DEF Table
  <2>3. btable'[b][clients[b][j]][m] =
          IF e \in 0 .. ArpTime THEN e + 1 ELSE e
    BY <1>0, <2>1 DEF AgeTables, Older
  <2>4. e # Absent => m = mac_addr[Client(b, j)] /\ e <= now
    BY DEF YInv, Quiet, TablesTrue, TrueTable, has_arp_entry
  <2>5. QED
    BY <1>0, <2>2, <2>3, <2>4 DEF has_arp_entry, Age, Absent
<1>3. TablesTrue' /\ Kept
  BY <1>0, <1>2, TablesGrow
<1>4. ASSUME NEW s \in Station, NEW a \in Ip, has_mapping(arp'[s], a)
      PROVE  /\ has_mapping(arp[s], a)
             /\ arp'[s][a].mac = arp[s][a].mac /\ arp'[s][a].age <= now'
  <2> DEFINE e == arp[s][a]
  <2>1. arp'[s][a] = IF has_mapping(arp[s], a) /\ e.age < MaxTime
                     THEN [e EXCEPT !.age = @ + 1] ELSE e
    BY <1>0 DEF AgeMappings
  <2>2. has_mapping(arp[s], a)
    BY <1>4, <2>1 DEF has_mapping
  <2>3. e \in CacheContent /\ e.age \in 0 .. MaxTime /\ MaxTime \in Nat
    BY <1>0, <2>2, StationAssumption DEF Cache, has_mapping, CacheContent
  <2>4. e.age <= now
    BY <2>2 DEF YInv, Quiet, CachesLearned, TrueMappings
  <2>5. /\ [e EXCEPT !.age = @ + 1].mac = e.mac
        /\ [e EXCEPT !.age = @ + 1].age = e.age + 1
    BY <2>3 DEF CacheContent
  <2>6. QED
    BY <1>0, <2>1, <2>2, <2>3, <2>4, <2>5
<1>5. CachesLearned'
  BY <1>3, <1>4 DEF YInv, Quiet, CachesLearned, TrueMappings, Kept, has_mapping
<1>6. QED
  BY <1>1, <1>3, <1>5 DEF Quiet

(* Nothing else can happen. *)
LEMMA YoungStep ==
  ASSUME NInv, YInv, WellConfigured, NothingExpires, [NetworkNext]_networkVars
  PROVE  Event /\ Quiet' /\ Kept
<1>1. ASSUME NEW s \in Station, NEW dst \in Ip, NEW d \in Data, UserSends(s, dst, d)
      PROVE  Event /\ Quiet' /\ Kept
  BY <1>1, SendEvent DEF Event
<1>2. ~UserStops
  BY DEF UserStops, NothingExpires, NInv, UsersTypeOK
<1>3. CASE UserLooks
  <2>1. UNCHANGED userVars
    BY <1>3 DEF UserLooks
  <2>2. ASSUME NEW b \in Lan, Console(b), UNCHANGED stationVars
        PROVE  Event /\ Quiet' /\ Kept
    BY <2>1, <2>2, BridgeEvent
  <2>3. ASSUME NEW s \in Station, OtherCommand(s), UNCHANGED bridgeVars
        PROVE  Event /\ Quiet' /\ Kept
    <3>1. /\ arp' = [arp EXCEPT ![s] = monitor_cache(@)]
          /\ UNCHANGED <<sock, up, down, running, quit, read_set, again, pq, console_eof,
                         shown, sent, now>>
      BY <2>1, <2>3 DEF OtherCommand, sockVars, userVars
    <3>2. Quiet' /\ Kept
      BY <2>3, <3>1, ConsoleIsQuiet DEF YInv
    <3>3. QED
      BY <3>1, <3>2 DEF Event, flowVars
  <2>4. QED
    BY <1>3, <2>2, <2>3 DEF UserLooks
<1>4. ASSUME NEW b \in Lan, BridgeTurn(b)
      PROVE  Event /\ Quiet' /\ Kept
  BY <1>4, BridgeEvent DEF BridgeTurn
<1>5. ASSUME NEW s \in Station, StationTurn(s)
      PROVE  Event /\ Quiet' /\ Kept
  BY <1>5, StationEvent
<1>6. CASE NetworkTick
  <2>1. UNCHANGED flowVars
    BY <1>6 DEF NetworkTick, sockVars, flowVars
  <2>2. QED
    BY <1>6, <2>1, TickIsQuiet DEF Event
<1>7. CASE UNCHANGED networkVars
  <2>1. /\ UNCHANGED flowVars
        /\ UNCHANGED <<sock, down, alive, clients, btable, peer, stdin_eof, running, quit,
                       read_set, again, console_eof, arp, now>>
    BY <1>7 DEF networkVars, sockVars, bridgeVars, stationVars, userVars, flowVars
  <2>2. Calm' /\ Ready' /\ Served' /\ Kept
    BY <2>1 DEF YInv, Quiet, Calm, Ready, Served, Kept, Learned, has_arp_entry, Client
  <2>3. TablesTrue'
    BY <2>1 DEF YInv, Quiet, TablesTrue, TrueTable, has_arp_entry, Client
  <2>4. CachesLearned'
    BY <2>1, <2>2, MappingsStay DEF YInv, Quiet
  <2>5. QED
    BY <2>1, <2>2, <2>3, <2>4 DEF Event, Quiet
<1>8. QED
  BY <1>1, <1>2, <1>3, <1>4, <1>5, <1>6, <1>7 DEF NetworkNext
-----------------------------------------------------------------------------
(* What is on its way stays sound. *)

(* What was sound before stays sound: nothing learned is forgotten and     *)
(* nothing sent is unsent.                                                 *)
LEMMA SoundStays ==
  ASSUME Kept, sent \subseteq sent'
  PROVE  /\ \A i \in Iface : Sound(i) \subseteq Sound(i)' /\ Heard(i) \subseteq Heard(i)'
         /\ \A s \in Station : SoundPending(s) \subseteq SoundPending(s)'
         /\ SentPacket \subseteq SentPacket'
<1>1. \A d, a : SentTo(d, a) => SentTo(d, a)'
  BY DEF SentTo
<1>2. \A k \in Iface : Learned(k) => Learned(k)'
  BY DEF Kept
<1>3. ASSUME NEW i \in Iface, NEW f \in EtherPkt
      PROVE  /\ SoundRequest(i, f) => SoundRequest(i, f)'
             /\ SoundResponse(i, f) => SoundResponse(i, f)'
             /\ SoundPacket(i, f) => SoundPacket(i, f)'
  <2>1. SoundRequest(i, f) => SoundRequest(i, f)'
    BY DEF SoundRequest
  <2>2. SoundResponse(i, f) => SoundResponse(i, f)'
    BY <1>2 DEF SoundResponse, OnLan
  <2>3. SoundPacket(i, f) => SoundPacket(i, f)'
    BY <1>1, <1>2 DEF SoundPacket, OnLan, Serving
  <2>4. QED
    BY <2>1, <2>2, <2>3
<1>4. \A i \in Iface : Sound(i) \subseteq Sound(i)'
  BY <1>3 DEF Sound
<1>5. \A i \in Iface : Heard(i) \subseteq Heard(i)'
  BY <1>2, <1>4 DEF Heard, Addressees
<1>6. \A s \in Station : SoundPending(s) \subseteq SoundPending(s)'
  BY <1>1 DEF SoundPending
<1>7. SentPacket \subseteq SentPacket'
  BY <1>1 DEF SentPacket
<1>8. QED
  BY <1>4, <1>5, <1>6, <1>7

(* So a queue that is as it was, or has lost its head, is. *)
LEMMA OldFlows ==
  ASSUME Flows, Kept, sent \subseteq sent'
  PROVE  /\ \A i \in Iface : /\ up[i] \in Seq(Sound(i)') /\ down[i] \in Seq(Heard(i)')
                             /\ down[i] # <<>> => Tail(down[i]) \in Seq(Heard(i)')
                             /\ up[i] # <<>> => Tail(up[i]) \in Seq(Sound(i)')
         /\ \A s \in Station : /\ pq[s] \in Seq(SoundPending(s)')
                               /\ shown[s] \in Seq(SentPacket')
<1>1. ASSUME NEW i \in Iface
      PROVE  up[i] \in Seq(Sound(i)') /\ down[i] \in Seq(Heard(i)')
  <2>1. up[i] \in Seq(Sound(i)) /\ down[i] \in Seq(Heard(i))
    BY DEF Flows
  <2>2. Sound(i) \subseteq Sound(i)' /\ Heard(i) \subseteq Heard(i)'
    BY SoundStays
  <2>3. QED
    BY <2>1, <2>2, SeqOfMore
<1>2. ASSUME NEW s \in Station
      PROVE  pq[s] \in Seq(SoundPending(s)') /\ shown[s] \in Seq(SentPacket')
  <2>1. pq[s] \in Seq(SoundPending(s)) /\ shown[s] \in Seq(SentPacket)
    BY DEF Flows
  <2>2. SoundPending(s) \subseteq SoundPending(s)' /\ SentPacket \subseteq SentPacket'
    BY SoundStays
  <2>3. QED
    BY <2>1, <2>2, SeqOfMore
<1>3. QED
  BY <1>1, <1>2, HeadTailProperties

(* What leaves a station on the way to somebody is sound. *)
LEMMA SoundDeparture ==
  ASSUME NInv, Flows, WellConfigured, Kept, sent \subseteq sent',
         NEW s \in Station, NEW dst \in Hosts, NEW d \in Data, NEW k \in Iface,
         SentTo(d, dst)', Departs(s, dst, d, k)
  PROVE  /\ \A x \in Iface : up'[x] \in Seq(Sound(x)')
         /\ \A t \in Station : pq'[t] \in Seq(SoundPending(t)')
<1> DEFINE i == route[s][dst].iface
<1>0. /\ i \in Own(s) /\ i \in Iface /\ k \in OnLan(lan_name[i])
      /\ ip_addr[k] = NextHopIp(s, dst) /\ Serving(k, dst) /\ dst \in Ip
      /\ up \in [Iface -> Seq(EtherPkt)] /\ pq \in [Station -> Seq(PendingPkt)]
  BY OwnIsIface, StationAssumption
     DEF Departs, LeadsTo, Serving, NInv, IInv, TypeOK, SocketsTypeOK, StationTypeOK
<1>1. /\ mac_addr[i] \in Mac /\ mac_addr[k] \in AnyMac /\ ip_addr[i] \in Ip
      /\ ip_addr[k] \in Ip /\ NoMac \in AnyMac /\ mac_addr[i] \in AnyMac
  BY <1>0, PacketsAssumption DEF AnyMac
<1>2. ASSUME NEW f \in Sound(i)', Emits(i, f), NEW x \in Iface
      PROVE  up'[x] \in Seq(Sound(x)')
  <2>1. up[x] \in Seq(Sound(x)')
    BY OldFlows
  <2>2. up'[x] = IF x = i THEN Append(up[x], f) ELSE up[x]
    BY <1>0, <1>2 DEF Emits
  <2>3. QED
    BY <1>2, <2>1, <2>2, AppendProperties
<1>3. CASE /\ Learned(k) /\ UNCHANGED pq
           /\ \E src \in Ip :
                Emits(i, IpFrame(mac_addr[i], mac_addr[k], create_pkt(src, dst, d)))
  <2>1. PICK src \in Ip :
          Emits(i, IpFrame(mac_addr[i], mac_addr[k], create_pkt(src, dst, d)))
    BY <1>3
  <2> DEFINE f == IpFrame(mac_addr[i], mac_addr[k], create_pkt(src, dst, d))
  <2>2. f \in EtherPkt
    BY <1>0, <1>1 DEF IpFrame, EtherPkt, create_pkt, IpPkt
  <2>3. /\ f.mac_src = mac_addr[i] /\ f.mac_dst = mac_addr[k] /\ IsIp(f)
        /\ f.ip_pkt.data = d /\ f.ip_pkt.dst_ip = dst
    BY DEF IpFrame, create_pkt, IsIp
  <2> HIDE DEF f
  <2>4. Learned(k)'
    BY <1>3 DEF Kept
  <2>5. SoundPacket(i, f)'
    BY <1>0, <2>3, <2>4 DEF SoundPacket, Serving
  <2>6. f \in Sound(i)'
    BY <2>2, <2>3, <2>5 DEF Sound
  <2>7. QED
    BY <1>2, <1>3, <2>1, <2>6, OldFlows DEF f
<1>4. CASE /\ Emits(i, RequestFor(i, ip_addr[k]))
           /\ \E p \in PendingPkt :
                /\ p.iface_name = i /\ p.next_hop_ipaddr = ip_addr[k]
                /\ p.dst_ipaddr = dst /\ p.data = d
                /\ pq' = [pq EXCEPT ![s] = Append(@, p)]
  <2> DEFINE f == RequestFor(i, ip_addr[k])
  <2>1. PICK p \in PendingPkt :
          /\ p.iface_name = i /\ p.next_hop_ipaddr = ip_addr[k]
          /\ p.dst_ipaddr = dst /\ p.data = d
          /\ pq' = [pq EXCEPT ![s] = Append(@, p)]
    BY <1>4
  <2>2. f \in EtherPkt
    BY <1>1 DEF RequestFor, ArpFrame, EtherPkt, create_req_pkt, ArpPkt, ARP_REQUEST
  <2>3. /\ f.mac_src = mac_addr[i] /\ f.mac_dst = NoMac /\ IsRequest(f)
        /\ f.arp_pkt.src_ip = ip_addr[i] /\ f.arp_pkt.src_mac = mac_addr[i]
        /\ f.arp_pkt.dst_ip = ip_addr[k]
    BY DEF RequestFor, ArpFrame, create_req_pkt, IsRequest, IsArp
  <2> HIDE DEF f
  <2>4. SoundRequest(i, f)'
    BY <1>0, <2>3 DEF SoundRequest
  <2>5. f \in Sound(i)'
    BY <2>2, <2>3, <2>4 DEF Sound
  <2>6. p \in SoundPending(s)'
    BY <1>0, <2>1 DEF SoundPending
  <2>7. ASSUME NEW t \in Station
        PROVE  pq'[t] \in Seq(SoundPending(t)')
    <3>1. pq[t] \in Seq(SoundPending(t)')
      BY OldFlows
    <3>2. pq'[t] = IF t = s THEN Append(pq[t], p) ELSE pq[t]
      BY <1>0, <2>1
    <3>3. QED
      BY <2>6, <3>1, <3>2, AppendProperties
  <2>8. QED
    BY <1>2, <1>4, <2>5, <2>7 DEF f
<1>5. QED
  BY <1>3, <1>4 DEF Departs

(* An answer is sound: the bridge has learned the station that asked when  *)
(* it relayed the request.                                                 *)
LEMMA SoundAnswer ==
  ASSUME Flows, WellConfigured, Kept, sent \subseteq sent', NEW i \in Iface, Answered(i),
         NEW a, a = AnswerTo(i, Head(down[i]))
  PROVE  a \in Sound(i)'
<1> DEFINE f == Head(down[i])
<1>1. f \in Heard(i) /\ IsRequest(f)
  BY NextDown DEF Answered, Takes
<1>2. PICK k \in Iface : f \in Sound(k) /\ Learned(k) /\ lan_name[k] = lan_name[i]
  BY <1>1, HeardFields
<1>3. f.mac_src = mac_addr[k] /\ f.arp_pkt.src_ip = ip_addr[k] /\ f.arp_pkt.src_mac = mac_addr[k]
  BY <1>1, <1>2, SoundFields DEF SoundRequest
<1>4. /\ mac_addr[i] \in Mac /\ mac_addr[k] \in AnyMac
      /\ ip_addr[i] \in Ip /\ ip_addr[k] \in Ip
  BY PacketsAssumption DEF AnyMac
<1>5. a \in EtherPkt
  BY <1>3, <1>4 DEF AnswerTo, ArpFrame, EtherPkt, create_resp_pkt, ArpPkt, ARP_RESPONSE
<1>6. /\ a.mac_src = mac_addr[i] /\ a.mac_dst = mac_addr[k] /\ IsResponse(a)
      /\ a.arp_pkt.src_ip = ip_addr[i] /\ a.arp_pkt.src_mac = mac_addr[i]
      /\ a.arp_pkt.dst_ip = ip_addr[k] /\ a.arp_pkt.dst_mac = mac_addr[k]
  BY <1>3 DEF AnswerTo, ArpFrame, create_resp_pkt, IsResponse, IsArp
<1>7. SoundResponse(i, a)'
  BY <1>2, <1>6 DEF SoundResponse, OnLan, Kept
<1>8. QED
  BY <1>5, <1>6, <1>7 DEF Sound

(* A packet released by a response is sound: the bridge has learned the    *)
(* station that answered.                                                  *)
LEMMA SoundRelease ==
  ASSUME YInv, WellConfigured, Kept, sent \subseteq sent', NEW s \in Station,
         NEW i \in Own(s), NEW n \in DOMAIN pq[s], Unpended(s, i, n),
         NEW p, p = pq[s][n],
         NEW r, r = Released(s, p, Head(down[i]).arp_pkt.src_mac)
  PROVE  r \in Sound(i)'
<1> DEFINE f == Head(down[i])
<1>0. i \in Iface
  BY OwnIsIface
<1>1. /\ f \in Heard(i) /\ IsResponse(f) /\ p.iface_name = i
      /\ p.next_hop_ipaddr = f.arp_pkt.src_ip
  BY <1>0, NextDown DEF Unpended, Takes, YInv
<1>2. PICK k \in Iface : f \in Sound(k) /\ Learned(k)
  BY <1>0, <1>1, HeardFields
<1>3. f.arp_pkt.src_ip = ip_addr[k] /\ f.arp_pkt.src_mac = mac_addr[k]
  BY <1>1, <1>2, SoundFields DEF SoundResponse
<1>4. p \in SoundPending(s)
  BY ElementOfSeq, LenProperties DEF YInv, Flows
<1>5. /\ p \in PendingPkt /\ i = route[s][p.dst_ipaddr].iface
      /\ ip_addr[k] = NextHopIp(s, p.dst_ipaddr)
      /\ SentTo(p.data, p.dst_ipaddr)
  BY <1>1, <1>3, <1>4 DEF SoundPending
<1>6. p.dst_ipaddr \in Hosts
  BY <1>5 DEF SentTo, YInv, Flows
<1>7. PICK m \in Iface : LeadsTo(s, p.dst_ipaddr, m)
  BY <1>6 DEF WellConfigured
<1>8. m = k
  BY <1>5, <1>7, AddressesDiffer DEF LeadsTo
<1>9. k \in OnLan(lan_name[i]) /\ Serving(k, p.dst_ipaddr)
  BY <1>5, <1>7, <1>8 DEF LeadsTo, Serving
<1>10. r \in EtherPkt
  <2>1. mac_addr[i] \in Mac /\ mac_addr[k] \in AnyMac
    BY <1>0, PacketsAssumption DEF AnyMac
  <2>2. QED
    BY <1>1, <1>3, <1>5, <2>1 DEF Released, IpFrame, EtherPkt, create_pkt, IpPkt, PendingPkt
<1>11. /\ r.mac_src = mac_addr[i] /\ r.mac_dst = mac_addr[k] /\ IsIp(r)
       /\ r.ip_pkt.data = p.data /\ r.ip_pkt.dst_ip = p.dst_ipaddr
  BY <1>1, <1>3 DEF Released, IpFrame, create_pkt, IsIp
<1>12. SentTo(p.data, p.dst_ipaddr)' /\ Learned(k)'
  BY <1>2, <1>5 DEF SentTo, Kept
<1>13. SoundPacket(i, r)'
  BY <1>9, <1>11, <1>12 DEF SoundPacket, Serving
<1>14. QED
  BY <1>10, <1>11, <1>13 DEF Sound

(* What is taken from the queue to i. *)
LEMMA TakenFlows ==
  ASSUME NInv, Flows, Kept, sent \subseteq sent', NEW i \in Iface, Takes(i)
  PROVE  \A x \in Iface : down'[x] \in Seq(Heard(x)')
<1>1. down \in [Iface -> Seq(EtherPkt \cup Reply)]
  BY DEF NInv, IInv, TypeOK, SocketsTypeOK
<1>2. \A x \in Iface : down'[x] = IF x = i THEN Tail(down[x]) ELSE down[x]
  BY <1>1 DEF Takes
<1>3. QED
  BY <1>2, OldFlows DEF Takes

(* Every event keeps sound what is on its way. *)
LEMMA FlowsStay ==
  ASSUME NInv, YInv, WellConfigured, Event, Kept
  PROVE  Flows'
<1>0. /\ Flows /\ up \in [Iface -> Seq(EtherPkt)]
      /\ down \in [Iface -> Seq(EtherPkt \cup Reply)]
      /\ pq \in [Station -> Seq(PendingPkt)] /\ shown \in [Station -> Seq(IpPkt)]
  BY DEF YInv, NInv, IInv, TypeOK, SocketsTypeOK, StationTypeOK
<1>1. ASSUME sent' = sent
      PROVE  /\ sent \subseteq sent' /\ \A m \in sent' : m.dst \in Hosts
             /\ \A d, a : SentTo(d, a) => SentTo(d, a)'
  BY <1>0, <1>1 DEF Flows, SentTo
<1>2. ASSUME NEW i \in Iface, Relayed(i)
      PROVE  Flows'
  <2>1. PICK f : f = Head(up[i])
    OBVIOUS
  <2>2. /\ up[i] # <<>> /\ up' = [up EXCEPT ![i] = Tail(@)]
        /\ down' = [k \in Iface |-> IF k \in Addressees(i, f) THEN Append(down[k], f)
                                                            ELSE down[k]]
        /\ Learned(i)' /\ pq' = pq /\ shown' = shown /\ sent' = sent
    BY <1>2, <2>1 DEF Relayed
  <2>3. f \in Sound(i)' /\ f \in EtherPkt
    <3>1. f \in Sound(i)
      BY <1>0, <2>1, <2>2, NextUp
    <3>2. QED
      BY <1>1, <2>2, <3>1, SoundStays DEF Sound
  <2>4. \A k \in Iface : k \in Addressees(i, f) => f \in Heard(k)'
    BY <2>2, <2>3 DEF Heard, Addressees
  <2>5. \A k \in Iface : up'[k] \in Seq(Sound(k)') /\ down'[k] \in Seq(Heard(k)')
    <3>1. ASSUME NEW k \in Iface
          PROVE  up'[k] \in Seq(Sound(k)') /\ down'[k] \in Seq(Heard(k)')
      <4>1. /\ up'[k] = IF k = i THEN Tail(up[k]) ELSE up[k]
            /\ down'[k] = IF k \in Addressees(i, f) THEN Append(down[k], f) ELSE down[k]
        BY <1>0, <2>2
      <4>2. /\ up[k] \in Seq(Sound(k)') /\ down[k] \in Seq(Heard(k)')
            /\ up[k] # <<>> => Tail(up[k]) \in Seq(Sound(k)')
        BY <1>0, <1>1, <2>2, OldFlows
      <4>3. k \in Addressees(i, f) => Append(down[k], f) \in Seq(Heard(k)')
        BY <2>4, <4>2, AppendProperties
      <4>4. QED
        BY <2>2, <4>1, <4>2, <4>3
    <3>2. QED
      BY <3>1
  <2>6. QED
    BY <1>0, <1>1, <2>2, <2>5, OldFlows DEF Flows
<1>3. ASSUME NEW s \in Station, NEW dst \in Ip, NEW d \in Data, Submitted(s, dst, d)
      PROVE  Flows'
  <2>1. /\ dst \in Hosts /\ sent' = sent \cup {[from |-> s, dst |-> dst, data |-> d]}
        /\ down' = down /\ shown' = shown
    BY <1>3 DEF Submitted
  <2>2. PICK k \in Iface : Departs(s, dst, d, k)
    BY <1>3 DEF Submitted
  <2>3. SentTo(d, dst)'
    <3>1. [from |-> s, dst |-> dst, data |-> d] \in sent'
      BY <2>1
    <3>2. QED
      BY <3>1 DEF SentTo
  <2>4. sent \subseteq sent' /\ \A m \in sent' : m.dst \in Hosts
    BY <1>0, <2>1 DEF Flows
  <2>5. /\ \A x \in Iface : up'[x] \in Seq(Sound(x)')
        /\ \A t \in Station : pq'[t] \in Seq(SoundPending(t)')
    BY <1>0, <2>1, <2>2, <2>3, <2>4, SoundDeparture
  <2>6. QED
    BY <1>0, <2>1, <2>4, <2>5, OldFlows DEF Flows
<1>4. ASSUME NEW s \in Station, NEW i \in Own(s),
             \/ Forwarded(s, i) \/ Delivered(s, i) \/ Answered(i) \/ Dropped(s, i)
             \/ \E n \in DOMAIN pq[s] : Unpended(s, i, n)
      PROVE  Flows'
  <2>1. PICK f : f = Head(down[i])
    OBVIOUS
  <2>2. Takes(i) /\ sent' = sent /\ i \in Iface
    BY <1>4, OwnIsIface DEF Forwarded, Delivered, Answered, Dropped, Unpended
  <2>3. /\ \A x \in Iface : down'[x] \in Seq(Heard(x)')
        /\ \A x \in Iface : up[x] \in Seq(Sound(x)')
        /\ \A t \in Station : pq[t] \in Seq(SoundPending(t)') /\ shown[t] \in Seq(SentPacket')
        /\ \A m \in sent' : m.dst \in Hosts
    BY <1>0, <1>1, <2>2, OldFlows, TakenFlows
  <2>4. f \in Heard(i) /\ f \in EtherPkt
    BY <1>0, <2>1, <2>2, NextDown DEF Takes
  <2>5. IsIp(f) => /\ SentTo(f.ip_pkt.data, f.ip_pkt.dst_ip) /\ f.ip_pkt \in IpPkt
                   /\ f.ip_pkt.dst_ip \in Hosts /\ f.ip_pkt.data \in Data
    <3>1. IsIp(f) => SentTo(f.ip_pkt.data, f.ip_pkt.dst_ip)
      BY <2>2, <2>4, HeardFields
    <3>2. QED
      BY <1>0, <2>4, <3>1, FrameKinds DEF SentTo, Flows
  <2>6. ASSUME NEW r \in Sound(i)', Emits(i, r)
        PROVE  \A x \in Iface : up'[x] \in Seq(Sound(x)')
    <3>1. Append(up[i], r) \in Seq(Sound(i)')
      BY <2>2, <2>3, AppendProperties
    <3>2. \A x \in Iface : up'[x] = IF x = i THEN Append(up[i], r) ELSE up[x]
      BY <1>0, <2>2, <2>6 DEF Emits
    <3>3. QED
      BY <2>3, <3>1, <3>2
  <2>7. CASE Forwarded(s, i)
    <3>1. IsIp(f) /\ UNCHANGED shown
      BY <2>1, <2>7 DEF Forwarded
    <3>2. PICK k \in Iface : Departs(s, f.ip_pkt.dst_ip, f.ip_pkt.data, k)
      BY <2>1, <2>7 DEF Forwarded
    <3>3. SentTo(f.ip_pkt.data, f.ip_pkt.dst_ip)'
      BY <1>1, <2>2, <2>5, <3>1
    <3>4. /\ \A x \in Iface : up'[x] \in Seq(Sound(x)')
          /\ \A t \in Station : pq'[t] \in Seq(SoundPending(t)')
      BY <1>0, <1>1, <2>2, <2>5, <3>1, <3>2, <3>3, SoundDeparture
    <3>5. QED
      BY <2>3, <3>1, <3>4 DEF Flows
  <2>8. CASE Delivered(s, i)
    <3>1. /\ IsIp(f) /\ shown' = [shown EXCEPT ![s] = Append(@, f.ip_pkt)]
          /\ UNCHANGED <<up, pq>>
      BY <2>1, <2>8 DEF Delivered
    <3>2. f.ip_pkt \in SentPacket'
      BY <1>1, <2>2, <2>5, <3>1 DEF SentPacket
    <3>3. Append(shown[s], f.ip_pkt) \in Seq(SentPacket')
      BY <2>3, <3>2, AppendProperties
    <3>4. \A t \in Station : shown'[t] \in Seq(SentPacket')
      BY <1>0, <2>3, <3>1, <3>3
    <3>5. QED
      BY <2>3, <3>1, <3>4 DEF Flows
  <2>9. CASE Answered(i)
    <3>1. PICK r : r = AnswerTo(i, Head(down[i]))
      OBVIOUS
    <3>2. Emits(i, r) /\ UNCHANGED <<pq, shown>>
      BY <2>9, <3>1 DEF Answered
    <3>3. r \in Sound(i)'
      BY <1>0, <1>1, <2>2, <2>9, <3>1, SoundAnswer
    <3>4. QED
      BY <2>3, <2>6, <3>2, <3>3 DEF Flows
  <2>10. CASE Dropped(s, i)
    BY <2>3, <2>10 DEF Dropped, Flows
  <2>11. ASSUME NEW n \in DOMAIN pq[s], Unpended(s, i, n)
         PROVE  Flows'
    <3>1. PICK p : p = pq[s][n]
      OBVIOUS
    <3>2. PICK r : r = Released(s, p, Head(down[i]).arp_pkt.src_mac)
      OBVIOUS
    <3>3. /\ Emits(i, r) /\ UNCHANGED shown
          /\ pq' = [pq EXCEPT ![s] = RemoveAt(@, n)]
      BY <2>11, <3>1, <3>2 DEF Unpended
    <3>4. r \in Sound(i)'
      BY <1>1, <2>2, <2>11, <3>1, <3>2, SoundRelease
    <3>5. ASSUME NEW t \in Station
          PROVE  pq'[t] \in Seq(SoundPending(t)')
      <4>1. pq[t] \in Seq(SoundPending(t)')
        BY <2>3
      <4>2. pq'[t] = IF t = s THEN RemoveAt(pq[t], n) ELSE pq[t]
        BY <1>0, <3>3
      <4>3. t = s => n \in 1 .. Len(pq[t])
        BY <4>1, LenProperties
      <4>4. QED
        BY <4>1, <4>2, <4>3, RemoveAtProperties
    <3>6. QED
      BY <2>3, <2>6, <3>3, <3>4, <3>5 DEF Flows
  <2>12. QED
    BY <1>4, <2>7, <2>8, <2>9, <2>10, <2>11
<1>5. CASE UNCHANGED flowVars
  <2>1. UNCHANGED <<up, down, pq, shown, sent>>
    BY <1>5 DEF flowVars
  <2>2. QED
    BY <1>0, <1>1, <2>1, OldFlows DEF Flows
<1>6. QED
  BY <1>2, <1>3, <1>4, <1>5 DEF Event

(* At first every interface has its port and nothing is on its way. *)
LEMMA YoungInit ==
  ASSUME NetworkInit, NInv
  PROVE  YInv
<1>1. PICK order \in [Lan -> UNION {Orders[b] : b \in Lan}] :
        /\ \A b \in Lan : order[b] \in Orders[b]
        /\ clients = [b \in Lan |-> [n \in DOMAIN order[b] |-> n]]
        /\ peer = [b \in Lan |-> [p \in Fd |->
                     IF p \in DOMAIN order[b] THEN order[b][p] ELSE NoIface]]
  BY DEF NetworkInit
<1>2. ASSUME NEW i \in Iface
      PROVE  \E j \in DOMAIN clients[lan_name[i]] : Client(lan_name[i], j) = i
  <2> DEFINE b == lan_name[i]
  <2>1. b \in Lan /\ i \in OnLan(b)
    BY PacketsAssumption DEF OnLan
  <2>2. ToSet(order[b]) = OnLan(b)
    BY <1>1, <2>1, NetworkAssumption
  <2>3. PICK j \in DOMAIN order[b] : order[b][j] = i
    BY <2>1, <2>2 DEF ToSet
  <2>4. DOMAIN clients[b] = DOMAIN order[b] /\ clients[b][j] = j
    BY <1>1, <2>1, <2>3
  <2>5. j \in Fd
    BY <2>1, <2>3, <2>4, ServedClient DEF NInv
  <2>6. Client(b, j) = i
    BY <1>1, <2>1, <2>3, <2>4, <2>5 DEF Client
  <2>7. QED
    BY <2>3, <2>4, <2>6
<1>3. Calm /\ Ready /\ Served
  BY <1>2 DEF NetworkInit, StationInit, Calm, Ready, Served
<1>4. TablesTrue
  <2>1. \A b \in Lan : \A j \in DOMAIN clients[b] : clients[b][j] \in Fd
    BY ServedClient DEF NInv
  <2>2. \A b \in Lan, p \in Fd, m \in AnyMac : btable[b][p][m] = Absent
    BY DEF NetworkInit, EmptyTable
  <2>3. QED
    BY <2>1, <2>2 DEF TablesTrue, TrueTable, has_arp_entry
<1>5. CachesLearned
  BY DEF NetworkInit, StationInit, CachesLearned, TrueMappings, has_mapping
<1>6. Flows
  BY EmptySeq DEF NetworkInit, StationInit, Flows
<1>7. QED
  BY <1>3, <1>4, <1>5, <1>6 DEF YInv, Quiet

(***************************************************************************)
(* In a network without mistakes in its files, as long as nothing expires, *)
(* tables and caches stay true, and whoever gets a frame can use it,       *)
(* whatever users send and in whatever order bridges and stations work     *)
(* (monitor_arp_cache(), add_arp_entry(), the handlers of station.cpp).    *)
(***************************************************************************)
THEOREM YoungInvariant ==
  ASSUME WellConfigured, NothingExpires
  PROVE  NetworkSpec => [](NInv /\ YInv)
<1>1. NetworkInit => NInv /\ YInv
  BY NetworkInitInv, YoungInit
<1>2. NInv /\ YInv /\ [NetworkNext]_networkVars => YInv'
  BY YoungStep, FlowsStay DEF YInv
<1>3. QED
  BY <1>1, <1>2, NetworkInvariant, PTL DEF NetworkSpec
=============================================================================
