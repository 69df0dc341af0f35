------------------------- MODULE NetworkInvariance -------------------------
(***************************************************************************)
(* The inductive invariant of the internetwork, for every set of LANs,     *)
(* stations and routers, every routing and every user.                     *)
(*                                                                         *)
(* NInv adds to the invariant of the bridges (IInv) what is known of the   *)
(* stations.  It shows first that every step of the network is a step of   *)
(* BridgeClients (ClientStep), which needs Held: a running process has not *)
(* closed its sockets.  IInv then needs no second proof.  The truth of the *)
(* ARP caches needs the truth of every frame on its way (FramesTrue),      *)
(* which bridges keep because no port leads out of its LAN, and of the     *)
(* frame a failed read may hand out once more (CachesTrue).                *)
(***************************************************************************)
EXTENDS Network, BridgeInvariance

(* Frames whose ARP packet names an interface of LAN b as its source. *)
TrueFrame(b) ==
  {f \in EtherPkt : IsArp(f) => Binding(b, f.arp_pkt.src_ip, f.arp_pkt.src_mac)}

FramesTrue ==
  \A i \in Iface : /\ up[i] \in Seq(TrueFrame(lan_name[i]))
                   /\ down[i] \in Seq(TrueFrame(lan_name[i]))

TrueFor(s, a, mac) == \E k \in Own(s) : Binding(lan_name[k], a, mac)

CachesTrue ==
  \A s \in Station :
    /\ recv_ether_pkt[s] # NoFrame =>
         \E k \in Own(s) : recv_ether_pkt[s] \in TrueFrame(lan_name[k])
    /\ again[s] => recv_ether_pkt[s] # NoFrame
    /\ \A a \in Ip : has_mapping(arp[s], a) => TrueFor(s, a, arp[s][a].mac)

(* Packets queued for an interface some route of s has, with its next hop. *)
Routed(s) ==
  {p \in PendingPkt :
     /\ p.iface_name \in Own(s)
     /\ \E d \in Ip : /\ route[s][d].iface = p.iface_name
                      /\ NextHopIp(s, d) = p.next_hop_ipaddr}

PendingRouted == \A s \in Station : pq[s] \in Seq(Routed(s))

(* The process holds its connections. *)
Held ==
  \A s \in Station : running[s] =>
    \A i \in Own(s) : sock[i] \in {"open", "eof", "pipe", "dead"}

NoRequests == \A b \in Lan : backlog[b] = <<>>

NInv ==
  /\ IInv
  /\ StationTypeOK /\ UsersTypeOK
  /\ NoRequests /\ Held
  /\ FramesTrue /\ CachesTrue /\ PendingRouted
-----------------------------------------------------------------------------
(* Facts about the constants, and about frames. *)

(* An interface belongs to one station. *)
LEMMA OwnIsIface ==
  ASSUME NEW s \in Station
  PROVE  /\ Own(s) \subseteq Iface
         /\ \A t \in Station : \A i \in Own(s) : i \in Own(t) => s = t
<1>1. ifaces[s] \in Seq(Iface)
  BY StationAssumption
<1>2. \A n \in DOMAIN ifaces[s] : ifaces[s][n] \in Iface
  BY <1>1, ElementOfSeq, LenProperties
<1>3. Own(s) \subseteq Iface
  BY <1>2 DEF Own
<1>4. \A t \in Station : \A i \in Own(s) : i \in Own(t) => s = t
  BY StationAssumption
<1>5. QED
  BY <1>3, <1>4

(* What stands for no frame is none. *)
LEMMA NoFrameIsNone == NoFrame \notin EtherPkt
BY DEF NoFrame, EtherPkt, TYPE_ARP_PKT, TYPE_IP_PKT

(* A sequence over a set is one over any larger set. *)
LEMMA SeqOfMore ==
  ASSUME NEW S, NEW T, S \subseteq T, NEW q \in Seq(S)
  PROVE  q \in Seq(T)
OBVIOUS

(* The types of the fields of a frame. *)
LEMMA FrameKinds ==
  ASSUME NEW f \in EtherPkt
  PROVE  /\ f.mac_src \in Mac /\ f.mac_dst \in AnyMac
         /\ IsArp(f) => /\ f.arp_pkt.src_ip \in Ip /\ f.arp_pkt.src_mac \in Mac
                        /\ f.arp_pkt.dst_ip \in Ip
         /\ IsIp(f) => /\ f.ip_pkt \in IpPkt
                       /\ f.ip_pkt.src_ip \in Ip /\ f.ip_pkt.dst_ip \in Ip
                       /\ f.ip_pkt.data \in Data
BY DEF EtherPkt, IsArp, IsIp, TYPE_ARP_PKT, TYPE_IP_PKT, ArpPkt, IpPkt

(* The frames stations make. *)
LEMMA MadeFrames ==
  ASSUME NEW i \in Iface
  PROVE  /\ \A mac \in AnyMac, p \in IpPkt :
              IpFrame(mac_addr[i], mac, p) \in TrueFrame(lan_name[i])
         /\ \A ip \in Ip :
              ArpFrame(mac_addr[i], NoMac, create_req_pkt(i, ip)) \in TrueFrame(lan_name[i])
         /\ \A f \in EtherPkt : IsRequest(f) =>
              ArpFrame(mac_addr[i], f.mac_src,
                       create_resp_pkt(f.arp_pkt, ip_addr[i], mac_addr[i]))
                \in TrueFrame(lan_name[i])
<1>0. /\ mac_addr[i] \in Mac /\ ip_addr[i] \in Ip /\ lan_name[i] \in Lan
      /\ Mac \subseteq AnyMac /\ NoMac \in AnyMac
  BY PacketsAssumption DEF AnyMac
<1>1. Binding(lan_name[i], ip_addr[i], mac_addr[i])
  BY DEF Binding, OnLan
<1>2. ASSUME NEW mac \in AnyMac, NEW p \in IpPkt
      PROVE  IpFrame(mac_addr[i], mac, p) \in TrueFrame(lan_name[i])
  BY <1>0 DEF TrueFrame, EtherPkt, IpFrame, IsArp, TYPE_ARP_PKT, TYPE_IP_PKT
<1>3. ASSUME NEW mac \in AnyMac, NEW p \in ArpPkt,
             p.src_ip = ip_addr[i], p.src_mac = mac_addr[i]
      PROVE  ArpFrame(mac_addr[i], mac, p) \in TrueFrame(lan_name[i])
  BY <1>0, <1>1, <1>3 DEF TrueFrame, EtherPkt, ArpFrame, IsArp, TYPE_ARP_PKT, TYPE_IP_PKT
<1>4. ASSUME NEW ip \in Ip
      PROVE  ArpFrame(mac_addr[i], NoMac, create_req_pkt(i, ip)) \in TrueFrame(lan_name[i])
  <2>1. create_req_pkt(i, ip) \in ArpPkt
    BY <1>0 DEF create_req_pkt, ArpPkt, ARP_REQUEST
  <2>2. QED
    BY <1>0, <1>3, <2>1 DEF create_req_pkt
<1>5. ASSUME NEW f \in EtherPkt, IsRequest(f)
      PROVE  ArpFrame(mac_addr[i], f.mac_src,
                      create_resp_pkt(f.arp_pkt, ip_addr[i], mac_addr[i]))
               \in TrueFrame(lan_name[i])
  <2>1. /\ f.mac_src \in AnyMac /\ f.arp_pkt.src_ip \in Ip /\ f.arp_pkt.src_mac \in AnyMac
    BY <1>0, <1>5, FrameKinds DEF IsRequest
  <2>2. create_resp_pkt(f.arp_pkt, ip_addr[i], mac_addr[i]) \in ArpPkt
    BY <1>0, <2>1 DEF create_resp_pkt, ArpPkt, ARP_RESPONSE
  <2>3. QED
    BY <1>3, <2>1, <2>2 DEF create_resp_pkt
<1>6. QED
  BY <1>2, <1>4, <1>5
-----------------------------------------------------------------------------
(* What a station's turn does to its connections. *)

(* rest is what is left in the sockets when s has read one frame, or none. *)
GoodRest(s, rest) ==
  /\ rest = [i \in Iface |-> rest[i]]
  /\ \A i \in Iface : \/ rest[i] = down[i]
                      \/ i \in Own(s) /\ down[i] # <<>> /\ rest[i] = Tail(down[i])

(* out holds at most one frame per interface of s. *)
GoodOut(s, out) ==
  /\ DOMAIN out \subseteq Own(s)
  /\ \A i \in DOMAIN out : out[i] \in TrueFrame(lan_name[i])

(* The state of the connections after a turn in which s wrote at most out. *)
TurnOf(s, out) ==
  /\ ClientTurn
  /\ running' \in [Station -> BOOLEAN]
  /\ Held'
  /\ \A i \in Iface : up'[i] = up[i] \/ (i \in DOMAIN out /\ up'[i] = Append(up[i], out[i]))

(* The process ends. *)
LEMMA EndsIsTurn ==
  ASSUME NInv, NEW s \in Station, NEW rest, NEW out, running[s],
         GoodRest(s, rest), Ends(s, rest), UNCHANGED <<up, backlog, bridgeVars>>
  PROVE  TurnOf(s, out)
<1>0. /\ sock \in [Iface -> SockState] /\ up \in [Iface -> Seq(EtherPkt)]
      /\ down \in [Iface -> Seq(EtherPkt \cup Reply)]
      /\ running \in [Station -> BOOLEAN]
      /\ Own(s) \subseteq Iface
  BY OwnIsIface DEF NInv, IInv, TypeOK, SocketsTypeOK, StationTypeOK
<1>1. /\ sock' = [i \in Iface |-> sock'[i]] /\ up' = [i \in Iface |-> up'[i]]
      /\ down' = [i \in Iface |-> down'[i]]
  BY <1>0 DEF Ends
<1>2. ASSUME NEW i \in Iface, i \notin Own(s)
      PROVE  sock'[i] = sock[i] /\ Uses(i)
  BY <1>0, <1>2 DEF Ends, Uses
<1>3. ASSUME NEW i \in Own(s)
      PROVE  Closes(i)
  <2>1. sock[i] \in {"open", "eof", "pipe", "dead"}
    BY DEF NInv, Held
  <2>2. /\ sock'[i] = SockAfterClose(i, rest[i]) /\ down'[i] = <<>>
        /\ up'[i] = up[i]
    BY <1>0 DEF Ends
  <2>3. rest[i] = down[i] \/ (down[i] # <<>> /\ rest[i] = Tail(down[i]))
    BY <1>0 DEF GoodRest
  <2>4. CASE rest[i] = down[i]
    <3>1. sock'[i] = SockAfterClose(i, down[i])
      BY <2>2, <2>4, Zenon
    <3>2. QED
      BY <2>1, <2>2, <3>1 DEF Closes
  <2>5. CASE down[i] # <<>> /\ rest[i] = Tail(down[i])
    <3>1. sock'[i] = SockAfterClose(i, Tail(down[i]))
      BY <2>2, <2>5, Zenon
    <3>2. QED
      BY <2>1, <2>2, <2>5, <3>1 DEF Closes
  <2>6. QED
    BY <2>3, <2>4, <2>5
<1>4. ClientTurn
  BY <1>1, <1>2, <1>3 DEF ClientTurn
<1>5. running' \in [Station -> BOOLEAN] /\ ~running'[s]
      /\ \A t \in Station : running'[t] => running[t]
  BY <1>0 DEF Ends
<1>6. ASSUME NEW t \in Station, running'[t], NEW i \in Own(t)
      PROVE  sock'[i] \in {"open", "eof", "pipe", "dead"}
  <2>1. i \in Iface /\ i \notin Own(s)
    BY <1>5, <1>6, OwnIsIface
  <2>2. sock'[i] = sock[i]
    BY <1>2, <2>1
  <2>3. QED
    BY <1>5, <1>6, <2>2 DEF NInv, Held
<1>7. Held'
  BY <1>6 DEF Held
<1>8. QED
  BY <1>4, <1>5, <1>7 DEF TurnOf

(* It reads, then writes out or ends in the attempt. *)
LEMMA WriteIsTurn ==
  ASSUME NInv, NEW s \in Station, NEW rest, NEW out, running[s],
         GoodRest(s, rest), GoodOut(s, out), Write(s, rest, out),
         UNCHANGED <<backlog, bridgeVars>>
  PROVE  TurnOf(s, out)
<1>1. CASE Ends(s, rest) /\ UNCHANGED up
  BY <1>1, EndsIsTurn
<1>2. CASE /\ \A i \in DOMAIN out : sock[i] # "dead"
           /\ up' = UpAfterWrite(out) /\ sock' = SockAfterSend(DOMAIN out)
           /\ down' = rest /\ UNCHANGED running
  <2>0. /\ sock \in [Iface -> SockState] /\ up \in [Iface -> Seq(EtherPkt)]
        /\ running \in [Station -> BOOLEAN]
        /\ Own(s) \subseteq Iface
    BY OwnIsIface DEF NInv, IInv, TypeOK, SocketsTypeOK, StationTypeOK
  <2>1. ASSUME NEW i \in Iface
        PROVE  /\ up'[i] = IF i \in DOMAIN out /\ sock[i] = "open"
                           THEN Append(up[i], out[i]) ELSE up[i]
               /\ sock'[i] = IF i \in DOMAIN out /\ sock[i] = "eof" THEN "pipe" ELSE sock[i]
               /\ \/ down'[i] = down[i]
                  \/ down[i] # <<>> /\ down'[i] = Tail(down[i])
    BY <1>2 DEF UpAfterWrite, SockAfterSend, GoodRest
  <2>2. /\ sock' = [i \in Iface |-> sock'[i]] /\ up' = [i \in Iface |-> up'[i]]
        /\ down' = [i \in Iface |-> down'[i]]
    BY <1>2 DEF UpAfterWrite, SockAfterSend, GoodRest
  <2>3. ASSUME NEW i \in Iface
        PROVE  Uses(i)
    <3>1. CASE i \in DOMAIN out /\ sock[i] = "open"
      <4>1. out[i] \in EtherPkt /\ up[i] \in Seq(EtherPkt)
        BY <2>0, <3>1 DEF GoodOut, TrueFrame
      <4>2. /\ up'[i] = Append(up[i], out[i]) /\ sock'[i] = "open"
        BY <2>1, <3>1
      <4>3. /\ up'[i] \in Seq(EtherPkt) /\ Len(up'[i]) = Len(up[i]) + 1
            /\ Len(up[i]) \in Nat /\ up'[i][Len(up[i]) + 1] = out[i]
        BY <4>1, <4>2, AppendProperties, LenProperties
      <4>4. up'[i] # <<>> /\ Last(up'[i]) = out[i]
        BY <4>3 DEF Last
      <4>5. QED
        BY <2>1, <3>1, <4>1, <4>2, <4>4 DEF Uses
    <3>2. CASE ~(i \in DOMAIN out /\ sock[i] = "open")
      BY <2>1, <3>2 DEF Uses
    <3>3. QED
      BY <3>1, <3>2
  <2>4. ClientTurn
    BY <2>2, <2>3 DEF ClientTurn
  <2>5. ASSUME NEW t \in Station, running[t], NEW i \in Own(t)
        PROVE  sock'[i] \in {"open", "eof", "pipe", "dead"}
    <3>1. i \in Iface /\ sock[i] \in {"open", "eof", "pipe", "dead"}
      BY <2>5, OwnIsIface DEF NInv, Held
    <3>2. QED
      BY <2>1, <3>1
  <2>6. Held' /\ running' \in [Station -> BOOLEAN]
    BY <1>2, <2>0, <2>5 DEF Held
  <2>7. \A i \in Iface :
          up'[i] = up[i] \/ (i \in DOMAIN out /\ up'[i] = Append(up[i], out[i]))
    BY <2>1
  <2>8. QED
    BY <2>4, <2>6, <2>7 DEF TurnOf
<1>3. QED
  BY <1>1, <1>2 DEF Write

(* So frames on their way stay true, and nobody asks for a port. *)
LEMMA FramesStayTrue ==
  ASSUME NInv, NEW s \in Station, NEW out, GoodOut(s, out), TurnOf(s, out)
  PROVE  FramesTrue' /\ NoRequests'
<1>1. NoRequests'
  BY DEF TurnOf, ClientTurn, NInv, NoRequests
<1>2. ASSUME NEW i \in Iface
      PROVE  /\ up'[i] \in Seq(TrueFrame(lan_name[i]))
             /\ down'[i] \in Seq(TrueFrame(lan_name[i]))
  <2>0. /\ up[i] \in Seq(TrueFrame(lan_name[i]))
        /\ down[i] \in Seq(TrueFrame(lan_name[i]))
    BY DEF NInv, FramesTrue
  <2>1. up'[i] \in Seq(TrueFrame(lan_name[i]))
    <3>1. CASE up'[i] = up[i]
      BY <2>0, <3>1
    <3>2. CASE i \in DOMAIN out /\ up'[i] = Append(up[i], out[i])
      <4>1. out[i] \in TrueFrame(lan_name[i])
        BY <3>2 DEF GoodOut
      <4>2. QED
        BY <2>0, <3>2, <4>1, AppendProperties
    <3>3. QED
      BY <3>1, <3>2 DEF TurnOf
  <2>2. \/ down'[i] \in {down[i], <<>>}
        \/ down[i] # <<>> /\ down'[i] = Tail(down[i])
    BY TurnEffects DEF TurnOf, NInv, IInv
  <2>3. down[i] # <<>> => Tail(down[i]) \in Seq(TrueFrame(lan_name[i]))
    BY <2>0, HeadTailProperties
  <2>4. <<>> \in Seq(TrueFrame(lan_name[i]))
    BY EmptySeq
  <2>5. QED
    BY <2>0, <2>1, <2>2, <2>3, <2>4
<1>3. FramesTrue'
  BY <1>2 DEF FramesTrue
<1>4. QED
  BY <1>1, <1>3

SourcesOf(out) == \A i \in DOMAIN out : out[i].mac_src = mac_addr[i]

(* What send_ether_pkt() does, whether it sends, queues or crashes. *)
LEMMA SendIsTurn ==
  ASSUME NInv, NEW s \in Station, NEW rest, running[s], GoodRest(s, rest),
         NEW src \in Ip, NEW dst \in Ip, NEW data \in Data,
         send_ether_pkt(s, rest, src, dst, data), UNCHANGED <<backlog, bridgeVars>>
  PROVE  /\ \E out : GoodOut(s, out) /\ SourcesOf(out) /\ TurnOf(s, out)
         /\ pq' \in [Station -> Seq(PendingPkt)]
         /\ PendingRouted'
<1> DEFINE i   == route[s][dst].iface
           hop == NextHopIp(s, dst)
           n   == route[s][dst]
<1>1. /\ pq \in [Station -> Seq(PendingPkt)] /\ PendingRouted
      /\ arp[s] \in [Ip -> CacheContent \cup {NoMapping}]
      /\ n \in NextHop /\ i \in Own(s) \cup {NoIface}
      /\ Own(s) \subseteq Iface
  BY StationAssumption, OwnIsIface DEF NInv, StationTypeOK
<1>2. hop \in Ip
  BY <1>1 DEF NextHopIp, NextHop
<1>3. CASE i = NoIface
  <2>1. Ends(s, rest) /\ UNCHANGED <<up, pq>>
    BY <1>3, Zenon DEF send_ether_pkt
  <2>2. TurnOf(s, <<>>)
    BY <2>1, EndsIsTurn
  <2>3. GoodOut(s, <<>>) /\ SourcesOf(<<>>)
    BY DEF GoodOut, SourcesOf
  <2>4. QED
    BY <1>1, <2>1, <2>2, <2>3 DEF PendingRouted
<1>4. CASE i # NoIface /\ has_mapping(arp[s], hop)
  <2> DEFINE f == IpFrame(mac_addr[i], arp[s][hop].mac,
                          create_pkt(ip_addr[i], dst, data))
  <2>0. i \in Own(s) /\ i \in Iface
    BY <1>1, <1>4
  <2>1. Write(s, rest, [k \in {i} |-> f]) /\ UNCHANGED pq
    BY <1>4, Zenon DEF send_ether_pkt
  <2>2. f \in TrueFrame(lan_name[i])
    <3>1. arp[s][hop].mac \in AnyMac
      BY <1>1, <1>2, <1>4 DEF has_mapping, CacheContent, AnyMac
    <3>2. create_pkt(ip_addr[i], dst, data) \in IpPkt
      BY <2>0, PacketsAssumption DEF create_pkt, IpPkt
    <3>3. QED
      BY <2>0, <3>1, <3>2, MadeFrames
  <2>3. f.mac_src = mac_addr[i]
    BY DEF IpFrame
  <2> HIDE DEF f
  <2>4. GoodOut(s, [k \in {i} |-> f]) /\ SourcesOf([k \in {i} |-> f])
    BY <2>0, <2>2, <2>3 DEF GoodOut, SourcesOf
  <2>5. TurnOf(s, [k \in {i} |-> f])
    BY <2>1, <2>4, WriteIsTurn
  <2>6. QED
    BY <1>1, <2>1, <2>4, <2>5 DEF PendingRouted
<1>5. CASE i # NoIface /\ ~has_mapping(arp[s], hop)
  <2> DEFINE f == ArpFrame(mac_addr[i], NoMac, create_req_pkt(i, hop))
             p == [next_hop_ipaddr |-> hop, dst_ipaddr |-> dst,
                   src_ipaddr |-> IF is_router[s] THEN src ELSE ip_addr[i],
                   iface_name |-> i, data |-> data]
  <2>0. i \in Own(s) /\ i \in Iface
    BY <1>1, <1>5
  <2>1. /\ Write(s, rest, [k \in {i} |-> f])
        /\ pq' = [pq EXCEPT ![s] = Append(@, p)]
    BY <1>5, Zenon DEF send_ether_pkt
  <2>2. f \in TrueFrame(lan_name[i])
    BY <1>2, <2>0, MadeFrames
  <2>3. f.mac_src = mac_addr[i]
    BY DEF ArpFrame
  <2>4. p \in PendingPkt
    BY <1>2, <2>0, PacketsAssumption DEF PendingPkt
  <2>5. p \in Routed(s)
    BY <2>0, <2>4 DEF Routed
  <2> HIDE DEF f, p
  <2>6. GoodOut(s, [k \in {i} |-> f]) /\ SourcesOf([k \in {i} |-> f])
    BY <2>0, <2>2, <2>3 DEF GoodOut, SourcesOf
  <2>7. TurnOf(s, [k \in {i} |-> f])
    BY <2>1, <2>6, WriteIsTurn
  <2>8. pq' \in [Station -> Seq(PendingPkt)]
    BY <1>1, <2>1, <2>4, AppendProperties
  <2>9. ASSUME NEW t \in Station
        PROVE  pq'[t] \in Seq(Routed(t))
    BY <1>1, <2>1, <2>5, AppendProperties DEF PendingRouted
  <2>10. QED
    BY <2>6, <2>7, <2>8, <2>9 DEF PendingRouted
<1>6. QED
  BY <1>3, <1>4, <1>5
-----------------------------------------------------------------------------
(* What a station's turn does to its memory. *)

Cache == [Ip -> CacheContent \cup {NoMapping}]

GoodCache(s, c) ==
  c \in Cache /\ \A a \in Ip : has_mapping(c, a) => TrueFor(s, a, c[a].mac)

(* Expiry keeps a cache good, and so does a mapping that is true. *)
LEMMA CachesStayGood ==
  ASSUME NEW s \in Station, NEW c, GoodCache(s, c)
  PROVE  /\ GoodCache(s, monitor_cache(c))
         /\ \A a \in Ip, mac \in Mac :
              TrueFor(s, a, mac) => GoodCache(s, add_mapping(c, a, mac))
<1>1. GoodCache(s, monitor_cache(c))
  BY DEF GoodCache, Cache, monitor_cache, has_mapping
<1>2. ASSUME NEW a \in Ip, NEW mac \in Mac, TrueFor(s, a, mac)
      PROVE  GoodCache(s, add_mapping(c, a, mac))
  <2> DEFINE e == [mac |-> mac, age |-> 0]
  <2>1. e \in CacheContent
    BY StationAssumption DEF CacheContent
  <2>2. CASE has_mapping(c, a)
    BY <2>2 DEF add_mapping
  <2>3. CASE ~has_mapping(c, a)
    <3>1. add_mapping(c, a, mac) = [c EXCEPT ![a] = e]
      BY <2>3 DEF add_mapping
    <3>2. e.mac = mac
      OBVIOUS
    <3> HIDE DEF e
    <3>3. QED
      BY <1>2, <2>1, <3>1, <3>2 DEF GoodCache, Cache, has_mapping
  <2>4. QED
    BY <2>2, <2>3
<1>3. QED
  BY <1>1, <1>2

(* The frame a station handles, and what is left in the sockets without it. *)
LEMMA HandledFrame ==
  ASSUME NInv, NEW s \in Station, NEW i \in Own(s), Handles(s, i), HasFrame(s, i)
  PROVE  /\ Frame(s, i) \in EtherPkt
         /\ \E k \in Own(s) : Frame(s, i) \in TrueFrame(lan_name[k])
         /\ ~again[s] => Frame(s, i) \in TrueFrame(lan_name[i])
         /\ GoodRest(s, Rest(s, i))
<1>0. /\ i \in Iface /\ down \in [Iface -> Seq(EtherPkt \cup Reply)]
      /\ down[i] \in Seq(TrueFrame(lan_name[i]))
  BY OwnIsIface DEF NInv, IInv, TypeOK, SocketsTypeOK, FramesTrue
<1>1. CASE again[s]
  <2>1. \E k \in Own(s) : recv_ether_pkt[s] \in TrueFrame(lan_name[k])
    BY <1>1 DEF NInv, CachesTrue
  <2>2. Frame(s, i) = recv_ether_pkt[s] /\ Rest(s, i) = down
    BY <1>1 DEF Frame, Rest
  <2>3. QED
    BY <1>0, <1>1, <2>1, <2>2 DEF GoodRest, TrueFrame
<1>2. CASE ~again[s]
  <2>1. down[i] # <<>>
    BY <1>2 DEF HasFrame
  <2>2. Frame(s, i) = Head(down[i]) /\ Rest(s, i) = [down EXCEPT ![i] = Tail(@)]
    BY <1>2 DEF Frame, Rest
  <2>3. Head(down[i]) \in TrueFrame(lan_name[i])
    BY <1>0, <2>1, HeadTailProperties
  <2>4. GoodRest(s, Rest(s, i))
    BY <1>0, <2>1, <2>2 DEF GoodRest
  <2>5. QED
    BY <2>2, <2>3, <2>4 DEF TrueFrame
<1>3. QED
  BY <1>1, <1>2

(* Connections nobody has read from are as good as before. *)
LEMMA NothingRead ==
  ASSUME NInv, NEW s
  PROVE  GoodRest(s, down)
BY DEF NInv, IInv, TypeOK, SocketsTypeOK, GoodRest

(* What is left to show of an action that handles i. *)
LEMMA HandlesKeeps ==
  ASSUME NInv, NEW s \in Station, NEW i \in Own(s), Handles(s, i),
         NEW c, GoodCache(s, c), CacheAfter(s, i, c),
         running' \in [Station -> BOOLEAN], quit' \in [Station -> BOOLEAN],
         pq' \in [Station -> Seq(PendingPkt)], shown' \in [Station -> Seq(IpPkt)],
         UNCHANGED console_eof
  PROVE  StationTypeOK' /\ CachesTrue'
<1>0. /\ read_set \in [Station -> SUBSET Iface]
      /\ recv_ether_pkt \in [Station -> EtherPkt \cup {NoFrame}]
      /\ again \in [Station -> BOOLEAN] /\ console_eof \in [Station -> BOOLEAN]
      /\ arp \in [Station -> Cache]
      /\ Own(s) \subseteq Iface
  BY OwnIsIface DEF NInv, StationTypeOK, Cache
<1>1. read_set' \in [Station -> SUBSET Iface]
  BY <1>0 DEF Handles, Snapshot
<1>2. again' \in [Station -> BOOLEAN] /\ ~again'[s]
      /\ \A t \in Station : t # s => again'[t] = again[t]
  BY <1>0 DEF Handles
<1>3. /\ recv_ether_pkt' \in [Station -> EtherPkt \cup {NoFrame}]
      /\ \A t \in Station : t # s => recv_ether_pkt'[t] = recv_ether_pkt[t]
      /\ recv_ether_pkt'[s] # NoFrame =>
           \E k \in Own(s) : recv_ether_pkt'[s] \in TrueFrame(lan_name[k])
  <2>1. CASE HasFrame(s, i)
    <3>1. /\ Frame(s, i) \in EtherPkt
          /\ \E k \in Own(s) : Frame(s, i) \in TrueFrame(lan_name[k])
      BY <2>1, HandledFrame
    <3>2. /\ recv_ether_pkt' = [recv_ether_pkt EXCEPT ![s] = recv_ether_pkt'[s]]
          /\ recv_ether_pkt'[s] \in {NoFrame, Frame(s, i)}
      BY <1>0, <2>1 DEF Handles
    <3>3. QED
      BY <1>0, <3>1, <3>2
  <2>2. CASE ~HasFrame(s, i)
    <3>1. /\ recv_ether_pkt' = [recv_ether_pkt EXCEPT ![s] = recv_ether_pkt'[s]]
          /\ recv_ether_pkt'[s] \in {NoFrame, recv_ether_pkt[s]}
      BY <1>0, <2>2 DEF Handles
    <3>2. QED
      BY <1>0, <3>1 DEF NInv, CachesTrue
  <2>3. QED
    BY <2>1, <2>2
<1>4. /\ arp' = [arp EXCEPT ![s] = arp'[s]]
      /\ GoodCache(s, arp'[s])
  BY <1>0, CachesStayGood DEF CacheAfter
<1>5. arp' \in [Station -> Cache]
  BY <1>0, <1>4 DEF GoodCache
<1>6. StationTypeOK'
  BY <1>0, <1>1, <1>2, <1>3, <1>5 DEF StationTypeOK, Cache
<1>7. ASSUME NEW t \in Station
      PROVE  /\ recv_ether_pkt'[t] # NoFrame =>
                  \E k \in Own(t) : recv_ether_pkt'[t] \in TrueFrame(lan_name[k])
             /\ again'[t] => recv_ether_pkt'[t] # NoFrame
             /\ \A a \in Ip : has_mapping(arp'[t], a) => TrueFor(t, a, arp'[t][a].mac)
  <2>1. CASE t = s
    BY <1>2, <1>3, <1>4, <2>1 DEF GoodCache
  <2>2. CASE t # s
    <3>1. arp'[t] = arp[t]
      BY <1>0, <1>4, <2>2
    <3>2. QED
      BY <1>2, <1>3, <2>2, <3>1 DEF NInv, CachesTrue
  <2>3. QED
    BY <2>1, <2>2
<1>8. CachesTrue'
  BY <1>7, Zenon DEF CachesTrue, has_mapping
<1>9. QED
  BY <1>6, <1>8
-----------------------------------------------------------------------------
(* Every action of a station is a turn of a client that keeps its memory   *)
(* good.  With local routes it also writes nothing but its own addresses   *)
(* as sources, if what it handles again it handles on a dead connection.   *)

Trusts(s) ==
  /\ RoutesAreLocal
  /\ \A i \in Own(s) : again[s] /\ IsShareOf(s, i) => sock[i] = "dead"

DidTurn(s) ==
  /\ \E out : GoodOut(s, out) /\ TurnOf(s, out) /\ (Trusts(s) => SourcesOf(out))
  /\ StationTypeOK' /\ CachesTrue' /\ PendingRouted'

(* The turn that answers a request and learns from it. *)
LEMMA ArpRequestTurn ==
  ASSUME NInv, NEW s \in Station, NEW i \in Own(s), ArpRequest(s, i),
         UNCHANGED bridgeVars
  PROVE  DidTurn(s)
<1> DEFINE f     == Frame(s, i)
           asked == {k \in Own(s) : ip_addr[k] = f.arp_pkt.dst_ip}
           out   == [k \in asked |-> ArpFrame(mac_addr[k], f.mac_src,
                       create_resp_pkt(f.arp_pkt, ip_addr[k], mac_addr[k]))]
           c     == IF asked = {} THEN arp[s]
                    ELSE add_mapping(arp[s], f.arp_pkt.src_ip, f.arp_pkt.src_mac)
<1>1. /\ Handles(s, i) /\ HasFrame(s, i) /\ IsRequest(f)
      /\ CacheAfter(s, i, c) /\ Write(s, Rest(s, i), out)
      /\ UNCHANGED <<backlog, quit, pq, console_eof, shown>>
  BY DEF ArpRequest
<1>2. /\ f \in EtherPkt /\ GoodRest(s, Rest(s, i))
      /\ \E k \in Own(s) : f \in TrueFrame(lan_name[k])
  BY <1>1, HandledFrame
<1>3. running[s] /\ Own(s) \subseteq Iface
  BY <1>1, OwnIsIface DEF Handles, IsShareOf
<1>4. GoodOut(s, out)
  BY <1>1, <1>2, <1>3, MadeFrames DEF GoodOut
<1>5. SourcesOf(out)
  BY DEF SourcesOf, ArpFrame
<1>6. GoodCache(s, c)
  <2>1. GoodCache(s, arp[s])
    BY DEF NInv, StationTypeOK, CachesTrue, GoodCache, Cache
  <2>2. /\ f.arp_pkt.src_ip \in Ip /\ f.arp_pkt.src_mac \in Mac
        /\ TrueFor(s, f.arp_pkt.src_ip, f.arp_pkt.src_mac)
    BY <1>1, <1>2, FrameKinds DEF IsRequest, TrueFrame, TrueFor
  <2>3. QED
    BY <2>1, <2>2, CachesStayGood
<1> HIDE DEF out, c
<1>7. TurnOf(s, out)
  BY <1>1, <1>2, <1>3, <1>4, WriteIsTurn
<1>8. StationTypeOK' /\ CachesTrue'
  BY <1>1, <1>6, <1>7, HandlesKeeps DEF NInv, StationTypeOK, TurnOf
<1>9. PendingRouted'
  BY <1>1 DEF NInv, PendingRouted
<1>10. QED
  BY <1>4, <1>5, <1>7, <1>8, <1>9 DEF DidTurn

(* The turn that learns from a response and releases a packet. *)
LEMMA ArpResponseTurn ==
  ASSUME NInv, NEW s \in Station, NEW i \in Own(s), ArpResponse(s, i),
         UNCHANGED bridgeVars
  PROVE  DidTurn(s)
<1> DEFINE f   == Frame(s, i)
           n   == Min(Waiting(s, f.arp_pkt))
           c   == add_mapping(arp[s], f.arp_pkt.src_ip, f.arp_pkt.src_mac)
           out == [k \in {i} |-> Released(s, pq[s][n], f.arp_pkt.src_mac)]
<1>1. /\ Handles(s, i) /\ HasFrame(s, i) /\ IsResponse(f)
      /\ Waiting(s, f.arp_pkt) # {}
      /\ CacheAfter(s, i, c) /\ Write(s, Rest(s, i), out)
      /\ pq' = [pq EXCEPT ![s] = RemoveAt(pq[s], n)]
      /\ UNCHANGED <<backlog, quit, console_eof, shown>>
  BY DEF ArpResponse, PendingWithout
<1>2. /\ f \in EtherPkt /\ GoodRest(s, Rest(s, i))
      /\ \E k \in Own(s) : f \in TrueFrame(lan_name[k])
      /\ ~again[s] => f \in TrueFrame(lan_name[i])
  BY <1>1, HandledFrame
<1>3. /\ running[s] /\ Own(s) \subseteq Iface /\ i \in Iface
      /\ pq \in [Station -> Seq(PendingPkt)] /\ pq[s] \in Seq(Routed(s))
  BY <1>1, OwnIsIface DEF Handles, IsShareOf, NInv, StationTypeOK, PendingRouted
<1>4. /\ n \in 1 .. Len(pq[s]) /\ pq[s][n] \in Routed(s)
      /\ pq[s][n].next_hop_ipaddr = f.arp_pkt.src_ip
  <2>1. Waiting(s, f.arp_pkt) \subseteq 1 .. Len(pq[s])
    BY <1>3, LenProperties DEF Waiting
  <2>2. Len(pq[s]) \in Nat
    BY <1>3, LenProperties
  <2>3. n \in Waiting(s, f.arp_pkt)
    <3>1. Waiting(s, f.arp_pkt) \in SUBSET Nat
      BY <2>1, <2>2
    <3>2. QED
      BY <1>1, <3>1, MinIsMember
  <2>4. QED
    BY <1>3, <2>1, <2>3, ElementOfSeq DEF Waiting
<1> HIDE DEF n
<1>5. /\ f.arp_pkt.src_ip \in Ip /\ f.arp_pkt.src_mac \in Mac
      /\ TrueFor(s, f.arp_pkt.src_ip, f.arp_pkt.src_mac)
  BY <1>1, <1>2, FrameKinds DEF IsResponse, TrueFrame, TrueFor
<1>6. GoodOut(s, out)
  <2> DEFINE p == pq[s][n]
  <2>1. /\ p \in PendingPkt /\ p.iface_name \in Iface
    BY <1>4 DEF Routed, PendingPkt
  <2>2. create_pkt(p.src_ipaddr, p.dst_ipaddr, p.data) \in IpPkt
    BY <2>1 DEF PendingPkt, create_pkt, IpPkt
  <2>3. Released(s, p, f.arp_pkt.src_mac) \in TrueFrame(lan_name[i])
    <3>1. mac_addr[p.iface_name] \in Mac /\ f.arp_pkt.src_mac \in AnyMac
      BY <1>5, <2>1, PacketsAssumption DEF AnyMac
    <3>2. QED
      BY <2>2, <3>1 DEF Released, IpFrame, TrueFrame, EtherPkt, IsArp,
                        TYPE_ARP_PKT, TYPE_IP_PKT
  <2>4. QED
    BY <2>3 DEF GoodOut
<1>7. GoodCache(s, c)
  <2>1. GoodCache(s, arp[s])
    BY DEF NInv, StationTypeOK, CachesTrue, GoodCache, Cache
  <2>2. QED
    BY <1>5, <2>1, CachesStayGood
<1> HIDE DEF c
<1>8. TurnOf(s, out)
  BY <1>1, <1>2, <1>3, <1>6, WriteIsTurn
<1>9. pq' \in [Station -> Seq(PendingPkt)] /\ PendingRouted'
  <2>1. /\ RemoveAt(pq[s], n) \in Seq(PendingPkt)
        /\ RemoveAt(pq[s], n) \in Seq(Routed(s))
    BY <1>3, <1>4, RemoveAtProperties
  <2>2. QED
    BY <1>1, <1>3, <2>1 DEF NInv, PendingRouted
<1>10. StationTypeOK' /\ CachesTrue'
  BY <1>1, <1>7, <1>8, <1>9, HandlesKeeps DEF NInv, StationTypeOK, TurnOf
<1>11. ASSUME Trusts(s), ~again[s]
       PROVE  SourcesOf(out)
  <2> DEFINE p == pq[s][n]
  <2>1. PICK d \in Ip : /\ route[s][d].iface = p.iface_name
                        /\ NextHopIp(s, d) = p.next_hop_ipaddr
    BY <1>4 DEF Routed
  <2>2. PICK k \in OnLan(lan_name[i]) : ip_addr[k] = NextHopIp(s, d)
    BY <1>1, <1>2, <1>4, <1>11, <2>1 DEF TrueFrame, Binding, IsResponse
  <2>3. p.iface_name \in {i, NoIface} /\ p.iface_name \in Own(s)
    BY <1>4, <1>11, <2>1, <2>2 DEF Trusts, RoutesAreLocal, Routed
  <2>4. p.iface_name = i
    BY <1>3, <2>3, PacketsAssumption
  <2>5. QED
    BY <2>4 DEF SourcesOf, Released, IpFrame
<1>12. ASSUME Trusts(s), again[s]
       PROVE  TurnOf(s, <<>>)
  <2>1. sock[i] = "dead"
    BY <1>1, <1>12 DEF Trusts, Handles
  <2>2. Ends(s, Rest(s, i)) /\ UNCHANGED up
    BY <1>1, <2>1 DEF Write
  <2>3. QED
    BY <1>1, <1>2, <1>3, <2>2, EndsIsTurn
<1>13. GoodOut(s, <<>>) /\ SourcesOf(<<>>)
  BY DEF GoodOut, SourcesOf
<1>14. QED
  BY <1>6, <1>8, <1>9, <1>10, <1>11, <1>12, <1>13 DEF DidTurn

(* It writes nothing. *)
LEMMA ReadIsTurn ==
  ASSUME NInv, NEW s \in Station, NEW i \in Own(s), GoodRest(s, down'),
         UNCHANGED <<up, backlog, running, bridgeVars>>,
         \/ UNCHANGED sock
         \/ sock[i] = "pipe" /\ sock' = [sock EXCEPT ![i] = "dead"]
  PROVE  TurnOf(s, <<>>)
<1>0. /\ sock \in [Iface -> SockState] /\ up \in [Iface -> Seq(EtherPkt)]
      /\ running \in [Station -> BOOLEAN]
  BY DEF NInv, IInv, TypeOK, SocketsTypeOK, StationTypeOK
<1>1. /\ sock' = [k \in Iface |-> sock'[k]] /\ up' = [k \in Iface |-> up'[k]]
      /\ down' = [k \in Iface |-> down'[k]]
  BY <1>0 DEF GoodRest
<1>2. \A k \in Iface : /\ up'[k] = up[k]
                       /\ \/ down'[k] = down[k]
                          \/ down[k] # <<>> /\ down'[k] = Tail(down[k])
                       /\ \/ sock'[k] = sock[k]
                          \/ sock[k] = "pipe" /\ sock'[k] = "dead"
  BY <1>0 DEF GoodRest
<1>3. \A k \in Iface : Uses(k)
  BY <1>2 DEF Uses
<1>4. ClientTurn
  BY <1>1, <1>3 DEF ClientTurn
<1>5. ASSUME NEW t \in Station, running'[t], NEW k \in Own(t)
      PROVE  sock'[k] \in {"open", "eof", "pipe", "dead"}
  <2>1. k \in Iface /\ sock[k] \in {"open", "eof", "pipe", "dead"}
    BY <1>5, OwnIsIface DEF NInv, Held
  <2>2. QED
    BY <1>2, <2>1
<1>6. Held'
  BY <1>5 DEF Held
<1>7. QED
  BY <1>0, <1>2, <1>4, <1>6 DEF TurnOf

(* A turn that writes nothing writes nothing wrong. *)
LEMMA NoOut ==
  ASSUME NEW s
  PROVE  GoodOut(s, <<>>) /\ SourcesOf(<<>>)
BY DEF GoodOut, SourcesOf

(* The cache of s is good, and stays so without a new mapping. *)
LEMMA OldCache ==
  ASSUME NInv, NEW s \in Station
  PROVE  GoodCache(s, arp[s])
BY DEF NInv, StationTypeOK, CachesTrue, GoodCache, Cache

(* The turns that write nothing. *)
LEMMA QuietHandlers ==
  ASSUME NInv, NEW s \in Station, NEW i \in Own(s),
         Deliver(s, i) \/ Ignore(s, i) \/ ReadEof(s, i), UNCHANGED bridgeVars
  PROVE  DidTurn(s)
<1>1. /\ Handles(s, i) /\ CacheAfter(s, i, arp[s])
      /\ UNCHANGED <<sock, up, backlog, running, pq, console_eof>>
      /\ quit' \in [Station -> BOOLEAN]
  BY DEF Deliver, Ignore, ReadEof, sockVars, NInv, StationTypeOK
<1>2. GoodRest(s, down')
  <2>1. CASE Deliver(s, i) \/ Ignore(s, i)
    BY <2>1, HandledFrame DEF Deliver, Ignore
  <2>2. CASE ReadEof(s, i)
    BY <2>2, NothingRead DEF ReadEof, sockVars
  <2>3. QED
    BY <2>1, <2>2
<1>3. shown' \in [Station -> Seq(IpPkt)]
  <2>0. shown \in [Station -> Seq(IpPkt)]
    BY DEF NInv, StationTypeOK
  <2>1. CASE Deliver(s, i)
    <3>1. /\ Frame(s, i) \in EtherPkt /\ IsIp(Frame(s, i))
          /\ shown' = [shown EXCEPT ![s] = Append(@, Frame(s, i).ip_pkt)]
      BY <2>1, HandledFrame DEF Deliver
    <3>2. QED
      BY <2>0, <3>1, FrameKinds, AppendProperties
  <2>2. CASE ~Deliver(s, i)
    BY <2>0, <2>2 DEF Ignore, ReadEof
  <2>3. QED
    BY <2>1, <2>2
<1>4. TurnOf(s, <<>>)
  BY <1>1, <1>2, ReadIsTurn
<1>5. StationTypeOK' /\ CachesTrue'
  BY <1>1, <1>3, <1>4, OldCache, HandlesKeeps DEF NInv, StationTypeOK, TurnOf
<1>6. PendingRouted'
  BY <1>1 DEF NInv, PendingRouted
<1>7. QED
  BY <1>4, <1>5, <1>6, NoOut DEF DidTurn

(* The turn in which a router passes a packet on. *)
LEMMA ForwardTurn ==
  ASSUME NInv, NEW s \in Station, NEW i \in Own(s), Forward(s, i),
         UNCHANGED bridgeVars
  PROVE  DidTurn(s)
<1> DEFINE p == Frame(s, i).ip_pkt
<1>1. /\ Handles(s, i) /\ HasFrame(s, i) /\ IsIp(Frame(s, i))
      /\ send_ether_pkt(s, Rest(s, i), p.src_ip, p.dst_ip, p.data)
      /\ CacheAfter(s, i, arp[s])
      /\ UNCHANGED <<backlog, quit, console_eof, shown>>
  BY DEF Forward
<1>2. /\ running[s] /\ GoodRest(s, Rest(s, i))
      /\ p.src_ip \in Ip /\ p.dst_ip \in Ip /\ p.data \in Data
  BY <1>1, HandledFrame, FrameKinds DEF Handles, IsShareOf
<1> HIDE DEF p
<1>3. /\ \E out : GoodOut(s, out) /\ SourcesOf(out) /\ TurnOf(s, out)
      /\ pq' \in [Station -> Seq(PendingPkt)]
      /\ PendingRouted'
  BY <1>1, <1>2, SendIsTurn
<1>4. StationTypeOK' /\ CachesTrue'
  BY <1>1, <1>3, OldCache, HandlesKeeps DEF NInv, StationTypeOK, TurnOf
<1>5. QED
  BY <1>3, <1>4 DEF DidTurn

(* The turns whose read() fails: what they handle is what an earlier turn  *)
(* may have handled.                                                       *)
LEMMA FailedReads ==
  ASSUME NInv, NEW s \in Station, NEW i \in Own(s),
         HandleAgain(s, i) \/ ReadError(s, i), UNCHANGED bridgeVars
  PROVE  DidTurn(s)
<1>1. CASE HandleAgain(s, i)
  <2>1. /\ sock[i] = "pipe" /\ sock' = [sock EXCEPT ![i] = "dead"]
        /\ recv_ether_pkt[s] # NoFrame
        /\ again' = [again EXCEPT ![s] = TRUE]
        /\ UNCHANGED <<up, down, backlog, running, quit, read_set, recv_ether_pkt,
                       arp, pq, console_eof, shown>>
    BY <1>1 DEF HandleAgain
  <2>2. TurnOf(s, <<>>)
    BY <2>1, NothingRead, ReadIsTurn
  <2>3. StationTypeOK' /\ PendingRouted'
    BY <2>1 DEF NInv, StationTypeOK, PendingRouted
  <2>4. CachesTrue'
    BY <2>1 DEF NInv, CachesTrue, has_mapping, StationTypeOK
  <2>5. QED
    BY <2>2, <2>3, <2>4, NoOut DEF DidTurn
<1>2. CASE ReadError(s, i)
  <2>1. /\ Handles(s, i) /\ sock[i] = "pipe" /\ CacheAfter(s, i, arp[s])
        /\ UNCHANGED <<up, backlog, quit, pq, console_eof, shown>>
        /\ \/ sock' = [sock EXCEPT ![i] = "dead"] /\ UNCHANGED <<down, running>>
           \/ Ends(s, down)
    BY <1>2 DEF ReadError
  <2>2. running[s]
    BY <2>1 DEF Handles, IsShareOf
  <2>3. TurnOf(s, <<>>)
    <3>1. CASE sock' = [sock EXCEPT ![i] = "dead"] /\ UNCHANGED <<down, running>>
      BY <2>1, <3>1, NothingRead, ReadIsTurn
    <3>2. CASE Ends(s, down)
      BY <2>1, <2>2, <3>2, NothingRead, EndsIsTurn
    <3>3. QED
      BY <2>1, <3>1, <3>2
  <2>4. StationTypeOK' /\ CachesTrue'
    BY <2>1, <2>3, OldCache, HandlesKeeps DEF NInv, StationTypeOK, TurnOf
  <2>5. PendingRouted'
    BY <2>1 DEF NInv, PendingRouted
  <2>6. QED
    BY <2>3, <2>4, <2>5, NoOut DEF DidTurn
<1>3. QED
  BY <1>1, <1>2

(* The turns that handle no interface. *)
LEMMA OtherTurns ==
  ASSUME NInv, NEW s \in Station, UNCHANGED bridgeVars,
         \/ Leave(s)
         \/ \E dst \in Ip, d \in Data : send_cmd(s, dst, d)
  PROVE  DidTurn(s)
<1>1. CASE Leave(s)
  <2>1. /\ running[s] /\ Ends(s, down)
        /\ UNCHANGED <<up, backlog, quit, read_set, recv_ether_pkt, again, arp, pq,
                       console_eof, shown>>
    BY <1>1 DEF Leave
  <2>2. TurnOf(s, <<>>)
    BY <2>1, NothingRead, EndsIsTurn
  <2>3. StationTypeOK' /\ PendingRouted' /\ CachesTrue'
    BY <2>1, <2>2 DEF NInv, StationTypeOK, PendingRouted, TurnOf, CachesTrue, has_mapping
  <2>4. QED
    BY <2>2, <2>3, NoOut DEF DidTurn
<1>2. CASE \E dst \in Ip, d \in Data : send_cmd(s, dst, d)
  <2>1. PICK dst \in Ip, d \in Data : send_cmd(s, dst, d)
    BY <1>2
  <2>2. /\ running[s] /\ send_ether_pkt(s, down, dst, dst, d)
        /\ arp' = [arp EXCEPT ![s] = monitor_cache(@)]
        /\ UNCHANGED <<backlog, quit, read_set, recv_ether_pkt, again, console_eof, shown>>
    BY <2>1 DEF send_cmd, ConsoleTurn
  <2>3. /\ \E out : GoodOut(s, out) /\ SourcesOf(out) /\ TurnOf(s, out)
        /\ pq' \in [Station -> Seq(PendingPkt)]
        /\ PendingRouted'
    BY <2>2, NothingRead, SendIsTurn
  <2>4. GoodCache(s, monitor_cache(arp[s]))
    BY OldCache, CachesStayGood
  <2>5. StationTypeOK'
    BY <2>2, <2>3, <2>4 DEF NInv, StationTypeOK, TurnOf, GoodCache, Cache
  <2>6. CachesTrue'
    BY <2>2, <2>4 DEF NInv, StationTypeOK, CachesTrue, GoodCache, has_mapping
  <2>7. QED
    BY <2>3, <2>5, <2>6 DEF DidTurn
<1>3. QED
  BY <1>1, <1>2
-----------------------------------------------------------------------------
(* Every step of the network. *)

(* What a turn of a bridge does to the stations' ends: running processes   *)
(* hold theirs, and what is written was read on the same LAN.              *)
LEMMA BridgeTurns ==
  ASSUME NInv, NEW b \in Lan,
         BridgeStep(b) \/ Console(b) \/ Off(b) \/ StdinEof(b),
         UNCHANGED stationVars
  PROVE  Held' /\ FramesTrue' /\ NoRequests'
<1>0. /\ sock \in [Iface -> SockState] /\ up \in [Iface -> Seq(EtherPkt)]
      /\ down \in [Iface -> Seq(EtherPkt \cup Reply)]
      /\ NoRequests /\ backlog[b] = <<>>
      /\ \A i \in Iface : /\ up[i] \in Seq(TrueFrame(lan_name[i]))
                          /\ down[i] \in Seq(TrueFrame(lan_name[i]))
      /\ backlog \in [Lan -> Seq(Iface)]
  BY DEF NInv, IInv, TypeOK, SocketsTypeOK, FramesTrue, NoRequests
<1>1. ASSUME NoRequests',
             \A i \in Iface : sock[i] \in {"open", "eof", "pipe", "dead"} =>
                                sock'[i] \in {"open", "eof", "pipe", "dead"},
             \A i \in Iface : /\ up'[i] \in Seq(TrueFrame(lan_name[i]))
                              /\ down'[i] \in Seq(TrueFrame(lan_name[i]))
      PROVE  Held' /\ FramesTrue' /\ NoRequests'
  <2>1. Held'
    BY <1>1, OwnIsIface DEF NInv, Held, stationVars
  <2>2. FramesTrue'
    BY <1>1 DEF FramesTrue
  <2>3. QED
    BY <1>1, <2>1, <2>2
<1>2. ASSUME NEW I, NEW f, NEW k \in Iface, f \in TrueFrame(lan_name[k])
      PROVE  DownAfterWrite(I, f)[k] \in Seq(TrueFrame(lan_name[k]))
  BY <1>0, <1>2, AppendProperties DEF DownAfterWrite
<1>3. ASSUME Exit(b)
      PROVE  /\ NoRequests'
             /\ \A i \in Iface : sock[i] \in {"open", "eof", "pipe", "dead"} =>
                                sock'[i] \in {"open", "eof", "pipe", "dead"}
             /\ \A i \in Iface : up'[i] \in Seq(TrueFrame(lan_name[i]))
  <2>1. NoRequests'
    BY <1>0, <1>3 DEF Exit, NoRequests
  <2>2. \A i \in Iface : up'[i] \in {up[i], <<>>}
    BY <1>3 DEF Exit
  <2>3. ASSUME NEW i \in Iface, sock[i] \in {"open", "eof", "pipe", "dead"}
        PROVE  sock'[i] \in {"open", "eof", "pipe", "dead"}
    BY <1>3, <2>3 DEF Exit, SockAfterExit
  <2>4. QED
    BY <1>0, <2>1, <2>2, <2>3, EmptySeq
<1>4. CASE AcceptClient(b) \/ RejectClient(b)
  BY <1>0, <1>4 DEF AcceptClient, RejectClient
<1>5. ASSUME NEW j \in DOMAIN clients[b], RelayFrame(b, j) \/ BrokenPipe(b, j)
      PROVE  Held' /\ FramesTrue' /\ NoRequests'
  <2> DEFINE i == Client(b, j)
             f == Head(up[i])
             tbl == monitor_arp_cache(btable[b])
             to  == Targets(b, j, tbl, f.mac_dst)
  <2>1. /\ i \in Iface /\ lan_name[i] = b /\ up[i] # <<>>
        /\ \A k \in to : Client(b, k) \in Iface /\ lan_name[Client(b, k)] = b
    BY <1>5, ServedClient, TargetsAreClients DEF NInv, RelayFrame, BrokenPipe
  <2>2. /\ f \in TrueFrame(b) /\ f \in EtherPkt
        /\ Tail(up[i]) \in Seq(TrueFrame(b))
    <3>1. up[i] \in Seq(TrueFrame(b)) /\ up[i] # <<>>
      BY <1>0, <2>1
    <3>2. f \in TrueFrame(b) /\ Tail(up[i]) \in Seq(TrueFrame(b))
      BY <3>1, HeadTailProperties
    <3>3. QED
      BY <3>2 DEF TrueFrame
  <2>3. ASSUME NEW K \in SUBSET to, down' = DownAfterWrite({Client(b, k) : k \in K}, f)
        PROVE  \A n \in Iface : down'[n] \in Seq(TrueFrame(lan_name[n]))
    <3> DEFINE I == {Client(b, k) : k \in K}
    <3> SUFFICES ASSUME NEW n \in Iface
                 PROVE  down'[n] \in Seq(TrueFrame(lan_name[n]))
      OBVIOUS
    <3>1. CASE n \in I
      <4>1. f \in TrueFrame(lan_name[n])
        BY <2>1, <2>2, <3>1
      <4>2. QED
        BY <1>2, <2>3, <4>1
    <3>2. CASE n \notin I
      <4>1. down'[n] = down[n]
        BY <2>3, <3>2 DEF DownAfterWrite
      <4>2. QED
        BY <1>0, <4>1
    <3>3. QED
      BY <3>1, <3>2
  <2>4. CASE RelayFrame(b, j)
    <3> DEFINE outs == {Client(b, k) : k \in to}
    <3>1. /\ up' = [up EXCEPT ![i] = Tail(@)] /\ down' = DownAfterWrite(outs, f)
          /\ sock' = SockAfterWrite(outs) /\ UNCHANGED backlog
      BY <2>4 DEF RelayFrame
    <3>2. \A n \in Iface : up'[n] \in Seq(TrueFrame(lan_name[n]))
      BY <1>0, <2>1, <2>2, <3>1
    <3>3. \A n \in Iface : down'[n] \in Seq(TrueFrame(lan_name[n]))
      BY <2>3, <3>1
    <3>4. \A n \in Iface : sock[n] \in {"open", "eof", "pipe", "dead"} => sock'[n] = sock[n]
      BY <3>1 DEF SockAfterWrite
    <3>5. NoRequests'
      BY <1>0, <3>1 DEF NoRequests
    <3>6. QED
      BY <1>1, <3>2, <3>3, <3>4, <3>5
  <2>5. CASE BrokenPipe(b, j)
    <3> DEFINE bad == {k \in to : sock[Client(b, k)] = "rst"}
               K   == {n \in to : n < Min(bad)}
    <3>1. down' = DownAfterWrite({Client(b, k) : k \in K}, f) /\ Exit(b)
      BY <2>5 DEF BrokenPipe
    <3>2. K \in SUBSET to
      OBVIOUS
    <3> HIDE DEF K
    <3>3. QED
      BY <1>1, <1>3, <2>3, <3>1, <3>2
  <2>6. QED
    BY <1>5, <2>4, <2>5
<1>6. ASSUME NEW j \in DOMAIN clients[b], remove_client(b, j)
      PROVE  Held' /\ FramesTrue' /\ NoRequests'
  <2>1. /\ Client(b, j) \in Iface /\ sock[Client(b, j)] \in {"fin", "rst"}
        /\ sock' = [sock EXCEPT ![Client(b, j)] = "idle"]
        /\ UNCHANGED <<up, down, backlog>>
    BY <1>6, ServedClient DEF remove_client, NInv, Serves, Readable
  <2>2. QED
    BY <1>0, <1>1, <2>1 DEF NoRequests
<1>7. CASE Off(b)
  BY <1>0, <1>1, <1>3, <1>7 DEF Off
<1>8. CASE Console(b) \/ StdinEof(b)
  BY <1>0, <1>1, <1>8 DEF Console, StdinEof, sockVars, NoRequests
<1>9. QED
  BY <1>4, <1>5, <1>6, <1>7, <1>8 DEF BridgeStep

(* The part of NInv that speaks of stations and of what is on its way. *)
StationInv ==
  StationTypeOK /\ NoRequests /\ Held /\ FramesTrue /\ CachesTrue /\ PendingRouted

(* The turns of stations; UserSends is one of them. *)
LEMMA StationTurns ==
  ASSUME NInv, NEW s \in Station, UNCHANGED bridgeVars,
         \/ StationStep(s)
         \/ \E dst \in Ip, d \in Data : send_cmd(s, dst, d)
  PROVE  DidTurn(s)
BY ArpRequestTurn, ArpResponseTurn, QuietHandlers, ForwardTurn, FailedReads, OtherTurns
   DEF StationStep

(* A turn keeps the part of the invariant about stations, and is a turn of *)
(* a client.                                                               *)
LEMMA TurnKeepsInv ==
  ASSUME NInv, NEW s \in Station, DidTurn(s)
  PROVE  Next /\ StationInv'
<1>1. PICK out : GoodOut(s, out) /\ TurnOf(s, out)
  BY DEF DidTurn
<1>2. Next /\ Held'
  BY <1>1 DEF TurnOf, Next
<1>3. FramesTrue' /\ NoRequests'
  BY <1>1, FramesStayTrue
<1>4. QED
  BY <1>2, <1>3 DEF DidTurn, StationInv

(* The console of a station that sends nothing. *)
LEMMA IdleTurns ==
  ASSUME NInv, NEW s \in Station,
         OffCommand(s) \/ ConsoleEof(s) \/ OtherCommand(s)
  PROVE  UNCHANGED sockVars /\ StationInv'
<1>1. /\ UNCHANGED <<sockVars, running, read_set, recv_ether_pkt, again, pq, shown>>
      /\ quit' \in [Station -> BOOLEAN] /\ console_eof' \in [Station -> BOOLEAN]
      /\ \/ UNCHANGED arp
         \/ arp' = [arp EXCEPT ![s] = monitor_cache(@)]
  BY DEF OffCommand, ConsoleEof, OtherCommand, NInv, StationTypeOK
<1>2. GoodCache(s, monitor_cache(arp[s]))
  BY OldCache, CachesStayGood
<1>3. arp' \in [Station -> [Ip -> CacheContent \cup {NoMapping}]]
  BY <1>1, <1>2 DEF NInv, StationTypeOK, GoodCache, Cache
<1>4. StationTypeOK'
  BY <1>1, <1>3 DEF NInv, StationTypeOK
<1>5. CachesTrue'
  <2>1. UNCHANGED <<recv_ether_pkt, again>>
    BY <1>1
  <2>2. \A t \in Station, a \in Ip :
          has_mapping(arp'[t], a) => TrueFor(t, a, arp'[t][a].mac)
    BY <1>1, <1>2 DEF NInv, CachesTrue, StationTypeOK, GoodCache, has_mapping
  <2>3. QED
    BY <2>1, <2>2 DEF NInv, CachesTrue, has_mapping
<1>6. /\ PendingRouted' /\ NoRequests' /\ Held' /\ FramesTrue'
  BY <1>1 DEF NInv, PendingRouted, NoRequests, Held, FramesTrue, sockVars
<1>7. QED
  BY <1>1, <1>4, <1>5, <1>6 DEF StationInv

(* So is a tick of the clock, which only makes entries older. *)
LEMMA TickKeepsInv ==
  ASSUME NInv, NetworkTick
  PROVE  Tick /\ StationInv'
<1>1. /\ AgeTables /\ AgeMappings
      /\ UNCHANGED <<sockVars, alive, clients, curr_ports, ports, peer, stdin_eof,
                     running, quit, read_set, recv_ether_pkt, again, pq, console_eof,
                     shown>>
  BY DEF NetworkTick
<1>2. Tick
  BY <1>1 DEF Tick
<1>3. ASSUME NEW s \in Station
      PROVE  GoodCache(s, arp'[s])
  <2>1. GoodCache(s, arp[s])
    BY OldCache
  <2>2. \A a \in Ip : arp'[s][a] =
          IF has_mapping(arp[s], a) /\ arp[s][a].age < MaxTime
          THEN [arp[s][a] EXCEPT !.age = @ + 1] ELSE arp[s][a]
    BY <1>1 DEF AgeMappings
  <2>3. arp'[s] = [a \in Ip |-> arp'[s][a]]
    BY <1>1 DEF AgeMappings
  <2>4. ASSUME NEW a \in Ip
        PROVE  /\ arp'[s][a] \in CacheContent \cup {NoMapping}
               /\ has_mapping(arp'[s], a) => TrueFor(s, a, arp'[s][a].mac)
    <3> DEFINE e == arp[s][a]
    <3>1. CASE has_mapping(arp[s], a)
      <4>1. e \in CacheContent /\ e.mac \in Mac /\ e.age \in 0 .. MaxTime
            /\ TrueFor(s, a, e.mac)
        BY <2>1, <3>1 DEF GoodCache, Cache, has_mapping, CacheContent
      <4>2. arp'[s][a] = e \/ (e.age < MaxTime /\ arp'[s][a] = [e EXCEPT !.age = @ + 1])
        BY <2>2
      <4>3. arp'[s][a] \in CacheContent /\ arp'[s][a].mac = e.mac
        BY <4>1, <4>2, StationAssumption DEF CacheContent
      <4>4. QED
        BY <4>1, <4>3
    <3>2. CASE ~has_mapping(arp[s], a)
      BY <2>2, <3>2 DEF has_mapping
    <3>3. QED
      BY <3>1, <3>2
  <2>5. arp'[s] \in Cache
    BY <2>3, <2>4 DEF Cache
  <2>6. QED
    BY <2>4, <2>5 DEF GoodCache
<1>4. arp' \in [Station -> Cache]
  BY <1>1, <1>3 DEF AgeMappings, GoodCache
<1>5. StationTypeOK'
  BY <1>1, <1>4 DEF NInv, StationTypeOK, Cache
<1>6. CachesTrue'
  BY <1>1, <1>3 DEF NInv, CachesTrue, GoodCache, has_mapping
<1>7. PendingRouted' /\ NoRequests' /\ Held' /\ FramesTrue'
  BY <1>1 DEF NInv, PendingRouted, NoRequests, Held, FramesTrue, sockVars
<1>8. QED
  BY <1>2, <1>5, <1>6, <1>7 DEF StationInv

(* The users' own variables. *)
LEMMA UsersTyped ==
  ASSUME NInv, [NetworkNext]_networkVars
  PROVE  UsersTypeOK'
<1>0. /\ sent \subseteq Message /\ now \in 0 .. MaxNow /\ stops \in 0 .. MaxStops
      /\ MaxNow \in Nat /\ MaxStops \in Nat
  BY NetworkAssumption DEF NInv, UsersTypeOK
<1>1. ASSUME NEW s \in Station, NEW dst \in Ip, NEW d \in Data, UserSends(s, dst, d)
      PROVE  UsersTypeOK'
  BY <1>0, <1>1 DEF UserSends, UsersTypeOK, Message
<1>2. CASE UserStops
  BY <1>0, <1>2 DEF UserStops, UsersTypeOK
<1>3. CASE NetworkTick
  BY <1>0, <1>3 DEF NetworkTick, UsersTypeOK
<1>4. CASE UNCHANGED userVars
  BY <1>0, <1>4 DEF userVars, UsersTypeOK
<1>5. QED
  BY <1>1, <1>2, <1>3, <1>4
     DEF NetworkNext, UserLooks, BridgeTurn, StationTurn, networkVars

(* Every step is one of BridgeClients, and keeps what is known of stations.*)
LEMMA ClientStep ==
  ASSUME NInv, [NetworkNext]_networkVars
  PROVE  [Next]_vars /\ StationInv'
<1>1. ASSUME NEW s \in Station, NEW dst \in Ip, NEW d \in Data, UserSends(s, dst, d)
      PROVE  Next /\ StationInv'
  BY <1>1, StationTurns, TurnKeepsInv DEF UserSends
<1>2. ASSUME NEW b \in Lan,
             BridgeStep(b) \/ Console(b) \/ Off(b) \/ StdinEof(b),
             UNCHANGED stationVars
      PROVE  Next /\ StationInv'
  <2>1. Next
    BY <1>2 DEF Next, BridgeNext
  <2>2. Held' /\ FramesTrue' /\ NoRequests'
    BY <1>2, BridgeTurns
  <2>3. StationTypeOK' /\ PendingRouted'
    BY <1>2 DEF NInv, StationTypeOK, PendingRouted, stationVars
  <2>4. CachesTrue'
    BY <1>2 DEF NInv, CachesTrue, has_mapping, stationVars
  <2>5. QED
    BY <2>1, <2>2, <2>3, <2>4 DEF StationInv
<1>3. ASSUME NEW s \in Station, StationTurn(s)
      PROVE  Next /\ StationInv'
  BY <1>3, StationTurns, TurnKeepsInv DEF StationTurn
<1>4. ASSUME NEW s \in Station,
             OffCommand(s) \/ ConsoleEof(s) \/ OtherCommand(s), UNCHANGED bridgeVars
      PROVE  UNCHANGED vars /\ StationInv'
  BY <1>4, IdleTurns DEF vars
<1>5. CASE NetworkTick
  BY <1>5, TickKeepsInv DEF Next
<1>6. CASE UserStops
  BY <1>2, <1>4, <1>6 DEF UserStops
<1>7. CASE UserLooks
  BY <1>2, <1>4, <1>7 DEF UserLooks
<1>8. CASE UNCHANGED networkVars
  <2>1. UNCHANGED <<sockVars, bridgeVars, stationVars>>
    BY <1>8 DEF networkVars
  <2>2. UNCHANGED vars
    BY <2>1 DEF vars
  <2>3. StationTypeOK' /\ PendingRouted'
    BY <2>1 DEF NInv, StationTypeOK, PendingRouted, stationVars
  <2>4. CachesTrue'
    BY <2>1 DEF NInv, CachesTrue, has_mapping, stationVars
  <2>5. Held' /\ FramesTrue' /\ NoRequests'
    BY <2>1 DEF NInv, Held, FramesTrue, NoRequests, sockVars, stationVars
  <2>6. QED
    BY <2>2, <2>3, <2>4, <2>5 DEF StationInv
<1>9. QED
  BY <1>1, <1>2, <1>3, <1>5, <1>6, <1>7, <1>8 DEF NetworkNext, BridgeTurn

(* A network that is up. *)
LEMMA NetworkInitInv == NetworkInit => NInv
<1> SUFFICES ASSUME NetworkInit
             PROVE  NInv
  OBVIOUS
<1>1. PICK order \in [Lan -> UNION {Orders[b] : b \in Lan}] :
        /\ \A b \in Lan : order[b] \in Orders[b]
        /\ clients = [b \in Lan |-> [n \in DOMAIN order[b] |-> n]]
        /\ peer = [b \in Lan |-> [p \in Fd |->
                     IF p \in DOMAIN order[b] THEN order[b][p] ELSE NoIface]]
  BY DEF NetworkInit
<1>2. ASSUME NEW b \in Lan
      PROVE  /\ order[b] \in Seq(Iface) /\ IsInjective(order[b])
             /\ ToSet(order[b]) = OnLan(b)
             /\ Len(order[b]) \in 0 .. NumPorts
             /\ DOMAIN order[b] = 1 .. Len(order[b])
             /\ DOMAIN order[b] \subseteq Fd
  <2>1. /\ order[b] \in Seq(Iface) /\ IsInjective(order[b])
        /\ ToSet(order[b]) = OnLan(b) /\ Len(order[b]) <= NumPorts
    BY <1>1, NetworkAssumption
  <2>2. Len(order[b]) \in Nat /\ DOMAIN order[b] = 1 .. Len(order[b])
    BY <2>1, LenProperties
  <2>3. QED
    BY <2>1, <2>2, BridgeAssumption DEF Fd
<1>3. ASSUME NEW b \in Lan
      PROVE  /\ clients[b] \in Seq(Fd)
             /\ DOMAIN clients[b] = DOMAIN order[b] /\ Len(clients[b]) = Len(order[b])
             /\ \A n \in DOMAIN clients[b] :
                  /\ clients[b][n] = n
                  /\ Client(b, n) = order[b][n] /\ Client(b, n) \in Iface
                  /\ lan_name[Client(b, n)] = b
  <2>1. clients[b] = [n \in 1 .. Len(order[b]) |-> n]
    BY <1>1, <1>2
  <2>2. clients[b] \in Seq(Fd) /\ Len(clients[b]) = Len(order[b])
    BY <1>2, <2>1
  <2>3. ASSUME NEW n \in DOMAIN clients[b]
        PROVE  /\ clients[b][n] = n
               /\ Client(b, n) = order[b][n]
               /\ order[b][n] \in OnLan(b)
    BY <1>1, <1>2, <2>1 DEF Client, ToSet
  <2>4. QED
    BY <1>2, <2>1, <2>2, <2>3 DEF OnLan
<1>4. TypeOK
  <2>1. EmptyTable \in Table
    BY DEF EmptyTable, Table
  <2>2. SocketsTypeOK
    BY DEF NetworkInit, SocketsTypeOK, SockState
  <2>3. /\ clients \in [Lan -> Seq(Fd)] /\ curr_ports \in [Lan -> Int]
        /\ ports \in [Lan -> SUBSET Fd]
    <3>1. \A b \in Lan : ToSet(clients[b]) \subseteq Fd
      BY <1>3, ElementOfSeq, LenProperties DEF ToSet
    <3>2. \A b \in Lan : Len(clients[b]) \in Int
      BY <1>3, LenProperties
    <3>3. clients = [b \in Lan |-> clients[b]]
      BY <1>1
    <3>4. QED
      BY <1>3, <3>1, <3>2, <3>3 DEF NetworkInit
  <2>4. peer \in [Lan -> [Fd -> Iface \cup {NoIface}]]
    <3>1. ASSUME NEW b \in Lan, NEW p \in DOMAIN order[b]
          PROVE  order[b][p] \in Iface
      BY <1>2, ElementOfSeq
    <3>2. QED
      BY <1>1, <3>1
  <2>5. QED
    BY <2>1, <2>2, <2>3, <2>4 DEF TypeOK, BridgeTypeOK, NetworkInit, Table
<1>5. PortsConsistent
  <2>1. ASSUME NEW b \in Lan
        PROVE  PortsConsistentAt(b)
    <3>1. Len(clients[b]) <= NumPorts
      BY <1>2, <1>3, BridgeAssumption
    <3>2. /\ curr_ports[b] = Len(clients[b]) /\ ports[b] = ToSet(clients[b])
          /\ \A i \in Iface : sock[i] = "open"
      BY DEF NetworkInit
    <3>3. \A j, k \in DOMAIN clients[b] : j # k => Client(b, j) # Client(b, k)
      <4>1. \A j, k \in DOMAIN order[b] : order[b][j] = order[b][k] => j = k
        BY <1>2 DEF IsInjective
      <4>2. QED
        BY <1>3, <4>1
    <3>4. QED
      BY <1>3, <3>1, <3>2, <3>3 DEF PortsConsistentAt
  <2>2. QED
    BY <2>1 DEF PortsConsistent
<1>6. BacklogConsistent /\ NoRequests
  BY DEF NetworkInit, BacklogConsistent, BacklogConsistentAt, NoRequests
<1>7. StationTypeOK /\ CachesTrue /\ PendingRouted
  BY EmptySeq DEF NetworkInit, StationInit, StationTypeOK, CachesTrue, PendingRouted, has_mapping
<1>8. Held /\ FramesTrue
  BY OwnIsIface, EmptySeq DEF NetworkInit, Held, FramesTrue
<1>9. UsersTypeOK
  BY NetworkAssumption DEF NetworkInit, UsersTypeOK
<1>10. QED
  BY <1>4, <1>5, <1>6, <1>7, <1>8, <1>9 DEF NInv, IInv

(***************************************************************************)
(* The invariant holds whatever users type and stop, in whatever order     *)
(* bridges and stations handle what has arrived (NetworkNext).             *)
(***************************************************************************)
THEOREM NetworkInvariant == NetworkSpec => []NInv
<1>1. NInv /\ [NetworkNext]_networkVars => NInv'
  BY ClientStep, UsersTyped, TypeStep, PortsStep, BacklogStep DEF NInv, IInv, StationInv
<1>2. QED
  BY NetworkInitInv, <1>1, PTL DEF NetworkSpec
=============================================================================
