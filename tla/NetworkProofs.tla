--------------------------- MODULE NetworkProofs ---------------------------
(***************************************************************************)
(* What holds in every internetwork, from the invariant NInv.              *)
(***************************************************************************)
EXTENDS NetworkInvariance, BridgeProofs

(***************************************************************************)
(* All variables of bridges, sockets and stations keep to their types: a   *)
(* frame is complete wherever it is, and a station never leaves a request  *)
(* or a packet without addresses behind.                                   *)
(***************************************************************************)
THEOREM NetworkTypeCorrect == NetworkSpec => []NetworkTypeOK
<1>1. NInv => NetworkTypeOK
  BY DEF NInv, IInv, TypeOK, NetworkTypeOK
<1>2. QED
  BY NetworkInvariant, <1>1, PTL

(***************************************************************************)
(* The loop of Station::start(), with its snapshots, its failed reads and  *)
(* its ends, is a client BridgeClients allows.                             *)
(***************************************************************************)
THEOREM StationsKeepToClients == NetworkSpec => StationsAreClients
<1>1. NInv /\ [NetworkNext]_networkVars => [Next]_vars
  BY ClientStep
<1>2. QED
  BY NetworkInvariant, <1>1, PTL DEF NetworkSpec, StationsAreClients

(* At first the ports of a LAN are those of all its interfaces. *)
LEMMA NetworkRemembers ==
  ASSUME NetworkInit
  PROVE  AllRemembered /\ NoMacUnlearned
<1>1. PICK order \in [Lan -> UNION {Orders[b] : b \in Lan}] :
        /\ \A b \in Lan : order[b] \in Orders[b]
        /\ clients = [b \in Lan |-> [n \in DOMAIN order[b] |-> n]]
        /\ peer = [b \in Lan |-> [p \in Fd |->
                     IF p \in DOMAIN order[b] THEN order[b][p] ELSE NoIface]]
  BY DEF NetworkInit
<1>2. ASSUME NEW i \in Iface
      PROVE  Serving(i)
  <2> DEFINE b == lan_name[i]
  <2>1. b \in Lan /\ i \in OnLan(b)
    BY PacketsAssumption DEF OnLan
  <2>2. ToSet(order[b]) = OnLan(b)
    BY <1>1, <2>1, NetworkAssumption
  <2>3. PICK j \in DOMAIN order[b] : order[b][j] = i
    BY <2>1, <2>2 DEF ToSet
  <2>4. DOMAIN clients[b] = DOMAIN order[b] /\ clients[b][j] = j
    BY <1>1, <2>1, <2>3
  <2>5. j \in Fd
    BY <2>1, <2>3, <2>4, NetworkInitInv, ServedClient DEF NInv
  <2>6. Client(b, j) = i
    BY <1>1, <2>1, <2>3, <2>4, <2>5 DEF Client
  <2>7. QED
    BY <2>3, <2>4, <2>6 DEF Serving
<1>3. AllRemembered
  BY <1>2 DEF NetworkInit, AllRemembered, Remembered
<1>4. NoMacUnlearned
  BY PacketsAssumption DEF NetworkInit, EmptyTable, NoMacUnlearned, AnyMac
<1>5. QED
  BY <1>3, <1>4

(***************************************************************************)
(* So what the bridges promise to all clients they promise to stations:    *)
(* ports and clients_ agree, nobody who is connected is forgotten, a       *)
(* request is flooded, a frame follows a fresh entry or is flooded, and    *)
(* nothing else is written.                                                *)
(***************************************************************************)
THEOREM BridgesServeStations ==
  NetworkSpec => /\ [](PortsConsistent /\ NoOneForgotten /\ RequestsAreFlooded)
                 /\ ForwardsOnFreshEntries /\ RelaysOnly
<1>1. NetworkInit => AllRemembered /\ NoMacUnlearned
  BY NetworkRemembers
<1>2. /\ NInv /\ AllRemembered /\ [NetworkNext]_networkVars => AllRemembered'
      /\ NInv /\ NoMacUnlearned /\ [NetworkNext]_networkVars => NoMacUnlearned'
  BY ClientStep, RememberedStep, NoMacStep DEF AllRemembered, NInv
<1>3. NInv /\ AllRemembered /\ NoMacUnlearned
        => PortsConsistent /\ NoOneForgotten /\ RequestsAreFlooded
  <2>1. NInv => PortsConsistent
    BY DEF NInv, IInv
  <2>2. AllRemembered => NoOneForgotten
    BY DEF AllRemembered, Remembered, Serving, Asking, NoOneForgotten, ToSet
  <2>3. NInv /\ NoMacUnlearned => RequestsAreFlooded
    BY ServedClient DEF NInv, NoMacUnlearned, RequestsAreFlooded, NextHops, has_arp_entry
  <2>4. QED
    BY <2>1, <2>2, <2>3
<1>4. NInv /\ [NetworkNext]_networkVars => [\A i \in Iface : ForwardedFresh(i)]_vars
  BY ClientStep, ForwardedStep DEF NInv
<1>5. NInv /\ [NetworkNext]_networkVars => [\A k \in Iface : WrittenRightly(k)]_vars
  BY ClientStep, WrittenStep DEF NInv
<1>6. QED
  BY NetworkInvariant, <1>1, <1>2, <1>3, <1>4, <1>5, PTL
     DEF NetworkSpec, ForwardsOnFreshEntries, RelaysOnly

(***************************************************************************)
(* An ARP cache holds true mappings of the station's own LANs only, for    *)
(* every topology and routing, although add_mapping() believes whatever    *)
(* frame is handled, also one that a failed read hands out again.          *)
(***************************************************************************)
THEOREM ArpCachesAreTrue == NetworkSpec => []ArpTruth
<1>1. NInv => ArpTruth
  BY DEF NInv, CachesTrue, TrueFor, ArpTruth
<1>2. QED
  BY NetworkInvariant, <1>1, PTL
-----------------------------------------------------------------------------
(* The sources of frames. *)

OwnFrame(i) == {f \in EtherPkt : f.mac_src = mac_addr[i]}

SourcesOwn == \A i \in Iface : up[i] \in Seq(OwnFrame(i))

(* i is the next interface of this turn. *)
AtFirst(s, i) ==
  \E n \in DOMAIN ifaces[s] :
    /\ i = ifaces[s][n] /\ i \in read_set[s]
    /\ \A m \in DOMAIN ifaces[s] : m < n => ifaces[s][m] \notin read_set[s]

(* A frame is kept in the middle of a turn only, and what is handled again *)
(* is handled on a dead connection.                                        *)
KeptInTurn(s) ==
  /\ recv_ether_pkt[s] # NoFrame => read_set[s] # {}
  /\ running[s] /\ again[s] => \A i \in Own(s) : AtFirst(s, i) => sock[i] = "dead"

SourceInv == SourcesOwn /\ \A s \in Station : KeptInTurn(s)

(* Bridges only take from what stations send, and do not revive the dead.  *)
LEMMA BridgesTake ==
  ASSUME NInv, NEW b \in Lan,
         BridgeStep(b) \/ Console(b) \/ Off(b) \/ StdinEof(b), NEW i \in Iface
  PROVE  /\ \/ up'[i] \in {up[i], <<>>}
            \/ up[i] # <<>> /\ up'[i] = Tail(up[i])
         /\ sock[i] = "dead" => sock'[i] = "dead"
<1>0. /\ sock \in [Iface -> SockState] /\ up \in [Iface -> Seq(EtherPkt)]
      /\ NoRequests
  BY DEF NInv, IInv, TypeOK, SocketsTypeOK
<1>1. ASSUME Exit(b)
      PROVE  up'[i] \in {up[i], <<>>} /\ (sock[i] = "dead" => sock'[i] = "dead")
  BY <1>1 DEF Exit, SockAfterExit
<1>2. CASE AcceptClient(b) \/ RejectClient(b)
  BY <1>0, <1>2 DEF AcceptClient, RejectClient, NoRequests
<1>3. ASSUME NEW j \in DOMAIN clients[b], RelayFrame(b, j)
      PROVE  /\ up'[i] = up[i] \/ (up[i] # <<>> /\ up'[i] = Tail(up[i]))
             /\ sock[i] = "dead" => sock'[i] = "dead"
  BY <1>0, <1>3 DEF RelayFrame, SockAfterWrite
<1>4. ASSUME NEW j \in DOMAIN clients[b], BrokenPipe(b, j)
      PROVE  up'[i] \in {up[i], <<>>} /\ (sock[i] = "dead" => sock'[i] = "dead")
  BY <1>1, <1>4 DEF BrokenPipe
<1>5. ASSUME NEW j \in DOMAIN clients[b], remove_client(b, j)
      PROVE  up'[i] = up[i] /\ (sock[i] = "dead" => sock'[i] = "dead")
  <2>1. sock[Client(b, j)] \in {"open", "fin", "rst"} /\ Client(b, j) \in Iface
    BY ServedClient DEF NInv
  <2>2. QED
    BY <1>0, <1>5, <2>1 DEF remove_client
<1>6. CASE Off(b)
  BY <1>1, <1>6 DEF Off
<1>7. CASE Console(b) \/ StdinEof(b)
  BY <1>7 DEF Console, StdinEof, sockVars
<1>8. QED
  BY <1>2, <1>3, <1>4, <1>5, <1>6, <1>7 DEF BridgeStep

(* A station whose turn is not touched keeps what it has. *)
LEMMA UntouchedTurn ==
  ASSUME NEW s \in Station, KeptInTurn(s),
         recv_ether_pkt'[s] = recv_ether_pkt[s], read_set'[s] = read_set[s],
         again'[s] = again[s], running'[s] => running[s],
         \A i \in Own(s) : sock[i] = "dead" => sock'[i] = "dead"
  PROVE  KeptInTurn(s)'
<1>1. \A i : AtFirst(s, i)' <=> AtFirst(s, i)
  BY DEF AtFirst
<1>2. QED
  BY <1>1 DEF KeptInTurn

(* One that handles an interface. *)
LEMMA HandlingTurn ==
  ASSUME NInv, NEW s \in Station, NEW i \in Own(s), Handles(s, i)
  PROVE  KeptInTurn(s)'
<1>1. /\ ~again'[s]
      /\ read_set'[s] = Snapshot(s) \ {i}
      /\ recv_ether_pkt'[s] =
           IF \A k \in Snapshot(s) \ {i} : down[k] # <<>> THEN NoFrame
           ELSE IF HasFrame(s, i) THEN Frame(s, i) ELSE recv_ether_pkt[s]
  BY DEF Handles, NInv, StationTypeOK
<1>2. read_set'[s] = {} => recv_ether_pkt'[s] = NoFrame
  BY <1>1
<1>3. QED
  BY <1>1, <1>2 DEF KeptInTurn

(* The others see nothing of a station's turn. *)
LEMMA OthersTurn ==
  ASSUME NInv, NEW s \in Station, NEW t \in Station, t # s, KeptInTurn(t),
         StationStep(s) \/ \E dst \in Ip, d \in Data : send_cmd(s, dst, d)
  PROVE  KeptInTurn(t)'
<1>0. /\ \A i \in Own(t) : i \in Iface /\ i \notin Own(s)
      /\ Own(s) \subseteq Iface
      /\ sock \in [Iface -> SockState]
  BY OwnIsIface DEF NInv, IInv, TypeOK, SocketsTypeOK
<1>1. ASSUME NEW rest, Ends(s, rest)
      PROVE  /\ running'[t] = running[t]
             /\ \A i \in Own(t) : sock'[i] = sock[i]
  BY <1>0, <1>1 DEF Ends, NInv, StationTypeOK
<1>2. ASSUME NEW rest, NEW out, Write(s, rest, out)
      PROVE  /\ running'[t] = running[t]
             /\ \A i \in Own(t) : sock[i] = "dead" => sock'[i] = "dead"
  BY <1>0, <1>1, <1>2 DEF Write, SockAfterSend
<1>3. ASSUME NEW rest, NEW src, NEW dst, NEW d, send_ether_pkt(s, rest, src, dst, d)
      PROVE  /\ running'[t] = running[t]
             /\ \A i \in Own(t) : sock[i] = "dead" => sock'[i] = "dead"
  <2>1. \/ \E r : Ends(s, r)
        \/ \E r, o : Write(s, r, o)
    BY <1>3, Zenon DEF send_ether_pkt
  <2>2. QED
    BY <1>1, <1>2, <2>1
<1>4. CASE \E dst \in Ip, d \in Data : send_cmd(s, dst, d)
  BY <1>3, <1>4, UntouchedTurn DEF send_cmd
<1>5. CASE Leave(s)
  BY <1>1, <1>5, UntouchedTurn DEF Leave
<1>6. ASSUME NEW i \in Own(s), HandleAgain(s, i)
      PROVE  KeptInTurn(t)'
  BY <1>0, <1>6, UntouchedTurn DEF HandleAgain, NInv, StationTypeOK
<1>7. ASSUME NEW i \in Own(s), Handles(s, i), running'[t] => running[t],
             \A k \in Own(t) : sock[k] = "dead" => sock'[k] = "dead"
      PROVE  KeptInTurn(t)'
  BY <1>7, UntouchedTurn DEF Handles, NInv, StationTypeOK
<1>8. ASSUME NEW i \in Own(s), ArpRequest(s, i) \/ ArpResponse(s, i)
      PROVE  KeptInTurn(t)'
  <2>1. Handles(s, i) /\ \E r, o : Write(s, r, o)
    BY <1>8, Zenon DEF ArpRequest, ArpResponse
  <2>2. QED
    BY <1>2, <1>7, <2>1
<1>9. ASSUME NEW i \in Own(s), Deliver(s, i) \/ Ignore(s, i) \/ ReadEof(s, i)
      PROVE  KeptInTurn(t)'
  BY <1>7, <1>9 DEF Deliver, Ignore, ReadEof, sockVars
<1>10. ASSUME NEW i \in Own(s), Forward(s, i)
      PROVE  KeptInTurn(t)'
  BY <1>3, <1>7, <1>10 DEF Forward
<1>11. ASSUME NEW i \in Own(s), ReadError(s, i)
      PROVE  KeptInTurn(t)'
  <2>1. /\ Handles(s, i)
        /\ \/ sock' = [sock EXCEPT ![i] = "dead"] /\ UNCHANGED running
           \/ Ends(s, down)
    BY <1>11 DEF ReadError
  <2>2. QED
    BY <1>0, <1>1, <1>7, <2>1
<1>12. QED
  BY <1>4, <1>5, <1>6, <1>8, <1>9, <1>10, <1>11 DEF StationStep

(* The station itself: what it keeps is kept in the middle of a turn. *)
LEMMA OwnTurn ==
  ASSUME NInv, NEW s \in Station, KeptInTurn(s),
         StationStep(s) \/ \E dst \in Ip, d \in Data : send_cmd(s, dst, d)
  PROVE  KeptInTurn(s)'
<1>1. CASE \E dst \in Ip, d \in Data : send_cmd(s, dst, d)
  <2>1. /\ running[s] /\ read_set[s] = {}
        /\ UNCHANGED <<read_set, recv_ether_pkt, again>>
    BY <1>1 DEF send_cmd, ConsoleTurn
  <2>2. recv_ether_pkt[s] = NoFrame /\ ~again[s]
    BY <2>1 DEF KeptInTurn, NInv, CachesTrue
  <2>3. QED
    BY <2>1, <2>2 DEF KeptInTurn
<1>2. CASE Leave(s)
  BY <1>2 DEF Leave, Ends, KeptInTurn, NInv, StationTypeOK
<1>3. ASSUME NEW i \in Own(s), HandleAgain(s, i)
      PROVE  KeptInTurn(s)'
  <2>1. /\ IsShareOf(s, i) /\ recv_ether_pkt[s] # NoFrame
        /\ sock' = [sock EXCEPT ![i] = "dead"]
        /\ UNCHANGED <<read_set, recv_ether_pkt>>
    BY <1>3 DEF HandleAgain
  <2>2. read_set[s] # {} /\ Snapshot(s) = read_set[s]
    BY <2>1 DEF KeptInTurn, Snapshot
  <2>3. AtFirst(s, i)
    BY <2>1, <2>2 DEF IsShareOf, AtFirst
  <2>4. ASSUME NEW k \in Own(s), AtFirst(s, k)
        PROVE  k = i
    <3>1. PICK n \in DOMAIN ifaces[s] :
            /\ i = ifaces[s][n] /\ i \in read_set[s]
            /\ \A m \in DOMAIN ifaces[s] : m < n => ifaces[s][m] \notin read_set[s]
      BY <2>3 DEF AtFirst
    <3>2. PICK l \in DOMAIN ifaces[s] :
            /\ k = ifaces[s][l] /\ k \in read_set[s]
            /\ \A m \in DOMAIN ifaces[s] : m < l => ifaces[s][m] \notin read_set[s]
      BY <2>4 DEF AtFirst
    <3>3. n \in Nat /\ l \in Nat
      BY StationAssumption, LenProperties
    <3>4. ~(n < l) /\ ~(l < n)
      BY <3>1, <3>2
    <3>5. QED
      BY <3>1, <3>2, <3>3, <3>4
  <2>5. sock'[i] = "dead"
    BY <2>1, OwnIsIface DEF NInv, IInv, TypeOK, SocketsTypeOK
  <2>6. \A k : AtFirst(s, k)' <=> AtFirst(s, k)
    BY <2>1 DEF AtFirst
  <2>7. QED
    BY <2>1, <2>2, <2>4, <2>5, <2>6 DEF KeptInTurn
<1>4. ASSUME NEW i \in Own(s), Handles(s, i)
      PROVE  KeptInTurn(s)'
  BY <1>4, HandlingTurn
<1>5. QED
  BY <1>1, <1>2, <1>3, <1>4
     DEF StationStep, ArpRequest, ArpResponse, Deliver, Forward, Ignore, ReadEof, ReadError

(* Every step keeps the sources of frames, those of pending packets        *)
(* included.                                                               *)
LEMMA SourcesStep ==
  ASSUME NInv, SourceInv, RoutesAreLocal, [NetworkNext]_networkVars
  PROVE  SourceInv'
<1>1. ASSUME NEW s \in Station, UNCHANGED bridgeVars,
             StationStep(s) \/ \E dst \in Ip, d \in Data : send_cmd(s, dst, d)
      PROVE  SourceInv'
  <2>1. \A t \in Station : KeptInTurn(t)'
    BY <1>1, OwnTurn, OthersTurn DEF SourceInv
  <2>2. Trusts(s)
    <3>1. ASSUME NEW i \in Own(s), again[s], IsShareOf(s, i)
          PROVE  sock[i] = "dead"
      <4>1. read_set[s] # {} /\ running[s]
        BY <3>1 DEF SourceInv, KeptInTurn, NInv, CachesTrue, IsShareOf
      <4>2. AtFirst(s, i)
        BY <3>1, <4>1 DEF IsShareOf, AtFirst, Snapshot
      <4>3. QED
        BY <3>1, <4>1, <4>2 DEF SourceInv, KeptInTurn
    <3>2. QED
      BY <3>1 DEF Trusts
  <2>3. PICK out : GoodOut(s, out) /\ TurnOf(s, out) /\ SourcesOf(out)
    BY <1>1, <2>2, StationTurns DEF DidTurn
  <2>4. ASSUME NEW i \in Iface
        PROVE  up'[i] \in Seq(OwnFrame(i))
    <3>1. up[i] \in Seq(OwnFrame(i))
      BY DEF SourceInv, SourcesOwn
    <3>2. CASE up'[i] = up[i]
      BY <3>1, <3>2
    <3>3. CASE i \in DOMAIN out /\ up'[i] = Append(up[i], out[i])
      <4>1. out[i] \in OwnFrame(i)
        BY <2>3, <3>3 DEF GoodOut, SourcesOf, OwnFrame, TrueFrame
      <4>2. QED
        BY <3>1, <3>3, <4>1, AppendProperties
    <3>4. QED
      BY <2>3, <3>2, <3>3 DEF TurnOf
  <2>5. QED
    BY <2>1, <2>4 DEF SourceInv, SourcesOwn
<1>2. ASSUME NEW b \in Lan,
             BridgeStep(b) \/ Console(b) \/ Off(b) \/ StdinEof(b),
             UNCHANGED stationVars
      PROVE  SourceInv'
  <2>1. ASSUME NEW i \in Iface
        PROVE  up'[i] \in Seq(OwnFrame(i))
    <3>1. up[i] \in Seq(OwnFrame(i))
      BY DEF SourceInv, SourcesOwn
    <3>2. up[i] # <<>> => Tail(up[i]) \in Seq(OwnFrame(i))
      BY <3>1, HeadTailProperties
    <3>3. up'[i] \in {up[i], <<>>} \/ (up[i] # <<>> /\ up'[i] = Tail(up[i]))
      BY <1>2, BridgesTake
    <3>4. QED
      BY <3>1, <3>2, <3>3, EmptySeq
  <2>2. ASSUME NEW t \in Station
        PROVE  KeptInTurn(t)'
    <3>1. \A i \in Own(t) : sock[i] = "dead" => sock'[i] = "dead"
      BY <1>2, BridgesTake, OwnIsIface
    <3>2. QED
      BY <1>2, <3>1, UntouchedTurn DEF SourceInv, stationVars
  <2>3. QED
    BY <2>1, <2>2 DEF SourceInv, SourcesOwn
<1>3. ASSUME NEW s \in Station,
             OffCommand(s) \/ ConsoleEof(s) \/ OtherCommand(s)
      PROVE  SourceInv'
  <2>1. UNCHANGED <<sockVars, running, read_set, recv_ether_pkt, again>>
    BY <1>3 DEF OffCommand, ConsoleEof, OtherCommand
  <2>2. \A t \in Station : KeptInTurn(t)'
    BY <2>1, UntouchedTurn DEF SourceInv, sockVars
  <2>3. QED
    BY <2>1, <2>2 DEF SourceInv, SourcesOwn, sockVars
<1>4. CASE NetworkTick \/ UNCHANGED networkVars
  <2>1. UNCHANGED <<sockVars, running, read_set, recv_ether_pkt, again>>
    BY <1>4 DEF NetworkTick, networkVars, stationVars
  <2>2. \A t \in Station : KeptInTurn(t)'
    BY <2>1, UntouchedTurn DEF SourceInv, sockVars
  <2>3. QED
    BY <2>1, <2>2 DEF SourceInv, SourcesOwn, sockVars
<1>5. QED
  BY <1>1, <1>2, <1>3, <1>4
     DEF NetworkNext, UserSends, UserStops, UserLooks, BridgeTurn, StationTurn

(***************************************************************************)
(* If every next hop is a neighbour on the LAN of its route, as in a table *)
(* without mistakes, every frame leaves an interface with its own MAC      *)
(* address as its source: also a pending packet, which ArpResponse sends   *)
(* out where the response came in.                                         *)
(***************************************************************************)
THEOREM SourcesAreOwn ==
  ASSUME RoutesAreLocal
  PROVE  NetworkSpec => []SourceMacIsOwn
<1>1. NetworkInit => SourceInv
  BY EmptySeq DEF NetworkInit, StationInit, SourceInv, SourcesOwn, KeptInTurn
<1>2. NInv /\ SourceInv /\ [NetworkNext]_networkVars => SourceInv'
  BY RoutesAreLocal, SourcesStep
<1>3. SourceInv => SourceMacIsOwn
  <2>1. ASSUME SourceInv, NEW i \in Iface, NEW n \in DOMAIN up[i]
        PROVE  up[i][n].mac_src = mac_addr[i]
    <3>1. up[i] \in Seq(OwnFrame(i))
      BY <2>1 DEF SourceInv, SourcesOwn
    <3>2. up[i][n] \in OwnFrame(i)
      BY <3>1, ElementOfSeq, LenProperties
    <3>3. QED
      BY <3>2 DEF OwnFrame
  <2>2. QED
    BY <2>1 DEF SourceMacIsOwn
<1>4. QED
  BY NetworkInvariant, <1>1, <1>2, <1>3, PTL DEF NetworkSpec
=============================================================================
