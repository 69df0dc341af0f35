---------------------------- MODULE BridgeProofs ----------------------------
(***************************************************************************)
(* What the bridges promise, proved from the invariant of module           *)
(* BridgeInvariance: requests are flooded, nobody is forgotten, and frames *)
(* follow fresh entries only.                                              *)
(***************************************************************************)
EXTENDS BridgeInvariance

USE DEF Fd, Age, Absent
-----------------------------------------------------------------------------
(* RequestsAreFlooded, for all descriptors and not only those in use: a table *)
(* outlives its connection.                                                   *)
NoMacUnlearned == \A b \in Lan : \A p \in Fd : btable[b][p][NoMac] = Absent

(* No operation on a table enters the empty address, unless asked to. *)
LEMMA NoMacInTable ==
  ASSUME NEW tbl \in Table, \A p \in Fd : tbl[p][NoMac] = Absent
  PROVE  /\ \A p \in Fd : monitor_arp_cache(tbl)[p][NoMac] = Absent
         /\ \A q \in Fd, m \in Mac : \A p \in Fd :
              add_arp_entry(tbl, q, m)[p][NoMac] = Absent
         /\ \A q \in Fd : \A p \in Fd :
              [tbl EXCEPT ![q] = EmptyTable[q]][p][NoMac] = Absent
<1>0. NoMac \in AnyMac /\ NoMac \notin Mac
  BY PacketsAssumption DEF AnyMac
<1>1. \A p \in Fd : monitor_arp_cache(tbl)[p][NoMac] = Absent
  BY <1>0 DEF Table, monitor_arp_cache
<1>2. \A q \in Fd, m \in Mac : \A p \in Fd : add_arp_entry(tbl, q, m)[p][NoMac] = Absent
  BY <1>0 DEF Table, add_arp_entry, has_arp_entry
<1>3. \A q \in Fd : \A p \in Fd : [tbl EXCEPT ![q] = EmptyTable[q]][p][NoMac] = Absent
  BY <1>0 DEF Table, EmptyTable
<1>4. QED
  BY <1>1, <1>2, <1>3

(* Every step keeps the empty address out of every table. *)
LEMMA NoMacStep ==
  ASSUME IInv, NoMacUnlearned, [Next]_vars
  PROVE  NoMacUnlearned'
<1> DEFINE Clean(tbl) == \A p \in Fd : tbl[p][NoMac] = Absent
<1>0. \A c \in Lan : btable[c] \in Table /\ Clean(btable[c])
  BY DEF IInv, TypeOK, BridgeTypeOK, Table, NoMacUnlearned
<1>1. \A c \in Lan : /\ monitor_arp_cache(btable[c]) \in Table
                     /\ Clean(monitor_arp_cache(btable[c]))
  BY <1>0, TableTypes, NoMacInTable
<1>2. ASSUME NEW b \in Lan, NEW tbl, Clean(tbl), btable' = [btable EXCEPT ![b] = tbl]
      PROVE  NoMacUnlearned'
  BY <1>0, <1>2 DEF NoMacUnlearned, IInv, TypeOK, BridgeTypeOK
<1>3. ASSUME NEW b \in Lan, AcceptClient(b)
      PROVE  NoMacUnlearned'
  <2>1. PICK fd \in Fd : add_port(b, fd, monitor_arp_cache(btable[b]))
    BY <1>3 DEF AcceptClient
  <2>2. Clean([monitor_arp_cache(btable[b]) EXCEPT ![fd] = EmptyTable[fd]])
    BY <1>1, NoMacInTable
  <2>3. CASE fd \in ports[b]
    BY <1>1, <1>2, <2>1, <2>3 DEF add_port
  <2>4. CASE fd \notin ports[b]
    BY <1>2, <2>1, <2>2, <2>4 DEF add_port
  <2>5. QED
    BY <2>3, <2>4
<1>4. ASSUME NEW b \in Lan, NEW j \in DOMAIN clients[b], RelayFrame(b, j)
      PROVE  NoMacUnlearned'
  <2> DEFINE f   == Head(up[Client(b, j)])
             tbl == monitor_arp_cache(btable[b])
             p   == clients[b][j]
  <2>1. f.mac_src \in Mac /\ f.mac_dst \in AnyMac /\ p \in Fd
    BY <1>4, ServedClient, FrameFields DEF RelayFrame
  <2>2. btable' = [btable EXCEPT ![b] = Learn(b, j, tbl, f)]
    BY <1>4 DEF RelayFrame
  <2>3. tbl \in Table /\ Clean(tbl)
    BY <1>1
  <2> HIDE DEF f, tbl, p
  <2>4. Clean(Learn(b, j, tbl, f))
    <3> DEFINE tbl2 == IF NextHops(b, tbl, f.mac_dst) = {} /\ f.mac_dst # NoMac
                       THEN add_arp_entry(tbl, p, f.mac_dst)
                       ELSE tbl
    <3>1. tbl2 \in Table /\ Clean(tbl2)
      <4>1. CASE f.mac_dst = NoMac
        BY <2>3, <4>1
      <4>2. CASE f.mac_dst \in Mac
        <5>1. add_arp_entry(tbl, p, f.mac_dst) \in Table
          BY <2>1, <2>3, TableTypes
        <5>2. Clean(add_arp_entry(tbl, p, f.mac_dst))
          BY <2>1, <2>3, <4>2, NoMacInTable
        <5>3. QED
          BY <2>3, <5>1, <5>2
      <4>3. QED
        BY <2>1, <4>1, <4>2 DEF AnyMac
    <3>2. Learn(b, j, tbl, f) = add_arp_entry(tbl2, p, f.mac_src)
      BY DEF Learn, p
    <3> HIDE DEF tbl2
    <3>3. Clean(add_arp_entry(tbl2, p, f.mac_src))
      BY <2>1, <3>1, NoMacInTable
    <3>4. QED
      BY <3>2, <3>3
  <2>5. QED
    BY <1>2, <2>2, <2>4
<1>5. ASSUME NEW b \in Lan, Exit(b)
      PROVE  NoMacUnlearned'
  <2>1. Clean(EmptyTable)
    BY PacketsAssumption DEF EmptyTable, AnyMac
  <2>2. QED
    BY <1>2, <1>5, <2>1 DEF Exit
<1>6. CASE Tick
  BY <1>0, <1>6, PacketsAssumption DEF Tick, AgeTables, Older, NoMacUnlearned, AnyMac
<1>7. CASE UNCHANGED btable
  BY <1>7 DEF NoMacUnlearned
<1>8. QED
  <2>1. ASSUME NEW b \in Lan,
               \/ RejectClient(b) \/ Console(b)
               \/ \E j \in DOMAIN clients[b] : remove_client(b, j)
        PROVE  NoMacUnlearned'
    <3>1. btable' = [btable EXCEPT ![b] = monitor_arp_cache(btable[b])]
      BY <2>1 DEF RejectClient, Console, remove_client
    <3>2. QED
      BY <1>1, <1>2, <3>1
  <2>2. ASSUME NEW b \in Lan,
               Start(b) \/ BridgeStep(b) \/ Console(b) \/ Off(b) \/ StdinEof(b)
        PROVE  NoMacUnlearned'
    BY <1>3, <1>4, <1>5, <1>7, <2>1, <2>2
       DEF BridgeStep, BrokenPipe, Off, StdinEof, Start
  <2>3. CASE ClientTurn \/ (\E i \in Iface : ClientConnect(i)) \/ UNCHANGED vars
    BY <1>7, <2>3 DEF ClientTurn, ClientConnect, vars, bridgeVars
  <2>4. QED
    BY <1>6, <2>2, <2>3 DEF Next, BridgeNext

(***************************************************************************)
(* The bridge finds no port for the empty address ARP requests are sent    *)
(* to, so handle_frame() floods them.                                      *)
(***************************************************************************)
THEOREM RequestsFlooded == Spec => []RequestsAreFlooded
<1>1. Init => NoMacUnlearned
  BY PacketsAssumption DEF Init, BridgeInit, EmptyTable, NoMacUnlearned, AnyMac
<1>2. IInv /\ NoMacUnlearned /\ [Next]_vars => NoMacUnlearned'
  BY NoMacStep
<1>3. IInv /\ NoMacUnlearned => RequestsAreFlooded
  BY ServedClient DEF NoMacUnlearned, RequestsAreFlooded, NextHops, has_arp_entry
<1>4. QED
  BY Invariance, <1>1, <1>2, <1>3, PTL DEF Spec
-----------------------------------------------------------------------------
(* NoOneForgotten, for one interface. *)
Serving(i) == \E j \in DOMAIN clients[lan_name[i]] : Client(lan_name[i], j) = i
Asking(i) == \E n \in DOMAIN backlog[lan_name[i]] : backlog[lan_name[i]][n] = i

Remembered(i) == /\ sock[i] \in {"open", "rst"} => Serving(i)
                 /\ sock[i] = "syn" => Asking(i)

(* Every step keeps a station that waits or is accepted where it is found. *)
LEMMA RememberedStep ==
  ASSUME IInv, [Next]_vars, NEW i \in Iface, Remembered(i)
  PROVE  Remembered(i)'
<1> DEFINE c == lan_name[i]
<1>0. c \in Lan
  BY PacketsAssumption
<1>1. CASE /\ clients'[c] = clients[c] /\ peer'[c] = peer[c]
           /\ backlog'[c] = backlog[c] /\ sock'[i] = sock[i]
  BY <1>1 DEF Remembered, Serving, Asking, Client
<1>2. ASSUME NEW b \in Lan, AcceptClient(b)
      PROVE  Remembered(i)'
  <2> DEFINE n == Len(clients[b])
  <2>1. /\ n \in Nat /\ DOMAIN clients[b] = 1 .. n /\ DOMAIN clients'[b] = 1 .. n + 1
        /\ \A k \in 1 .. n : peer'[b][clients'[b][k]] = Client(b, k)
        /\ peer'[b][clients'[b][n + 1]] = Head(backlog[b])
        /\ lan_name[Head(backlog[b])] = b
        /\ sock'[Head(backlog[b])] \in {"open", "rst"}
    BY <1>2, Accepted
  <2>2. /\ \A k \in Iface : k # Head(backlog[b]) => sock'[k] = sock[k]
        /\ backlog'[b] = Tail(backlog[b]) /\ backlog[b] # <<>>
    BY <1>2, Accepted DEF AcceptClient
  <2> HIDE DEF n
  <2>3. CASE i = Head(backlog[b])
    <3>1. n + 1 \in DOMAIN clients'[c] /\ peer'[c][clients'[c][n + 1]] = i
      BY <2>1, <2>3
    <3>2. sock'[i] # "syn"
      BY <2>1, <2>3
    <3>3. QED
      BY <3>1, <3>2 DEF Remembered, Serving, Client
  <2>4. CASE i # Head(backlog[b]) /\ c = b
    <3>1. sock'[i] = sock[i]
      BY <2>2, <2>4
    <3>2. Serving(i) => Serving(i)'
      BY <2>1, <2>4 DEF Serving, Client
    <3>3. Asking(i) => Asking(i)'
      <4>1. ASSUME NEW m \in DOMAIN backlog[b], backlog[b][m] = i
            PROVE  m - 1 \in DOMAIN Tail(backlog[b]) /\ Tail(backlog[b])[m - 1] = i
        <5>1. m \in 1 .. Len(backlog[b]) /\ m # 1 /\ Len(backlog[b]) \in Nat
          BY <2>2, <2>4, <4>1, FirstRequest, WaitingRequest
        <5>2. m - 1 \in DOMAIN Tail(backlog[b])
          BY <2>2, <5>1, FirstRequest, LenProperties
        <5>3. QED
          BY <2>2, <4>1, <5>1, <5>2, FirstRequest
      <4>2. QED
        BY <2>2, <2>4, <4>1 DEF Asking
    <3>4. QED
      BY <3>1, <3>2, <3>3 DEF Remembered
  <2>5. CASE c # b
    <3>1. clients'[c] = clients[c] /\ peer'[c] = peer[c] /\ backlog'[c] = backlog[c]
      BY <1>0, <1>2, <2>5, Accepted
    <3>2. QED
      BY <1>1, <2>1, <2>2, <2>5, <3>1
  <2>6. QED
    BY <2>3, <2>4, <2>5
<1>3. ASSUME NEW b \in Lan, RejectClient(b)
      PROVE  Remembered(i)'
  <2>1. /\ backlog[b] # <<>> /\ backlog'[b] = Tail(backlog[b])
        /\ \A d \in Lan : d # b => backlog'[d] = backlog[d]
        /\ clients' = clients /\ peer' = peer
        /\ \A k \in Iface : k # Head(backlog[b]) => sock'[k] = sock[k]
    BY <1>3 DEF RejectClient, IInv, TypeOK, SocketsTypeOK
  <2>2. CASE i = Head(backlog[b])
    <3>1. sock'[i] \in {"idle", "eof"}
      BY <1>3, <2>2 DEF RejectClient, IInv, TypeOK, SocketsTypeOK
    <3>2. QED
      BY <3>1 DEF Remembered
  <2>3. CASE i # Head(backlog[b]) /\ c = b
    <3>1. sock'[i] = sock[i]
      BY <2>1, <2>3
    <3>2. Asking(i) => Asking(i)'
      <4>1. ASSUME NEW m \in DOMAIN backlog[b], backlog[b][m] = i
            PROVE  m - 1 \in DOMAIN Tail(backlog[b]) /\ Tail(backlog[b])[m - 1] = i
        <5>1. m \in 1 .. Len(backlog[b]) /\ m # 1 /\ Len(backlog[b]) \in Nat
          BY <2>1, <2>3, <4>1, FirstRequest, WaitingRequest
        <5>2. m - 1 \in DOMAIN Tail(backlog[b])
          BY <2>1, <5>1, FirstRequest, LenProperties
        <5>3. QED
          BY <2>1, <4>1, <5>1, <5>2, FirstRequest
      <4>2. QED
        BY <2>1, <2>3, <4>1 DEF Asking
    <3>3. QED
      BY <2>1, <3>1, <3>2 DEF Remembered, Serving, Client
  <2>4. CASE c # b
    <3>1. i # Head(backlog[b])
      BY <2>1, <2>4, FirstRequest, WaitingRequest
    <3>2. QED
      BY <1>0, <1>1, <2>1, <2>4, <3>1
  <2>5. QED
    BY <2>2, <2>3, <2>4
<1>4. ASSUME NEW b \in Lan, NEW j \in DOMAIN clients[b], RelayFrame(b, j)
      PROVE  Remembered(i)'
  <2>1. PICK to \in SUBSET DOMAIN clients[b] :
          sock' = SockAfterWrite({Client(b, k) : k \in to})
    BY <1>4, TargetsAreClients DEF RelayFrame
  <2>2. UNCHANGED <<backlog, clients, peer>>
    BY <1>4 DEF RelayFrame
  <2>3. CASE sock'[i] = sock[i]
    BY <1>1, <2>2, <2>3
  <2>4. CASE sock'[i] # sock[i]
    <3>1. PICK k \in DOMAIN clients[b] : Client(b, k) = i
      BY <2>1, <2>4 DEF SockAfterWrite
    <3>2. lan_name[i] = b /\ sock'[i] = "rst"
      BY <2>1, <2>4, <3>1, ServedClient DEF SockAfterWrite
    <3>3. QED
      BY <2>2, <3>1, <3>2 DEF Remembered, Serving, Client
  <2>5. QED
    BY <2>3, <2>4
<1>5. ASSUME NEW b \in Lan, Exit(b)
      PROVE  Remembered(i)'
  <2>1. CASE c = b
    <3>1. sock[i] \in SockState
      BY DEF IInv, TypeOK, SocketsTypeOK
    <3>2. sock'[i] = SockAfterExit(b)[i]
      BY <1>5 DEF Exit
    <3>3. sock[i] \in {"syn", "open"} => sock'[i] \in {"eof", "pipe"}
      BY <2>1, <3>2, Zenon DEF SockAfterExit
    <3>4. sock[i] \in {"fin", "rst"} => sock'[i] = "idle"
      BY <2>1, <3>2, Zenon DEF SockAfterExit
    <3>5. sock[i] \in {"idle", "eof", "pipe", "dead"} => sock'[i] = sock[i]
      BY <2>1, <3>2, Zenon DEF SockAfterExit
    <3>6. QED
      BY <3>1, <3>3, <3>4, <3>5 DEF SockState, Remembered
  <2>2. CASE c # b
    <3>1. backlog'[c] = backlog[c] /\ clients'[c] = clients[c] /\ peer'[c] = peer[c]
      BY <1>0, <1>5, <2>2 DEF Exit, IInv, TypeOK, SocketsTypeOK, BridgeTypeOK
    <3>2. sock'[i] = sock[i]
      BY <1>5, <2>2, Zenon DEF Exit, SockAfterExit
    <3>3. QED
      BY <1>1, <3>1, <3>2
  <2>3. QED
    BY <2>1, <2>2
<1>6. ASSUME NEW b \in Lan, NEW j \in DOMAIN clients[b], remove_client(b, j)
      PROVE  Remembered(i)'
  <2>1. backlog' = backlog /\ \A k \in Iface : k # Client(b, j) => sock'[k] = sock[k]
    BY <1>6, Removed
  <2>2. CASE i = Client(b, j)
    <3>1. sock'[i] = "idle"
      BY <1>6, <2>2, Removed
    <3>2. QED
      BY <3>1 DEF Remembered
  <2>3. CASE i # Client(b, j) /\ c = b
    <3> DEFINE n == Len(clients[b])
    <3>1. /\ DOMAIN clients[b] = 1 .. n /\ DOMAIN clients'[b] = 1 .. n - 1
          /\ \A l \in 1 .. n : l # j => \E k \in 1 .. n - 1 : From(j, k) = l
      BY <1>6, Removed
    <3>2. \A k \in 1 .. n - 1 : peer'[b][clients'[b][k]] = Client(b, From(j, k))
      BY <1>6, Removed
    <3> HIDE DEF n
    <3>3. Serving(i) => Serving(i)'
      <4>1. ASSUME NEW l \in 1 .. n, Client(b, l) = i
            PROVE  \E k \in 1 .. n - 1 : peer'[b][clients'[b][k]] = i
        <5>1. PICK k \in 1 .. n - 1 : From(j, k) = l
          BY <2>3, <3>1, <4>1
        <5>2. QED
          BY <3>2, <4>1, <5>1
      <4>2. QED
        BY <2>3, <3>1, <4>1 DEF Serving, Client
    <3>4. QED
      BY <2>1, <2>3, <3>3 DEF Remembered, Asking
  <2>4. CASE c # b
    <3>1. /\ clients'[c] = clients[c] /\ peer'[c] = peer[c]
          /\ lan_name[Client(b, j)] = b
      BY <1>0, <1>6, <2>4, Removed
    <3>2. QED
      BY <1>1, <2>1, <2>4, <3>1
  <2>5. QED
    BY <2>2, <2>3, <2>4
<1>7. ASSUME NEW k \in Iface, ClientConnect(k)
      PROVE  Remembered(i)'
  <2> DEFINE d == lan_name[k]
  <2>1. /\ UNCHANGED <<clients, peer>> /\ d \in Lan
        /\ backlog'[d] = Append(backlog[d], k)
        /\ \A e \in Lan : e # d => backlog'[e] = backlog[e]
        /\ sock'[k] = "syn"
        /\ \A l \in Iface : l # k => sock'[l] = sock[l]
    BY <1>7, PacketsAssumption DEF ClientConnect, bridgeVars, IInv, TypeOK, SocketsTypeOK
  <2>2. /\ backlog[d] \in Seq(Iface)
        /\ DOMAIN backlog[d] = 1 .. Len(backlog[d]) /\ Len(backlog[d]) \in Nat
    BY <2>1, LenProperties DEF IInv, TypeOK, SocketsTypeOK
  <2>3. /\ backlog'[d] \in Seq(Iface) /\ Len(backlog'[d]) = Len(backlog[d]) + 1
        /\ backlog'[d][Len(backlog[d]) + 1] = k
        /\ \A m \in 1 .. Len(backlog[d]) : backlog'[d][m] = backlog[d][m]
    BY <2>1, <2>2, AppendProperties
  <2>4. DOMAIN backlog'[d] = 1 .. Len(backlog[d]) + 1
    BY <2>3, LenProperties
  <2>5. CASE i = k
    <3>1. Asking(i)'
      BY <2>2, <2>3, <2>4, <2>5 DEF Asking
    <3>2. QED
      BY <2>1, <2>5, <3>1 DEF Remembered
  <2>6. CASE i # k /\ c = d
    <3>1. Asking(i) => Asking(i)'
      BY <2>2, <2>3, <2>4, <2>6, SMTT(30) DEF Asking
    <3>2. QED
      BY <2>1, <2>6, <3>1 DEF Remembered, Serving, Client
  <2>7. CASE c # d
    BY <1>0, <1>1, <2>1, <2>7
  <2>8. QED
    BY <2>5, <2>6, <2>7
<1>8. CASE ClientTurn
  <2>1. UNCHANGED <<backlog, clients, peer>>
    BY <1>8 DEF ClientTurn, bridgeVars
  <2>2. /\ sock'[i] \in {"open", "rst"} => sock[i] \in {"open", "rst"}
        /\ sock'[i] = "syn" => sock[i] = "syn"
    BY <1>8, TurnEffects DEF IInv
  <2>3. QED
    BY <2>1, <2>2 DEF Remembered, Serving, Asking, Client
<1>9. CASE UNCHANGED <<backlog, clients, peer, sock>>
  BY <1>1, <1>9
<1>10. QED
  <2>1. ASSUME NEW b \in Lan, BridgeStep(b) \/ Off(b)
        PROVE  Remembered(i)'
    BY <1>2, <1>3, <1>4, <1>5, <1>6, <2>1 DEF BridgeStep, BrokenPipe, Off
  <2>2. ASSUME NEW b \in Lan, Start(b) \/ Console(b) \/ StdinEof(b)
        PROVE  Remembered(i)'
    BY <1>9, <2>2 DEF Start, Console, StdinEof, sockVars
  <2>3. CASE Tick \/ UNCHANGED vars
    BY <1>9, <2>3 DEF Tick, vars, sockVars, bridgeVars
  <2>4. QED
    BY <1>7, <1>8, <2>1, <2>2, <2>3 DEF Next, BridgeNext

AllRemembered == \A i \in Iface : Remembered(i)

(***************************************************************************)
(* An accepted station has a port and a waiting one a place in the         *)
(* backlog, whatever the others do: remove_client() closes and erases the  *)
(* same one.                                                               *)
(***************************************************************************)
THEOREM NoneForgotten == Spec => []NoOneForgotten
<1>1. Init => AllRemembered
  BY DEF Init, SocketsInit, AllRemembered, Remembered
<1>2. IInv /\ AllRemembered /\ [Next]_vars => AllRemembered'
  BY RememberedStep DEF AllRemembered
<1>3. AllRemembered => NoOneForgotten
  BY DEF AllRemembered, Remembered, Serving, Asking, NoOneForgotten, ToSet
<1>4. QED
  BY Invariance, <1>1, <1>2, <1>3, PTL DEF Spec
-----------------------------------------------------------------------------
(* A queue that is written to changes. *)
LEMMA AppendDiffers ==
  ASSUME NEW S, NEW s \in Seq(S), NEW e \in S
  PROVE  Append(s, e) # s
BY AppendProperties, LenProperties

(* A queue that is read from changes, and not the way a write changes it. *)
LEMMA TailDiffers ==
  ASSUME NEW S, NEW s \in Seq(S), s # <<>>, NEW e \in S
  PROVE  Tail(s) # s /\ Tail(s) # Append(s, e)
BY HeadTailProperties, AppendProperties, LenProperties

(* Only a turn for the client itself takes its frame and leaves its bridge     *)
(* running.                                                                   *)
LEMMA RelayedByServing ==
  ASSUME IInv, [Next]_vars, NEW i \in Iface, Relays(i)
  PROVE  \E j \in DOMAIN clients[lan_name[i]] :
           Client(lan_name[i], j) = i /\ RelayFrame(lan_name[i], j)
<1>0. /\ up[i] \in Seq(EtherPkt) /\ up[i] # <<>> /\ up'[i] = Tail(up[i])
      /\ lan_name[i] \in Lan /\ alive'[lan_name[i]]
  BY PacketsAssumption DEF Relays, IInv, TypeOK, SocketsTypeOK
<1>1. up'[i] # up[i]
  <2>1. Head(up[i]) \in EtherPkt
    BY <1>0, HeadTailProperties
  <2>2. QED
    BY <1>0, <2>1, TailDiffers
<1>2. ASSUME NEW b \in Lan, Exit(b)
      PROVE  FALSE
  <2>1. lan_name[i] = b
    BY <1>1, <1>2 DEF Exit
  <2>2. alive'[b] = FALSE
    BY <1>2 DEF Exit, IInv, TypeOK, BridgeTypeOK
  <2>3. QED
    BY <1>0, <2>1, <2>2
<1>3. ~ClientTurn
  <2>1. ASSUME NEW f \in EtherPkt, up'[i] = Append(up[i], f)
        PROVE  FALSE
    BY <1>0, <2>1, TailDiffers
  <2>2. QED
    BY <1>1, <2>1, TurnEffects DEF IInv
<1>4. up' # up
  BY <1>1
<1>5. PICK b \in Lan : \E j \in DOMAIN clients[b] : RelayFrame(b, j)
  <2>1. ~(\E b \in Lan : \/ AcceptClient(b) \/ RejectClient(b)
                         \/ \E j \in DOMAIN clients[b] : remove_client(b, j))
    BY <1>4 DEF AcceptClient, RejectClient, remove_client
  <2>2. ~(\E b \in Lan : Start(b) \/ Console(b) \/ StdinEof(b))
    BY <1>4 DEF Start, Console, StdinEof, sockVars
  <2>3. ~(\E b \in Lan : Off(b) \/ \E j \in DOMAIN clients[b] : BrokenPipe(b, j))
    BY <1>2 DEF Off, BrokenPipe
  <2>4. ~ClientTurn /\ ~(\E k \in Iface : ClientConnect(k))
    BY <1>3, <1>4 DEF ClientConnect
  <2>5. ~Tick /\ ~UNCHANGED vars
    BY <1>4 DEF Tick, vars, sockVars
  <2>6. QED
    BY <2>1, <2>2, <2>3, <2>4, <2>5 DEF Next, BridgeNext, BridgeStep
<1>6. PICK j \in DOMAIN clients[b] : RelayFrame(b, j)
  BY <1>5
<1>7. Client(b, j) = i
  BY <1>1, <1>6 DEF RelayFrame, IInv, TypeOK, SocketsTypeOK
<1>8. lan_name[i] = b
  BY <1>7, ServedClient
<1>9. QED
  BY <1>6, <1>7, <1>8

(* A connection gets the frame if and only if the turn writes to it and it is *)
(* open.                                                                      *)
LEMMA ReceivesWhenWritten ==
  ASSUME IInv, NEW I, NEW f \in EtherPkt, down' = DownAfterWrite(I, f), NEW k \in Iface
  PROVE  Receives(k, f) <=> k \in I /\ sock[k] = "open"
<1>1. down[k] \in Seq(EtherPkt \cup Reply)
  BY DEF IInv, TypeOK, SocketsTypeOK
<1>2. Append(down[k], f) # down[k]
  BY <1>1, AppendDiffers
<1>3. down'[k] = IF k \in I /\ sock[k] = "open" THEN Append(down[k], f) ELSE down[k]
  BY DEF DownAfterWrite
<1>4. QED
  BY <1>2, <1>3 DEF Receives

(* Every step that relays a frame floods it or follows a fresh entry. *)
LEMMA ForwardedStep ==
  ASSUME IInv, [Next]_vars, NEW i \in Iface
  PROVE  ForwardedFresh(i)
<1> SUFFICES ASSUME Relays(i)
             PROVE  ForwardedFresh(i)
  BY DEF ForwardedFresh
<1> DEFINE b      == lan_name[i]
           f      == Head(up[i])
           tbl    == monitor_arp_cache(btable[b])
           hops   == NextHops(b, tbl, f.mac_dst)
           others == {Client(b, j) : j \in DOMAIN clients[b]} \ {i}
<1>1. PICK j \in DOMAIN clients[b] : Client(b, j) = i /\ RelayFrame(b, j)
  BY RelayedByServing
<1>2. b \in Lan /\ f \in EtherPkt /\ f.mac_dst \in AnyMac
  BY <1>1, PacketsAssumption, ServedClient, FrameFields DEF RelayFrame
<1>3. down' = DownAfterWrite({Client(b, k) : k \in Targets(b, j, tbl, f.mac_dst)}, f)
  BY <1>1 DEF RelayFrame
<1>4. CASE hops = {}
  <2>1. Targets(b, j, tbl, f.mac_dst) = DOMAIN clients[b] \ {j}
    BY <1>4 DEF Targets, FloodTargets
  <2>2. {Client(b, k) : k \in DOMAIN clients[b] \ {j}} = others
    BY <1>1, <1>2 DEF IInv, PortsConsistent, PortsConsistentAt
  <2>3. \A k \in Iface : Receives(k, f) <=> k \in others /\ sock[k] = "open"
    BY <1>2, <1>3, <2>1, <2>2, ReceivesWhenWritten
  <2>4. QED
    BY <2>3 DEF ForwardedFresh
<1>5. CASE hops # {}
  <2> DEFINE h == Min(hops)
  <2>1. h \in DOMAIN clients[b] /\ h \in hops
    <3>1. hops \subseteq DOMAIN clients[b] /\ DOMAIN clients[b] \subseteq Nat
      BY <1>2, LenProperties DEF NextHops, IInv, TypeOK, BridgeTypeOK
    <3>2. QED
      BY <1>5, <3>1, MinIsMember
  <2>2. btable[b][clients[b][h]][f.mac_dst] \in 0 .. ArpTime
    <3>1. clients[b][h] \in Fd /\ tbl[clients[b][h]][f.mac_dst] # Absent
      BY <1>2, <2>1, ServedClient DEF NextHops, has_arp_entry
    <3>2. \A p \in Fd, m \in AnyMac : btable[b][p][m] \in Age \cup {Absent}
      <4>1. btable \in [Lan -> Table] /\ b \in Lan
        BY <1>2 DEF IInv, TypeOK, BridgeTypeOK, Table
      <4> HIDE DEF b, Fd, Age, Absent
      <4>2. QED
        BY <4>1 DEF Table
    <3>3. \A p \in Fd, m \in AnyMac :
            tbl[p][m] = IF btable[b][p][m] > ArpTime THEN Absent ELSE btable[b][p][m]
      BY DEF monitor_arp_cache
    <3> HIDE DEF tbl, f, b, h
    <3>4. QED
      BY <1>2, <3>1, <3>2, <3>3, BridgeAssumption
  <2>3. Targets(b, j, tbl, f.mac_dst) = {h}
    BY <1>5 DEF Targets
  <2>4. \A k \in Iface : Receives(k, f) => k = Client(b, h)
    BY <1>2, <1>3, <2>3, ReceivesWhenWritten
  <2>5. QED
    BY <2>1, <2>2, <2>4 DEF ForwardedFresh
<1>6. QED
  BY <1>4, <1>5

(***************************************************************************)
(* handle_frame() sends a frame to one port only if the entry that names   *)
(* the port is at most ArpTime old: monitor_arp_cache() runs between the   *)
(* wake-up and the lookup, in the same turn.                               *)
(***************************************************************************)
THEOREM ForwardsFresh == Spec => ForwardsOnFreshEntries
<1>1. IInv /\ [Next]_vars => [\A i \in Iface : ForwardedFresh(i)]_vars
  BY ForwardedStep
<1>2. QED
  BY Invariance, <1>1, PTL DEF Spec, ForwardsOnFreshEntries
-----------------------------------------------------------------------------
(* Whoever is answered has left the backlog. *)
LEMMA AnsweredLeaves ==
  ASSUME IInv, NEW b \in Lan, backlog[b] # <<>>, backlog'[b] = Tail(backlog[b])
  PROVE  LET i == Head(backlog[b]) IN
         /\ i \in Iface /\ lan_name[i] = b
         /\ i \in ToSet(backlog[b]) /\ i \notin ToSet(backlog'[b])
<1>1. /\ Head(backlog[b]) \in Iface /\ 1 \in DOMAIN backlog[b]
      /\ Head(backlog[b]) = backlog[b][1]
      /\ Tail(backlog[b]) \in Seq(Iface)
      /\ \A n \in DOMAIN Tail(backlog[b]) :
           n + 1 \in DOMAIN backlog[b] /\ Tail(backlog[b])[n] = backlog[b][n + 1]
  BY FirstRequest
<1>2. \A n \in DOMAIN Tail(backlog[b]) : n \in Nat \ {0}
  BY <1>1, LenProperties
<1>3. \A n \in DOMAIN Tail(backlog[b]) : Tail(backlog[b])[n] # backlog[b][1]
  <2>1. ASSUME NEW n \in DOMAIN Tail(backlog[b]), Tail(backlog[b])[n] = backlog[b][1]
        PROVE  FALSE
    <3>1. n + 1 = 1
      BY <1>1, <2>1, WaitingRequest
    <3>2. QED
      BY <1>2, <3>1
  <2>2. QED
    BY <2>1
<1>4. QED
  BY <1>1, <1>3, WaitingRequest DEF ToSet

(* Every step writes a connection of a station rightly. *)
LEMMA WrittenStep ==
  ASSUME IInv, [Next]_vars, NEW k \in Iface
  PROVE  WrittenRightly(k)
<1>1. CASE down'[k] = down[k]
  BY <1>1 DEF WrittenRightly
<1>2. ASSUME NEW b \in Lan, AcceptClient(b) \/ RejectClient(b)
      PROVE  WrittenRightly(k)
  <2>1. /\ backlog[b] # <<>> /\ backlog'[b] = Tail(backlog[b])
        /\ k # Head(backlog[b]) => down'[k] = down[k]
    BY <1>2 DEF AcceptClient, RejectClient, AnswerRequest, IInv, TypeOK, SocketsTypeOK
  <2>2. CASE k = Head(backlog[b])
    BY <2>1, <2>2, AnsweredLeaves DEF WrittenRightly
  <2>3. QED
    BY <1>1, <2>1, <2>2
<1>3. ASSUME NEW b \in Lan, NEW j \in DOMAIN clients[b],
             RelayFrame(b, j) \/ BrokenPipe(b, j)
      PROVE  WrittenRightly(k)
  <2> DEFINE i == Client(b, j)
  <2>1. PICK to \in SUBSET DOMAIN clients[b] :
          down' = DownAfterWrite({Client(b, n) : n \in to}, Head(up[i]))
    <3>1. \A tbl, mac : Targets(b, j, tbl, mac) \in SUBSET DOMAIN clients[b]
      BY TargetsAreClients
    <3>2. CASE RelayFrame(b, j)
      BY <3>1, <3>2 DEF RelayFrame
    <3>3. CASE BrokenPipe(b, j)
      BY <3>1, <3>3 DEF BrokenPipe
    <3>4. QED
      BY <1>3, <3>2, <3>3
  <2>2. /\ i \in Iface /\ lan_name[i] = b /\ up[i] # <<>> /\ Head(up[i]) \in EtherPkt
        /\ up[i] \in Seq(EtherPkt)
    BY <1>3, ServedClient DEF RelayFrame, BrokenPipe
  <2>3. up'[i] = Tail(up[i]) \/ ~alive'[b]
    <3>1. CASE RelayFrame(b, j)
      BY <2>2, <3>1 DEF RelayFrame, IInv, TypeOK, SocketsTypeOK
    <3>2. CASE BrokenPipe(b, j)
      BY <3>2 DEF BrokenPipe, Exit, IInv, TypeOK, BridgeTypeOK
    <3>3. QED
      BY <1>3, <3>1, <3>2
  <2>4. CASE Receives(k, Head(up[i]))
    <3>1. k \in {Client(b, n) : n \in to}
      BY <2>1, <2>2, <2>4, ReceivesWhenWritten
    <3>2. lan_name[k] = b
      BY <3>1, ServedClient
    <3>3. QED
      BY <2>2, <2>3, <2>4, <3>2 DEF WrittenRightly
  <2>5. CASE ~Receives(k, Head(up[i]))
    <3>1. down'[k] = down[k]
      BY <2>1, <2>5 DEF DownAfterWrite, Receives
    <3>2. QED
      BY <1>1, <3>1
  <2>6. QED
    BY <2>4, <2>5
<1>4. CASE ClientTurn
  BY <1>4, TurnEffects DEF WrittenRightly, IInv
<1>5. CASE UNCHANGED down
  BY <1>1, <1>5
<1>6. QED
  <2>1. ASSUME NEW b \in Lan,
               Start(b) \/ BridgeStep(b) \/ Off(b) \/ Console(b) \/ StdinEof(b)
        PROVE  WrittenRightly(k)
    BY <1>2, <1>3, <1>5, <2>1
       DEF BridgeStep, remove_client, Off, Start, Console, StdinEof, sockVars
  <2>2. CASE ClientTurn \/ \E i \in Iface : ClientConnect(i)
    BY <1>4, <1>5, <2>2 DEF ClientConnect
  <2>3. CASE Tick \/ UNCHANGED vars
    BY <1>5, <2>3 DEF Tick, vars, sockVars
  <2>4. QED
    BY <2>1, <2>2, <2>3 DEF Next, BridgeNext

(***************************************************************************)
(* A bridge writes nothing but frames it has read, each at most once to    *)
(* each port of the same LAN, and one answer to each request.              *)
(***************************************************************************)
THEOREM RelaysNothingElse == Spec => RelaysOnly
<1>1. IInv /\ [Next]_vars => [\A k \in Iface : WrittenRightly(k)]_vars
  BY WrittenStep
<1>2. QED
  BY Invariance, <1>1, PTL DEF Spec, RelaysOnly
=============================================================================
