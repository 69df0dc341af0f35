-------------------------- MODULE BridgeInvariance --------------------------
(***************************************************************************)
(* The inductive invariant of the bridges and their clients, for every     *)
(* number of interfaces, LANs and ports and for all clients there can be.   *)
(*                                                                         *)
(* IInv has three parts that need each other.  Types do not hold on their  *)
(* own: a frame is typed only because a listed descriptor leads to an      *)
(* interface (PortsConsistent).  Two ports lead to different interfaces    *)
(* only because whoever waits in the backlog is not served yet             *)
(* (BacklogConsistent), and that in turn needs the states of the sockets   *)
(* the served ones have.  Two lemmas say what the turns that change the    *)
(* list of clients do to it (Accepted, Removed); one lemma for each part   *)
(* then goes through the actions.                                          *)
(***************************************************************************)
EXTENDS BridgeClients, SequenceTheorems, WellFoundedInduction, TLAPS

(* The type of one bridge's table. *)
Table == [Fd -> [AnyMac -> Age \cup {Absent}]]

IInv == TypeOK /\ PortsConsistent /\ BacklogConsistent

USE DEF Fd, Age, Absent
-----------------------------------------------------------------------------
(* The first of several positions: Targets takes the least one. *)
LEMMA MinIsMember ==
  ASSUME NEW S \in SUBSET Nat, S # {}
  PROVE  Min(S) \in S /\ \A x \in S : Min(S) <= x
<1> DEFINE less == {ss \in Nat \X Nat : ss[1] < ss[2]}
<1>1. OpToRel(<, Nat) = less
  BY DEF OpToRel
<1>2. IsWellFoundedOn(less, Nat)
  BY <1>1, NatLessThanWellFounded, Zenon
<1>3. PICK x \in S : \A y \in S : ~ (<<y, x>> \in less)
  <2> HIDE DEF less
  <2> QED  BY <1>2, WFMin
<1>4. \A m, n \in Nat : m < n => <<m, n>> \in less
  <2> TAKE m, n \in Nat
  <2>1. <<m, n>> \in Nat \X Nat /\ <<m, n>>[1] = m /\ <<m, n>>[2] = n
    OBVIOUS
  <2>2. QED
    BY <2>1
<1> HIDE DEF less
<1>5. \A y \in S : x <= y
  <2>1. ASSUME NEW y \in S, y < x
        PROVE  FALSE
    <3>1. <<y, x>> \in less
      BY <1>4, <2>1
    <3>2. QED
      BY <1>3, <3>1
  <2>2. QED
    BY <2>1
<1>6. QED
  BY <1>5 DEF Min

(* What vector::erase() leaves: everything behind position j moves up. *)
LEMMA RemoveAtProperties ==
  ASSUME NEW S, NEW s \in Seq(S), NEW j \in 1 .. Len(s)
  PROVE  /\ RemoveAt(s, j) \in Seq(S)
         /\ Len(RemoveAt(s, j)) = Len(s) - 1
         /\ \A k \in 1 .. Len(s) - 1 :
              RemoveAt(s, j)[k] = IF k < j THEN s[k] ELSE s[k + 1]
<1> DEFINE l == SubSeq(s, 1, j - 1)
           r == SubSeq(s, j + 1, Len(s))
<1>0. Len(s) \in Nat /\ j \in Nat
  BY LenProperties
<1>1. /\ l \in Seq(S) /\ Len(l) = j - 1
      /\ \A k \in 1 .. j - 1 : l[k] = s[k]
  BY SubSeqProperties, ElementOfSeq, LenProperties
<1>2. /\ r \in Seq(S) /\ Len(r) = Len(s) - j
      /\ \A k \in 1 .. Len(s) - j : r[k] = s[k + j]
  BY SubSeqProperties, ElementOfSeq, LenProperties
<1> HIDE DEF l, r
<1>3. /\ l \o r \in Seq(S)
      /\ Len(l \o r) = Len(l) + Len(r)
      /\ \A k \in 1 .. Len(l) + Len(r) :
            (l \o r)[k] = IF k <= Len(l) THEN l[k] ELSE r[k - Len(l)]
  BY <1>1, <1>2, ConcatProperties
<1>4. RemoveAt(s, j) = l \o r
  BY DEF RemoveAt, l, r
<1>5. ASSUME NEW k \in 1 .. Len(s) - 1
      PROVE  (l \o r)[k] = IF k < j THEN s[k] ELSE s[k + 1]
  <2>1. k \in 1 .. Len(l) + Len(r)
    BY <1>0, <1>1, <1>2
  <2>2. CASE k < j
    BY <1>0, <1>1, <1>3, <2>1, <2>2
  <2>3. CASE ~(k < j)
    <3>1. (l \o r)[k] = r[k - (j - 1)]
      BY <1>0, <1>1, <1>3, <2>1, <2>3
    <3>2. k - (j - 1) \in 1 .. Len(s) - j
      BY <1>0, <2>3
    <3>3. QED
      BY <1>0, <1>2, <2>3, <3>1, <3>2
  <2>4. QED
    BY <2>2, <2>3
<1>6. Len(l \o r) = Len(s) - 1
  BY <1>0, <1>1, <1>2, <1>3
<1>7. QED
  BY <1>3, <1>4, <1>5, <1>6
(* A frame carries the MAC address of a real interface as its source. *)
LEMMA FrameFields ==
  ASSUME NEW f \in EtherPkt
  PROVE  f.mac_src \in Mac /\ f.mac_dst \in AnyMac
BY DEF EtherPkt

(* Every operation on a table of a bridge returns a table. *)
LEMMA TableTypes ==
  ASSUME NEW tbl \in Table
  PROVE  /\ monitor_arp_cache(tbl) \in Table
         /\ \A p \in Fd, m \in AnyMac : add_arp_entry(tbl, p, m) \in Table
         /\ EmptyTable \in Table
         /\ \A p \in Fd : [tbl EXCEPT ![p] = EmptyTable[p]] \in Table
         /\ [p \in Fd |-> [m \in AnyMac |-> Older(tbl[p][m])]] \in Table
<1>1. monitor_arp_cache(tbl) \in Table
  BY DEF Table, monitor_arp_cache
<1>2. \A p \in Fd, m \in AnyMac : add_arp_entry(tbl, p, m) \in Table
  BY BridgeAssumption DEF Table, add_arp_entry
<1>3. EmptyTable \in Table
  BY DEF Table, EmptyTable
<1>4. \A p \in Fd : [tbl EXCEPT ![p] = EmptyTable[p]] \in Table
  BY <1>3 DEF Table
<1>5. [p \in Fd |-> [m \in AnyMac |-> Older(tbl[p][m])]] \in Table
  <2>1. \A a \in Age \cup {Absent} : Older(a) \in Age \cup {Absent}
    BY BridgeAssumption DEF Older
  <2>2. QED
    BY <2>1 DEF Table
<1>6. QED
  BY <1>1, <1>2, <1>3, <1>4, <1>5

(* So does what a turn that relays a frame leaves behind. *)
LEMMA LearnType ==
  ASSUME TypeOK, NEW b \in Lan, NEW j \in DOMAIN clients[b],
         NEW tbl \in Table, NEW f \in EtherPkt
  PROVE  Learn(b, j, tbl, f) \in Table
<1>1. clients[b][j] \in Fd
  BY ElementOfSeq, LenProperties DEF TypeOK, BridgeTypeOK
<1>2. f.mac_src \in AnyMac /\ f.mac_dst \in AnyMac
  BY FrameFields DEF AnyMac
<1>3. QED
  BY <1>1, <1>2, TableTypes DEF Learn

(* What the invariant says of one listed client. *)
LEMMA ServedClient ==
  ASSUME IInv, NEW b \in Lan, NEW j \in DOMAIN clients[b]
  PROVE  /\ j \in 1 .. Len(clients[b])
         /\ clients[b][j] \in Fd
         /\ Client(b, j) \in Iface
         /\ lan_name[Client(b, j)] = b
         /\ sock[Client(b, j)] \in {"open", "fin", "rst"}
         /\ up[Client(b, j)] \in Seq(EtherPkt)
         /\ up[Client(b, j)] # <<>> =>
              /\ Head(up[Client(b, j)]) \in EtherPkt
              /\ Tail(up[Client(b, j)]) \in Seq(EtherPkt)
<1>1. clients[b] \in Seq(Fd) /\ j \in 1 .. Len(clients[b]) /\ clients[b][j] \in Fd
  BY ElementOfSeq, LenProperties DEF IInv, TypeOK, BridgeTypeOK
<1>2. /\ Client(b, j) \in Iface
      /\ lan_name[Client(b, j)] = b
      /\ sock[Client(b, j)] \in {"open", "fin", "rst"}
  BY DEF IInv, PortsConsistent, PortsConsistentAt
<1>3. up[Client(b, j)] \in Seq(EtherPkt)
  BY <1>2 DEF IInv, TypeOK, SocketsTypeOK
<1>4. QED
  BY <1>1, <1>2, <1>3, HeadTailProperties

(* A frame goes to clients of its own bridge only. *)
LEMMA TargetsAreClients ==
  ASSUME IInv, NEW b \in Lan, NEW j \in DOMAIN clients[b], NEW tbl, NEW mac
  PROVE  Targets(b, j, tbl, mac) \subseteq DOMAIN clients[b]
<1>1. DOMAIN clients[b] \subseteq Nat
  BY LenProperties DEF IInv, TypeOK, BridgeTypeOK
<1>2. NextHops(b, tbl, mac) \subseteq DOMAIN clients[b]
  BY DEF NextHops
<1>3. NextHops(b, tbl, mac) # {} => Min(NextHops(b, tbl, mac)) \in DOMAIN clients[b]
  BY <1>1, <1>2, MinIsMember
<1>4. QED
  BY <1>3 DEF Targets, FloodTargets

(* The first request of a backlog, and what is left without it. *)
LEMMA FirstRequest ==
  ASSUME IInv, NEW b \in Lan, backlog[b] # <<>>
  PROVE  /\ backlog[b] \in Seq(Iface)
         /\ Len(backlog[b]) \in Nat \ {0}
         /\ 1 \in DOMAIN backlog[b]
         /\ Head(backlog[b]) = backlog[b][1]
         /\ Head(backlog[b]) \in Iface
         /\ Tail(backlog[b]) \in Seq(Iface)
         /\ Len(Tail(backlog[b])) = Len(backlog[b]) - 1
         /\ \A n \in DOMAIN Tail(backlog[b]) :
              /\ n + 1 \in DOMAIN backlog[b]
              /\ Tail(backlog[b])[n] = backlog[b][n + 1]
<1>1. backlog[b] \in Seq(Iface)
  BY DEF IInv, TypeOK, SocketsTypeOK
<1>2. /\ Len(backlog[b]) \in Nat \ {0}
      /\ DOMAIN backlog[b] = 1 .. Len(backlog[b])
  BY <1>1, EmptySeq, LenProperties
<1>3. /\ Head(backlog[b]) = backlog[b][1]
      /\ Head(backlog[b]) \in Iface
      /\ Tail(backlog[b]) \in Seq(Iface)
      /\ Len(Tail(backlog[b])) = Len(backlog[b]) - 1
      /\ \A n \in 1 .. Len(Tail(backlog[b])) : Tail(backlog[b])[n] = backlog[b][n + 1]
  BY <1>1, HeadTailProperties
<1>4. DOMAIN Tail(backlog[b]) = 1 .. Len(Tail(backlog[b]))
  BY <1>3, LenProperties
<1>5. QED
  BY <1>1, <1>2, <1>3, <1>4
-----------------------------------------------------------------------------
(* What a turn of a client does to one connection, whatever the client is: a *)
(* request stays one until its client closes, and so does a connection.      *)
LEMMA TurnEffects ==
  ASSUME TypeOK, ClientTurn, NEW i \in Iface
  PROVE  /\ sock'[i] \in SockState
         /\ up'[i] \in Seq(EtherPkt)
         /\ down'[i] \in Seq(EtherPkt \cup Reply)
         /\ sock[i] \in {"open", "fin", "rst"} => sock'[i] \in {"open", "fin", "rst"}
         /\ sock[i] \in {"syn", "fin"} => sock'[i] \in {"syn", "fin"}
         /\ sock'[i] \in {"open", "rst"} => sock[i] \in {"open", "rst"}
         /\ sock'[i] = "syn" => sock[i] = "syn"
         /\ up'[i] = up[i] \/ \E f \in EtherPkt : up'[i] = Append(up[i], f)
         /\ \/ down'[i] \in {down[i], <<>>}
            \/ down[i] # <<>> /\ down'[i] = Tail(down[i])
<1>0. /\ sock[i] \in SockState /\ up[i] \in Seq(EtherPkt)
      /\ down[i] \in Seq(EtherPkt \cup Reply)
  BY DEF TypeOK, SocketsTypeOK
<1>1. down[i] # <<>> => Tail(down[i]) \in Seq(EtherPkt \cup Reply)
  BY <1>0, HeadTailProperties
<1>2. CASE Uses(i)
  <2>1. ASSUME NEW f \in EtherPkt
        PROVE  Append(up[i], f) \in Seq(EtherPkt)
    BY <1>0, AppendProperties
  <2>2. up'[i] = up[i] \/ \E f \in EtherPkt : up'[i] = Append(up[i], f)
    BY <1>2 DEF Uses
  <2>3. up'[i] \in Seq(EtherPkt)
    BY <1>0, <2>1, <2>2
  <2>4. /\ \/ down'[i] = down[i]
           \/ down[i] # <<>> /\ down'[i] = Tail(down[i])
        /\ \/ sock'[i] = sock[i]
           \/ sock[i] = "eof" /\ sock'[i] = "pipe"
           \/ sock[i] = "pipe" /\ sock'[i] = "dead"
    BY <1>2 DEF Uses
  <2>5. QED
    BY <1>0, <1>1, <2>2, <2>3, <2>4 DEF SockState
<1>3. CASE Closes(i)
  <2>1. PICK rest : sock'[i] = SockAfterClose(i, rest)
    BY <1>3 DEF Closes
  <2>2. /\ sock[i] = "syn" => sock'[i] = "fin"
        /\ sock[i] = "open" => sock'[i] \in {"fin", "rst"}
        /\ sock[i] \notin {"syn", "open"} => sock'[i] = "idle"
    BY <2>1, Zenon DEF SockAfterClose
  <2>3. sock[i] \notin {"fin", "rst"} /\ down'[i] = <<>> /\ up'[i] = up[i]
    BY <1>3 DEF Closes
  <2>4. sock'[i] \in {"fin", "rst", "idle"}
    BY <2>2, Zenon
  <2>5. QED
    BY <1>0, <2>2, <2>3, <2>4 DEF SockState
<1>4. QED
  BY <1>2, <1>3 DEF ClientTurn

(* The steps MCBridge gives its clients are turns of a client. *)
LEMMA SimpleTurns ==
  ASSUME TypeOK, NEW i \in Iface, NEW f \in EtherPkt,
         ClientSend(i, f) \/ ClientRead(i) \/ ClientExit(i)
  PROVE  ClientTurn
<1>0. /\ sock \in [Iface -> SockState] /\ up \in [Iface -> Seq(EtherPkt)]
      /\ down \in [Iface -> Seq(EtherPkt \cup Reply)]
  BY DEF TypeOK, SocketsTypeOK
<1>1. /\ sock' = [k \in Iface |-> sock'[k]] /\ up' = [k \in Iface |-> up'[k]]
      /\ down' = [k \in Iface |-> down'[k]] /\ UNCHANGED <<backlog, bridgeVars>>
      /\ \A k \in Iface : k # i => /\ sock'[k] = sock[k] /\ up'[k] = up[k]
                                  /\ down'[k] = down[k]
  BY <1>0 DEF ClientSend, ClientRead, ClientExit
<1>2. \A k \in Iface : k # i => Uses(k)
  BY <1>1 DEF Uses
<1>3. CASE ClientSend(i, f)
  <2>1. /\ up'[i] = Append(up[i], f) /\ sock[i] = "open" /\ sock'[i] = sock[i]
        /\ down'[i] = down[i]
    BY <1>0, <1>3 DEF ClientSend
  <2>2. /\ up'[i] \in Seq(EtherPkt) /\ Len(up'[i]) = Len(up[i]) + 1
        /\ Len(up[i]) \in Nat /\ up'[i][Len(up[i]) + 1] = f
    BY <1>0, <2>1, AppendProperties, LenProperties
  <2>3. up'[i] # <<>> /\ Last(up'[i]) = f
    BY <2>2 DEF Last
  <2>4. QED
    BY <1>1, <1>2, <2>1, <2>3 DEF Uses, ClientTurn
<1>4. CASE ClientRead(i)
  BY <1>0, <1>1, <1>2, <1>4 DEF ClientRead, Uses, ClientTurn
<1>5. CASE ClientExit(i)
  <2>1. Closes(i)
    BY <1>0, <1>5 DEF ClientExit, Closes
  <2>2. QED
    BY <1>1, <1>2, <2>1 DEF ClientTurn
<1>6. QED
  BY <1>3, <1>4, <1>5

(* The end of a bridge process leaves every variable in its type. *)
LEMMA ExitType ==
  ASSUME TypeOK, NEW b \in Lan, Exit(b)
  PROVE  /\ sock' \in [Iface -> SockState] /\ up' \in [Iface -> Seq(EtherPkt)]
         /\ backlog' \in [Lan -> Seq(Iface)]
         /\ alive' \in [Lan -> BOOLEAN] /\ clients' \in [Lan -> Seq(Fd)]
         /\ curr_ports' \in [Lan -> Int] /\ btable' \in [Lan -> Table]
         /\ ports' \in [Lan -> SUBSET Fd]
         /\ peer' \in [Lan -> [Fd -> Iface \cup {NoIface}]]
<1> USE DEF TypeOK, SocketsTypeOK, BridgeTypeOK, Exit
<1>1. sock' \in [Iface -> SockState]
  BY DEF SockAfterExit, SockState
<1>2. up' \in [Iface -> Seq(EtherPkt)]
  OBVIOUS
<1>3. btable' \in [Lan -> Table]
  <2>1. EmptyTable \in Table
    BY DEF EmptyTable, Table
  <2>2. QED
    BY <2>1 DEF Table
<1>4. /\ backlog' \in [Lan -> Seq(Iface)] /\ clients' \in [Lan -> Seq(Fd)]
      /\ ports' \in [Lan -> SUBSET Fd]
  OBVIOUS
<1>5. /\ alive' \in [Lan -> BOOLEAN] /\ curr_ports' \in [Lan -> Int]
      /\ peer' \in [Lan -> [Fd -> Iface \cup {NoIface}]]
  OBVIOUS
<1>6. QED
  BY <1>1, <1>2, <1>3, <1>4, <1>5

(* So does writing a frame to any set of connections. *)
LEMMA WriteType ==
  ASSUME TypeOK, NEW I, NEW m \in EtherPkt \cup Reply
  PROVE  /\ DownAfterWrite(I, m) \in [Iface -> Seq(EtherPkt \cup Reply)]
         /\ SockAfterWrite(I) \in [Iface -> SockState]
<1>1. \A i \in Iface : Append(down[i], m) \in Seq(EtherPkt \cup Reply)
  BY AppendProperties DEF TypeOK, SocketsTypeOK
<1>2. QED
  BY <1>1 DEF TypeOK, SocketsTypeOK, DownAfterWrite, SockAfterWrite, SockState

(* Every step of a bridge or of a client keeps every variable in its type. *)
LEMMA TypeStep ==
  ASSUME IInv, [Next]_vars
  PROVE  TypeOK'
<1> USE DEF IInv
<1> USE DEF TypeOK, SocketsTypeOK, BridgeTypeOK
<1>1. ASSUME NEW b \in Lan, AcceptClient(b)
      PROVE  TypeOK'
  <2> USE <1>1 DEF AcceptClient
  <2>1. PICK fd \in Fd :
          /\ IsNewFd(b, fd)
          /\ clients' = [clients EXCEPT ![b] = Append(@, fd)]
          /\ peer' = [peer EXCEPT ![b][fd] = Head(backlog[b])]
          /\ add_port(b, fd, monitor_arp_cache(btable[b]))
    OBVIOUS
  <2>2. Append(clients[b], fd) \in Seq(Fd)
    BY AppendProperties
  <2>3. clients' \in [Lan -> Seq(Fd)]
    BY <2>1, <2>2
  <2>4. peer' \in [Lan -> [Fd -> Iface \cup {NoIface}]]
    BY <2>1, FirstRequest
  <2>5. btable' \in [Lan -> Table] /\ ports' \in [Lan -> SUBSET Fd]
    <3>1. monitor_arp_cache(btable[b]) \in Table
      BY TableTypes DEF Table
    <3>2. [monitor_arp_cache(btable[b]) EXCEPT ![fd] = EmptyTable[fd]] \in Table
      BY <3>1, TableTypes
    <3>3. QED
      BY <2>1, <3>1, <3>2, SMTT(30) DEF add_port, Table
  <2>6. /\ backlog' \in [Lan -> Seq(Iface)]
        /\ sock' \in [Iface -> SockState]
        /\ down' \in [Iface -> Seq(EtherPkt \cup Reply)]
    <3>1. [reply |-> "Accepted"] \in EtherPkt \cup Reply
      BY DEF Reply
    <3>2. Append(down[Head(backlog[b])], [reply |-> "Accepted"])
            \in Seq(EtherPkt \cup Reply)
      <4>1. down[Head(backlog[b])] \in Seq(EtherPkt \cup Reply)
        BY FirstRequest
      <4>2. QED
        BY <3>1, <4>1, AppendProperties
    <3>3. backlog' \in [Lan -> Seq(Iface)] /\ sock' \in [Iface -> SockState]
      <4>1. Tail(backlog[b]) \in Seq(Iface)
        BY FirstRequest
      <4>2. backlog' = [backlog EXCEPT ![b] = Tail(@)]
        BY DEF AnswerRequest
      <4>3. {"rst", "open"} \subseteq SockState
        BY DEF SockState
      <4>4. sock' = [sock EXCEPT ![Head(backlog[b])] = "rst"]
              \/ sock' = [sock EXCEPT ![Head(backlog[b])] = "open"]
        BY DEF AnswerRequest
      <4>5. sock' \in [Iface -> SockState]
        BY <4>3, <4>4, FirstRequest
      <4>6. QED
        BY <4>1, <4>2, <4>5
    <3>4. down' \in [Iface -> Seq(EtherPkt \cup Reply)]
      BY <3>2, FirstRequest DEF AnswerRequest
    <3>5. QED
      BY <3>3, <3>4
  <2>7. /\ curr_ports' \in [Lan -> Int]
        /\ UNCHANGED <<up, alive, stdin_eof>>
    OBVIOUS
  <2> HIDE <1>1 DEF AcceptClient
  <2>8. QED
    BY <2>3, <2>4, <2>5, <2>6, <2>7 DEF Table
<1>2. ASSUME NEW b \in Lan, RejectClient(b)
      PROVE  TypeOK'
  <2> USE <1>2 DEF RejectClient
  <2>1. backlog' \in [Lan -> Seq(Iface)] /\ sock' \in [Iface -> SockState]
    BY FirstRequest DEF SockState
  <2>2. down' \in [Iface -> Seq(EtherPkt \cup Reply)]
    <3>1. [reply |-> "Rejected"] \in EtherPkt \cup Reply
      BY DEF Reply
    <3>2. Append(down[Head(backlog[b])], [reply |-> "Rejected"])
            \in Seq(EtherPkt \cup Reply)
      BY <3>1, FirstRequest, AppendProperties
    <3>3. QED
      BY <3>2, FirstRequest
  <2>3. btable' \in [Lan -> Table]
    BY TableTypes DEF Table
  <2>4. QED
    BY <2>1, <2>2, <2>3 DEF Table
<1>3. ASSUME NEW b \in Lan, NEW j \in DOMAIN clients[b], RelayFrame(b, j)
      PROVE  TypeOK'
  <2> DEFINE i   == Client(b, j)
             f   == Head(up[i])
             tbl == monitor_arp_cache(btable[b])
             I   == {Client(b, k) : k \in Targets(b, j, tbl, f.mac_dst)}
  <2>1. /\ up' = [up EXCEPT ![i] = Tail(@)]
        /\ down' = DownAfterWrite(I, f)
        /\ sock' = SockAfterWrite(I)
        /\ btable' = [btable EXCEPT ![b] = Learn(b, j, tbl, f)]
        /\ UNCHANGED <<backlog, alive, clients, curr_ports, ports, peer, stdin_eof>>
        /\ up[i] # <<>>
    BY <1>3 DEF RelayFrame
  <2>2. f \in EtherPkt /\ Tail(up[i]) \in Seq(EtherPkt)
    BY <2>1, ServedClient
  <2>3. Learn(b, j, tbl, f) \in Table
    <3>1. tbl \in Table
      BY TableTypes DEF Table
    <3>2. QED
      BY <2>2, <3>1, LearnType
  <2> HIDE DEF i, f, tbl, I
  <2>4. /\ down' \in [Iface -> Seq(EtherPkt \cup Reply)]
        /\ sock' \in [Iface -> SockState]
    BY <2>1, <2>2, WriteType
  <2>5. btable' \in [Lan -> Table]
    BY <2>1, <2>3 DEF Table
  <2>6. up' \in [Iface -> Seq(EtherPkt)]
    BY <2>1, <2>2
  <2>7. QED
    BY <1>3, <2>1, <2>4, <2>5, <2>6 DEF Table
<1>4. ASSUME NEW b \in Lan, NEW j \in DOMAIN clients[b], BrokenPipe(b, j)
      PROVE  TypeOK'
  <2>1. Exit(b) /\ UNCHANGED stdin_eof
    BY <1>4 DEF BrokenPipe
  <2>2. down' \in [Iface -> Seq(EtherPkt \cup Reply)]
    <3>1. PICK I : down' = DownAfterWrite(I, Head(up[Client(b, j)]))
      BY <1>4 DEF BrokenPipe
    <3>2. Head(up[Client(b, j)]) \in EtherPkt
      BY <1>4, ServedClient DEF BrokenPipe
    <3>3. QED
      BY <3>1, <3>2, WriteType
  <2>3. QED
    BY <1>4, <2>1, <2>2, ExitType DEF Table
<1>5. ASSUME NEW b \in Lan, NEW j \in DOMAIN clients[b], remove_client(b, j)
      PROVE  TypeOK'
  <2> USE <1>5 DEF remove_client
  <2>1. clients' \in [Lan -> Seq(Fd)]
    <3>1. RemoveAt(clients[b], j) \in Seq(Fd)
      BY ServedClient, RemoveAtProperties
    <3>2. QED
      BY <3>1 DEF ErasedAt
  <2>2. sock' \in [Iface -> SockState]
    BY DEF SockState
  <2>3. btable' \in [Lan -> Table]
    BY TableTypes DEF Table
  <2>4. peer' \in [Lan -> [Fd -> Iface \cup {NoIface}]]
    OBVIOUS
  <2>5. QED
    BY <2>1, <2>2, <2>3, <2>4 DEF Table
<1>6. ASSUME NEW b \in Lan, Console(b)
      PROVE  TypeOK'
  <2>1. btable' \in [Lan -> Table]
    BY <1>6, TableTypes DEF Table, Console
  <2>2. QED
    BY <1>6, <2>1 DEF Console, sockVars, Table
<1>7. ASSUME NEW b \in Lan, Off(b)
      PROVE  TypeOK'
  BY <1>7, ExitType DEF Off, Table
<1>8. ASSUME NEW b \in Lan, StdinEof(b)
      PROVE  TypeOK'
  BY <1>8 DEF StdinEof, sockVars
<1>9. ASSUME NEW i \in Iface, ClientConnect(i)
      PROVE  TypeOK'
  <2>1. Append(backlog[lan_name[i]], i) \in Seq(Iface)
    BY PacketsAssumption, AppendProperties
  <2>2. sock' \in [Iface -> SockState] /\ backlog' \in [Lan -> Seq(Iface)]
    BY <1>9, <2>1 DEF ClientConnect, SockState
  <2>3. QED
    BY <1>9, <2>2 DEF ClientConnect, bridgeVars
<1>10. CASE ClientTurn
  <2>1. /\ sock' = [i \in Iface |-> sock'[i]]
        /\ up' = [i \in Iface |-> up'[i]]
        /\ down' = [i \in Iface |-> down'[i]]
        /\ UNCHANGED <<backlog, bridgeVars>>
    BY <1>10 DEF ClientTurn
  <2>2. \A i \in Iface : /\ sock'[i] \in SockState
                         /\ up'[i] \in Seq(EtherPkt)
                         /\ down'[i] \in Seq(EtherPkt \cup Reply)
    BY <1>10, TurnEffects
  <2>3. /\ sock' \in [Iface -> SockState]
        /\ up' \in [Iface -> Seq(EtherPkt)]
        /\ down' \in [Iface -> Seq(EtherPkt \cup Reply)]
    BY <2>1, <2>2, Zenon
  <2>4. QED
    BY <2>1, <2>3 DEF bridgeVars
<1>11. ASSUME NEW b \in Lan, Start(b)
       PROVE  TypeOK'
  BY <1>11 DEF Start, sockVars
<1>12. CASE Tick
  <2>1. ASSUME NEW b \in Lan
        PROVE  [p \in Fd |-> [m \in AnyMac |-> Older(btable[b][p][m])]] \in Table
    <3>1. btable[b] \in Table
      BY DEF Table
    <3>2. QED
      BY <3>1, TableTypes
  <2>2. btable' \in [Lan -> Table]
    BY <1>12, <2>1 DEF Tick, AgeTables
  <2>3. QED
    BY <1>12, <2>2 DEF Tick, sockVars, Table
<1>13. CASE UNCHANGED vars
  BY <1>13 DEF vars, sockVars, bridgeVars
<1>14. QED
  BY <1>1, <1>2, <1>3, <1>4, <1>5, <1>6, <1>7, <1>8, <1>9, <1>10, <1>11, <1>12,
     <1>13 DEF Next, BridgeNext, BridgeStep
-----------------------------------------------------------------------------
(* A step that leaves the clients of c and the state of their sockets alone, *)
(* up to a hang-up, leaves its ports consistent.                             *)
LEMMA PortsKept ==
  ASSUME IInv, NEW c \in Lan,
         clients'[c] = clients[c], curr_ports'[c] = curr_ports[c],
         ports'[c] = ports[c], peer'[c] = peer[c],
         \A j \in DOMAIN clients[c] : sock'[Client(c, j)] \in {"open", "fin", "rst"}
  PROVE  PortsConsistentAt(c)'
BY DEF IInv, PortsConsistent, PortsConsistentAt, Client

(* A bridge that has ended has no ports; those of the others are untouched. *)
LEMMA ExitPorts ==
  ASSUME IInv, NEW b \in Lan, Exit(b)
  PROVE  PortsConsistent'
<1> SUFFICES ASSUME NEW c \in Lan
             PROVE  PortsConsistentAt(c)'
  BY DEF PortsConsistent
<1>1. CASE c = b
  <2>1. clients'[c] = <<>> /\ curr_ports'[c] = 0
    BY <1>1 DEF Exit, IInv, TypeOK, BridgeTypeOK
  <2>2. QED
    BY <2>1, BridgeAssumption DEF PortsConsistentAt, ToSet
<1>2. CASE c # b
  <2>1. /\ clients'[c] = clients[c] /\ curr_ports'[c] = curr_ports[c]
        /\ ports'[c] = ports[c] /\ peer'[c] = peer[c]
    BY <1>2 DEF Exit, IInv, TypeOK, BridgeTypeOK
  <2>2. ASSUME NEW j \in DOMAIN clients[c]
        PROVE  sock'[Client(c, j)] = sock[Client(c, j)]
    <3>1. Client(c, j) \in Iface /\ lan_name[Client(c, j)] # b
      BY <1>2, ServedClient
    <3>2. QED
      BY <3>1 DEF Exit, SockAfterExit
  <2>3. QED
    BY <2>1, <2>2, PortsKept, ServedClient
<1>3. QED
  BY <1>1, <1>2

(* What a turn that accepts a request does to the list of clients. *)
LEMMA Accepted ==
  ASSUME IInv, NEW b \in Lan, AcceptClient(b)
  PROVE  LET i == Head(backlog[b])
             n == Len(clients[b])
         IN
         /\ n \in Nat /\ DOMAIN clients[b] = 1 .. n /\ DOMAIN clients'[b] = 1 .. n + 1
         /\ Len(clients'[b]) = n + 1
         /\ \A k \in 1 .. n : /\ clients'[b][k] = clients[b][k]
                              /\ clients[b][k] # clients'[b][n + 1]
                              /\ peer'[b][clients'[b][k]] = Client(b, k)
         /\ peer'[b][clients'[b][n + 1]] = i
         /\ ports'[b] = ports[b] \cup {clients'[b][n + 1]}
         /\ curr_ports'[b] = curr_ports[b] + 1
         /\ i \in Iface /\ lan_name[i] = b
         /\ \A k \in 1 .. n : Client(b, k) # i
         /\ sock'[i] \in {"open", "rst"}
         /\ \A k \in Iface : k # i => sock'[k] = sock[k]
         /\ backlog'[b] = Tail(backlog[b])
         /\ \A c \in Lan : c # b => /\ clients'[c] = clients[c]
                                    /\ curr_ports'[c] = curr_ports[c]
                                    /\ ports'[c] = ports[c]
                                    /\ peer'[c] = peer[c]
                                    /\ backlog'[c] = backlog[c]
<1> DEFINE i == Head(backlog[b])
           n == Len(clients[b])
<1>1. PICK fd \in Fd :
        /\ IsNewFd(b, fd)
        /\ clients' = [clients EXCEPT ![b] = Append(@, fd)]
        /\ peer' = [peer EXCEPT ![b][fd] = i]
        /\ add_port(b, fd, monitor_arp_cache(btable[b]))
  BY DEF AcceptClient
<1>2. /\ backlog[b] # <<>>
      /\ curr_ports' = [curr_ports EXCEPT ![b] = @ + 1]
      /\ ports' = [ports EXCEPT ![b] = @ \cup {fd}]
      /\ backlog' = [backlog EXCEPT ![b] = Tail(@)]
      /\ sock' = [sock EXCEPT ![i] = IF sock[i] = "fin" THEN "rst" ELSE "open"]
  BY <1>1 DEF AcceptClient, AnswerRequest, add_port
<1>3. /\ clients'[b] = Append(clients[b], fd)
      /\ peer'[b] = [peer[b] EXCEPT ![fd] = i]
      /\ curr_ports'[b] = curr_ports[b] + 1
      /\ ports'[b] = ports[b] \cup {fd}
      /\ backlog'[b] = Tail(backlog[b])
  BY <1>1, <1>2 DEF IInv, TypeOK, BridgeTypeOK, SocketsTypeOK
<1>4. \A c \in Lan : c # b => /\ clients'[c] = clients[c]
                              /\ curr_ports'[c] = curr_ports[c]
                              /\ ports'[c] = ports[c]
                              /\ peer'[c] = peer[c]
                              /\ backlog'[c] = backlog[c]
  BY <1>1, <1>2 DEF IInv, TypeOK, BridgeTypeOK, SocketsTypeOK
<1>5. /\ i \in Iface /\ lan_name[i] = b
      /\ \A k \in DOMAIN clients[b] : Client(b, k) # i
  BY <1>2, FirstRequest DEF IInv, BacklogConsistent, BacklogConsistentAt
<1>6. sock'[i] \in {"open", "rst"} /\ \A k \in Iface : k # i => sock'[k] = sock[k]
  BY <1>2, <1>5 DEF IInv, TypeOK, SocketsTypeOK
<1>7. clients[b] \in Seq(Fd) /\ n \in Nat /\ DOMAIN clients[b] = 1 .. n
  BY LenProperties DEF IInv, TypeOK, BridgeTypeOK
<1>8. /\ clients'[b] \in Seq(Fd) /\ Len(clients'[b]) = n + 1
      /\ clients'[b][n + 1] = fd
      /\ \A k \in 1 .. n : clients'[b][k] = clients[b][k]
  BY <1>3, <1>7, AppendProperties
<1>9. DOMAIN clients'[b] = 1 .. n + 1
  BY <1>8, LenProperties
<1>10. \A k \in 1 .. n : clients[b][k] \in Fd /\ clients[b][k] # fd
  BY <1>1, <1>7, ServedClient DEF IsNewFd, ToSet
<1>11. peer'[b][fd] = i /\ \A k \in 1 .. n : peer'[b][clients'[b][k]] = Client(b, k)
  <2>1. peer'[b][fd] = i /\ \A p \in Fd : p # fd => peer'[b][p] = peer[b][p]
    BY <1>3 DEF IInv, TypeOK, BridgeTypeOK
  <2>2. QED
    BY <1>8, <1>10, <2>1 DEF Client
<1> HIDE DEF i, n
<1>12. /\ \A k \in 1 .. n : /\ clients'[b][k] = clients[b][k]
                            /\ clients[b][k] # clients'[b][n + 1]
                            /\ peer'[b][clients'[b][k]] = Client(b, k)
       /\ peer'[b][clients'[b][n + 1]] = i
       /\ ports'[b] = ports[b] \cup {clients'[b][n + 1]}
  BY <1>3, <1>8, <1>10, <1>11
<1>13. \A k \in 1 .. n : Client(b, k) # i
  BY <1>5, <1>7
<1>14. QED
  BY <1>3, <1>4, <1>5, <1>6, <1>7, <1>8, <1>9, <1>12, <1>13 DEF i, n

(* What a turn that removes client j does to it: the one at k was at From(k). *)
From(j, k) == IF k < j THEN k ELSE k + 1

(* What remove_client() does to clients_, position by position: what was   *)
(* behind the removed port has moved up, and the rest is as it was.        *)
LEMMA Removed ==
  ASSUME IInv, NEW b \in Lan, NEW j \in DOMAIN clients[b], remove_client(b, j)
  PROVE  LET i == Client(b, j)
             n == Len(clients[b])
         IN
         /\ n \in Nat /\ DOMAIN clients[b] = 1 .. n /\ DOMAIN clients'[b] = 1 .. n - 1
         /\ Len(clients'[b]) = n - 1
         /\ \A k \in 1 .. n - 1 : /\ From(j, k) \in 1 .. n /\ From(j, k) # j
                                  /\ clients'[b][k] = clients[b][From(j, k)]
                                  /\ peer'[b][clients'[b][k]] = Client(b, From(j, k))
         /\ \A k, l \in 1 .. n - 1 : k # l => From(j, k) # From(j, l)
         /\ \A l \in 1 .. n : l # j => \E k \in 1 .. n - 1 : From(j, k) = l
         /\ curr_ports'[b] = curr_ports[b] - 1 /\ ports' = ports
         /\ i \in Iface /\ lan_name[i] = b
         /\ \A k \in 1 .. n : k # j => Client(b, k) # i
         /\ sock'[i] = "idle"
         /\ \A k \in Iface : k # i => sock'[k] = sock[k]
         /\ backlog' = backlog
         /\ \A c \in Lan : c # b => /\ clients'[c] = clients[c]
                                    /\ curr_ports'[c] = curr_ports[c]
                                    /\ peer'[c] = peer[c]
<1> DEFINE i == Client(b, j)
           n == Len(clients[b])
           p == clients[b][j]
<1>1. /\ clients' = [clients EXCEPT ![b] = RemoveAt(clients[b], j)]
      /\ curr_ports' = [curr_ports EXCEPT ![b] = @ - 1]
      /\ peer' = [peer EXCEPT ![b][p] = NoIface]
      /\ sock' = [sock EXCEPT ![i] = "idle"]
      /\ ports' = ports /\ backlog' = backlog
  BY DEF remove_client, ErasedAt
<1>2. /\ clients'[b] = RemoveAt(clients[b], j)
      /\ peer'[b] = [peer[b] EXCEPT ![p] = NoIface]
      /\ curr_ports'[b] = curr_ports[b] - 1
      /\ \A c \in Lan : c # b => /\ clients'[c] = clients[c]
                                 /\ curr_ports'[c] = curr_ports[c]
                                 /\ peer'[c] = peer[c]
  BY <1>1 DEF IInv, TypeOK, BridgeTypeOK
<1>3. i \in Iface /\ lan_name[i] = b /\ p \in Fd /\ j \in 1 .. n
  BY ServedClient
<1>4. sock'[i] = "idle" /\ \A k \in Iface : k # i => sock'[k] = sock[k]
  BY <1>1, <1>3 DEF IInv, TypeOK, SocketsTypeOK
<1>5. clients[b] \in Seq(Fd) /\ n \in Nat /\ DOMAIN clients[b] = 1 .. n
  BY LenProperties DEF IInv, TypeOK, BridgeTypeOK
<1>6. /\ RemoveAt(clients[b], j) \in Seq(Fd)
      /\ Len(RemoveAt(clients[b], j)) = Len(clients[b]) - 1
      /\ \A k \in 1 .. Len(clients[b]) - 1 : RemoveAt(clients[b], j)[k] =
           IF k < j THEN clients[b][k] ELSE clients[b][k + 1]
  BY <1>3, <1>5, RemoveAtProperties, Zenon
<1>7. DOMAIN clients'[b] = 1 .. n - 1 /\ Len(clients'[b]) = n - 1
  BY <1>2, <1>6, LenProperties
<1>8. ASSUME NEW k \in 1 .. n - 1
      PROVE  clients'[b][k] = clients[b][From(j, k)]
  <2>1. CASE k < j
    BY <1>2, <1>6, <2>1 DEF From
  <2>2. CASE ~(k < j)
    BY <1>2, <1>6, <2>2 DEF From
  <2>3. QED
    BY <2>1, <2>2
<1>9. /\ \A k \in 1 .. n - 1 : From(j, k) \in 1 .. n /\ From(j, k) # j
      /\ \A k, l \in 1 .. n - 1 : k # l => From(j, k) # From(j, l)
  BY <1>3, <1>5 DEF From
<1>10. ASSUME NEW l \in 1 .. n, l # j
       PROVE  \E k \in 1 .. n - 1 : From(j, k) = l
  <2>1. CASE l < j
    BY <1>3, <1>5, <2>1 DEF From
  <2>2. CASE l > j
    <3>1. l - 1 \in 1 .. n - 1 /\ From(j, l - 1) = l
      BY <1>3, <1>5, <2>2 DEF From
    <3>2. QED
      BY <3>1
  <2>3. QED
    BY <1>3, <1>5, <1>10, <2>1, <2>2
<1>11. \A k, l \in 1 .. n : k # l => /\ clients[b][k] # clients[b][l]
                                     /\ Client(b, k) # Client(b, l)
  BY <1>5 DEF IInv, PortsConsistent, PortsConsistentAt
<1>12. ASSUME NEW k \in 1 .. n - 1
       PROVE  peer'[b][clients'[b][k]] = Client(b, From(j, k))
  <2>1. From(j, k) \in 1 .. n /\ From(j, k) # j
    BY <1>9
  <2>2. clients[b][From(j, k)] \in Fd /\ clients[b][From(j, k)] # p
    BY <1>3, <1>5, <1>11, <2>1, ServedClient
  <2>3. \A q \in Fd : q # p => peer'[b][q] = peer[b][q]
    BY <1>2 DEF IInv, TypeOK, BridgeTypeOK
  <2>4. QED
    BY <1>8, <2>2, <2>3 DEF Client
<1>13. \A k \in 1 .. n : k # j => Client(b, k) # i
  BY <1>3, <1>11
<1> HIDE DEF i, n
<1>14. QED
  BY <1>1, <1>2, <1>3, <1>4, <1>5, <1>7, <1>8, <1>9, <1>10, <1>12, <1>13 DEF i, n

(* Every step of a bridge or of a client keeps the ports of every bridge      *)
(* consistent.                                                                *)
LEMMA PortsStep ==
  ASSUME IInv, [Next]_vars
  PROVE  PortsConsistent'
<1>1. ASSUME NEW b \in Lan, AcceptClient(b)
      PROVE  PortsConsistent'
  <2> SUFFICES ASSUME NEW c \in Lan
               PROVE  PortsConsistentAt(c)'
    BY DEF PortsConsistent
  <2> DEFINE i == Head(backlog[b])
             n == Len(clients[b])
             C(k) == peer'[b][clients'[b][k]]
  <2>1. CASE c # b
    <3>1. \A k \in DOMAIN clients[c] : sock'[Client(c, k)] = sock[Client(c, k)]
      BY <1>1, <2>1, Accepted, ServedClient
    <3>2. QED
      BY <1>1, <2>1, <3>1, Accepted, PortsKept, ServedClient
  <2>2. CASE c = b
    <3>1. /\ n \in Nat /\ DOMAIN clients[b] = 1 .. n /\ DOMAIN clients'[b] = 1 .. n + 1
          /\ Len(clients'[b]) = n + 1
          /\ \A k \in 1 .. n : /\ clients'[b][k] = clients[b][k]
                               /\ clients[b][k] # clients'[b][n + 1]
                               /\ C(k) = Client(b, k)
          /\ C(n + 1) = i
          /\ ports'[b] = ports[b] \cup {clients'[b][n + 1]}
          /\ curr_ports'[b] = curr_ports[b] + 1
      BY <1>1, Accepted
    <3>2. \A k \in 1 .. n : /\ Client(b, k) \in Iface
                            /\ Client(b, k) # i
                            /\ lan_name[Client(b, k)] = b
                            /\ sock'[Client(b, k)] \in {"open", "fin", "rst"}
      BY <1>1, Accepted, ServedClient
    <3>3. i \in Iface /\ lan_name[i] = b /\ sock'[i] \in {"open", "rst"}
      BY <1>1, Accepted
    <3>4. curr_ports'[b] = Len(clients'[b]) /\ Len(clients'[b]) <= NumPorts
      BY <1>1, <3>1 DEF AcceptClient, HasRoom, IInv, PortsConsistent, PortsConsistentAt
    <3>5. ToSet(clients'[b]) \subseteq ports'[b]
      <4>1. \A k \in 1 .. n : clients[b][k] \in ports[b]
        BY <3>1 DEF ToSet, IInv, PortsConsistent, PortsConsistentAt
      <4>2. QED
        BY <3>1, <4>1 DEF ToSet
    <3> HIDE DEF i, n
    <3>6. ASSUME NEW k \in 1 .. n + 1
          PROVE  /\ C(k) \in Iface
                 /\ lan_name[C(k)] = b
                 /\ sock'[C(k)] \in {"open", "fin", "rst"}
      <4>1. CASE k = n + 1
        BY <3>1, <3>3, <4>1
      <4>2. CASE k \in 1 .. n
        BY <3>1, <3>2, <4>2
      <4>3. QED
        BY <3>1, <4>1, <4>2
    <3>7. ASSUME NEW k \in 1 .. n + 1, NEW l \in 1 .. n + 1, k # l
          PROVE  clients'[b][k] # clients'[b][l] /\ C(k) # C(l)
      <4>1. CASE k \in 1 .. n /\ l \in 1 .. n
        <5>1. k \in DOMAIN clients[b] /\ l \in DOMAIN clients[b]
          BY <3>1, <4>1
        <5>2. PortsConsistentAt(b)
          BY DEF IInv, PortsConsistent
        <5>3. clients[b][k] # clients[b][l] /\ Client(b, k) # Client(b, l)
          BY <3>7, <5>1, <5>2 DEF PortsConsistentAt
        <5>4. /\ clients'[b][k] = clients[b][k] /\ C(k) = Client(b, k)
              /\ clients'[b][l] = clients[b][l] /\ C(l) = Client(b, l)
          BY <3>1, <4>1
        <5>5. QED
          BY <5>3, <5>4
      <4>2. CASE k = n + 1 /\ l \in 1 .. n
        BY <3>1, <3>2, <4>2
      <4>3. CASE l = n + 1 /\ k \in 1 .. n
        BY <3>1, <3>2, <4>3
      <4>4. QED
        BY <3>1, <3>7, <4>1, <4>2, <4>3
    <3>8. QED
      BY <2>2, <3>1, <3>4, <3>5, <3>6, <3>7 DEF PortsConsistentAt, Client
  <2>3. QED
    BY <2>1, <2>2
<1>2. ASSUME NEW b \in Lan, RejectClient(b)
      PROVE  PortsConsistent'
  <2> DEFINE i == Head(backlog[b])
  <2>1. /\ UNCHANGED <<clients, curr_ports, ports, peer>>
        /\ \A k \in Iface : k # i => sock'[k] = sock[k]
    BY <1>2 DEF RejectClient, IInv, TypeOK, SocketsTypeOK
  <2>2. ASSUME NEW c \in Lan, NEW k \in DOMAIN clients[c]
        PROVE  Client(c, k) # i
    <3>1. lan_name[i] = b /\ \A j \in DOMAIN clients[b] : Client(b, j) # i
      BY <1>2, FirstRequest DEF RejectClient, IInv, BacklogConsistent, BacklogConsistentAt
    <3>2. QED
      BY <3>1, ServedClient
  <2>3. QED
    BY <2>1, <2>2, PortsKept, ServedClient DEF PortsConsistent
<1>3. ASSUME NEW b \in Lan, NEW j \in DOMAIN clients[b], RelayFrame(b, j)
      PROVE  PortsConsistent'
  <2>1. /\ UNCHANGED <<clients, curr_ports, ports, peer>>
        /\ \A k \in Iface : sock[k] \in {"open", "fin", "rst"}
                              => sock'[k] \in {"open", "fin", "rst"}
    BY <1>3 DEF RelayFrame, SockAfterWrite, IInv, TypeOK, SocketsTypeOK
  <2>2. QED
    BY <2>1, PortsKept, ServedClient DEF PortsConsistent
<1>4. ASSUME NEW b \in Lan, NEW j \in DOMAIN clients[b], BrokenPipe(b, j)
      PROVE  PortsConsistent'
  BY <1>4, ExitPorts DEF BrokenPipe
<1>5. ASSUME NEW b \in Lan, NEW j \in DOMAIN clients[b], remove_client(b, j)
      PROVE  PortsConsistent'
  <2> SUFFICES ASSUME NEW c \in Lan
               PROVE  PortsConsistentAt(c)'
    BY DEF PortsConsistent
  <2> DEFINE n == Len(clients[b])
             C(k) == peer'[b][clients'[b][k]]
  <2>1. CASE c # b
    <3>1. \A k \in DOMAIN clients[c] : sock'[Client(c, k)] = sock[Client(c, k)]
      BY <1>5, <2>1, Removed, ServedClient
    <3>2. /\ clients'[c] = clients[c] /\ curr_ports'[c] = curr_ports[c]
          /\ ports'[c] = ports[c] /\ peer'[c] = peer[c]
      BY <1>5, <2>1, Removed
    <3>3. QED
      BY <3>1, <3>2, PortsKept, ServedClient
  <2>2. CASE c = b
    <3>1. /\ n \in Nat /\ DOMAIN clients[b] = 1 .. n /\ DOMAIN clients'[b] = 1 .. n - 1
          /\ Len(clients'[b]) = n - 1
          /\ curr_ports'[b] = curr_ports[b] - 1
          /\ ports'[b] = ports[b]
      BY <1>5, Removed
    <3>2. /\ \A k \in 1 .. n - 1 : From(j, k) \in 1 .. n /\ From(j, k) # j
          /\ \A k \in 1 .. n - 1 : clients'[b][k] = clients[b][From(j, k)]
          /\ \A k, l \in 1 .. n - 1 : k # l => From(j, k) # From(j, l)
      BY <1>5, Removed
    <3>3. \A k \in 1 .. n - 1 : C(k) = Client(b, From(j, k))
      BY <1>5, Removed
    <3>4. \A k \in 1 .. n : k # j =>
            /\ Client(b, k) \in Iface
            /\ lan_name[Client(b, k)] = b
            /\ sock'[Client(b, k)] \in {"open", "fin", "rst"}
      <4>1. /\ \A k \in 1 .. n : k # j => Client(b, k) # Client(b, j)
            /\ \A k \in Iface : k # Client(b, j) => sock'[k] = sock[k]
        BY <1>5, Removed
      <4>2. QED
        BY <3>1, <4>1, ServedClient
    <3>5. /\ curr_ports[b] = n /\ n <= NumPorts
          /\ \A k \in 1 .. n : clients[b][k] \in ports[b]
          /\ \A k, l \in 1 .. n : k # l => /\ clients[b][k] # clients[b][l]
                                           /\ Client(b, k) # Client(b, l)
      BY <3>1 DEF ToSet, IInv, PortsConsistent, PortsConsistentAt
    <3>6. curr_ports'[b] = Len(clients'[b]) /\ Len(clients'[b]) <= NumPorts
      BY <3>1, <3>5, BridgeAssumption
    <3>7. ToSet(clients'[b]) \subseteq ports'[b]
      BY <3>1, <3>2, <3>5, SMTT(30) DEF ToSet
    <3>8. ASSUME NEW k \in 1 .. n - 1
          PROVE  /\ C(k) \in Iface
                 /\ lan_name[C(k)] = b
                 /\ sock'[C(k)] \in {"open", "fin", "rst"}
      <4>1. /\ From(j, k) \in 1 .. n /\ From(j, k) # j
            /\ C(k) = Client(b, From(j, k))
        BY <3>2, <3>3
      <4>2. QED
        BY <3>4, <4>1
    <3>9. ASSUME NEW k \in 1 .. n - 1, NEW l \in 1 .. n - 1, k # l
          PROVE  clients'[b][k] # clients'[b][l] /\ C(k) # C(l)
      <4>1. From(j, k) \in 1 .. n /\ From(j, l) \in 1 .. n /\ From(j, k) # From(j, l)
        BY <3>2, <3>9
      <4>2. QED
        BY <3>2, <3>3, <3>5, <4>1
    <3> HIDE DEF n
    <3>10. QED
      BY <2>2, <3>1, <3>6, <3>7, <3>8, <3>9 DEF PortsConsistentAt, Client
  <2>3. QED
    BY <2>1, <2>2
<1>6. ASSUME NEW b \in Lan, Start(b) \/ Console(b) \/ StdinEof(b)
      PROVE  PortsConsistent'
  BY <1>6, PortsKept, ServedClient DEF Start, Console, StdinEof, sockVars, PortsConsistent
<1>7. ASSUME NEW b \in Lan, Off(b)
      PROVE  PortsConsistent'
  BY <1>7, ExitPorts DEF Off
<1>8. CASE ClientTurn \/ \E i \in Iface : ClientConnect(i)
  <2>1. UNCHANGED <<clients, curr_ports, ports, peer>>
    BY <1>8 DEF ClientConnect, ClientTurn, bridgeVars
  <2>2. \A k \in Iface : sock[k] \in {"open", "fin", "rst"}
                           => sock'[k] \in {"open", "fin", "rst"}
    <3>1. ASSUME NEW i \in Iface, ClientConnect(i), NEW k \in Iface,
                 sock[k] \in {"open", "fin", "rst"}
          PROVE  sock'[k] = sock[k]
      BY <3>1 DEF ClientConnect, IInv, TypeOK, SocketsTypeOK
    <3>2. QED
      BY <1>8, <3>1, TurnEffects DEF IInv
  <2>3. QED
    BY <2>1, <2>2, PortsKept, ServedClient DEF PortsConsistent
<1>9. CASE Tick
  BY <1>9, PortsKept, ServedClient DEF Tick, sockVars, PortsConsistent
<1>10. CASE UNCHANGED vars
  BY <1>10, PortsKept, ServedClient DEF vars, sockVars, bridgeVars, PortsConsistent
<1>11. QED
  BY <1>1, <1>2, <1>3, <1>4, <1>5, <1>6, <1>7, <1>8, <1>9, <1>10
     DEF Next, BridgeNext, BridgeStep
-----------------------------------------------------------------------------
(* What the invariant says of one waiting request. *)
LEMMA WaitingRequest ==
  ASSUME IInv, NEW c \in Lan, NEW n \in DOMAIN backlog[c]
  PROVE  /\ backlog[c] \in Seq(Iface)
         /\ Len(backlog[c]) \in Nat
         /\ DOMAIN backlog[c] = 1 .. Len(backlog[c])
         /\ backlog[c][n] \in Iface
         /\ lan_name[backlog[c][n]] = c
         /\ sock[backlog[c][n]] \in {"syn", "fin"}
         /\ \A m \in DOMAIN backlog[c] : backlog[c][m] = backlog[c][n] => m = n
         /\ \A b \in Lan : \A j \in DOMAIN clients[b] : Client(b, j) # backlog[c][n]
<1>1. /\ backlog[c] \in Seq(Iface)
      /\ Len(backlog[c]) \in Nat
      /\ DOMAIN backlog[c] = 1 .. Len(backlog[c])
      /\ backlog[c][n] \in Iface
  BY LenProperties, ElementOfSeq DEF IInv, TypeOK, SocketsTypeOK
<1>2. /\ lan_name[backlog[c][n]] = c
      /\ sock[backlog[c][n]] \in {"syn", "fin"}
      /\ \A m \in DOMAIN backlog[c] : backlog[c][m] = backlog[c][n] => m = n
      /\ \A j \in DOMAIN clients[c] : Client(c, j) # backlog[c][n]
  BY DEF IInv, BacklogConsistent, BacklogConsistentAt
<1>3. \A b \in Lan : \A j \in DOMAIN clients[b] : Client(b, j) # backlog[c][n]
  BY <1>2, ServedClient
<1>4. QED
  BY <1>1, <1>2, <1>3

(* A step that leaves backlog and clients of c alone, and whoever waits       *)
(* waiting or gone, leaves the backlog consistent.                            *)
LEMMA BacklogKept ==
  ASSUME IInv, NEW c \in Lan,
         backlog'[c] = backlog[c], clients'[c] = clients[c], peer'[c] = peer[c],
         \A n \in DOMAIN backlog[c] : sock'[backlog[c][n]] \in {"syn", "fin"}
  PROVE  BacklogConsistentAt(c)'
BY DEF IInv, BacklogConsistent, BacklogConsistentAt, Client

(* The first request has left backlog b, and nothing else has changed there *)
(* but the clients, none of which was or is in the rest of it.              *)
LEMMA BacklogServed ==
  ASSUME IInv, NEW b \in Lan, backlog[b] # <<>>, backlog'[b] = Tail(backlog[b]),
         \A k \in Iface : k # Head(backlog[b]) => sock'[k] = sock[k],
         \A j \in DOMAIN clients'[b] :
           \/ peer'[b][clients'[b][j]] = Head(backlog[b])
           \/ \E k \in DOMAIN clients[b] : peer'[b][clients'[b][j]] = Client(b, k)
  PROVE  BacklogConsistentAt(b)'
<1> DEFINE old(n) == backlog[b][n + 1]
<1>1. ASSUME NEW n \in DOMAIN backlog'[b]
      PROVE  /\ n + 1 \in DOMAIN backlog[b] /\ backlog'[b][n] = old(n)
             /\ n \in Nat \ {0}
             /\ old(n) # Head(backlog[b])
  <2>1. /\ n + 1 \in DOMAIN backlog[b] /\ backlog'[b][n] = old(n)
        /\ Tail(backlog[b]) \in Seq(Iface)
        /\ 1 \in DOMAIN backlog[b] /\ Head(backlog[b]) = backlog[b][1]
    BY FirstRequest
  <2>2. n \in Nat \ {0}
    BY <2>1, LenProperties
  <2>3. QED
    BY <2>1, <2>2, WaitingRequest
<1>2. ASSUME NEW n \in DOMAIN backlog'[b]
      PROVE  /\ lan_name[old(n)] = b
             /\ sock'[old(n)] \in {"syn", "fin"}
             /\ \A m \in DOMAIN backlog'[b] : backlog'[b][m] = old(n) => m = n
             /\ \A j \in DOMAIN clients'[b] : peer'[b][clients'[b][j]] # old(n)
  <2>1. /\ old(n) \in Iface /\ lan_name[old(n)] = b
        /\ sock'[old(n)] \in {"syn", "fin"}
    BY <1>1, WaitingRequest
  <2>2. ASSUME NEW m \in DOMAIN backlog'[b], backlog'[b][m] = old(n)
        PROVE  m = n
    <3>1. m + 1 = n + 1
      BY <1>1, <2>2, WaitingRequest
    <3>2. QED
      BY <1>1, <3>1
  <2>3. \A j \in DOMAIN clients'[b] : peer'[b][clients'[b][j]] # old(n)
    BY <1>1, WaitingRequest
  <2>4. QED
    BY <2>1, <2>2, <2>3
<1>3. QED
  BY <1>1, <1>2 DEF BacklogConsistentAt, Client

(* Every step of a bridge or of a client keeps every backlog consistent. *)
LEMMA BacklogStep ==
  ASSUME IInv, [Next]_vars
  PROVE  BacklogConsistent'
<1> SUFFICES ASSUME NEW c \in Lan
             PROVE  BacklogConsistentAt(c)'
  BY DEF BacklogConsistent
<1>1. ASSUME NEW b \in Lan, AcceptClient(b)
      PROVE  BacklogConsistentAt(c)'
  <2>1. /\ \A k \in Iface : k # Head(backlog[b]) => sock'[k] = sock[k]
        /\ lan_name[Head(backlog[b])] = b
    BY <1>1, Accepted
  <2>2. CASE c # b
    <3>1. backlog'[c] = backlog[c] /\ clients'[c] = clients[c] /\ peer'[c] = peer[c]
      BY <1>1, <2>2, Accepted
    <3>2. \A n \in DOMAIN backlog[c] : sock'[backlog[c][n]] = sock[backlog[c][n]]
      BY <2>1, <2>2, WaitingRequest
    <3>3. QED
      BY <3>1, <3>2, BacklogKept, WaitingRequest
  <2>3. CASE c = b
    <3>1. \A j \in DOMAIN clients'[b] :
            \/ peer'[b][clients'[b][j]] = Head(backlog[b])
            \/ \E k \in DOMAIN clients[b] : peer'[b][clients'[b][j]] = Client(b, k)
      <4> DEFINE n == Len(clients[b])
      <4>1. /\ n \in Nat /\ DOMAIN clients[b] = 1 .. n /\ DOMAIN clients'[b] = 1 .. n + 1
            /\ \A k \in 1 .. n : peer'[b][clients'[b][k]] = Client(b, k)
            /\ peer'[b][clients'[b][n + 1]] = Head(backlog[b])
        BY <1>1, Accepted
      <4> HIDE DEF n
      <4>2. QED
        BY <4>1
    <3>2. backlog[b] # <<>> /\ backlog'[b] = Tail(backlog[b])
      BY <1>1, Accepted DEF AcceptClient
    <3>3. QED
      BY <2>1, <2>3, <3>1, <3>2, BacklogServed
  <2>4. QED
    BY <2>2, <2>3
<1>2. ASSUME NEW b \in Lan, RejectClient(b)
      PROVE  BacklogConsistentAt(c)'
  <2>1. /\ backlog[b] # <<>> /\ backlog'[b] = Tail(backlog[b])
        /\ \A d \in Lan : d # b => backlog'[d] = backlog[d]
        /\ clients' = clients /\ peer' = peer
        /\ \A k \in Iface : k # Head(backlog[b]) => sock'[k] = sock[k]
    BY <1>2 DEF RejectClient, IInv, TypeOK, SocketsTypeOK
  <2>2. lan_name[Head(backlog[b])] = b
    BY <2>1, FirstRequest, WaitingRequest
  <2>3. CASE c # b
    <3>1. \A n \in DOMAIN backlog[c] : sock'[backlog[c][n]] = sock[backlog[c][n]]
      BY <2>1, <2>2, <2>3, WaitingRequest
    <3>2. QED
      BY <2>1, <2>3, <3>1, BacklogKept, WaitingRequest
  <2>4. CASE c = b
    <3>1. \A j \in DOMAIN clients'[b] :
            \E k \in DOMAIN clients[b] : peer'[b][clients'[b][j]] = Client(b, k)
      BY <2>1 DEF Client
    <3>2. QED
      BY <2>1, <2>4, <3>1, BacklogServed
  <2>5. QED
    BY <2>3, <2>4
<1>3. ASSUME NEW b \in Lan, NEW j \in DOMAIN clients[b], RelayFrame(b, j)
      PROVE  BacklogConsistentAt(c)'
  <2>1. PICK to \in SUBSET DOMAIN clients[b] :
          sock' = SockAfterWrite({Client(b, k) : k \in to})
    BY <1>3, TargetsAreClients DEF RelayFrame
  <2>2. \A n \in DOMAIN backlog[c] : sock'[backlog[c][n]] = sock[backlog[c][n]]
    BY <2>1, WaitingRequest DEF SockAfterWrite
  <2>3. UNCHANGED <<backlog, clients, peer>>
    BY <1>3 DEF RelayFrame
  <2>4. QED
    BY <2>2, <2>3, BacklogKept, WaitingRequest
<1>4. ASSUME NEW b \in Lan, Exit(b)
      PROVE  BacklogConsistentAt(c)'
  <2>1. CASE c = b
    <3>1. backlog'[b] = <<>>
      BY <1>4 DEF Exit, IInv, TypeOK, SocketsTypeOK
    <3>2. QED
      BY <2>1, <3>1 DEF BacklogConsistentAt
  <2>2. CASE c # b
    <3>1. backlog'[c] = backlog[c] /\ clients'[c] = clients[c] /\ peer'[c] = peer[c]
      BY <1>4, <2>2 DEF Exit, IInv, TypeOK, SocketsTypeOK, BridgeTypeOK
    <3>2. \A i \in Iface : lan_name[i] # b => sock'[i] = sock[i]
      BY <1>4, Zenon DEF Exit, SockAfterExit
    <3>3. QED
      BY <2>2, <3>1, <3>2, BacklogKept, WaitingRequest
  <2>3. QED
    BY <2>1, <2>2
<1>5. ASSUME NEW b \in Lan, NEW j \in DOMAIN clients[b], remove_client(b, j)
      PROVE  BacklogConsistentAt(c)'
  <2>1. \A n \in DOMAIN backlog[c] : sock'[backlog[c][n]] = sock[backlog[c][n]]
    BY <1>5, Removed, WaitingRequest
  <2>2. backlog' = backlog
    BY <1>5, Removed
  <2>3. CASE c # b
    BY <1>5, <2>1, <2>2, <2>3, Removed, BacklogKept, WaitingRequest
  <2>4. CASE c = b
    <3>1. \A l \in DOMAIN clients'[b] :
            \E k \in DOMAIN clients[b] : peer'[b][clients'[b][l]] = Client(b, k)
      <4> DEFINE n == Len(clients[b])
      <4>1. DOMAIN clients[b] = 1 .. n /\ DOMAIN clients'[b] = 1 .. n - 1
        BY <1>5, Removed
      <4>2. \A k \in 1 .. n - 1 :
              From(j, k) \in 1 .. n /\ peer'[b][clients'[b][k]] = Client(b, From(j, k))
        BY <1>5, Removed
      <4>3. QED
        BY <4>1, <4>2
    <3>2. ASSUME NEW n \in DOMAIN backlog[b]
          PROVE  /\ lan_name[backlog[b][n]] = b
                 /\ sock'[backlog[b][n]] \in {"syn", "fin"}
                 /\ \A m \in DOMAIN backlog[b] : backlog[b][m] = backlog[b][n] => m = n
                 /\ \A l \in DOMAIN clients'[b] : peer'[b][clients'[b][l]] # backlog[b][n]
      BY <2>1, <2>4, <3>1, WaitingRequest
    <3>3. QED
      BY <2>2, <2>4, <3>2 DEF BacklogConsistentAt, Client
  <2>5. QED
    BY <2>3, <2>4
<1>6. ASSUME NEW i \in Iface, ClientConnect(i)
      PROVE  BacklogConsistentAt(c)'
  <2> DEFINE d == lan_name[i]
  <2>1. /\ UNCHANGED <<clients, peer>> /\ sock[i] = "idle"
        /\ backlog' = [backlog EXCEPT ![d] = Append(@, i)]
        /\ sock' = [sock EXCEPT ![i] = "syn"]
    BY <1>6 DEF ClientConnect, bridgeVars
  <2>2. /\ d \in Lan /\ sock'[i] = "syn"
        /\ backlog'[d] = Append(backlog[d], i)
        /\ \A e \in Lan : e # d => backlog'[e] = backlog[e]
        /\ \A k \in Iface : k # i => sock'[k] = sock[k]
    BY <2>1, PacketsAssumption DEF IInv, TypeOK, SocketsTypeOK
  <2>3. \A e \in Lan : \A n \in DOMAIN backlog[e] :
          backlog[e][n] # i /\ sock'[backlog[e][n]] \in {"syn", "fin"}
    BY <2>1, <2>2, WaitingRequest
  <2>4. CASE c # d
    BY <2>1, <2>2, <2>3, <2>4, BacklogKept
  <2>5. CASE c = d
    <3> DEFINE n == Len(backlog[c])
    <3>1. /\ backlog[c] \in Seq(Iface) /\ n \in Nat /\ DOMAIN backlog[c] = 1 .. n
      BY LenProperties DEF IInv, TypeOK, SocketsTypeOK
    <3>2. /\ DOMAIN backlog'[c] = 1 .. n + 1 /\ backlog'[c][n + 1] = i
          /\ \A m \in 1 .. n : backlog'[c][m] = backlog[c][m]
      <4>1. backlog'[c] = Append(backlog[c], i)
        BY <2>2, <2>5
      <4>2. /\ backlog'[c] \in Seq(Iface) /\ Len(backlog'[c]) = n + 1
            /\ backlog'[c][n + 1] = i
            /\ \A m \in 1 .. n : backlog'[c][m] = backlog[c][m]
        BY <3>1, <4>1, AppendProperties
      <4>3. DOMAIN backlog'[c] = 1 .. n + 1
        BY <4>2, LenProperties
      <4>4. QED
        BY <4>2, <4>3
    <3>3. \A j \in DOMAIN clients[c] : Client(c, j) # i
      BY <2>1, ServedClient
    <3> HIDE DEF n
    <3>4. ASSUME NEW m \in 1 .. n + 1
          PROVE  /\ lan_name[backlog'[c][m]] = c
                 /\ sock'[backlog'[c][m]] \in {"syn", "fin"}
                 /\ \A l \in 1 .. n + 1 : backlog'[c][l] = backlog'[c][m] => l = m
                 /\ \A j \in DOMAIN clients[c] : Client(c, j) # backlog'[c][m]
      <4>1. CASE m = n + 1
        <5>1. \A l \in 1 .. n + 1 : backlog'[c][l] = i => l = n + 1
          BY <2>3, <3>1, <3>2
        <5>2. QED
          BY <2>2, <2>5, <3>2, <3>3, <4>1, <5>1
      <4>2. CASE m \in 1 .. n
        <5>1. \A l \in 1 .. n + 1 : backlog'[c][l] = backlog[c][m] => l = m
          BY <2>3, <3>1, <3>2, <4>2, WaitingRequest
        <5>2. backlog'[c][m] = backlog[c][m]
          BY <3>2, <4>2
        <5>3. /\ lan_name[backlog[c][m]] = c /\ backlog[c][m] \in Iface
              /\ sock[backlog[c][m]] \in {"syn", "fin"}
              /\ \A j \in DOMAIN clients[c] : Client(c, j) # backlog[c][m]
          BY <3>1, <4>2, WaitingRequest
        <5>4. sock'[backlog[c][m]] \in {"syn", "fin"}
          BY <2>3, <3>1, <4>2
        <5>5. QED
          BY <5>1, <5>2, <5>3, <5>4
      <4>3. QED
        BY <3>1, <4>1, <4>2
    <3>5. DOMAIN backlog'[c] = 1 .. n + 1 /\ clients' = clients /\ peer' = peer
      BY <2>1, <3>2
    <3>6. QED
      BY <3>4, <3>5 DEF BacklogConsistentAt, Client
  <2>6. QED
    BY <2>4, <2>5
<1>7. CASE ClientTurn
  <2>1. UNCHANGED <<backlog, clients, peer>>
    BY <1>7 DEF ClientTurn, bridgeVars
  <2>2. \A n \in DOMAIN backlog[c] : sock'[backlog[c][n]] \in {"syn", "fin"}
    BY <1>7, WaitingRequest, TurnEffects DEF IInv
  <2>3. QED
    BY <2>1, <2>2, BacklogKept
<1>8. CASE UNCHANGED <<backlog, clients, peer, sock>>
  BY <1>8, BacklogKept, WaitingRequest
<1>9. QED
  <2>1. ASSUME NEW b \in Lan, BridgeStep(b) \/ Off(b)
        PROVE  BacklogConsistentAt(c)'
    BY <1>1, <1>2, <1>3, <1>4, <1>5, <2>1 DEF BridgeStep, BrokenPipe, Off
  <2>2. ASSUME NEW b \in Lan, Start(b) \/ Console(b) \/ StdinEof(b)
        PROVE  BacklogConsistentAt(c)'
    BY <1>8, <2>2 DEF Start, Console, StdinEof, sockVars
  <2>3. CASE Tick \/ UNCHANGED vars
    BY <1>8, <2>3 DEF Tick, vars, sockVars, bridgeVars
  <2>4. QED
    BY <1>6, <1>7, <2>1, <2>2, <2>3 DEF Next, BridgeNext
-----------------------------------------------------------------------------
(* The bridges start with no client, no table and no request. *)
LEMMA InitInv == Init => IInv
<1> SUFFICES ASSUME Init
             PROVE  IInv
  OBVIOUS
<1> USE DEF Init, SocketsInit, BridgeInit
<1>1. TypeOK
  <2>1. EmptyTable \in Table
    BY DEF EmptyTable, Table
  <2>2. SocketsTypeOK
    BY DEF SocketsTypeOK, SockState
  <2>3. BridgeTypeOK
    BY <2>1 DEF BridgeTypeOK, Table
  <2>4. QED
    BY <2>2, <2>3 DEF TypeOK
<1>2. PortsConsistent
  BY BridgeAssumption DEF PortsConsistent, PortsConsistentAt, ToSet
<1>3. BacklogConsistent
  BY DEF BacklogConsistent, BacklogConsistentAt
<1>4. QED
  BY <1>1, <1>2, <1>3 DEF IInv

(***************************************************************************)
(* The three parts together hold in every reachable state: BridgeClients'  *)
(* Next covers the whole loop of Bridge::start(), its restart, and every   *)
(* way a client can connect, send, read and end.                           *)
(***************************************************************************)
THEOREM Invariance == Spec => []IInv
<1>1. IInv /\ [Next]_vars => IInv'
  BY TypeStep, PortsStep, BacklogStep DEF IInv
<1>2. QED
  BY InitInv, <1>1, PTL DEF Spec

(***************************************************************************)
(* The bridge's descriptors stay within its port limit plus one, its table *)
(* within its ages, and all that is in flight is a frame or an answer.     *)
(***************************************************************************)
THEOREM TypeCorrect == Spec => []TypeOK
<1>1. IInv => TypeOK
  BY DEF IInv
<1>2. QED
  BY Invariance, <1>1, PTL

(***************************************************************************)
(* curr_ports_ and clients_ agree, the port limit holds, the find() in     *)
(* add_arp_entry() never misses, and no two ports lead to one station.     *)
(***************************************************************************)
THEOREM PortsAreConsistent == Spec => []PortsConsistent
<1>1. IInv => PortsConsistent
  BY DEF IInv
<1>2. QED
  BY Invariance, <1>1, PTL

(***************************************************************************)
(* A station that waits for accept() waits once, at the bridge of its own  *)
(* LAN, and no port leads to it before.                                    *)
(***************************************************************************)
THEOREM BacklogIsConsistent == Spec => []BacklogConsistent
<1>1. IInv => BacklogConsistent
  BY DEF IInv
<1>2. QED
  BY Invariance, <1>1, PTL
=============================================================================
