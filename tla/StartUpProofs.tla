--------------------------- MODULE StartUpProofs ---------------------------
(***************************************************************************)
(* The start of bridges and stations, for every number of processes, LANs  *)
(* and interfaces, every order of their steps and every number of tries.   *)
(*                                                                         *)
(* SInv has four parts besides the invariant of the registry.  Listening   *)
(* ties the phases of processes to alive.  StationInv says that the        *)
(* station has not closed what it connects, what has come in there, and    *)
(* why select returned.  OrderInv says where the interfaces of the file    *)
(* have moved in ifaces_.  As every step is one of BridgeClients           *)
(* (StartStep), the invariant of the bridges, IInv, holds as well.         *)
(***************************************************************************)
EXTENDS StartUp, BridgeProofs, RegistryProofs

(* A port can be dialled from the flush of its address to its end. *)
Listening == \A p \in Proc : alive[p] <=> phase[p] \in {"announced", "serving"}

(* The cards for which the address of a bridge of their LAN is known. *)
Resolved == {k \in Own : address[k] \in Proc /\ argv1[address[k]] = net[k]}

Gone == {"eof", "pipe", "dead"}

Unrefused == (EtherPkt \cup Reply) \ {[reply |-> "Rejected"]}

Connecting == pc \in {"connect", "select", "read"}

StationInv ==
  /\ StationTypeOK
  /\ ifaces \in Seq(Resolved)
  /\ pc \notin {"load", "exited"} => Own \subseteq Resolved
  /\ Connecting => pos <= Len(ifaces)
  /\ pc # "exited" => \A e \in OwnEnds :
       /\ sock[e] \notin {"fin", "rst"}
       /\ sock[e] \in Gone \/ down[e] \in Seq(Unrefused)
  /\ pc = "read" => read_set # {} /\ \A x \in read_set : Ready(x)

(* The interface before k in the file is not among those in use. *)
BehindErased(k, used) ==
  \E m \in 2 .. Len(IfaceFile) : IfaceFile[m] = k /\ IfaceFile[m - 1] \notin used

OrderInv ==
  /\ pc = "load" =>
       /\ pos <= Len(IfaceFile) /\ Len(ifaces) = pos - 1
       /\ \A n \in 1 .. Len(ifaces) : ifaces[n] = IfaceFile[n]
  /\ Len(ifaces) <= Len(IfaceFile)
  /\ \A m, n \in 1 .. Len(ifaces) : ifaces[m] = ifaces[n] => m = n
  /\ Connecting =>
       \A n \in pos .. Len(ifaces) :
         ifaces[n] = IfaceFile[n + (Len(IfaceFile) - Len(ifaces))]
  /\ Connecting \/ pc = "main" =>
       \A n \in 1 .. Len(ifaces) :
         n < pos \/ pc = "main" =>
           ifaces[n] \in accepted \/ BehindErased(ifaces[n], ToSet(ifaces))

SInv == IInv /\ RegistryInv /\ Listening /\ StationInv /\ OrderInv
-----------------------------------------------------------------------------
(* The registry *)

(* What processes do is what module Registry says they do. *)
LEMMA ProcessesAreRegistered ==
  ASSUME ProcessNext
  PROVE  [RegistryNext]_registryVars
<1>1. ASSUME NEW p \in Proc, Announces(p) \/ SwitchedOff(p)
      PROVE  RegistryNext
  BY <1>1 DEF Announces, SwitchedOff, RegistryNext
<1>2. ASSUME NEW p \in Proc, BridgeTurn(p)
      PROVE  [RegistryNext]_registryVars
  BY <1>2 DEF BridgeTurn, RegistryNext
<1>3. ASSUME NEW p \in Proc, setup_socket(p) \/ OpenFile(p) \/ my_symlink(p) \/ EnterLoop(p)
      PROVE  RegistryNext
  BY <1>3 DEF RegistryNext
<1>4. QED
  BY <1>1, <1>2, <1>3 DEF ProcessNext, RegistryNext

(* A turn of bridge b, or its end, changes no other bridge. *)
LEMMA AliveAfterTurn ==
  ASSUME TypeOK, NEW b \in Lan, BridgeStep(b) \/ Off(b)
  PROVE  /\ alive[b] /\ alive' \in [Lan -> BOOLEAN]
         /\ \A c \in Lan : c # b => alive'[c] = alive[c]
<1>1. alive \in [Lan -> BOOLEAN]
  BY DEF TypeOK, BridgeTypeOK
<1>2. CASE AcceptClient(b) \/ RejectClient(b)
  BY <1>1, <1>2 DEF AcceptClient, RejectClient
<1>3. ASSUME NEW j \in DOMAIN clients[b],
             RelayFrame(b, j) \/ BrokenPipe(b, j) \/ remove_client(b, j)
      PROVE  /\ alive[b]
             /\ alive' = alive \/ alive' = [alive EXCEPT ![b] = FALSE]
  BY <1>3 DEF RelayFrame, BrokenPipe, remove_client, Serves, Exit
<1>4. CASE Off(b)
  BY <1>1, <1>4 DEF Off, Exit
<1>5. QED
  BY <1>1, <1>2, <1>3, <1>4 DEF BridgeStep

(* A bridge that ends is over, and no other step of a process changes who  *)
(* can be dialled but the flush of an address.                             *)
LEMMA ListeningStep ==
  ASSUME TypeOK, RegistryTypeOK, Listening, ProcessNext
  PROVE  Listening'
<1>0. /\ phase \in [Proc -> Phase] /\ alive \in [Proc -> BOOLEAN] /\ Lan = Proc
      /\ \A p \in Proc : alive[p] <=> phase[p] \in {"announced", "serving"}
  BY EndsAssumption DEF RegistryTypeOK, TypeOK, BridgeTypeOK, Listening
<1>1. ASSUME NEW p \in Proc, Announces(p)
      PROVE  Listening'
  BY <1>0, <1>1 DEF Announces, FlushAddress, Start, Listening
<1>2. ASSUME NEW p \in Proc, BridgeStep(p) \/ Off(p), phase[p] = "serving",
             IF alive'[p] THEN UNCHANGED registryVars ELSE Ends(p)
      PROVE  Listening'
  <2>1. alive' \in [Proc -> BOOLEAN] /\ \A c \in Proc : c # p => alive'[c] = alive[c]
    BY <1>0, <1>2, AliveAfterTurn
  <2>2. phase' = IF alive'[p] THEN phase ELSE [phase EXCEPT ![p] = "over"]
    BY <1>2 DEF registryVars, Ends
  <2>3. ASSUME NEW c \in Proc
        PROVE  alive'[c] <=> phase'[c] \in {"announced", "serving"}
    BY <1>0, <1>2, <2>1, <2>2
  <2>4. QED
    BY <2>3 DEF Listening
<1>3. ASSUME NEW p \in Proc, SwitchedOff(p)
      PROVE  Listening'
  <2>1. Off(p) /\ Ends(p) /\ phase[p] = "serving" /\ ~alive'[p]
    BY <1>0, <1>3 DEF SwitchedOff, Off, Exit, Ends
  <2>2. QED
    BY <1>2, <2>1
<1>4. ASSUME NEW p \in Proc, UNCHANGED vars,
             setup_socket(p) \/ OpenFile(p) \/ my_symlink(p) \/ EnterLoop(p)
      PROVE  Listening'
  BY <1>0, <1>4
     DEF vars, bridgeVars, setup_socket, OpenFile, my_symlink, EnterLoop, Listening
<1>5. CASE MakeClean /\ UNCHANGED vars
  BY <1>5 DEF MakeClean, vars, bridgeVars, Listening
<1>6. QED
  BY <1>1, <1>2, <1>3, <1>4, <1>5 DEF ProcessNext, BridgeTurn
-----------------------------------------------------------------------------
(* What a turn of a bridge does to the end of a program that holds it. *)

(* A connection that is gone, or was never asked for, stays as it is; the  *)
(* text "Rejected" is the last thing to come in.                           *)
BridgeKeeps(k) ==
  /\ sock'[k] \notin {"fin", "rst"}
  /\ sock[k] \in Gone \cup {"idle"} => sock'[k] = sock[k]
  /\ \/ down'[k] = down[k]
     \/ \E m \in Unrefused : down'[k] = Append(down[k], m)
     \/ sock'[k] = "eof" /\ \E m \in EtherPkt \cup Reply : down'[k] = Append(down[k], m)

(* No frame reads as a refusal. *)
LEMMA FramesUnrefused == EtherPkt \subseteq Unrefused
BY DEF EtherPkt, Unrefused, Reply

(* What the end of a bridge leaves of a connection its client has not      *)
(* closed.                                                                 *)
LEMMA ExitKeeps ==
  ASSUME TypeOK, NEW b \in Lan, Exit(b), NEW k \in Iface, sock[k] \notin {"fin", "rst"}
  PROVE  /\ sock'[k] \notin {"fin", "rst"}
         /\ sock[k] \in Gone \cup {"idle"} => sock'[k] = sock[k]
<1>1. sock'[k] = SockAfterExit(b)[k]
  BY DEF Exit
<1>2. sock[k] \in SockState
  BY DEF TypeOK, SocketsTypeOK
<1>3. sock[k] \notin {"syn", "open"} => sock'[k] = sock[k]
  BY <1>1, Zenon DEF SockAfterExit
<1>4. sock[k] \in {"syn", "open"} => sock'[k] \in {sock[k], "eof", "pipe"}
  BY <1>1, Zenon DEF SockAfterExit
<1>5. QED
  BY <1>2, <1>3, <1>4 DEF Gone

(* The same for any turn of a bridge. *)
LEMMA BridgeTurnKeeps ==
  ASSUME IInv, NEW b \in Lan, BridgeStep(b) \/ Off(b),
         NEW k \in Iface, sock[k] \notin {"fin", "rst"}
  PROVE  BridgeKeeps(k)
<1>0. /\ sock \in [Iface -> SockState] /\ down \in [Iface -> Seq(EtherPkt \cup Reply)]
      /\ TypeOK
  BY DEF IInv, TypeOK, SocketsTypeOK
<1>1. CASE AcceptClient(b)
  <2> DEFINE i == Head(backlog[b])
  <2>1. backlog[b] # <<>> /\ AnswerRequest(b, "Accepted")
    BY <1>1 DEF AcceptClient
  <2>2. i \in Iface /\ sock[i] \in {"syn", "fin"}
    BY <2>1, FirstRequest, WaitingRequest
  <2>3. [reply |-> "Accepted"] \in Unrefused
    BY DEF Unrefused, Reply
  <2>4. CASE k = i
    <3>1. sock'[k] = "open" /\ down'[k] = Append(down[k], [reply |-> "Accepted"])
      BY <1>0, <2>1, <2>2, <2>4 DEF AnswerRequest
    <3>2. QED
      BY <2>2, <2>3, <2>4, <3>1 DEF BridgeKeeps, Gone
  <2>5. CASE k # i
    BY <1>0, <2>1, <2>5 DEF AnswerRequest, BridgeKeeps
  <2>6. QED
    BY <2>4, <2>5
<1>2. CASE RejectClient(b)
  <2> DEFINE i == Head(backlog[b])
  <2>1. backlog[b] # <<>>
    BY <1>2 DEF RejectClient
  <2>2. i \in Iface /\ sock[i] \in {"syn", "fin"}
    BY <2>1, FirstRequest, WaitingRequest
  <2>3. [reply |-> "Rejected"] \in EtherPkt \cup Reply
    BY DEF Reply
  <2>4. CASE k = i
    <3>1. sock'[k] = "eof" /\ down'[k] = Append(down[k], [reply |-> "Rejected"])
      BY <1>0, <1>2, <2>2, <2>4 DEF RejectClient
    <3>2. QED
      BY <2>2, <2>3, <2>4, <3>1 DEF BridgeKeeps, Gone
  <2>5. CASE k # i
    BY <1>0, <1>2, <2>5 DEF RejectClient, BridgeKeeps
  <2>6. QED
    BY <2>4, <2>5
<1>3. ASSUME NEW j \in DOMAIN clients[b], RelayFrame(b, j) \/ BrokenPipe(b, j)
      PROVE  /\ Head(up[Client(b, j)]) \in Unrefused
             /\ \E I : down' = DownAfterWrite(I, Head(up[Client(b, j)]))
             /\ (\E I : sock' = SockAfterWrite(I)) \/ Exit(b)
  <2>1. up[Client(b, j)] # <<>>
    BY <1>3 DEF RelayFrame, BrokenPipe
  <2>2. Head(up[Client(b, j)]) \in EtherPkt
    BY <2>1, ServedClient
  <2>3. CASE RelayFrame(b, j)
    BY <2>2, <2>3, FramesUnrefused DEF RelayFrame
  <2>4. CASE BrokenPipe(b, j)
    BY <2>2, <2>4, FramesUnrefused DEF BrokenPipe
  <2>5. QED
    BY <1>3, <2>3, <2>4
<1>4. ASSUME NEW j \in DOMAIN clients[b], RelayFrame(b, j) \/ BrokenPipe(b, j)
      PROVE  BridgeKeeps(k)
  <2>1. PICK I : down' = DownAfterWrite(I, Head(up[Client(b, j)]))
    BY <1>3, <1>4
  <2>2. down'[k] = IF k \in I /\ sock[k] = "open"
                   THEN Append(down[k], Head(up[Client(b, j)])) ELSE down[k]
    BY <2>1 DEF DownAfterWrite
  <2>3. \/ down'[k] = down[k]
        \/ \E m \in Unrefused : down'[k] = Append(down[k], m)
    BY <1>3, <1>4, <2>2, Zenon
  <2>4. /\ sock'[k] \notin {"fin", "rst"}
        /\ sock[k] \in Gone \cup {"idle"} => sock'[k] = sock[k]
    <3>1. CASE Exit(b)
      BY <1>0, <3>1, ExitKeeps
    <3>2. ASSUME NEW J, sock' = SockAfterWrite(J)
          PROVE  sock'[k] = sock[k]
      BY <3>2 DEF SockAfterWrite
    <3>3. QED
      BY <1>3, <1>4, <3>1, <3>2
  <2>5. QED
    BY <2>3, <2>4 DEF BridgeKeeps
<1>5. ASSUME NEW j \in DOMAIN clients[b], remove_client(b, j)
      PROVE  BridgeKeeps(k)
  <2>1. /\ Client(b, j) \in Iface /\ sock[Client(b, j)] \in {"fin", "rst"}
        /\ sock' = [sock EXCEPT ![Client(b, j)] = "idle"] /\ UNCHANGED down
    BY <1>5, ServedClient DEF remove_client, Serves, Readable
  <2>2. QED
    BY <1>0, <2>1 DEF BridgeKeeps
<1>6. CASE Off(b)
  BY <1>0, <1>6, ExitKeeps DEF Off, BridgeKeeps
<1>7. QED
  BY <1>1, <1>2, <1>4, <1>5, <1>6 DEF BridgeStep
-----------------------------------------------------------------------------
(* What is known of the station between two steps *)

(* The interface file names cards of the station, each once, and a card    *)
(* whose address is known has an end at that bridge.                       *)
LEMMA OwnFacts ==
  /\ Own \subseteq Card /\ Stdin \notin Own
  /\ OwnEnds \subseteq Iface
  /\ IfaceFile \in Seq(Own) /\ Len(IfaceFile) \in Nat \ {0}
  /\ \A n \in 1 .. Len(IfaceFile) : IfaceFile[n] \in Own
  /\ \A k \in Own : \E n \in 1 .. Len(IfaceFile) : IfaceFile[n] = k
  /\ \A m, n \in 1 .. Len(IfaceFile) : IfaceFile[m] = IfaceFile[n] => m = n
<1>1. /\ IfaceFile \in Seq(Card) /\ IfaceFile # <<>> /\ IsInjective(IfaceFile)
      /\ Stdin \notin Card
  BY StartUpAssumption
<1>2. DOMAIN IfaceFile = 1 .. Len(IfaceFile) /\ Len(IfaceFile) \in Nat \ {0}
  BY <1>1, LenProperties, EmptySeq
<1>3. \A n \in 1 .. Len(IfaceFile) : IfaceFile[n] \in Own /\ IfaceFile[n] \in Card
  BY <1>1, <1>2, ElementOfSeq DEF Own, ToSet
<1>4. /\ Own \subseteq Card
      /\ \A k \in Own : \E n \in 1 .. Len(IfaceFile) : IfaceFile[n] = k
  BY <1>2, <1>3 DEF Own, ToSet
<1>5. IfaceFile \in Seq(Own)
  BY <1>1, <1>2, <1>3
<1>6. \A m, n \in 1 .. Len(IfaceFile) : IfaceFile[m] = IfaceFile[n] => m = n
  BY <1>1, <1>2 DEF IsInjective
<1>7. QED
  BY <1>1, <1>2, <1>3, <1>4, <1>5, <1>6 DEF OwnEnds

(* The end of a card whose address is known. *)
LEMMA ResolvedEnd ==
  ASSUME NEW k \in Resolved
  PROVE  /\ k \in Own /\ address[k] \in Proc /\ address[k] \in Lan
         /\ End(k) \in OwnEnds /\ End(k) \in Iface /\ lan_name[End(k)] = address[k]
<1>1. k \in Own /\ address[k] \in Proc /\ argv1[address[k]] = net[k]
  BY DEF Resolved
<1>2. <<k, address[k]>> \in Iface /\ lan_name[<<k, address[k]>>] = address[k]
      /\ address[k] \in Lan
  BY <1>1, EndsAssumption
<1>3. QED
  BY <1>1, <1>2 DEF End, OwnEnds

(* The interface at hand, and what is read from it. *)
LEMMA AtHand ==
  ASSUME SInv, Connecting
  PROVE  LET k == ifaces[pos]
             e == End(k)
         IN
         /\ pos \in 1 .. Len(ifaces) /\ Len(ifaces) \in Nat
         /\ k \in Resolved /\ k \in Own
         /\ e \in OwnEnds /\ e \in Iface /\ lan_name[e] = address[k] /\ address[k] \in Proc
         /\ down[e] # <<>> =>
              /\ Head(down[e]) \in EtherPkt \cup Reply
              /\ Tail(down[e]) \in Seq(EtherPkt \cup Reply)
              /\ down[e] \in Seq(Unrefused) =>
                   Head(down[e]) \in Unrefused /\ Tail(down[e]) \in Seq(Unrefused)
<1> DEFINE k == ifaces[pos]
           e == End(k)
<1>1. /\ ifaces \in Seq(Resolved) /\ pos <= Len(ifaces) /\ pos \in Nat \ {0}
      /\ Len(ifaces) \in Nat
  BY OwnFacts, LenProperties DEF SInv, StationInv, StationTypeOK
<1>2. k \in Resolved
  BY <1>1, ElementOfSeq
<1>3. /\ k \in Own /\ address[k] \in Proc
      /\ e \in OwnEnds /\ e \in Iface /\ lan_name[e] = address[k]
  BY <1>2, ResolvedEnd
<1> HIDE DEF e, k
<1>4. down[e] \in Seq(EtherPkt \cup Reply)
  BY <1>3 DEF SInv, IInv, TypeOK, SocketsTypeOK
<1>5. down[e] # <<>> => /\ Head(down[e]) \in EtherPkt \cup Reply
                        /\ Tail(down[e]) \in Seq(EtherPkt \cup Reply)
  BY <1>4, HeadTailProperties
<1>6. down[e] # <<>> /\ down[e] \in Seq(Unrefused) =>
        Head(down[e]) \in Unrefused /\ Tail(down[e]) \in Seq(Unrefused)
  BY HeadTailProperties
<1>7. QED
  BY <1>1, <1>2, <1>3, <1>5, <1>6 DEF e, k

(* Whatever else happens leaves the station its connections and its reason *)
(* to read.                                                                *)
LEMMA OthersKeepStation ==
  ASSUME SInv, UNCHANGED stationVars,
         pc # "exited" => \A e \in OwnEnds : BridgeKeeps(e)
  PROVE  StationInv' /\ OrderInv'
<1>0. UNCHANGED <<pc, ifaces, pos, try, address, read_set, typed, accepted>>
  BY DEF stationVars
<1>1. /\ StationTypeOK' /\ (ifaces \in Seq(Resolved))'
      /\ (pc \notin {"load", "exited"} => Own \subseteq Resolved)'
      /\ (Connecting => pos <= Len(ifaces))'
  BY <1>0 DEF SInv, StationInv, StationTypeOK, Resolved, Connecting
<1>2. ASSUME pc # "exited", NEW e \in OwnEnds
      PROVE  /\ sock'[e] \notin {"fin", "rst"}
             /\ sock'[e] \in Gone \/ down'[e] \in Seq(Unrefused)
  <2>1. BridgeKeeps(e) /\ (sock[e] \in Gone \/ down[e] \in Seq(Unrefused))
    BY <1>2 DEF SInv, StationInv
  <2>2. CASE sock[e] \in Gone
    BY <2>1, <2>2 DEF BridgeKeeps
  <2>3. CASE down[e] \in Seq(Unrefused) /\ down'[e] = down[e]
    BY <2>1, <2>3 DEF BridgeKeeps
  <2>4. ASSUME down[e] \in Seq(Unrefused), NEW m \in Unrefused,
               down'[e] = Append(down[e], m)
        PROVE  down'[e] \in Seq(Unrefused)
    BY <2>4, AppendProperties
  <2>5. CASE sock'[e] = "eof"
    BY <2>1, <2>5 DEF BridgeKeeps, Gone
  <2>6. QED
    BY <2>1, <2>2, <2>3, <2>4, <2>5 DEF BridgeKeeps
<1>3. ASSUME pc = "read", NEW x \in read_set, Ready(x)
      PROVE  Ready(x)'
  <2>1. CASE x = Stdin
    BY <1>0, <1>3, <2>1 DEF Ready
  <2>2. CASE x # Stdin
    <3> DEFINE e == End(x)
    <3>1. x \in Resolved
      BY <1>3, <2>2 DEF SInv, StationInv, StationTypeOK
    <3>2. e \in OwnEnds /\ e \in Iface /\ BridgeKeeps(e)
      BY <1>3, <3>1, ResolvedEnd
    <3>3. down[e] # <<>> \/ sock[e] \in Gone \cup {"idle"}
      BY <1>3, <2>2 DEF Ready, HasInput, Gone
    <3>4. down[e] # <<>> => down'[e] # <<>>
      <4>1. down[e] \in Seq(EtherPkt \cup Reply)
        BY <3>2 DEF SInv, IInv, TypeOK, SocketsTypeOK
      <4>2. \A m \in EtherPkt \cup Reply : Append(down[e], m) # <<>>
        BY <4>1, AppendProperties
      <4>3. QED
        BY <3>2, <4>2 DEF BridgeKeeps, Unrefused
    <3>5. down'[e] # <<>> \/ sock'[e] \in Gone \cup {"idle"}
      BY <3>2, <3>3, <3>4 DEF BridgeKeeps
    <3>6. End(x)' = e
      BY <1>0 DEF End
    <3>7. QED
      BY <2>2, <3>5, <3>6 DEF Ready, HasInput, Gone
  <2>3. QED
    BY <2>1, <2>2
<1>4. (pc = "read" => read_set # {} /\ \A x \in read_set : Ready(x))'
  BY <1>0, <1>3 DEF SInv, StationInv
<1>5. StationInv'
  BY <1>0, <1>1, <1>2, <1>4 DEF StationInv
<1>6. OrderInv'
  BY <1>0 DEF SInv, OrderInv, Connecting, BehindErased
<1>7. QED
  BY <1>5, <1>6
-----------------------------------------------------------------------------
(* The order of ifaces_ *)

(* The interface at hand has been accepted. *)
LEMMA AcceptedOrder ==
  ASSUME SInv, Connecting, NextIface(ifaces), accepted' = accepted \cup {ifaces[pos]}
  PROVE  OrderInv'
<1>0. /\ Len(ifaces) \in Nat /\ Len(IfaceFile) \in Nat /\ pos \in 1 .. Len(ifaces)
      /\ ifaces' = ifaces /\ pos' = pos + 1 /\ pc' \in {"main", "connect"}
      /\ pc' = "main" => pos + 1 > Len(ifaces)
  BY AtHand, OwnFacts DEF NextIface
<1>2. /\ \A n \in 1 .. Len(ifaces) :
           n < pos => ifaces[n] \in accepted \/ BehindErased(ifaces[n], ToSet(ifaces))
      /\ \A n \in pos .. Len(ifaces) :
           ifaces[n] = IfaceFile[n + (Len(IfaceFile) - Len(ifaces))]
      /\ Len(ifaces) <= Len(IfaceFile)
      /\ \A m, n \in 1 .. Len(ifaces) : ifaces[m] = ifaces[n] => m = n
  BY DEF SInv, OrderInv
<1>3. ASSUME NEW n \in 1 .. Len(ifaces), n < pos' \/ pc' = "main"
      PROVE  ifaces[n] \in accepted' \/ BehindErased(ifaces[n], ToSet(ifaces))
  <2>1. n <= pos
    BY <1>0, <1>3
  <2>2. CASE n = pos
    BY <2>2
  <2>3. CASE n < pos
    BY <1>2, <2>3
  <2>4. QED
    BY <1>0, <2>1, <2>2, <2>3
<1>4. \A n \in 1 .. Len(ifaces') :
        n < pos' \/ pc' = "main" =>
          ifaces'[n] \in accepted' \/ BehindErased(ifaces'[n], ToSet(ifaces'))
  BY <1>0, <1>3, Zenon
<1>5. QED
  BY <1>0, <1>2, <1>4 DEF OrderInv, Connecting

(* The interface at hand has been given up: the one behind it in the file  *)
(* takes its position, and the loop goes on after that.                    *)
LEMMA ErasedOrder ==
  ASSUME SInv, Connecting, NextIface(IfaceErased), UNCHANGED accepted
  PROVE  OrderInv'
<1> DEFINE L == Len(ifaces)
           D == Len(IfaceFile) - L
<1>0. /\ L \in Nat \ {0} /\ Len(IfaceFile) \in Nat /\ pos \in 1 .. L
      /\ ifaces \in Seq(Own)
      /\ ifaces' = RemoveAt(ifaces, pos) /\ pos' = pos + 1 /\ pc' \in {"main", "connect"}
      /\ pc' = "main" => pos + 1 > Len(ifaces')
  BY AtHand, OwnFacts DEF NextIface, IfaceErased, SInv, StationInv, StationTypeOK
<1>1. /\ Len(ifaces') = L - 1
      /\ \A n \in 1 .. L - 1 : ifaces'[n] = IF n < pos THEN ifaces[n] ELSE ifaces[n + 1]
      /\ ifaces' \in Seq(Own)
  BY <1>0, RemoveAtProperties
<1>2. /\ \A n \in 1 .. L :
           n < pos => ifaces[n] \in accepted \/ BehindErased(ifaces[n], ToSet(ifaces))
      /\ \A n \in pos .. L : ifaces[n] = IfaceFile[n + D]
      /\ L <= Len(IfaceFile)
      /\ \A m, n \in 1 .. L : ifaces[m] = ifaces[n] => m = n
  BY DEF SInv, OrderInv
<1> HIDE DEF L, D
<1>3. /\ ToSet(ifaces) = {ifaces[n] : n \in 1 .. L}
      /\ ToSet(ifaces') = {ifaces'[n] : n \in 1 .. L - 1}
  BY <1>0, <1>1, LenProperties DEF ToSet, L
<1>4. /\ ToSet(ifaces') \subseteq ToSet(ifaces)
      /\ ifaces[pos] \notin ToSet(ifaces')
  <2>1. ASSUME NEW n \in 1 .. L - 1
        PROVE  \E m \in 1 .. L : m # pos /\ ifaces'[n] = ifaces[m]
    <3>1. n \in 1 .. L /\ n + 1 \in 1 .. L
      BY <1>0
    <3>2. QED
      BY <1>0, <1>1, <3>1
  <2>2. \A m \in 1 .. L : ifaces[m] = ifaces[pos] => m = pos
    BY <1>0, <1>2
  <2>3. QED
    BY <1>3, <2>1, <2>2
<1>5. \A k : BehindErased(k, ToSet(ifaces)) => BehindErased(k, ToSet(ifaces'))
  BY <1>4 DEF BehindErased
<1>6. ASSUME pos \in 1 .. L - 1
      PROVE  BehindErased(ifaces'[pos], ToSet(ifaces'))
  <2>1. pos \in pos .. L /\ pos + 1 \in pos .. L
    BY <1>0, <1>6
  <2>2. ifaces[pos] = IfaceFile[pos + D] /\ ifaces[pos + 1] = IfaceFile[pos + 1 + D]
    BY <1>2, <2>1
  <2>3. ifaces'[pos] = ifaces[pos + 1]
    BY <1>0, <1>1, <1>6
  <2>4. D \in Nat /\ L + D = Len(IfaceFile)
    BY <1>0, <1>2 DEF D, L
  <2>5. pos + 1 + D \in 2 .. Len(IfaceFile) /\ (pos + 1 + D) - 1 = pos + D
    BY <1>0, <1>6, <2>4
  <2>6. QED
    BY <1>4, <2>2, <2>3, <2>5 DEF BehindErased
<1>7. ASSUME NEW n \in 1 .. L - 1, n <= pos
      PROVE  ifaces'[n] \in accepted' \/ BehindErased(ifaces'[n], ToSet(ifaces'))
  <2>1. CASE n = pos
    BY <1>6, <2>1
  <2>2. CASE n < pos
    <3>1. ifaces'[n] = ifaces[n] /\ n \in 1 .. L
      BY <1>0, <1>1, <2>2
    <3>2. ifaces[n] \in accepted \/ BehindErased(ifaces[n], ToSet(ifaces))
      BY <1>2, <2>2, <3>1
    <3>3. CASE ifaces[n] \in accepted
      BY <3>1, <3>3
    <3>4. CASE BehindErased(ifaces[n], ToSet(ifaces))
      BY <1>5, <3>1, <3>4
    <3>5. QED
      BY <3>2, <3>3, <3>4
  <2>3. QED
    BY <1>0, <1>7, <2>1, <2>2
<1>8. \A n \in 1 .. Len(ifaces') :
        n < pos' \/ pc' = "main" =>
          ifaces'[n] \in accepted' \/ BehindErased(ifaces'[n], ToSet(ifaces'))
  <2> SUFFICES ASSUME NEW n \in 1 .. Len(ifaces'), n < pos' \/ pc' = "main"
               PROVE  ifaces'[n] \in accepted' \/ BehindErased(ifaces'[n], ToSet(ifaces'))
    OBVIOUS
  <2>1. n \in 1 .. L - 1 /\ n <= pos
    BY <1>0, <1>1
  <2>2. QED
    BY <1>7, <2>1, Zenon
<1>9. \A m, n \in 1 .. Len(ifaces') : ifaces'[m] = ifaces'[n] => m = n
  BY <1>0, <1>1, <1>2
<1>10. \A n \in pos' .. Len(ifaces') :
         ifaces'[n] = IfaceFile[n + (Len(IfaceFile) - Len(ifaces'))]
  <2> SUFFICES ASSUME NEW n \in pos' .. Len(ifaces')
               PROVE  ifaces'[n] = IfaceFile[n + (Len(IfaceFile) - Len(ifaces'))]
    OBVIOUS
  <2>1. /\ n \in 1 .. L - 1 /\ ~(n < pos) /\ n + 1 \in pos .. L
        /\ n + (Len(IfaceFile) - Len(ifaces')) = (n + 1) + D
    BY <1>0, <1>1, <1>2 DEF D
  <2>2. ifaces'[n] = ifaces[n + 1]
    BY <1>1, <2>1
  <2>3. ifaces[n + 1] = IfaceFile[(n + 1) + D]
    BY <1>2, <2>1
  <2>4. QED
    BY <2>1, <2>2, <2>3
<1>11. Len(ifaces') <= Len(IfaceFile) /\ pc' # "load"
  BY <1>0, <1>1, <1>2
<1>12. QED
  BY <1>8, <1>9, <1>10, <1>11 DEF OrderInv
-----------------------------------------------------------------------------
(* The steps of the station *)

(* What a step must show. *)
StepGood ==
  /\ [Next]_vars /\ UNCHANGED bridgeVars
  /\ StationInv' /\ OrderInv'

(* A sequence over a set is one over any larger set. *)
LEMMA SeqOfMore ==
  ASSUME NEW S, NEW T, S \subseteq T, NEW q \in Seq(S)
  PROVE  q \in Seq(T)
OBVIOUS

(* Looking up the bridges. *)
LEMMA LoadSteps ==
  ASSUME SInv, LookupFails \/ get_iface_socket
  PROVE  StepGood
<1>0. /\ StationTypeOK /\ ifaces \in Seq(Resolved) /\ ifaces \in Seq(Own)
      /\ \A e \in OwnEnds : pc # "exited" =>
           sock[e] \notin {"fin", "rst"} /\ (sock[e] \in Gone \/ down[e] \in Seq(Unrefused))
      /\ UNCHANGED vars /\ UNCHANGED bridgeVars
  BY DEF SInv, StationInv, StationTypeOK, LookupFails, get_iface_socket, vars
<1>1. CASE LookupFails
  <2>1. /\ pc' = "exited"
        /\ UNCHANGED <<sock, down, ifaces, pos, try, address, read_set, typed, accepted>>
    BY <1>0, <1>1 DEF LookupFails, vars, sockVars
  <2>2. StationInv'
    BY <1>0, <2>1 DEF StationInv, StationTypeOK, Pc, Resolved, Connecting
  <2>3. OrderInv'
    BY <2>1 DEF SInv, OrderInv, Connecting
  <2>4. QED
    BY <1>0, <2>2, <2>3 DEF StepGood
<1>2. CASE get_iface_socket
  <2> DEFINE k == IfaceFile[pos]
             b == net[k]
  <2>1. /\ pc = "load" /\ file[b] # Blank
        /\ address' = [address EXCEPT ![k] = file[b]]
        /\ ifaces' = Append(ifaces, k)
        /\ \/ pos = Len(IfaceFile) /\ pc' = "connect" /\ pos' = 1
           \/ pos # Len(IfaceFile) /\ pc' = "load" /\ pos' = pos + 1
        /\ UNCHANGED <<sock, down, try, read_set, typed, accepted>>
    BY <1>0, <1>2 DEF get_iface_socket, vars, sockVars
  <2>2. /\ pos \in 1 .. Len(IfaceFile) /\ Len(ifaces) = pos - 1
        /\ Len(IfaceFile) \in Nat \ {0}
        /\ \A n \in 1 .. Len(ifaces) : ifaces[n] = IfaceFile[n]
        /\ \A m, n \in 1 .. Len(IfaceFile) : IfaceFile[m] = IfaceFile[n] => m = n
        /\ k \in Own /\ b \in Name
    <3>1. Len(IfaceFile) \in Nat \ {0}
      BY OwnFacts
    <3>2. /\ pos \in 1 .. Len(IfaceFile) /\ Len(ifaces) = pos - 1
          /\ \A n \in 1 .. Len(ifaces) : ifaces[n] = IfaceFile[n]
      BY <1>0, <2>1, <3>1 DEF SInv, OrderInv, StationTypeOK
    <3>3. k \in Own /\ k \in Card
      BY <3>2, OwnFacts, Zenon
    <3>4. b \in Name
      BY <3>3, StartUpAssumption
    <3>5. QED
      BY <3>1, <3>2, <3>3, <3>4, OwnFacts, Zenon
  <2>3. file[b] \in Proc /\ argv1[file[b]] = b
    BY <2>1, <2>2, RegistryFacts DEF SInv, RegistryInv, FoundIsBridge
  <2>4. /\ address' \in [Own -> Proc \cup {Blank}]
        /\ Resolved \subseteq Resolved' /\ k \in Resolved'
    BY <1>0, <2>1, <2>2, <2>3 DEF Resolved, StationTypeOK
  <2>5. ifaces \in Seq(Resolved')
    BY <1>0, <2>4, SeqOfMore
  <2>6. /\ ifaces' \in Seq(Resolved') /\ ifaces' \in Seq(Own)
        /\ Len(ifaces') = pos
        /\ \A n \in 1 .. pos : ifaces'[n] = IfaceFile[n]
    <3>1. k \in Resolved' /\ k \in Own /\ ifaces' = Append(ifaces, k)
      BY <2>1, <2>2, <2>4
    <3>2. ifaces' \in Seq(Resolved') /\ ifaces' \in Seq(Own)
      BY <1>0, <2>5, <3>1, AppendProperties
    <3>3. /\ Len(ifaces') = Len(ifaces) + 1 /\ ifaces'[Len(ifaces) + 1] = k
          /\ \A n \in 1 .. Len(ifaces) : ifaces'[n] = ifaces[n]
      BY <1>0, <3>1, AppendProperties
    <3>4. QED
      BY <2>2, <3>2, <3>3
  <2>7. StationTypeOK'
    <3>1. pos' \in 1 .. Len(IfaceFile) + 1 /\ pc' \in Pc
      BY <2>1, <2>2 DEF Pc
    <3>2. QED
      BY <1>0, <2>1, <2>4, <2>6, <3>1 DEF StationTypeOK
  <2>8. pos = Len(IfaceFile) => Own \subseteq Resolved'
    <3> SUFFICES ASSUME pos = Len(IfaceFile), NEW c \in Own
                 PROVE  c \in Resolved'
      BY Zenon
    <3>1. PICK n \in 1 .. Len(IfaceFile) : IfaceFile[n] = c
      BY OwnFacts
    <3>2. n \in 1 .. Len(ifaces') /\ ifaces'[n] = c
      BY <2>6, <3>1
    <3>3. QED
      BY <2>6, <3>2, ElementOfSeq
  <2>9. StationInv'
    BY <1>0, <2>1, <2>2, <2>6, <2>7, <2>8 DEF StationInv, Connecting
  <2>10. OrderInv'
    <3>1. /\ Len(ifaces') <= Len(IfaceFile)
          /\ \A n \in 1 .. Len(ifaces') : ifaces'[n] = IfaceFile[n]
          /\ \A m, n \in 1 .. Len(ifaces') : ifaces'[m] = ifaces'[n] => m = n
      BY <2>2, <2>6
    <3>2. CASE pos = Len(IfaceFile) /\ pc' = "connect" /\ pos' = 1
      <4>1. \A n \in pos' .. Len(ifaces') :
              ifaces'[n] = IfaceFile[n + (Len(IfaceFile) - Len(ifaces'))]
        BY <2>2, <2>6, <3>1, <3>2
      <4>2. \A n \in 1 .. Len(ifaces') : ~(n < pos')
        BY <2>2, <2>6, <3>2
      <4>3. QED
        BY <3>1, <3>2, <4>1, <4>2, Zenon DEF OrderInv, Connecting
    <3>3. CASE pos # Len(IfaceFile) /\ pc' = "load" /\ pos' = pos + 1
      <4>1. pos' <= Len(IfaceFile) /\ Len(ifaces') = pos' - 1
        BY <2>2, <2>6, <3>3
      <4>2. QED
        BY <3>1, <3>3, <4>1 DEF OrderInv, Connecting
    <3>4. QED
      BY <2>1, <3>2, <3>3
  <2>11. QED
    BY <1>0, <2>9, <2>10 DEF StepGood
<1>3. QED
  BY <1>1, <1>2

(* One connect(), whatever comes of it. *)
LEMMA ConnectStep ==
  ASSUME SInv, Connect
  PROVE  StepGood
<1> DEFINE k == ifaces[pos]
           e == End(k)
<1>0. /\ Connecting /\ pc = "connect" /\ pc' = "select"
      /\ UNCHANGED <<ifaces, pos, try, address, typed, accepted>>
      /\ read_set' \subseteq read_set \cup {k}
      /\ \/ Dials(k) /\ Dial(e)
         \/ UNCHANGED vars
  BY DEF Connect, Connecting
<1>1. /\ k \in Own /\ e \in OwnEnds /\ e \in Iface
      /\ lan_name[e] = address[k] /\ address[k] \in Proc
      /\ sock \in [Iface -> SockState]
  BY <1>0, AtHand DEF SInv, IInv, TypeOK, SocketsTypeOK
<1>2. Dials(k) => sock[e] = "idle" /\ alive[lan_name[e]]
  BY <1>1 DEF Dials
<1> HIDE DEF e, k
<1>3. Dials(k) /\ Dial(e) => ClientConnect(e)
  BY <1>2 DEF Dial, ClientConnect
<1>4. [Next]_vars /\ UNCHANGED bridgeVars
  <2>1. CASE Dials(k) /\ Dial(e)
    <3>1. ClientConnect(e)
      BY <1>3, <2>1
    <3>2. Next
      BY <1>1, <3>1, Zenon DEF Next
    <3>3. UNCHANGED bridgeVars
      BY <2>1 DEF Dial
    <3>4. QED
      BY <3>2, <3>3
  <2>2. CASE UNCHANGED vars
    BY <2>2 DEF vars
  <2>3. QED
    BY <1>0, <2>1, <2>2
<1>5. ASSUME NEW x \in OwnEnds
      PROVE  /\ sock'[x] \notin {"fin", "rst"}
             /\ sock'[x] \in Gone \/ down'[x] \in Seq(Unrefused)
  <2>1. /\ sock[x] \notin {"fin", "rst"}
        /\ sock[x] \in Gone \/ down[x] \in Seq(Unrefused)
    BY <1>0 DEF SInv, StationInv
  <2>2. /\ x \in Iface /\ down' = down
        /\ sock'[x] = sock[x] \/ (sock[x] = "idle" /\ sock'[x] = "syn")
    BY <1>0, <1>1, <1>2, OwnFacts DEF Dial, vars, sockVars
  <2>3. QED
    BY <2>1, <2>2 DEF Gone
<1>6. StationTypeOK'
  BY <1>0, <1>1 DEF SInv, StationInv, StationTypeOK, Pc
<1>7. StationInv'
  BY <1>0, <1>5, <1>6 DEF SInv, StationInv, Resolved, Connecting
<1>8. OrderInv'
  BY <1>0 DEF SInv, OrderInv, Connecting
<1>9. QED
  BY <1>4, <1>7, <1>8 DEF StepGood

(* One select() of the loop that waits for answers. *)
LEMMA SelectStep ==
  ASSUME SInv, Select
  PROVE  StepGood
<1>1. /\ pc = "select" /\ pc' = "read" /\ UNCHANGED vars
      /\ \E x \in read_set : Ready(x)
      /\ read_set' = {x \in read_set : Ready(x)}
      /\ UNCHANGED <<ifaces, pos, try, address, typed, accepted>>
  BY DEF Select
<1>2. UNCHANGED <<sock, down, bridgeVars>>
  BY <1>1 DEF vars, sockVars
<1>3. StationTypeOK'
  BY <1>1 DEF SInv, StationInv, StationTypeOK, Pc
<1>4. (read_set # {} /\ \A x \in read_set : Ready(x))'
  BY <1>1, <1>2 DEF Ready, HasInput, End
<1>5. StationInv'
  BY <1>1, <1>2, <1>3, <1>4 DEF SInv, StationInv, Resolved, Connecting
<1>6. OrderInv'
  BY <1>1 DEF SInv, OrderInv, Connecting
<1>7. QED
  BY <1>1, <1>2, <1>5, <1>6 DEF StepGood

(* What a read leaves of the position and the list, whether the interface  *)
(* at hand was accepted, is tried again, or is erased.                     *)
LEMMA ReadOutcome ==
  ASSUME SInv, pc = "read", UNCHANGED <<address, read_set, typed>>,
         \/ NextIface(ifaces) /\ accepted' = accepted \cup {ifaces[pos]}
         \/ TryAgain /\ UNCHANGED accepted
  PROVE  /\ StationTypeOK' /\ (ifaces \in Seq(Resolved))'
         /\ (Connecting => pos <= Len(ifaces))'
         /\ pc' \in {"connect", "main"}
         /\ OrderInv'
<1>0. /\ Connecting /\ StationTypeOK /\ ifaces \in Seq(Resolved) /\ ifaces \in Seq(Own)
      /\ pos \in 1 .. Len(ifaces) /\ Len(ifaces) \in Nat
      /\ Len(ifaces) <= Len(IfaceFile) /\ Len(IfaceFile) \in Nat
      /\ ifaces[pos] \in Own /\ Tries \in Nat \ {0}
      /\ Resolved' = Resolved
  <2>1. Connecting /\ Len(IfaceFile) \in Nat
    BY OwnFacts DEF Connecting
  <2>2. /\ pos \in 1 .. Len(ifaces) /\ Len(ifaces) \in Nat /\ ifaces[pos] \in Own
    BY <2>1, AtHand
  <2>3. /\ StationTypeOK /\ ifaces \in Seq(Resolved) /\ ifaces \in Seq(Own)
        /\ Len(ifaces) <= Len(IfaceFile)
    BY DEF SInv, StationInv, OrderInv, StationTypeOK
  <2>4. QED
    BY <2>1, <2>2, <2>3, StartUpAssumption DEF Resolved
<1>1. ASSUME NEW rest, rest = ifaces \/ rest = IfaceErased, NextIface(rest)
      PROVE  /\ ifaces' \in Seq(Resolved) /\ ifaces' \in Seq(Own)
             /\ (Connecting => pos <= Len(ifaces))'
             /\ pc' \in {"connect", "main"}
             /\ try' = 0 /\ pos' \in 1 .. Len(IfaceFile) + 1
  <2>1. rest \in Seq(Resolved) /\ rest \in Seq(Own) /\ Len(rest) \in Nat
    BY <1>0, <1>1, RemoveAtProperties, LenProperties DEF IfaceErased
  <2>2. QED
    BY <1>0, <1>1, <2>1 DEF NextIface, Connecting
<1>2. CASE NextIface(ifaces) /\ accepted' = accepted \cup {ifaces[pos]}
  <2>1. OrderInv'
    BY <1>0, <1>2, AcceptedOrder
  <2>2. StationTypeOK'
    BY <1>0, <1>1, <1>2 DEF StationTypeOK, Pc
  <2>3. QED
    BY <1>0, <1>1, <1>2, <2>1, <2>2
<1>3. CASE NextIface(IfaceErased) /\ UNCHANGED accepted
  <2>1. OrderInv'
    BY <1>0, <1>3, ErasedOrder
  <2>2. StationTypeOK'
    BY <1>0, <1>1, <1>3 DEF StationTypeOK, Pc
  <2>3. QED
    BY <1>0, <1>1, <1>3, <2>1, <2>2
<1>4. CASE /\ try + 1 < Tries /\ try' = try + 1 /\ pc' = "connect"
           /\ UNCHANGED <<ifaces, pos, accepted>>
  <2>1. OrderInv'
    BY <1>0, <1>4 DEF SInv, OrderInv, Connecting
  <2>2. StationTypeOK'
    BY <1>0, <1>4 DEF StationTypeOK, Pc
  <2>3. QED
    BY <1>0, <1>4, <2>1, <2>2 DEF Connecting
<1>5. QED
  BY <1>2, <1>3, <1>4 DEF TryAgain

(* There is a frame at all, as SimpleTurns wants one. *)
LEMMA SomeFrame ==
  ASSUME NEW k \in Iface
  PROVE  ArpFrame(mac_addr[k], NoMac, create_req_pkt(k, ip_addr[k])) \in EtherPkt
<1>1. /\ mac_addr[k] \in Mac /\ ip_addr[k] \in Ip /\ NoMac \in AnyMac
  BY PacketsAssumption DEF AnyMac
<1>2. create_req_pkt(k, ip_addr[k]) \in ArpPkt
  BY <1>1 DEF create_req_pkt, ArpPkt, ARP_REQUEST
<1>3. QED
  BY <1>1, <1>2 DEF ArpFrame, EtherPkt

(* One answer, or what is read in its place. *)
LEMMA ReadStep ==
  ASSUME SInv, ReadAccepted \/ ReadOther
  PROVE  StepGood
<1> DEFINE k == ifaces[pos]
           e == End(k)
<1>0. /\ pc = "read" /\ Connecting /\ UNCHANGED <<address, read_set, typed>>
      /\ UNCHANGED <<up, backlog, bridgeVars>>
      /\ \/ NextIface(ifaces) /\ accepted' = accepted \cup {k}
         \/ TryAgain /\ UNCHANGED accepted
  BY DEF ReadAccepted, ReadOther, Connecting
<1>1. /\ e \in Iface /\ TypeOK
      /\ sock \in [Iface -> SockState] /\ up \in [Iface -> Seq(EtherPkt)]
      /\ down \in [Iface -> Seq(EtherPkt \cup Reply)]
      /\ down[e] # <<>> /\ down[e] \in Seq(Unrefused) => Tail(down[e]) \in Seq(Unrefused)
  BY <1>0, AtHand DEF SInv, IInv, TypeOK, SocketsTypeOK
<1>2. \/ down[e] # <<>> /\ down' = [down EXCEPT ![e] = Tail(@)] /\ UNCHANGED sock
      \/ /\ UNCHANGED down
         /\ sock' = [sock EXCEPT ![e] = IF @ = "pipe" THEN "dead" ELSE @]
  BY DEF ReadAccepted, ReadOther
<1>3. /\ StationTypeOK' /\ (ifaces \in Seq(Resolved))'
      /\ (Connecting => pos <= Len(ifaces))'
      /\ pc' \in {"connect", "main"} /\ OrderInv'
  BY <1>0, ReadOutcome
<1>4. (Own \subseteq Resolved)'
  BY <1>0 DEF SInv, StationInv, Resolved
<1> HIDE DEF e, k
<1>5. ClientTurn
  <2>1. CASE down[e] # <<>> /\ down' = [down EXCEPT ![e] = Tail(@)] /\ UNCHANGED sock
    <3>1. ClientRead(e)
      BY <1>0, <2>1 DEF ClientRead
    <3>2. QED
      BY <1>1, <3>1, SomeFrame, SimpleTurns
  <2>2. CASE /\ UNCHANGED down
             /\ sock' = [sock EXCEPT ![e] = IF @ = "pipe" THEN "dead" ELSE @]
    BY <1>0, <1>1, <2>2 DEF ClientTurn, Uses
  <2>3. QED
    BY <1>2, <2>1, <2>2
<1>6. ASSUME NEW x \in OwnEnds
      PROVE  /\ sock'[x] \notin {"fin", "rst"}
             /\ sock'[x] \in Gone \/ down'[x] \in Seq(Unrefused)
  <2>1. /\ sock[x] \notin {"fin", "rst"}
        /\ sock[x] \in Gone \/ down[x] \in Seq(Unrefused)
        /\ x \in Iface
    BY <1>0, OwnFacts DEF SInv, StationInv
  <2>2. CASE down[e] # <<>> /\ down' = [down EXCEPT ![e] = Tail(@)] /\ UNCHANGED sock
    BY <1>1, <2>1, <2>2
  <2>3. CASE /\ UNCHANGED down
             /\ sock' = [sock EXCEPT ![e] = IF @ = "pipe" THEN "dead" ELSE @]
    <3>1. sock'[x] = sock[x] \/ (sock[x] = "pipe" /\ sock'[x] = "dead")
      BY <1>1, <2>1, <2>3
    <3>2. QED
      BY <2>1, <2>3, <3>1 DEF Gone
  <2>4. QED
    BY <1>2, <2>2, <2>3
<1>7. StationInv'
  BY <1>3, <1>4, <1>6 DEF StationInv
<1>8. QED
  BY <1>0, <1>3, <1>5, <1>7 DEF StepGood, Next

(* The end of the station. *)
LEMMA LeaveStep ==
  ASSUME SInv, Leave
  PROVE  StepGood
<1>0. /\ pc = "main" /\ pc' = "exited"
      /\ sock' = [e \in Iface |-> IF e \in OwnEnds THEN SockAfterClose(e, down[e]) ELSE sock[e]]
      /\ down' = [e \in Iface |-> IF e \in OwnEnds THEN <<>> ELSE down[e]]
      /\ UNCHANGED <<up, backlog, bridgeVars>>
      /\ UNCHANGED <<ifaces, pos, try, address, read_set, typed, accepted>>
      /\ sock \in [Iface -> SockState] /\ up \in [Iface -> Seq(EtherPkt)]
  BY DEF Leave, SInv, IInv, TypeOK, SocketsTypeOK
<1>1. ASSUME NEW e \in Iface
      PROVE  Uses(e) \/ Closes(e)
  <2>1. CASE e \in OwnEnds
    <3>1. sock[e] \notin {"fin", "rst"}
      BY <1>0, <2>1 DEF SInv, StationInv
    <3>2. QED
      BY <1>0, <2>1, <3>1 DEF Closes
  <2>2. CASE e \notin OwnEnds
    BY <1>0, <2>2 DEF Uses
  <2>3. QED
    BY <2>1, <2>2
<1>2. ClientTurn
  BY <1>0, <1>1 DEF ClientTurn
<1>3. StationInv'
  BY <1>0 DEF SInv, StationInv, StationTypeOK, Pc, Resolved, Connecting
<1>4. OrderInv'
  BY <1>0 DEF SInv, OrderInv, Connecting
<1>5. QED
  BY <1>0, <1>2, <1>3, <1>4 DEF StepGood, Next

(* What the user types changes no connection. *)
LEMMA UserStep ==
  ASSUME SInv, UserTypes
  PROVE  StepGood
<1>1. /\ typed' = TRUE /\ UNCHANGED vars
      /\ UNCHANGED <<pc, ifaces, pos, try, address, read_set, accepted>>
  BY DEF UserTypes
<1>2. UNCHANGED <<sock, down, bridgeVars>>
  BY <1>1 DEF vars, sockVars
<1>3. ASSUME NEW x, Ready(x)
      PROVE  Ready(x)'
  BY <1>1, <1>2, <1>3 DEF Ready, HasInput, End
<1>4. StationInv'
  BY <1>1, <1>2, <1>3 DEF SInv, StationInv, StationTypeOK, Resolved, Connecting
<1>5. OrderInv'
  BY <1>1 DEF SInv, OrderInv, Connecting
<1>6. QED
  BY <1>1, <1>2, <1>4, <1>5 DEF StepGood

(* What other clients of the bridges do. *)
LEMMA OtherProgramsStep ==
  ASSUME SInv, NEW e \in Iface \ OwnEnds, OtherStep(e), UNCHANGED stationVars
  PROVE  StepGood
<1>0. /\ sock \in [Iface -> SockState] /\ down \in [Iface -> Seq(EtherPkt \cup Reply)]
      /\ TypeOK
  BY DEF SInv, IInv, TypeOK, SocketsTypeOK
<1>1. [Next]_vars /\ UNCHANGED bridgeVars
  <2>1. CASE ClientConnect(e)
    BY <2>1 DEF Next, ClientConnect
  <2>2. ASSUME NEW f \in EtherPkt, ClientSend(e, f) \/ ClientRead(e)
        PROVE  Next /\ UNCHANGED bridgeVars
    <3>1. ClientTurn
      BY <1>0, <2>2, SimpleTurns
    <3>2. QED
      BY <3>1 DEF Next, ClientTurn
  <2>3. QED
    BY <2>1, <2>2, SomeFrame DEF OtherStep
<1>2. ASSUME NEW x \in OwnEnds
      PROVE  sock'[x] = sock[x] /\ down'[x] = down[x]
  <2>1. x \in Iface /\ x # e
    BY OwnFacts
  <2>2. QED
    BY <1>0, <2>1 DEF OtherStep, ClientConnect, ClientSend, ClientRead
<1>3. ASSUME pc # "exited", NEW x \in OwnEnds
      PROVE  BridgeKeeps(x)
  BY <1>2, <1>3 DEF BridgeKeeps, SInv, StationInv
<1>4. StationInv' /\ OrderInv'
  BY <1>3, OthersKeepStation
<1>5. QED
  BY <1>1, <1>4 DEF StepGood

(* What bridge processes do, from their start to their end. *)
LEMMA BridgesStep ==
  ASSUME SInv, ProcessNext, UNCHANGED stationVars
  PROVE  [Next]_vars /\ StationInv' /\ OrderInv'
<1>1. ASSUME UNCHANGED <<sock, down>>, pc # "exited", NEW x \in OwnEnds
      PROVE  BridgeKeeps(x)
  BY <1>1 DEF BridgeKeeps, SInv, StationInv
<1>2. CASE UNCHANGED vars
  <2>1. UNCHANGED <<sock, down>>
    BY <1>2 DEF vars, sockVars
  <2>2. QED
    BY <1>1, <1>2, <2>1, OthersKeepStation
<1>3. ASSUME NEW p \in Lan, Start(p)
      PROVE  [Next]_vars /\ StationInv' /\ OrderInv'
  <2>1. UNCHANGED <<sock, down>>
    BY <1>3 DEF Start, sockVars
  <2>2. Next
    BY <1>3 DEF Next, BridgeNext
  <2>3. QED
    BY <1>1, <2>1, <2>2, OthersKeepStation
<1>4. ASSUME NEW p \in Lan, BridgeStep(p) \/ Off(p)
      PROVE  [Next]_vars /\ StationInv' /\ OrderInv'
  <2>1. Next
    BY <1>4 DEF Next, BridgeNext
  <2>2. ASSUME pc # "exited", NEW x \in OwnEnds
        PROVE  BridgeKeeps(x)
    <3>1. x \in Iface /\ sock[x] \notin {"fin", "rst"} /\ IInv
      BY <2>2, OwnFacts DEF SInv, StationInv
    <3>2. QED
      BY <1>4, <3>1, BridgeTurnKeeps
  <2>3. QED
    BY <2>1, <2>2, OthersKeepStation
<1>5. QED
  BY <1>2, <1>3, <1>4, EndsAssumption DEF ProcessNext, Announces, BridgeTurn, SwitchedOff
-----------------------------------------------------------------------------
(* The invariant *)

(* Every step keeps SInv, and is one of BridgeClients or changes nothing   *)
(* there, and one of Registry or changes nothing there.                    *)
LEMMA StartStep ==
  ASSUME SInv, [StartNext]_startVars
  PROVE  SInv' /\ [Next]_vars /\ [RegistryNext]_registryVars
<1>0. IInv /\ TypeOK /\ RegistryInv /\ RegistryTypeOK /\ Listening
  BY DEF SInv, IInv, RegistryInv
<1>1. ASSUME [Next]_vars
      PROVE  IInv'
  BY <1>0, <1>1, TypeStep, PortsStep, BacklogStep DEF IInv
<1>2. ASSUME StepGood, UNCHANGED registryVars
      PROVE  SInv' /\ [Next]_vars /\ [RegistryNext]_registryVars
  <2>1. RegistryInv'
    BY <1>0, <1>2, RegistryStep
  <2>2. UNCHANGED <<phase, alive>>
    BY <1>2 DEF StepGood, registryVars, bridgeVars
  <2>3. Listening'
    BY <1>0, <2>2 DEF Listening
  <2>4. QED
    BY <1>1, <1>2, <2>1, <2>3 DEF StepGood, SInv
<1>3. CASE ProcessNext /\ UNCHANGED stationVars
  <2>1. [Next]_vars /\ StationInv' /\ OrderInv'
    BY <1>3, BridgesStep
  <2>2. [RegistryNext]_registryVars
    BY <1>3, ProcessesAreRegistered
  <2>3. RegistryInv'
    BY <1>0, <2>2, RegistryStep
  <2>4. Listening'
    BY <1>0, <1>3, ListeningStep
  <2>5. QED
    BY <1>1, <2>1, <2>2, <2>3, <2>4 DEF SInv
<1>4. CASE (StationStep \/ UserTypes \/ Leave) /\ UNCHANGED registryVars
  <2>1. StepGood
    BY <1>4, LoadSteps, ConnectStep, SelectStep, ReadStep, UserStep, LeaveStep DEF StationStep
  <2>2. QED
    BY <1>2, <1>4, <2>1
<1>5. ASSUME NEW e \in Iface \ OwnEnds, OtherStep(e), UNCHANGED <<registryVars, stationVars>>
      PROVE  SInv' /\ [Next]_vars /\ [RegistryNext]_registryVars
  BY <1>2, <1>5, OtherProgramsStep
<1>6. CASE UNCHANGED startVars
  <2>1. UNCHANGED <<vars, registryVars, stationVars>>
    BY <1>6 DEF startVars
  <2>2. UNCHANGED <<sock, down, bridgeVars>>
    BY <2>1 DEF vars, sockVars
  <2>3. ASSUME pc # "exited", NEW x \in OwnEnds
        PROVE  BridgeKeeps(x)
    BY <2>2, <2>3 DEF BridgeKeeps, SInv, StationInv
  <2>4. StationInv' /\ OrderInv'
    BY <2>1, <2>3, OthersKeepStation
  <2>5. StepGood
    BY <2>1, <2>2, <2>4 DEF StepGood
  <2>6. QED
    BY <1>2, <2>1, <2>5
<1>7. QED
  BY <1>3, <1>4, <1>5, <1>6 DEF StartNext

(* At first no process runs and nothing is dialled. *)
LEMMA StartInitInv == StartInit => SInv
<1> SUFFICES ASSUME StartInit
             PROVE  SInv
  OBVIOUS
<1>1. Init /\ RegistryInit
  BY DEF StartInit
<1>2. IInv
  BY <1>1, InitInv
<1>3. RegistryInv
  BY <1>1, RegistryInitInv
<1>4. Listening
  BY <1>1, EndsAssumption DEF Init, BridgeInit, RegistryInit, Listening
<1>5. /\ pc = "load" /\ ifaces = <<>> /\ pos = 1 /\ try = 0
      /\ address = [k \in Own |-> Blank] /\ read_set = {Stdin}
      /\ typed \in BOOLEAN /\ accepted = {}
  BY DEF StartInit
<1>6. \A e \in OwnEnds : sock[e] = "idle" /\ down[e] = <<>>
  BY <1>1, OwnFacts DEF Init, SocketsInit
<1>7. Len(ifaces) = 0 /\ ifaces \in Seq(Own) /\ ifaces \in Seq(Resolved)
  BY <1>5, EmptySeq, LenProperties
<1>8. StationTypeOK
  BY <1>5, <1>7, OwnFacts, StartUpAssumption DEF StationTypeOK, Pc
<1>9. StationInv
  BY <1>5, <1>6, <1>7, <1>8, EmptySeq DEF StationInv, Connecting
<1>10. OrderInv
  BY <1>5, <1>7, OwnFacts DEF OrderInv, Connecting
<1>11. QED
  BY <1>2, <1>3, <1>4, <1>9, <1>10 DEF SInv

(***************************************************************************)
(* The inductive invariant of a start (main_bridge.cpp, Station::start()): *)
(* bridges, registry and station agree in every reachable state, whoever   *)
(* cleans meanwhile.                                                       *)
(***************************************************************************)
THEOREM StartInvariant == StartSpec => []SInv
<1>1. SInv /\ [StartNext]_startVars => SInv'
  BY StartStep
<1>2. QED
  BY <1>1, StartInitInv, PTL DEF StartSpec

(***************************************************************************)
(* The position in ifaces_ stays within the list, the number of the try    *)
(* below the limit, and the bridges keep to their types.                   *)
(***************************************************************************)
THEOREM StartTypeCorrect == StartSpec => []StartTypeOK
<1>1. SInv => StartTypeOK
  BY DEF SInv, IInv, RegistryInv, StationInv, StartTypeOK
<1>2. QED
  BY <1>1, StartInvariant, PTL

(***************************************************************************)
(* What the processes do while a station starts is what module Registry    *)
(* says, and the station changes none of it: StartSpec implements          *)
(* RegistrySpec, so a LAN gets one bridge, and one more for each "make     *)
(* clean", none of them beside another until links are removed while a     *)
(* bridge runs, and whoever looks up an address finds that of a bridge.    *)
(***************************************************************************)
THEOREM StartersAreRegistered ==
  StartSpec => RegistrySpec /\ [](OneBridgePerClean /\ OneBridgePerLan /\ FoundIsBridge)
<1>1. SInv /\ [StartNext]_startVars => [RegistryNext]_registryVars
  BY StartStep
<1>2. StartInit => RegistryInit
  BY DEF StartInit
<1>3. StartSpec => RegistrySpec
  BY <1>1, <1>2, StartInvariant, PTL DEF StartSpec, RegistrySpec
<1>4. QED
  BY <1>3, OneBridgeForEachClean, OneBridge, FilesLeadToBridges, PTL

(***************************************************************************)
(* A starting station, with whatever else happens, is to the bridges one   *)
(* of the clients of BridgeClients: it dials idle sockets only, at the     *)
(* bridge of their LAN, while that runs.                                   *)
(***************************************************************************)
THEOREM StartersKeepToClients == StartSpec => StartersAreClients
<1>1. SInv /\ [StartNext]_startVars => [Next]_vars
  BY StartStep
<1>2. QED
  BY <1>1, StartInvariant, PTL DEF StartSpec, StartersAreClients

(***************************************************************************)
(* So bridges keep their promises to stations that start, while bridges    *)
(* start, fail and end as well: whoever is connected has a port, whoever   *)
(* waits is in the backlog, requests are flooded, and nothing is written   *)
(* that was not read.                                                      *)
(***************************************************************************)
THEOREM BridgesServeStarters ==
  StartSpec => /\ [](PortsConsistent /\ NoOneForgotten /\ RequestsAreFlooded)
               /\ ForwardsOnFreshEntries /\ RelaysOnly
<1>1. StartInit => Init
  BY DEF StartInit
<1>2. StartSpec => Spec
  BY <1>1, StartersKeepToClients, PTL DEF StartSpec, StartersAreClients, Spec
<1>3. QED
  BY <1>2, PortsAreConsistent, NoneForgotten, RequestsFlooded, ForwardsFresh,
     RelaysNothingElse, PTL

(***************************************************************************)
(* erase() in Station::start() shifts an interface past the loop only if   *)
(* the one before it in the file was given up, for any number of them.     *)
(***************************************************************************)
THEOREM UnacceptedAreBehindErased == StartSpec => []UnacceptedBehindErased
<1>1. SInv => UnacceptedBehindErased
  <2> SUFFICES ASSUME SInv, pc = "main", NEW k \in ToSet(ifaces), k \notin accepted
               PROVE  \E n \in 2 .. Len(IfaceFile) :
                        IfaceFile[n] = k /\ IfaceFile[n - 1] \notin ToSet(ifaces)
    BY DEF UnacceptedBehindErased
  <2>1. PICK n \in 1 .. Len(ifaces) : k = ifaces[n]
    BY LenProperties DEF ToSet, SInv, StationInv, StationTypeOK
  <2>2. BehindErased(k, ToSet(ifaces))
    BY <2>1 DEF SInv, OrderInv
  <2>3. QED
    BY <2>2 DEF BehindErased
<1>2. QED
  BY <1>1, StartInvariant, PTL

(***************************************************************************)
(* None of the five tries of Station::start() fails because a bridge is    *)
(* slow: select returns only for what it was asked to wait for, so a read  *)
(* that finds nothing has something else of read_set to blame.             *)
(***************************************************************************)
THEOREM TriesHaveReasons == StartSpec => TriesFailForAReason
<1> DEFINE k == ifaces[pos]
           e == End(k)
           Reason == \/ sock[e] \in {"idle", "eof", "pipe", "dead"}
                     \/ \E x \in read_set \ {k} : Ready(x)
<1>1. ASSUME SInv, [StartNext]_startVars, TryFails
      PROVE  Reason
  <2>1. ReadOther
    <3>1. pc = "read" /\ pc' # pc /\ k \notin accepted'
      BY <1>1 DEF TryFails
    <3>2. pc' # pc => StationStep \/ UserTypes \/ Leave
      BY <1>1 DEF StartNext, startVars, stationVars
    <3>3. QED
      BY <3>1, <3>2
         DEF StationStep, LookupFails, get_iface_socket, Connect, Select, ReadAccepted,
             UserTypes, Leave
  <2>2. /\ pc = "read" /\ Connecting
        /\ down[e] # <<>> => Head(down[e]) = [reply |-> "Rejected"]
    BY <2>1 DEF ReadOther, Connecting
  <2>3. /\ k \in Own /\ k # Stdin
        /\ sock[e] \in Gone \/ down[e] \in Seq(Unrefused)
        /\ down[e] # <<>> /\ down[e] \in Seq(Unrefused) => Head(down[e]) \in Unrefused
    BY <1>1, <2>2, AtHand, OwnFacts DEF SInv, StationInv
  <2>4. CASE down[e] # <<>>
    BY <2>2, <2>3, <2>4 DEF Unrefused, Gone
  <2>5. CASE down[e] = <<>>
    <3>1. PICK x \in read_set : Ready(x)
      BY <1>1, <2>2 DEF SInv, StationInv
    <3>2. CASE x = k
      BY <2>3, <2>5, <3>1, <3>2 DEF Ready, HasInput
    <3>3. CASE x # k
      BY <3>1, <3>3
    <3>4. QED
      BY <3>2, <3>3
  <2>6. QED
    BY <2>4, <2>5
<1>2. SInv /\ [StartNext]_startVars => [TryFails => Reason]_startVars
  BY <1>1
<1>3. QED
  BY <1>2, StartInvariant, PTL DEF StartSpec, TriesFailForAReason
=============================================================================
