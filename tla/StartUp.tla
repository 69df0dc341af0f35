------------------------------ MODULE StartUp ------------------------------
(***************************************************************************)
(* A station or router from its start to its main loop: the constructor    *)
(* looks up the bridge of every line of the interface file, and            *)
(* Station::start() connects the interfaces one after the other.  Bridges  *)
(* start and end meanwhile, other programs connect to them and send, and   *)
(* the user may type before anybody reads.                                 *)
(*                                                                         *)
(* The wait for an answer is select() on a set that select() itself has    *)
(* reduced to what was ready the time before, with the interfaces of       *)
(* earlier rounds and the console in it, and a read that may find nothing. *)
(*                                                                         *)
(* A LAN may have several bridges in the course of time, and even at the   *)
(* same time.  So a Lan of module Bridge is a bridge process here, and an  *)
(* Iface is an end: a card, which is what an interface file names, with    *)
(* the process its socket leads to.                                        *)
(***************************************************************************)
EXTENDS BridgeClients, Registry

CONSTANTS
  Card,       \* the interfaces of all stations
  net,        \* net[k]: the LAN name of card k
  IfaceFile,  \* the interfaces of the station, in the order of the file
  Stdin,      \* descriptor 0
  Tries,      \* how often an answer is waited for; 5 in the code
  MaxDown     \* bound: what may wait unread at an interface

Own == ToSet(IfaceFile)

(* With an empty file, start() returns at once. *)
ASSUME StartUpAssumption ==
  /\ net \in [Card -> Name]
  /\ IfaceFile \in Seq(Card) /\ IfaceFile # <<>> /\ IsInjective(IfaceFile)
  /\ Stdin \notin Card
  /\ Tries \in Nat \ {0}

ASSUME EndsAssumption ==
  /\ Lan = Proc
  /\ Iface \subseteq Card \X Proc
  /\ \A e \in Iface : lan_name[e] = e[2] /\ net[e[1]] = argv1[e[2]]
  /\ \A k \in Own, p \in Proc : net[k] = argv1[p] => <<k, p>> \in Iface

(* The ends of the station's own sockets. *)
OwnEnds == {e \in Iface : e[1] \in Own}

VARIABLES
  pc,         \* where the process is: see Pc
  ifaces,     \* ifaces_
  pos,        \* i, the position of the loops over the interfaces
  try,        \* j, the number of the try
  address,    \* address[k]: the process whose address was found for k
  read_set,   \* what the next select waits for, or the last one found
  typed,      \* the console has input nobody has read
  accepted    \* the interfaces whose "Accepted" was read

stationVars == <<pc, ifaces, pos, try, address, read_set, typed, accepted>>

startVars == <<vars, registryVars, stationVars>>

(* Where the socket of card k leads. *)
End(k) == <<k, address[k]>>

Pc == {"load", "connect", "select", "read", "main", "exited"}

StationTypeOK ==
  /\ pc \in Pc
  /\ ifaces \in Seq(Own)
  /\ pos \in 1 .. Len(IfaceFile) + 1
  /\ try \in 0 .. Tries - 1
  /\ address \in [Own -> Proc \cup {Blank}]
  /\ read_set \subseteq Own \cup {Stdin}
  /\ typed \in BOOLEAN
  /\ accepted \subseteq Own

StartInit ==
  /\ Init
  /\ RegistryInit
  /\ pc = "load" /\ ifaces = <<>> /\ pos = 1 /\ try = 0
  /\ address = [k \in Own |-> Blank]
  /\ read_set = {Stdin}
  /\ typed \in BOOLEAN
  /\ accepted = {}
-----------------------------------------------------------------------------
(* Bridge processes *)

(* The port is known as soon as the address is in the file, and listens:   *)
(* from then on clients may ask for connections.                           *)
Announces(p) == FlushAddress(p) /\ Start(p)

BridgeTurn(p) ==
  /\ phase[p] = "serving" /\ BridgeStep(p)
  /\ IF alive'[p] THEN UNCHANGED registryVars ELSE Ends(p)

SwitchedOff(p) == Ends(p) /\ Off(p)

(* Consoles stay open and nobody looks at the tables: see MCBridge.        *)
ProcessNext ==
  \/ \E p \in Proc :
       \/ Announces(p) \/ BridgeTurn(p) \/ SwitchedOff(p)
       \/ /\ setup_socket(p) \/ OpenFile(p) \/ my_symlink(p) \/ EnterLoop(p)
          /\ UNCHANGED vars
  \/ MakeClean /\ UNCHANGED vars
-----------------------------------------------------------------------------
(* The constructor of the station *)

(* No link, or no address behind it: my_error(). *)
LookupFails ==
  LET b == net[IfaceFile[pos]] IN
  /\ pc = "load"
  /\ ~link[b] \/ file[b] = Blank
  /\ pc' = "exited"
  /\ UNCHANGED <<vars, ifaces, pos, try, address, read_set, typed, accepted>>

get_iface_socket ==
  LET k == IfaceFile[pos]
      b == net[k]
  IN
  /\ pc = "load"
  /\ link[b] /\ file[b] # Blank
  /\ address' = [address EXCEPT ![k] = file[b]]
  /\ ifaces' = Append(ifaces, k)
  /\ IF pos = Len(IfaceFile) THEN pc' = "connect" /\ pos' = 1
                           ELSE pc' = pc /\ pos' = pos + 1
  /\ UNCHANGED <<vars, try, read_set, typed, accepted>>
-----------------------------------------------------------------------------
(* The loop that connects the interfaces *)

(* Mutant: every try sends another request. *)
DialsAlways(k) == alive[address[k]]

(* On a connection, however far, connect() fails; without a listener it is *)
(* refused.  Its result is not looked at.                                  *)
Dials(k) == sock[End(k)] = "idle" /\ alive[address[k]]

Dial(e) ==
  /\ sock' = [sock EXCEPT ![e] = "syn"]
  /\ backlog' = [backlog EXCEPT ![lan_name[e]] = Append(@, e)]
  /\ UNCHANGED <<up, down, bridgeVars>>

Connect ==
  LET k == ifaces[pos] IN
  /\ pc = "connect"
  /\ read_set' = IF try = 0 THEN read_set \cup {k} ELSE read_set
  /\ IF Dials(k) THEN Dial(End(k)) ELSE UNCHANGED vars
  /\ pc' = "select"
  /\ UNCHANGED <<ifaces, pos, try, address, typed, accepted>>

(* A socket that is not connected is ready: reading fails at once. *)
Ready(x) ==
  IF x = Stdin THEN typed ELSE HasInput(End(x)) \/ sock[End(x)] = "idle"

(* Mutant: select has a timeout. *)
SelectTimed ==
  /\ pc = "select"
  /\ read_set' = {x \in read_set : Ready(x)}
  /\ pc' = "read"
  /\ UNCHANGED <<vars, ifaces, pos, try, address, typed, accepted>>

Select ==
  /\ pc = "select"
  /\ \E x \in read_set : Ready(x)
  /\ read_set' = {x \in read_set : Ready(x)}
  /\ pc' = "read"
  /\ UNCHANGED <<vars, ifaces, pos, try, address, typed, accepted>>

(* The interface at hand is done with; rest is what ifaces_ is then. *)
NextIface(rest) ==
  /\ ifaces' = rest
  /\ pos' = pos + 1 /\ try' = 0
  /\ pc' = IF pos + 1 > Len(rest) THEN "main" ELSE "connect"

(* "Accepted".  The read takes up to a hundred bytes, so of a frame behind *)
(* the answer the beginning goes with it.  A rest stays, which counts as   *)
(* that frame here: until the main loop only its presence matters.         *)
ReadAccepted ==
  LET k == ifaces[pos]
      e == End(k)
  IN
  /\ pc = "read" /\ down[e] # <<>> /\ Head(down[e]) = [reply |-> "Accepted"]
  /\ down' = [down EXCEPT ![e] = Tail(@)]
  /\ accepted' = accepted \cup {k}
  /\ NextIface(ifaces)
  /\ UNCHANGED <<sock, up, backlog, bridgeVars, address, read_set, typed>>

(* Mutant: the last interface is erased. *)
LastErased == Front(ifaces)

(* ifaces_.erase(): the next interface moves to this position, and the     *)
(* loop goes on with the one behind it.  The descriptor stays open.        *)
IfaceErased == RemoveAt(ifaces, pos)

(* Mutant: a try that fails is not counted. *)
TryForEver ==
  /\ pc' = "connect"
  /\ UNCHANGED <<ifaces, pos, try>>

(* Mutant: one try more, "j <= 5". *)
TryOnceMore ==
  IF try < Tries THEN try' = try + 1 /\ pc' = "connect" /\ UNCHANGED <<ifaces, pos>>
                 ELSE NextIface(IfaceErased)

TryAgain ==
  IF try + 1 < Tries THEN try' = try + 1 /\ pc' = "connect" /\ UNCHANGED <<ifaces, pos>>
                   ELSE NextIface(IfaceErased)

(* "Rejected", the end of file, an error, or nothing yet: the next try.    *)
ReadOther ==
  LET e == End(ifaces[pos]) IN
  /\ pc = "read" /\ (down[e] # <<>> => Head(down[e]) = [reply |-> "Rejected"])
  /\ IF down[e] # <<>> THEN down' = [down EXCEPT ![e] = Tail(@)] /\ UNCHANGED sock
     ELSE /\ sock' = [sock EXCEPT ![e] = IF @ = "pipe" THEN "dead" ELSE @]
          /\ UNCHANGED down
  /\ TryAgain
  /\ UNCHANGED <<up, backlog, bridgeVars, address, read_set, typed, accepted>>

StationStep ==
  LookupFails \/ get_iface_socket \/ Connect \/ Select \/ ReadAccepted \/ ReadOther

(* The user types; the main loop ends, at the latest when ifaces_ is empty.*)
UserTypes ==
  /\ ~typed /\ typed' = TRUE
  /\ UNCHANGED <<vars, pc, ifaces, pos, try, address, read_set, accepted>>

Leave ==
  /\ pc = "main" /\ pc' = "exited"
  /\ sock' = [e \in Iface |->
       IF e \in OwnEnds THEN SockAfterClose(e, down[e]) ELSE sock[e]]
  /\ down' = [e \in Iface |-> IF e \in OwnEnds THEN <<>> ELSE down[e]]
  /\ UNCHANGED <<up, backlog, bridgeVars, ifaces, pos, try, address, read_set, typed, accepted>>

(* Other programs: they connect, send what is flooded, and read. *)
OtherStep(e) ==
  \/ ClientConnect(e)
  \/ /\ up[e] = <<>> /\ \A n \in Iface : Len(down[n]) < MaxDown
     /\ ClientSend(e, ArpFrame(mac_addr[e], NoMac, create_req_pkt(e, ip_addr[e])))
  \/ ClientRead(e)

StartNext ==
  \/ ProcessNext /\ UNCHANGED stationVars
  \/ (StationStep \/ UserTypes \/ Leave) /\ UNCHANGED registryVars
  \/ \E e \in Iface \ OwnEnds : OtherStep(e) /\ UNCHANGED <<registryVars, stationVars>>

StartSpec == StartInit /\ [][StartNext]_startVars

(* Select wakes bridges and the station; what is ready is handled.  From   *)
(* the flush of the address to the loop a bridge waits for nobody.         *)
StartFairSpec ==
  /\ StartSpec
  /\ WF_startVars(StationStep /\ UNCHANGED registryVars)
  /\ \A p \in Proc :
       /\ WF_startVars(EnterLoop(p) /\ UNCHANGED <<vars, stationVars>>)
       /\ WF_startVars(BridgeTurn(p) /\ UNCHANGED stationVars)
-----------------------------------------------------------------------------
(* Every variable keeps to its set of values. *)
StartTypeOK ==
  /\ TypeOK
  /\ RegistryTypeOK
  /\ StationTypeOK

(* A try for the interface at hand comes to nothing. *)
TryFails == pc = "read" /\ pc' # "read" /\ ifaces[pos] \notin accepted'

(***************************************************************************)
(* Each of the tries for an interface fails in one of three cases only:    *)
(* its bridge refused it or was not there to be dialled, its bridge has    *)
(* ended, or something else among the descriptors this very select waited  *)
(* for made it return while the answer was on its way.  That is what was   *)
(* typed ahead, or input at, or the end of, an interface of an earlier     *)
(* round, a refused one included.  A slow bridge is no reason, and neither *)
(* are interfaces whose turn has not come.                                 *)
(***************************************************************************)
TriesFailForAReason ==
  [][ TryFails =>
        \/ sock[End(ifaces[pos])] \in {"idle", "eof", "pipe", "dead"}
        \/ \E x \in read_set \ {ifaces[pos]} : Ready(x)
    ]_startVars

(***************************************************************************)
(* The main loop uses an interface that was never accepted only if the one *)
(* before it in the file was given up: erase() moved it past the loop.     *)
(***************************************************************************)
UnacceptedBehindErased ==
  pc = "main" =>
    \A k \in ToSet(ifaces) \ accepted :
      \E n \in 2 .. Len(IfaceFile) :
        IfaceFile[n] = k /\ IfaceFile[n - 1] \notin ToSet(ifaces)

(***************************************************************************)
(* The station comes to its main loop or ends, whatever bridges, users and *)
(* other programs do: select has no timeout, but it never waits for what   *)
(* does not come.                                                          *)
(***************************************************************************)
SetUpEnds == <>(pc \in {"main", "exited"})

(***************************************************************************)
(* The bridges see nothing they would not see from the clients of          *)
(* BridgeClients: whatever holds there holds while stations start.         *)
(***************************************************************************)
StartersAreClients == [][Next]_vars
-----------------------------------------------------------------------------
(***************************************************************************)
(* "Connect to bridges" and "Erase bridge from data struct" (station.cpp): *)
(* the main loop is left with the interfaces whose bridges accepted them.  *)
(***************************************************************************)
UsedAreAccepted == pc = "main" => ToSet(ifaces) \subseteq accepted
=============================================================================
