------------------------------- MODULE Bridge -------------------------------
(***************************************************************************)
(* The bridge process of each LAN (models/bridge.cpp, main_bridge.cpp): it *)
(* accepts stations up to its port limit, learns which MAC address is      *)
(* behind which port, and relays frames.                                   *)
(*                                                                         *)
(* One action is one turn of the loop in Bridge::start(): select returns,  *)
(* monitor_arp_cache() runs, and ONE thing is handled, in this order of    *)
(* preference: a connection request, the console, the first ready client   *)
(* in the order of clients_.  What arrives while a turn runs is not read   *)
(* by it, so a turn can be one step.                                       *)
(*                                                                         *)
(* A table entry holds its age instead of the time it was made: only the   *)
(* difference to now is ever used.  Ages stop at ArpTime + 1, the first    *)
(* value the code treats as too old.                                       *)
(***************************************************************************)
EXTENDS Sockets

CONSTANTS
  NumPorts,   \* NUM_PORTS_, the port limit given on the command line
  ArpTime     \* ARP_TIME, in ticks of the model's clock

ASSUME BridgeAssumption == NumPorts \in Nat /\ ArpTime \in Nat

VARIABLES
  alive,      \* alive[b]: the process of bridge b runs
  clients,    \* clients_: the descriptors in use, in order of acceptance
  curr_ports, \* curr_ports_
  btable,     \* btable_: age of each (port, MAC address) entry, or Absent
  ports,      \* the keys of btable_, which outlive their connection
  peer,       \* the kernel's view: which interface a descriptor leads to
  stdin_eof   \* stdin_eof[b]: the console of b is at end of file

bridgeVars == <<alive, clients, curr_ports, btable, ports, peer, stdin_eof>>

(* One more than the limit: a rejected client holds a descriptor too. *)
Fd == 1 .. NumPorts + 1

Absent == -1
Age == 0 .. ArpTime + 1

Older(a) == IF a \in 0 .. ArpTime THEN a + 1 ELSE a

EmptyTable == [p \in Fd |-> [m \in AnyMac |-> Absent]]

BridgeTypeOK ==
  /\ alive \in [Lan -> BOOLEAN]
  /\ clients \in [Lan -> Seq(Fd)]
  /\ curr_ports \in [Lan -> Int]
  /\ btable \in [Lan -> [Fd -> [AnyMac -> Age \cup {Absent}]]]
  /\ ports \in [Lan -> SUBSET Fd]
  /\ peer \in [Lan -> [Fd -> Iface \cup {NoIface}]]
  /\ stdin_eof \in [Lan -> BOOLEAN]

BridgeInit ==
  /\ alive = [b \in Lan |-> FALSE]
  /\ clients = [b \in Lan |-> <<>>]
  /\ curr_ports = [b \in Lan |-> 0]
  /\ btable = [b \in Lan |-> EmptyTable]
  /\ ports = [b \in Lan |-> {}]
  /\ peer = [b \in Lan |-> [p \in Fd |-> NoIface]]
  /\ stdin_eof = [b \in Lan |-> FALSE]
-----------------------------------------------------------------------------
(* The self-learning table *)

has_arp_entry(tbl, port, mac) == tbl[port][mac] # Absent

(* map::insert: an entry that is there keeps its age. *)
add_arp_entry(tbl, port, mac) ==
  IF has_arp_entry(tbl, port, mac) THEN tbl
                                   ELSE [tbl EXCEPT ![port][mac] = 0]

(* Mutant: nothing is ever erased. *)
NeverExpires(tbl) == tbl

monitor_arp_cache(tbl) ==
  [p \in Fd |-> [m \in AnyMac |->
     IF tbl[p][m] > ArpTime THEN Absent ELSE tbl[p][m]]]

(* map::insert again: a key that is there keeps its old entries. *)
add_port(b, port, tbl) ==
  /\ ports' = [ports EXCEPT ![b] = @ \cup {port}]
  /\ btable' = [btable EXCEPT ![b] =
       IF port \in ports[b] THEN tbl ELSE [tbl EXCEPT ![port] = EmptyTable[port]]]

(* The positions in clients_ whose port has mac; the first one is taken. *)
NextHops(b, tbl, mac) ==
  {j \in DOMAIN clients[b] : has_arp_entry(tbl, clients[b][j], mac)}

Client(b, j) == peer[b][clients[b][j]]

(* A process makes its address known, the first of its LAN or after        *)
(* another: from then on clients can connect, and its loop begins.         *)
Start(b) ==
  /\ ~alive[b]
  /\ alive' = [alive EXCEPT ![b] = TRUE]
  /\ stdin_eof' = [stdin_eof EXCEPT ![b] = FALSE]
  /\ UNCHANGED <<clients, curr_ports, btable, ports, peer, sockVars>>
-----------------------------------------------------------------------------
(* A turn that finds a connection request. *)

(* Mutant: the count is compared before it is increased. *)
HasRoomLate(b) == curr_ports[b] <= NumPorts

HasRoom(b) == curr_ports[b] + 1 <= NumPorts

(* accept() returns the lowest free descriptor. *)
IsNewFd(b, fd) ==
  /\ fd \notin ToSet(clients[b])
  /\ \A p \in Fd : p < fd => p \in ToSet(clients[b])

(* Mutant: the answer goes to the first client, not to the new one. *)
AnswerFirst(b, text) ==
  LET i == Head(backlog[b])
      k == IF clients[b] = <<>> THEN i ELSE Client(b, 1)
  IN
  /\ backlog' = [backlog EXCEPT ![b] = Tail(@)]
  /\ sock' = [sock EXCEPT ![i] = IF @ = "fin" THEN "rst" ELSE "open"]
  /\ down' = [down EXCEPT ![k] = Append(@, [reply |-> text])]

(* Mutant: the request is answered and stays in the backlog. *)
KeepsRequest(b, text) ==
  LET i == Head(backlog[b]) IN
  /\ sock' = [sock EXCEPT ![i] = IF @ = "fin" THEN "rst" ELSE "open"]
  /\ down' = [down EXCEPT ![i] = Append(@, [reply |-> text])]
  /\ UNCHANGED backlog

AnswerRequest(b, text) ==
  LET i == Head(backlog[b]) IN
  /\ backlog' = [backlog EXCEPT ![b] = Tail(@)]
  /\ IF sock[i] = "fin"
     THEN /\ sock' = [sock EXCEPT ![i] = "rst"]
          /\ UNCHANGED down
     ELSE /\ sock' = [sock EXCEPT ![i] = "open"]
          /\ down' = [down EXCEPT ![i] = Append(@, [reply |-> text])]

AcceptClient(b) ==
  /\ alive[b] /\ backlog[b] # <<>> /\ HasRoom(b)
  /\ \E fd \in Fd :
       /\ IsNewFd(b, fd)
       /\ clients' = [clients EXCEPT ![b] = Append(@, fd)]
       /\ peer' = [peer EXCEPT ![b][fd] = Head(backlog[b])]
       /\ add_port(b, fd, monitor_arp_cache(btable[b]))
  /\ curr_ports' = [curr_ports EXCEPT ![b] = @ + 1]
  /\ AnswerRequest(b, "Accepted")
  /\ UNCHANGED <<up, alive, stdin_eof>>

(* Mutant: a bridge at its limit leaves the request where it is. *)
LeaveWaiting(b) ==
  /\ alive[b] /\ backlog[b] # <<>> /\ ~HasRoom(b)
  /\ UNCHANGED <<sockVars, bridgeVars>>

(* push_back, ++curr_ports_ and remove_client() cancel out, and the        *)
(* connection is closed after the text is written.                         *)
RejectClient(b) ==
  LET i == Head(backlog[b]) IN
  /\ alive[b] /\ backlog[b] # <<>> /\ ~HasRoom(b)
  /\ backlog' = [backlog EXCEPT ![b] = Tail(@)]
  /\ sock' = [sock EXCEPT ![i] = IF @ = "fin" THEN "idle" ELSE "eof"]
  /\ down' = [down EXCEPT ![i] =
       IF sock[i] = "fin" THEN @ ELSE Append(@, [reply |-> "Rejected"])]
  /\ btable' = [btable EXCEPT ![b] = monitor_arp_cache(@)]
  /\ UNCHANGED <<up, alive, clients, curr_ports, ports, peer, stdin_eof>>
-----------------------------------------------------------------------------
(* A turn for the console. *)

(* "debug", "show sl", or end of file: only monitor_arp_cache() has run. *)
Console(b) ==
  /\ alive[b] /\ backlog[b] = <<>>
  /\ btable' = [btable EXCEPT ![b] = monitor_arp_cache(@)]
  /\ UNCHANGED <<alive, clients, curr_ports, ports, peer, stdin_eof, sockVars>>

(* The process ends: the kernel closes all its descriptors. *)
Exit(b) ==
  /\ alive' = [alive EXCEPT ![b] = FALSE]
  /\ clients' = [clients EXCEPT ![b] = <<>>]
  /\ curr_ports' = [curr_ports EXCEPT ![b] = 0]
  /\ btable' = [btable EXCEPT ![b] = EmptyTable]
  /\ ports' = [ports EXCEPT ![b] = {}]
  /\ peer' = [peer EXCEPT ![b] = [p \in Fd |-> NoIface]]
  /\ backlog' = [backlog EXCEPT ![b] = <<>>]
  /\ sock' = SockAfterExit(b)
  /\ up' = [i \in Iface |-> IF lan_name[i] = b THEN <<>> ELSE up[i]]

(* The command "off". *)
Off(b) ==
  /\ alive[b] /\ backlog[b] = <<>> /\ ~stdin_eof[b]
  /\ Exit(b)
  /\ UNCHANGED <<down, stdin_eof>>

(* The console is closed: from now on every turn without a connection      *)
(* request reads end of file from it and does nothing else.                *)
StdinEof(b) ==
  /\ alive[b] /\ ~stdin_eof[b]
  /\ stdin_eof' = [stdin_eof EXCEPT ![b] = TRUE]
  /\ UNCHANGED <<alive, clients, curr_ports, btable, ports, peer, sockVars>>
-----------------------------------------------------------------------------
(* A turn for client number j, the first one that is ready. *)

(* Mutant: the loop over clients_ starts at the second one. *)
ServesFromSecond(b, j) ==
  /\ alive[b] /\ backlog[b] = <<>> /\ ~stdin_eof[b]
  /\ j > 1 /\ Readable(Client(b, j))
  /\ \A k \in DOMAIN clients[b] : 1 < k /\ k < j => ~Readable(Client(b, k))

Serves(b, j) ==
  /\ alive[b] /\ backlog[b] = <<>> /\ ~stdin_eof[b]
  /\ Readable(Client(b, j))
  /\ \A k \in DOMAIN clients[b] : k < j => ~Readable(Client(b, k))

(* Mutant: the loop that floods ends one client early. *)
FloodAllButLast(b, j) == DOMAIN clients[b] \ {j, Len(clients[b])}

FloodTargets(b, j) == DOMAIN clients[b] \ {j}

(* Where the frame of client j goes: the first port that has the address,  *)
(* or every port but j.                                                    *)
Targets(b, j, tbl, mac) ==
  LET hops == NextHops(b, tbl, mac) IN
  IF hops = {} THEN FloodTargets(b, j) ELSE {Min(hops)}

(* Mutant: the empty address is learned like any other. *)
LearnAny(b, j, tbl, f) ==
  LET port == clients[b][j]
      tbl2 == IF NextHops(b, tbl, f.mac_dst) = {}
              THEN add_arp_entry(tbl, port, f.mac_dst)
              ELSE tbl
  IN  add_arp_entry(tbl2, port, f.mac_src)

(* Mutant: nothing is learned. *)
LearnNothing(b, j, tbl, f) == tbl

(* What the turn leaves in the table: after a flood the destination is     *)
(* entered on the port the frame CAME FROM, unless it is the empty one;    *)
(* the source is entered on that port in any case.                         *)
Learn(b, j, tbl, f) ==
  LET port == clients[b][j]
      tbl2 == IF NextHops(b, tbl, f.mac_dst) = {} /\ f.mac_dst # NoMac
              THEN add_arp_entry(tbl, port, f.mac_dst)
              ELSE tbl
  IN  add_arp_entry(tbl2, port, f.mac_src)

RelayFrame(b, j) ==
  LET i    == Client(b, j)
      f    == Head(up[i])
      tbl  == monitor_arp_cache(btable[b])
      outs == {Client(b, k) : k \in Targets(b, j, tbl, f.mac_dst)}
  IN
  /\ Serves(b, j) /\ up[i] # <<>>
  /\ \A o \in outs : sock[o] # "rst"
  /\ up' = [up EXCEPT ![i] = Tail(@)]
  /\ down' = DownAfterWrite(outs, f)
  /\ sock' = SockAfterWrite(outs)
  /\ btable' = [btable EXCEPT ![b] = Learn(b, j, tbl, f)]
  /\ UNCHANGED <<backlog, alive, clients, curr_ports, ports, peer, stdin_eof>>

(* One of the writes meets a broken connection: SIGPIPE, which nothing     *)
(* handles, or my_error() ends the process.  Earlier ones in clients_ have *)
(* their copy.                                                             *)
BrokenPipe(b, j) ==
  LET i    == Client(b, j)
      f    == Head(up[i])
      to   == Targets(b, j, monitor_arp_cache(btable[b]), f.mac_dst)
      bad  == {k \in to : sock[Client(b, k)] = "rst"}
  IN
  /\ Serves(b, j) /\ up[i] # <<>>
  /\ bad # {}
  /\ down' = DownAfterWrite({Client(b, k) : k \in {n \in to : n < Min(bad)}}, f)
  /\ Exit(b)
  /\ UNCHANGED stdin_eof

(* Mutants: the slot is marked instead of erased; the last one is erased. *)
MarkClosed(b, j) == [clients[b] EXCEPT ![j] = 0]
EraseLast(b, j)  == Front(clients[b])

(* clients_.erase(clients_.begin() + index) *)
ErasedAt(b, j) == RemoveAt(clients[b], j)

(* Mutant: the descriptor is forgotten, not closed. *)
RemoveWithoutClose(b, j) ==
  /\ Serves(b, j) /\ up[Client(b, j)] = <<>>
  /\ clients' = [clients EXCEPT ![b] = ErasedAt(b, j)]
  /\ curr_ports' = [curr_ports EXCEPT ![b] = @ - 1]
  /\ peer' = [peer EXCEPT ![b][clients[b][j]] = NoIface]
  /\ btable' = [btable EXCEPT ![b] = monitor_arp_cache(@)]
  /\ UNCHANGED <<sockVars, alive, ports, stdin_eof>>

(* read() returns end of file or an error: remove_client().  The table     *)
(* keeps what was learned on the descriptor.                               *)
remove_client(b, j) ==
  LET i == Client(b, j) IN
  /\ Serves(b, j) /\ up[i] = <<>>
  /\ clients' = [clients EXCEPT ![b] = ErasedAt(b, j)]
  /\ curr_ports' = [curr_ports EXCEPT ![b] = @ - 1]
  /\ peer' = [peer EXCEPT ![b][clients[b][j]] = NoIface]
  /\ sock' = [sock EXCEPT ![i] = "idle"]
  /\ btable' = [btable EXCEPT ![b] = monitor_arp_cache(@)]
  /\ UNCHANGED <<up, down, backlog, alive, ports, stdin_eof>>

BridgeStep(b) ==
  \/ AcceptClient(b)
  \/ RejectClient(b)
  \/ \E j \in DOMAIN clients[b] :
       RelayFrame(b, j) \/ BrokenPipe(b, j) \/ remove_client(b, j)

BridgeNext ==
  \E b \in Lan : Start(b) \/ BridgeStep(b) \/ Console(b) \/ Off(b) \/ StdinEof(b)

(* The clock of all bridges: every entry is one tick older. *)
AgeTables ==
  btable' = [b \in Lan |-> [p \in Fd |-> [m \in AnyMac |-> Older(btable[b][p][m])]]]
=============================================================================
