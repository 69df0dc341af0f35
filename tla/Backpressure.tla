---------------------------- MODULE Backpressure ----------------------------
(***************************************************************************)
(* One LAN whose connections have buffers of limited size (Sockets has     *)
(* unlimited ones).  The bridge and the stations write with blocking       *)
(* calls, inside their turns: a process that writes into a full connection *)
(* comes back to its select only when the other side has read.             *)
(*                                                                         *)
(* All stations are accepted, nothing ends and nothing expires.  Client n  *)
(* is the n-th in clients_.  A frame counts as one unit of the buffers.    *)
(***************************************************************************)
EXTENDS Naturals, SequencesExt

CONSTANTS
  N,          \* the number of stations
  Capacity,   \* frames a connection holds in one direction
  MaxTyped    \* bound: commands users type altogether

Client == 1 .. N

Frame == [type : {"request", "response", "packet"}, src : Client, dst : Client]

NoFrame == [type |-> "none"]

VARIABLES
  typed,      \* typed[c]: destinations of the commands station c has not read
  commands,   \* how many commands were typed so far
  known,      \* known[c]: the clients whose MAC addresses are in arp_
  pq,         \* pq[c]: destinations of the pending packets, in order
  writing,    \* writing[c]: the frame station c is writing, or NoFrame
  up,         \* up[c]: frames on their way to the bridge, in order
  down,       \* down[c]: frames on their way to station c, in order
  pkt,        \* the frame of the bridge's turn
  targets     \* the clients the turn still has to write it to

backVars == <<typed, commands, known, pq, writing, up, down, pkt, targets>>

BackInit ==
  /\ typed = [c \in Client |-> <<>>] /\ commands = 0
  /\ known = [c \in Client |-> {}]
  /\ pq = [c \in Client |-> <<>>]
  /\ writing = [c \in Client |-> NoFrame]
  /\ up = [c \in Client |-> <<>>] /\ down = [c \in Client |-> <<>>]
  /\ pkt = NoFrame /\ targets = {}
-----------------------------------------------------------------------------
(* The stations *)

Types(c, d) ==
  /\ commands < MaxTyped /\ commands' = commands + 1
  /\ d # c /\ typed' = [typed EXCEPT ![c] = Append(@, d)]
  /\ UNCHANGED <<known, pq, writing, up, down, pkt, targets>>

(* Station c is in select, not in write. *)
Listens(c) == writing[c] = NoFrame

Calls(c, type, d) ==
  writing' = [writing EXCEPT ![c] = [type |-> type, src |-> c, dst |-> d]]

(* send_ether_pkt(): the packet, or a request for its next hop. *)
SendCommand(c) ==
  LET d == Head(typed[c]) IN
  /\ Listens(c) /\ typed[c] # <<>>
  /\ typed' = [typed EXCEPT ![c] = Tail(@)]
  /\ IF d \in known[c]
     THEN Calls(c, "packet", d) /\ UNCHANGED pq
     ELSE Calls(c, "request", d) /\ pq' = [pq EXCEPT ![c] = Append(@, d)]
  /\ UNCHANGED <<commands, known, up, down, pkt, targets>>

(* The console goes first.  A request for c is answered; a response to c   *)
(* releases the first packet that waits for it; all else needs no frame.   *)
ReadFrame(c) ==
  LET f == Head(down[c])
      n == SelectInSeq(pq[c], LAMBDA d : d = f.src)
  IN
  /\ Listens(c) /\ typed[c] = <<>> /\ down[c] # <<>>
  /\ down' = [down EXCEPT ![c] = Tail(@)]
  /\ CASE f.type = "request" /\ f.dst = c ->
            /\ known' = [known EXCEPT ![c] = @ \cup {f.src}]
            /\ Calls(c, "response", f.src) /\ UNCHANGED pq
       [] f.type = "response" /\ f.dst = c /\ n # 0 ->
            /\ known' = [known EXCEPT ![c] = @ \cup {f.src}]
            /\ pq' = [pq EXCEPT ![c] = RemoveAt(@, n)]
            /\ Calls(c, "packet", f.src)
       [] OTHER -> UNCHANGED <<known, pq, writing>>
  /\ UNCHANGED <<typed, commands, up, pkt, targets>>

(* write() has found room and returns. *)
StationWrites(c) ==
  /\ ~Listens(c) /\ Len(up[c]) < Capacity
  /\ up' = [up EXCEPT ![c] = Append(@, writing[c])]
  /\ writing' = [writing EXCEPT ![c] = NoFrame]
  /\ UNCHANGED <<typed, commands, known, pq, down, pkt, targets>>
-----------------------------------------------------------------------------
(* The bridge *)

BridgeListens == targets = {}

(* The first client with a frame.  Requests are flooded; of all others the *)
(* destination has sent a frame before, and its port is known.             *)
BridgeReads(c) ==
  LET f == Head(up[c]) IN
  /\ BridgeListens
  /\ up[c] # <<>> /\ \A k \in Client : k < c => up[k] = <<>>
  /\ up' = [up EXCEPT ![c] = Tail(@)]
  /\ pkt' = f
  /\ targets' = IF f.type = "request" THEN Client \ {c} ELSE {f.dst}
  /\ UNCHANGED <<typed, commands, known, pq, writing, down>>

(* One client after the other, in the order of clients_. *)
BridgeWrites(c) ==
  /\ c \in targets /\ \A k \in targets : c <= k
  /\ Len(down[c]) < Capacity
  /\ down' = [down EXCEPT ![c] = Append(@, pkt)]
  /\ targets' = targets \ {c}
  /\ UNCHANGED <<typed, commands, known, pq, writing, up, pkt>>

StationTurn(c) == SendCommand(c) \/ ReadFrame(c) \/ StationWrites(c)
BridgeTurn == \E c \in Client : BridgeReads(c) \/ BridgeWrites(c)

BackNext ==
  \/ \E c, d \in Client : Types(c, d)
  \/ \E c \in Client : StationTurn(c)
  \/ BridgeTurn

(* What is ready is handled, and a write that finds room returns. *)
BackFairSpec ==
  /\ BackInit /\ [][BackNext]_backVars
  /\ WF_backVars(BridgeTurn)
  /\ \A c \in Client : WF_backVars(StationTurn(c))
-----------------------------------------------------------------------------
(***************************************************************************)
(* "Actively listens for connection setup request and data frame arrival   *)
(* on established ports" (bridge.cpp): whatever the stations do, the       *)
(* bridge comes back to its select.                                        *)
(***************************************************************************)
ActivelyListens == []<>BridgeListens
=============================================================================
