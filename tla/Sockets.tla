------------------------------ MODULE Sockets ------------------------------
(***************************************************************************)
(* The TCP connections between interfaces and bridges, one per interface,  *)
(* as the kernel gives them to both sides: ordered, lossless and without   *)
(* duplicates while both ends live.  The code is in the kernel, not in the *)
(* repository; w_socket.cpp, utility.cpp and the plain read and write      *)
(* calls use it.  A frame is written and read in one piece: all frames     *)
(* have the size of one EtherPkt, far below a socket buffer.               *)
(***************************************************************************)
EXTENDS Packets, SequencesExt

VARIABLES
  sock,     \* sock[i]: state of the connection of interface i, see below
  up,       \* up[i]: frames written by the station, not yet read by the bridge
  down,     \* down[i]: written by the bridge, not yet read by the station
  backlog   \* backlog[b]: interfaces connected to bridge b, not yet accepted

sockVars == <<sock, up, down, backlog>>

(***************************************************************************)
(* "idle"  no connection                                                   *)
(* "syn"   connect() done, the bridge has not called accept()              *)
(* "open"  both ends open                                                  *)
(* "fin"   the station's end is closed, the bridge can still write once    *)
(* "rst"   the bridge wrote to a closed end, or the station left input     *)
(*         unread: the next write fails or raises SIGPIPE                  *)
(* "eof"   the bridge's end is closed, the station can still write once    *)
(* "pipe"  the station wrote to a closed end, or the bridge left input     *)
(*         unread, likewise                                                *)
(* "dead"  the station has been told of the error of "pipe": reading gives *)
(*         the end of file, and writing raises SIGPIPE                     *)
(***************************************************************************)
SockState == {"idle", "syn", "open", "fin", "rst", "eof", "pipe", "dead"}

(* The handshake texts the bridge writes before any frame. *)
Reply == [reply : {"Accepted", "Rejected"}]

SocketsTypeOK ==
  /\ sock \in [Iface -> SockState]
  /\ up \in [Iface -> Seq(EtherPkt)]
  /\ down \in [Iface -> Seq(EtherPkt \cup Reply)]
  /\ backlog \in [Lan -> Seq(Iface)]

SocketsInit ==
  /\ sock = [i \in Iface |-> "idle"]
  /\ up = [i \in Iface |-> <<>>]
  /\ down = [i \in Iface |-> <<>>]
  /\ backlog = [b \in Lan |-> <<>>]
-----------------------------------------------------------------------------
(* The bridge's end *)

(* The descriptor is ready: a frame, or the end of file. *)
Readable(i) == up[i] # <<>> \/ sock[i] \in {"fin", "rst"}

(* The bridge writes m to every connection in I, none of which is broken. *)
DownAfterWrite(I, m) ==
  [i \in Iface |-> IF i \in I /\ sock[i] = "open" THEN Append(down[i], m)
                                                  ELSE down[i]]

SockAfterWrite(I) ==
  [i \in Iface |-> IF i \in I /\ sock[i] = "fin" THEN "rst" ELSE sock[i]]

(* All ends bridge b holds close with its process.  Unread input makes the *)
(* kernel reset a connection instead of finishing it.                      *)
SockAfterExit(b) ==
  [i \in Iface |->
     IF lan_name[i] # b THEN sock[i]
     ELSE CASE sock[i] \in {"syn", "open"} -> IF up[i] = <<>> THEN "eof" ELSE "pipe"
            [] sock[i] \in {"fin", "rst"}  -> "idle"
            [] OTHER                       -> sock[i]]
-----------------------------------------------------------------------------
(* The station's end *)

HasInput(i) == down[i] # <<>> \/ sock[i] \in {"eof", "pipe", "dead"}

(* The station writes out[i] to each i in the domain of out. *)
UpAfterWrite(out) ==
  [i \in Iface |-> IF i \in DOMAIN out /\ sock[i] = "open"
                   THEN Append(up[i], out[i]) ELSE up[i]]

SockAfterSend(I) ==
  [i \in Iface |-> IF i \in I /\ sock[i] = "eof" THEN "pipe" ELSE sock[i]]

(* The end of i closes, by close() or by the death of the process, with    *)
(* that much input unread.                                                 *)
SockAfterClose(i, unread) ==
  CASE sock[i] = "syn"  -> "fin"
    [] sock[i] = "open" -> IF unread = <<>> THEN "fin" ELSE "rst"
    [] OTHER            -> "idle"
=============================================================================
