------------------------------ MODULE Registry ------------------------------
(***************************************************************************)
(* How bridge processes make themselves known (main_bridge.cpp, the        *)
(* constructor of Bridge, ip.cpp): each leaves its address in ./tmp/<lan>  *)
(* and a symbolic link <lan> to that file, where stations look for it.     *)
(* Link and file belong to nobody: other processes of the same name see    *)
(* and change them, and they stay when the process has ended, until the    *)
(* links are removed by "make clean", which asks no process.               *)
(*                                                                         *)
(* The kernel gives every process another port, so a process stands for    *)
(* the address it listens at.                                              *)
(***************************************************************************)
EXTENDS Naturals, FiniteSets

CONSTANTS
  Proc,       \* the bridge processes users start
  Name,       \* LAN names
  argv1,      \* argv1[p]: the LAN process p is started for
  Blank,      \* a file without an address: empty, absent, or with other text
  MaxCleans   \* bound: how often the links are removed

ASSUME RegistryAssumption ==
  /\ IsFiniteSet(Proc)
  /\ argv1 \in [Proc -> Name]
  /\ Blank \notin Proc
  /\ MaxCleans \in Nat

VARIABLES
  phase,      \* phase[p]: how far process p has come, see Phase
  link,       \* link[b]: the symbolic link of LAN b is there
  file,       \* file[b]: the process whose address is in ./tmp/b, or Blank
  cleans,     \* how often the links have been removed
  careless    \* history: a bridge ran when they were

registryVars == <<phase, link, file, cleans, careless>>

(* Started and listening; ./tmp/<lan> open; the link made; the address in  *)
(* the file; in the loop; ended after that; ended at symlink().            *)
Phase == {"none", "listening", "opened", "linked", "announced", "serving",
          "over", "failed"}

RegistryTypeOK ==
  /\ phase \in [Proc -> Phase]
  /\ link \in [Name -> BOOLEAN]
  /\ file \in [Name -> Proc \cup {Blank}]
  /\ cleans \in 0 .. MaxCleans
  /\ careless \in BOOLEAN

RegistryInit ==
  /\ phase = [p \in Proc |-> "none"]
  /\ link = [b \in Name |-> FALSE]
  /\ file = [b \in Name |-> Blank]
  /\ cleans = 0
  /\ careless = FALSE

(* IP::host, a list each process has to itself. *)
HostsOfNewProcess == {}
host_exists(hosts, h) == h \in hosts

(* The port listens before anybody is told of it. *)
setup_socket(p) ==
  /\ phase[p] = "none"
  /\ ~host_exists(HostsOfNewProcess, argv1[p])
  /\ phase' = [phase EXCEPT ![p] = "listening"]
  /\ UNCHANGED <<link, file, cleans, careless>>

(* Mutant: what is written reaches the file at once. *)
OpenUnbuffered(p) ==
  /\ phase[p] = "listening"
  /\ phase' = [phase EXCEPT ![p] = "opened"]
  /\ file' = [file EXCEPT ![argv1[p]] = p]
  /\ UNCHANGED <<link, cleans, careless>>

(* out.open() empties the file, also that of another process; the address  *)
(* is written into the buffer of the stream.                               *)
OpenFile(p) ==
  /\ phase[p] = "listening"
  /\ phase' = [phase EXCEPT ![p] = "opened"]
  /\ file' = [file EXCEPT ![argv1[p]] = Blank]
  /\ UNCHANGED <<link, cleans, careless>>

(* Mutant: the result of symlink() is not looked at. *)
SymlinkUnchecked(p) ==
  /\ phase[p] = "opened"
  /\ link' = [link EXCEPT ![argv1[p]] = TRUE]
  /\ phase' = [phase EXCEPT ![p] = "linked"]
  /\ UNCHANGED <<file, cleans, careless>>

(* If there is a link, my_error() calls exit(), which does not destroy the *)
(* stream: the buffer is lost.                                             *)
my_symlink(p) ==
  /\ phase[p] = "opened"
  /\ link' = [link EXCEPT ![argv1[p]] = TRUE]
  /\ phase' = [phase EXCEPT ![p] = IF link[argv1[p]] THEN "failed" ELSE "linked"]
  /\ UNCHANGED <<file, cleans, careless>>

(* create_symlink() returns, and the stream is destroyed, which flushes it.*)
FlushAddress(p) ==
  /\ phase[p] = "linked"
  /\ file' = [file EXCEPT ![argv1[p]] = p]
  /\ phase' = [phase EXCEPT ![p] = "announced"]
  /\ UNCHANGED <<link, cleans, careless>>

EnterLoop(p) ==
  /\ phase[p] = "announced"
  /\ phase' = [phase EXCEPT ![p] = "serving"]
  /\ UNCHANGED <<link, file, cleans, careless>>

(* The loop ends, and main() or a signal the process: nothing is tidied up.*)
Ends(p) ==
  /\ phase[p] = "serving"
  /\ phase' = [phase EXCEPT ![p] = "over"]
  /\ UNCHANGED <<link, file, cleans, careless>>

(* Past symlink() and not ended. *)
Running(p) == phase[p] \in {"linked", "announced", "serving"}

(* "rm cs*", whoever runs. *)
MakeClean ==
  /\ cleans < MaxCleans /\ cleans' = cleans + 1
  /\ careless' = (careless \/ \E p \in Proc : Running(p))
  /\ link' = [b \in Name |-> FALSE]
  /\ UNCHANGED <<phase, file>>

RegistryNext ==
  \/ \E p \in Proc :
       \/ setup_socket(p) \/ OpenFile(p) \/ my_symlink(p)
       \/ FlushAddress(p) \/ EnterLoop(p) \/ Ends(p)
  \/ MakeClean

RegistrySpec == RegistryInit /\ [][RegistryNext]_registryVars
-----------------------------------------------------------------------------
(* The processes started for b that have got past symlink(). *)
Passed(b) ==
  {p \in Proc : argv1[p] = b /\ (Running(p) \/ phase[p] = "over")}

(***************************************************************************)
(* Whatever processes are started for a LAN, however their steps mix and   *)
(* whoever cleans meanwhile, symlink() lets one of them pass, and one more *)
(* for each time the links are removed.  So a bridge that has ended has no *)
(* successor until somebody cleans, since nobody removes its link; and     *)
(* host_exists() does not matter, as a new process knows no host.          *)
(***************************************************************************)
OneBridgePerClean == \A b \in Name : Cardinality(Passed(b)) <= cleans + 1

(***************************************************************************)
(* At most one process past symlink() runs for a LAN at any time, unless   *)
(* the links have been removed while a bridge ran, which the Makefile      *)
(* permits: then a second one passes symlink() beside the first.           *)
(***************************************************************************)
OneBridgePerLan ==
  ~careless =>
    \A p, q \in Proc : Running(p) /\ Running(q) /\ argv1[p] = argv1[q] => p = q

(***************************************************************************)
(* Whoever finds an address in a file finds that of a process of the LAN   *)
(* that has got past symlink() and finished create_symlink(): a process    *)
(* that fails there may empty the file of another one, but nobody is sent  *)
(* to its own port, which is closed.                                       *)
(***************************************************************************)
FoundIsBridge ==
  \A b \in Name :
    file[b] # Blank => /\ argv1[file[b]] = b
                       /\ phase[file[b]] \in {"announced", "serving", "over"}

(***************************************************************************)
(* "Creates the symbolic link to its address and port number so that       *)
(* others (stations/routers) can connect to it." (bridge.hpp): while a     *)
(* bridge serves, its link leads to its address, unless somebody has       *)
(* removed the link meanwhile.                                             *)
(***************************************************************************)
ServingIsFound ==
  ~careless =>
    \A p \in Proc : phase[p] = "serving" => link[argv1[p]] /\ file[argv1[p]] = p
=============================================================================
