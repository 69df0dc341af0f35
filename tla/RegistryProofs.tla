--------------------------- MODULE RegistryProofs ---------------------------
(***************************************************************************)
(* What bridge processes of one name do to each other, for every number of *)
(* processes, LANs and cleans and every order of their steps.              *)
(*                                                                         *)
(* RegistryInv counts: as long as the link of a LAN is there, every        *)
(* process past symlink() but one has a clean of its own, and without the  *)
(* link that one has one too.  Until links are removed while a bridge      *)
(* runs, it also says that the link of a running bridge is there.          *)
(***************************************************************************)
EXTENDS Registry, FiniteSetTheorems, TLAPS

PassedCounted ==
  \A b \in Name : /\ link[b] => Cardinality(Passed(b)) <= cleans + 1
                  /\ ~link[b] => Cardinality(Passed(b)) <= cleans

LinksHeld == ~careless => \A p \in Proc : Running(p) => link[argv1[p]]

RegistryInv ==
  RegistryTypeOK /\ FoundIsBridge /\ PassedCounted /\ LinksHeld /\ OneBridgePerLan
-----------------------------------------------------------------------------
(* The constants and variables in their sets. *)
LEMMA RegistryFacts ==
  ASSUME RegistryTypeOK
  PROVE  /\ phase \in [Proc -> Phase] /\ link \in [Name -> BOOLEAN]
         /\ file \in [Name -> Proc \cup {Blank}] /\ cleans \in Nat /\ MaxCleans \in Nat
         /\ argv1 \in [Proc -> Name] /\ Blank \notin Proc
         /\ \A b \in Name : IsFiniteSet(Passed(b)) /\ Cardinality(Passed(b)) \in Nat
<1>1. \A b \in Name : Passed(b) \subseteq Proc
  BY DEF Passed
<1>2. \A b \in Name : IsFiniteSet(Passed(b))
  BY <1>1, RegistryAssumption, FS_Subset
<1>3. QED
  BY <1>2, RegistryAssumption, FS_CardinalityType DEF RegistryTypeOK

(* Every step keeps the variables in their sets. *)
LEMMA RegistryTypeStep ==
  ASSUME RegistryTypeOK, [RegistryNext]_registryVars
  PROVE  RegistryTypeOK'
<1>0. /\ phase \in [Proc -> Phase] /\ link \in [Name -> BOOLEAN]
      /\ file \in [Name -> Proc \cup {Blank}] /\ cleans \in 0 .. MaxCleans
      /\ careless \in BOOLEAN /\ MaxCleans \in Nat /\ argv1 \in [Proc -> Name]
  BY RegistryFacts DEF RegistryTypeOK
<1>1. ASSUME NEW p \in Proc,
             \/ setup_socket(p) \/ OpenFile(p) \/ my_symlink(p)
             \/ FlushAddress(p) \/ EnterLoop(p) \/ Ends(p)
      PROVE  RegistryTypeOK'
  <2>1. \E s \in Phase : phase' = [phase EXCEPT ![p] = s]
    BY <1>1 DEF setup_socket, OpenFile, my_symlink, FlushAddress, EnterLoop, Ends, Phase
  <2>2. link' = link \/ link' = [link EXCEPT ![argv1[p]] = TRUE]
    BY <1>1 DEF setup_socket, OpenFile, my_symlink, FlushAddress, EnterLoop, Ends
  <2>3. \/ file' = file
        \/ \E f \in {p, Blank} : file' = [file EXCEPT ![argv1[p]] = f]
    BY <1>1 DEF setup_socket, OpenFile, my_symlink, FlushAddress, EnterLoop, Ends
  <2>4. UNCHANGED <<cleans, careless>>
    BY <1>1 DEF setup_socket, OpenFile, my_symlink, FlushAddress, EnterLoop, Ends
  <2>5. phase' \in [Proc -> Phase]
    BY <1>0, <2>1
  <2>6. link' \in [Name -> BOOLEAN]
    BY <1>0, <2>2
  <2>7. file' \in [Name -> Proc \cup {Blank}]
    BY <1>0, <2>3
  <2>8. QED
    BY <1>0, <2>4, <2>5, <2>6, <2>7 DEF RegistryTypeOK
<1>2. CASE MakeClean
  BY <1>0, <1>2 DEF MakeClean, RegistryTypeOK
<1>3. CASE UNCHANGED registryVars
  BY <1>0, <1>3 DEF registryVars, RegistryTypeOK
<1>4. QED
  BY <1>1, <1>2, <1>3 DEF RegistryNext

(* Steps after which the same processes are past symlink() as before. *)
LEMMA SamePassed ==
  ASSUME PassedCounted, UNCHANGED <<link, cleans>>, \A b \in Name : Passed(b)' = Passed(b)
  PROVE  PassedCounted'
BY DEF PassedCounted

(* symlink() lets nobody pass while the link is there, and one process     *)
(* when it is not.                                                         *)
LEMMA SymlinkCounted ==
  ASSUME RegistryInv, NEW p \in Proc, my_symlink(p)
  PROVE  PassedCounted'
<1> DEFINE c == argv1[p]
<1>0. /\ phase[p] = "opened" /\ c \in Name /\ UNCHANGED cleans /\ cleans \in Nat
      /\ link' = [link EXCEPT ![c] = TRUE] /\ link \in [Name -> BOOLEAN]
      /\ phase' = [phase EXCEPT ![p] = IF link[c] THEN "failed" ELSE "linked"]
      /\ phase \in [Proc -> Phase]
  BY RegistryFacts DEF my_symlink, RegistryInv
<1>1. p \notin Passed(c)
  BY <1>0 DEF Passed, Running
<1>2. ASSUME NEW b \in Name
      PROVE  Passed(b)' = IF b = c /\ ~link[c] THEN Passed(b) \cup {p} ELSE Passed(b)
  BY <1>0, <1>2 DEF Passed, Running
<1>3. ASSUME NEW b \in Name
      PROVE  /\ link'[b] => Cardinality(Passed(b)') <= cleans + 1
             /\ ~link'[b] => Cardinality(Passed(b)') <= cleans
  <2>1. /\ link[b] => Cardinality(Passed(b)) <= cleans + 1
        /\ ~link[b] => Cardinality(Passed(b)) <= cleans
        /\ IsFiniteSet(Passed(b)) /\ Cardinality(Passed(b)) \in Nat
    BY <1>3, RegistryFacts DEF RegistryInv, PassedCounted
  <2>2. CASE b = c /\ ~link[c]
    <3>1. Cardinality(Passed(b) \cup {p}) = Cardinality(Passed(b)) + 1
      BY <1>1, <2>1, <2>2, FS_AddElement
    <3>2. Passed(b)' = Passed(b) \cup {p}
      BY <1>2, <2>2
    <3>3. Cardinality(Passed(b)') = Cardinality(Passed(b)) + 1
      BY <3>1, <3>2
    <3>4. link'[b] /\ Cardinality(Passed(b)) <= cleans
      BY <1>0, <2>1, <2>2
    <3>5. QED
      BY <1>0, <2>1, <3>3, <3>4
  <2>3. CASE b = c /\ link[c]
    BY <1>0, <1>2, <2>1, <2>3
  <2>4. CASE b # c
    BY <1>0, <1>2, <2>1, <2>4
  <2>5. QED
    BY <2>2, <2>3, <2>4
<1>4. QED
  BY <1>0, <1>3 DEF PassedCounted

(* Running bridges keep their links to themselves, up to a careless clean. *)
LEMMA LinksStep ==
  ASSUME RegistryInv, [RegistryNext]_registryVars
  PROVE  LinksHeld' /\ OneBridgePerLan'
<1>0. /\ phase \in [Proc -> Phase] /\ link \in [Name -> BOOLEAN]
      /\ argv1 \in [Proc -> Name]
      /\ ~careless => \A p \in Proc : Running(p) => link[argv1[p]]
      /\ ~careless => \A p, q \in Proc :
           Running(p) /\ Running(q) /\ argv1[p] = argv1[q] => p = q
  BY RegistryFacts DEF RegistryInv, LinksHeld, OneBridgePerLan
<1>1. ASSUME NEW p \in Proc,
             \/ setup_socket(p) \/ OpenFile(p) \/ FlushAddress(p) \/ EnterLoop(p) \/ Ends(p)
      PROVE  LinksHeld' /\ OneBridgePerLan'
  <2>1. UNCHANGED <<link, careless>> /\ \A q \in Proc : Running(q)' => Running(q)
    BY <1>0, <1>1 DEF setup_socket, OpenFile, FlushAddress, EnterLoop, Ends, Running
  <2>2. QED
    BY <1>0, <2>1 DEF LinksHeld, OneBridgePerLan
<1>2. ASSUME NEW p \in Proc, my_symlink(p)
      PROVE  LinksHeld' /\ OneBridgePerLan'
  <2>1. /\ link' = [link EXCEPT ![argv1[p]] = TRUE] /\ UNCHANGED careless
        /\ \A q \in Proc : Running(q)' => Running(q) \/ (q = p /\ ~link[argv1[p]])
    BY <1>0, <1>2 DEF my_symlink, Running
  <2>2. LinksHeld'
    BY <1>0, <2>1 DEF LinksHeld
  <2>3. OneBridgePerLan'
    BY <1>0, <2>1 DEF OneBridgePerLan
  <2>4. QED
    BY <2>2, <2>3
<1>3. CASE MakeClean
  <2>1. ~careless' => \A p \in Proc : ~Running(p)
    BY <1>3 DEF MakeClean
  <2>2. \A p \in Proc : Running(p)' <=> Running(p)
    BY <1>3 DEF MakeClean, Running
  <2>3. QED
    BY <2>1, <2>2 DEF LinksHeld, OneBridgePerLan
<1>4. CASE UNCHANGED registryVars
  <2>1. UNCHANGED <<phase, link, careless>>
    BY <1>4 DEF registryVars
  <2>2. QED
    BY <1>0, <2>1 DEF Running, LinksHeld, OneBridgePerLan
<1>5. QED
  BY <1>1, <1>2, <1>3, <1>4 DEF RegistryNext

(* Every step of every process, and every clean, keeps RegistryInv. *)
LEMMA RegistryStep ==
  ASSUME RegistryInv, [RegistryNext]_registryVars
  PROVE  RegistryInv'
<1>0. /\ phase \in [Proc -> Phase] /\ link \in [Name -> BOOLEAN]
      /\ file \in [Name -> Proc \cup {Blank}] /\ cleans \in Nat
      /\ argv1 \in [Proc -> Name] /\ Blank \notin Proc
      /\ \A b \in Name : Cardinality(Passed(b)) \in Nat
  BY RegistryFacts DEF RegistryInv
<1>1. \A b \in Name : file[b] # Blank =>
        argv1[file[b]] = b /\ phase[file[b]] \in {"announced", "serving", "over"}
  BY DEF RegistryInv, FoundIsBridge
<1>2. RegistryTypeOK' /\ LinksHeld' /\ OneBridgePerLan'
  BY RegistryTypeStep, LinksStep DEF RegistryInv
<1>3. ASSUME NEW p \in Proc, setup_socket(p) \/ OpenFile(p)
      PROVE  FoundIsBridge' /\ PassedCounted'
  <2>1. FoundIsBridge'
    BY <1>0, <1>1, <1>3 DEF setup_socket, OpenFile, FoundIsBridge
  <2>2. /\ phase[p] \in {"none", "listening"} /\ UNCHANGED <<link, cleans>>
        /\ phase' = [phase EXCEPT ![p] = "listening"]
             \/ phase' = [phase EXCEPT ![p] = "opened"]
    BY <1>3 DEF setup_socket, OpenFile
  <2>3. \A b \in Name : Passed(b)' = Passed(b)
    BY <1>0, <2>2 DEF Passed, Running
  <2>4. QED
    BY <2>1, <2>2, <2>3, SamePassed DEF RegistryInv
<1>4. ASSUME NEW p \in Proc, my_symlink(p)
      PROVE  FoundIsBridge' /\ PassedCounted'
  <2>1. FoundIsBridge'
    BY <1>0, <1>1, <1>4 DEF my_symlink, FoundIsBridge
  <2>2. QED
    BY <1>4, <2>1, SymlinkCounted
<1>5. ASSUME NEW p \in Proc, FlushAddress(p) \/ EnterLoop(p) \/ Ends(p)
      PROVE  FoundIsBridge' /\ PassedCounted'
  <2>1. FoundIsBridge'
    BY <1>0, <1>1, <1>5 DEF FlushAddress, EnterLoop, Ends, FoundIsBridge
  <2>2. /\ phase[p] \in {"linked", "announced", "serving"} /\ UNCHANGED <<link, cleans>>
        /\ \E s \in {"announced", "serving", "over"} : phase' = [phase EXCEPT ![p] = s]
    BY <1>5 DEF FlushAddress, EnterLoop, Ends
  <2>3. \A b \in Name : Passed(b)' = Passed(b)
    BY <1>0, <2>2 DEF Passed, Running
  <2>4. QED
    BY <2>1, <2>2, <2>3, SamePassed DEF RegistryInv
<1>6. CASE MakeClean
  <2>1. /\ link' = [b \in Name |-> FALSE] /\ cleans' = cleans + 1 /\ UNCHANGED <<phase, file>>
    BY <1>6 DEF MakeClean
  <2>2. \A b \in Name : Passed(b)' = Passed(b)
    BY <2>1 DEF Passed, Running
  <2>3. \A b \in Name : Cardinality(Passed(b)) <= cleans + 1
    BY <1>0 DEF RegistryInv, PassedCounted
  <2>4. QED
    BY <1>1, <1>2, <2>1, <2>2, <2>3 DEF RegistryInv, FoundIsBridge, PassedCounted
<1>7. CASE UNCHANGED registryVars
  <2>1. UNCHANGED <<phase, link, file, cleans>>
    BY <1>7 DEF registryVars
  <2>2. \A b \in Name : Passed(b)' = Passed(b)
    BY <2>1 DEF Passed, Running
  <2>3. QED
    BY <1>1, <1>2, <2>1, <2>2, SamePassed DEF RegistryInv, FoundIsBridge
<1>8. QED
  BY <1>2, <1>3, <1>4, <1>5, <1>6, <1>7 DEF RegistryNext, RegistryInv

(* At first nothing has been started, made or written. *)
LEMMA RegistryInitInv == RegistryInit => RegistryInv
<1> SUFFICES ASSUME RegistryInit
             PROVE  RegistryInv
  OBVIOUS
<1>0. \A p \in Proc : ~Running(p)
  BY DEF RegistryInit, Running
<1>1. RegistryTypeOK /\ FoundIsBridge /\ LinksHeld /\ OneBridgePerLan
  <2>1. RegistryTypeOK
    <3>1. careless \in BOOLEAN
      BY DEF RegistryInit
    <3>2. /\ phase \in [Proc -> Phase] /\ link \in [Name -> BOOLEAN]
          /\ file \in [Name -> Proc \cup {Blank}]
      BY DEF RegistryInit, Phase
    <3>3. cleans \in 0 .. MaxCleans
      BY RegistryAssumption DEF RegistryInit
    <3>4. QED
      BY <3>1, <3>2, <3>3 DEF RegistryTypeOK
  <2>2. FoundIsBridge
    BY DEF RegistryInit, FoundIsBridge
  <2>3. QED
    BY <1>0, <2>1, <2>2 DEF LinksHeld, OneBridgePerLan
<1>2. \A b \in Name : Passed(b) = {}
  BY DEF RegistryInit, Passed, Running
<1>3. PassedCounted
  BY <1>2, FS_EmptySet DEF RegistryInit, PassedCounted
<1>4. QED
  BY <1>1, <1>3 DEF RegistryInv

(***************************************************************************)
(* The inductive invariant of links and files (create_symlink()), whoever  *)
(* starts, ends or cleans.                                                 *)
(***************************************************************************)
THEOREM RegistryInvariant == RegistrySpec => []RegistryInv
<1>1. RegistryInv /\ [RegistryNext]_registryVars => RegistryInv'
  BY RegistryStep
<1>2. QED
  BY <1>1, RegistryInitInv, PTL DEF RegistrySpec

(***************************************************************************)
(* Of any number of processes started for a LAN, symlink() lets at most    *)
(* one pass, and one more for each "make clean", at whatever moment.       *)
(***************************************************************************)
THEOREM OneBridgeForEachClean == RegistrySpec => []OneBridgePerClean
<1>1. RegistryInv => OneBridgePerClean
  <2> SUFFICES ASSUME RegistryInv, NEW b \in Name
               PROVE  Cardinality(Passed(b)) <= cleans + 1
    BY DEF OneBridgePerClean
  <2>1. link[b] \in BOOLEAN /\ cleans \in Nat /\ Cardinality(Passed(b)) \in Nat
    BY RegistryFacts DEF RegistryInv
  <2>2. QED
    BY <2>1 DEF RegistryInv, PassedCounted
<1>2. QED
  BY <1>1, RegistryInvariant, PTL

(***************************************************************************)
(* The buffer of create_symlink() is flushed only by a process that goes   *)
(* on, so no file ever holds the address of one that failed.               *)
(***************************************************************************)
THEOREM FilesLeadToBridges == RegistrySpec => []FoundIsBridge
<1>1. RegistryInv => FoundIsBridge
  BY DEF RegistryInv
<1>2. QED
  BY <1>1, RegistryInvariant, PTL

(***************************************************************************)
(* As long as no "make clean" falls in the life of a bridge, symlink()     *)
(* keeps the bridges of a LAN apart, in any interleaving of any number of  *)
(* starts.                                                                 *)
(***************************************************************************)
THEOREM OneBridge == RegistrySpec => []OneBridgePerLan
<1>1. RegistryInv => OneBridgePerLan
  BY DEF RegistryInv
<1>2. QED
  BY <1>1, RegistryInvariant, PTL
=============================================================================
