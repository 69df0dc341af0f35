# NetworkEmulator in TLA+

This directory holds a formal model of the network emulator in `src/`: TLA+ modules translated from its
C++ code, TLC configurations that check them on small networks, and TLAPS proofs about bridges, the
internetwork and the start of processes for every size of network. Line references are to the files of the repository (`models/…` stands for
`src/src/models/…`).

## 1. The system

A LAN is a process (`bridge`), a station or router is a process (`station`), and a cable is a TCP
connection from an interface of a station to the bridge of its LAN. All processes are single-threaded
and driven by `select`. Frames are `EtherPkt` objects written to the socket as raw bytes.

| component | code | state | operations |
|---|---|---|---|
| Frames and packets | `models/ip.*` | — | `create_req_pkt`, `create_resp_pkt`, `create_pkt` |
| Sockets and wrappers | `common/w_socket.*`, `common/utility.*` | the kernel's connections and queues | connect, accept, read, write, close; wrappers end the process on an error |
| Bridge | `models/bridge.*`, `clientdata.hpp` | `clients_`, `curr_ports_`, `btable_` (per port: MAC → time) | accept or refuse a station, `add_port`, learn, expire (`monitor_arp_cache`), relay or flood, `remove_client`, console |
| ARP cache | `models/ip.cpp` | IP → MAC and time | `has_mapping`, `add_mapping`, `get_mac_for`, `monitor_cache` |
| Station and router loop | `models/station.cpp` 627-743 | `arp_`, `pq_` (packets waiting for an ARP response), the set of ready descriptors | `send`, answer ARP, release a pending packet, deliver, forward, leave at end of file |
| Next hop lookup | `models/station.cpp` 297-366 | routing table (constant) | `get_next_hop` |
| Shipped configuration | `src/src/{hosts,ifaces,rtables}` | — | the seven processes of `README.txt` |
| Station connection set-up | `models/station.cpp` 84-167, 550-563, 580-626 | `ifaces_`, the position and the try of two loops, a descriptor set | look up each bridge; connect, wait for `Accepted`/`Rejected`, five tries, erase what is not accepted |
| LAN registry | `main_bridge.cpp`, `models/bridge.cpp` 26-129, `Makefile` clean | `./tmp/<lan>` and a symbolic link per LAN, shared by all processes | listen, write the address, make the link, look them up, remove the links |
| Command lines, log, build | `main_*.cpp`, `common/utility.*`, `Makefile` | — | — |

**Interactions.** A bridge leaves its address in a file that a symbolic link leads to, and a station reads it
once, when it starts. After that stations and bridges share nothing but the connections. A station that sends looks up
its next hop, takes that one's MAC address from its ARP cache, or queues the packet in `pq_` and
sends a request with an empty destination address. Bridges flood what they find no fresh entry for. A
response is matched with `pq_` by the address of the next hop, and releases *one* packet. A router
passes what is not for itself through the same function. A process that ends closes its connections,
and the other side learns of it by end of file, by an error, or by SIGPIPE, which nothing handles.

**What is hard here.** Turns of many processes interleave with frames in flight. Two caches
(bridge tables and ARP caches) age independently, and are filled by `map::insert`, which neither overwrites
nor renews. Descriptors are reused while the table of their predecessor survives. Each turn of the
bridge serves one thing by a fixed priority, so something may starve. A turn of a station works through a
snapshot of ready interfaces, and state changes in the middle of it. Processes stop while their peers
still write to them, and both sides write with blocking calls. At the start, several bridge processes may work on the same link and file, which `make clean` may remove while they run, and a
station waits for answers with a descriptor set that `select` has overwritten, while it erases from the
vector it goes through.

**What makes each part correct.**

- *Bridge*: the ports it counts are the ports it serves; nobody connected is forgotten; a frame leaves on the
  right ports, unchanged, at most once on each; entries older than `ARP_TIME` are never used; requests are
  always flooded; every frame and every connection request is served in the end.
- *Station*: what its ARP cache says is true; frames carry the MAC address of the interface they leave;
  no pending packet is stuck; it leaves when its bridge is gone.
- *Network*: a message arrives once, at the station it was sent to; the bridges keep coming back to `select`.
- *Registry*: a LAN gets one bridge, and one more for each time its link is removed, never two at once unless it is removed under a bridge; whoever finds an address finds that of a bridge, never
  of a process that failed to become one.
- *Set-up*: it ends; a try fails for a reason, and a slow bridge is none; the main loop uses the accepted interfaces.

`PROJECT.json` lists under `hazards` each place of the code that can go wrong, with the properties that would show it.

## 2. The modules

| module | models | |
|---|---|---|
| `Packets` | `models/ip.*` | frames and the functions that build them; constants for interfaces, LANs, addresses |
| `Sockets` | the TCP connections (external) | `sock`, `up`, `down`, `backlog`; what each end sees after a close, a write to a closed end, a death |
| `Bridge` | `models/bridge.cpp` | one action per kind of turn of `Bridge::start()` |
| `BridgeClients` | `Bridge` with the most general clients | the specification of bridges, its safety and liveness properties |
| `Registry` | `main_bridge.cpp`, constructor of `Bridge`, `make clean` | the steps of a bridge process up to its loop, the files they share |
| `StartUp` | `models/station.cpp` up to line 626 | `Registry` + `BridgeClients` + a station from its constructor to its main loop |
| `Station` | `models/station.cpp` from line 627, `ArpCache` | one action per kind of turn, or one interface's share of it |
| `Network` | `Bridge` + `Station` + users + clock | the emulated internetwork and its properties |
| `DatagramService` | — | the abstract service `Network` implements while nothing expires |
| `Backpressure` | the writes of `bridge.cpp` and `station.cpp` | one LAN with connections of limited size |
| `Routing` | `get_next_hop` | first match under a mask, on numbers |
| `Campus` | `hosts`, `ifaces`, `rtables` | the topology of `README.txt` |
| `MCBridge`, `MCNetwork`, `MCCampus`, `MCStartUp` | — | the instances TLC checks |
| `BridgeInvariance`, `BridgeProofs` | — | theorems about `BridgeClients` |
| `NetworkInvariance`, `NetworkProofs` | — | theorems about `Network`, whatever expires or stops |
| `SettledInvariance`, `SettledProofs` | — | theorems about `Network` while nothing expires or stops |
| `RegistryProofs`, `StartUpProofs` | — | theorems about `Registry` and `StartUp` |

**Composition.** `BridgeClients` specifies bridges with clients that may do anything a socket lets them do in a
turn: read once and write once per connection, meet an error, or end. `StartUp` and `Network` are both shown to be
refinements of it (`StartersAreClients`, `StationsAreClients`, checked by TLC and proved), so what holds of bridges
there holds while stations start, run and stop. `StartUp` also implements `Registry`: a step of a bridge process there is a step in both
modules at once. `MCBridge` gives the same clients budgets for TLC.

### How state and actions correspond to the code

*One turn is one step.* A turn of a bridge reads its descriptors once, and nothing that arrives during
it is looked at, so the whole turn of `Bridge::start()` (290-405) is one action: expiry, then one of
`AcceptClient`, `RejectClient` (300-337), `Console`, `Off` (339-351), `RelayFrame` (353-389),
`remove_client` (390-398), or `BrokenPipe` when a write of the turn ends the process. The priority of the `if`
chain is in the guards (`Serves`). A station's turn may handle several interfaces, and others act in between, so
each interface's share is an action and `read_set` holds what is left of the snapshot.

*Time.* A table entry holds its age instead of the moment it was made, because only the difference to now is ever used.
Ages stop at the first value the code takes for too old (`ArpTime + 1` as the bridge
compares with `>`, `MaxTime` as the station compares with `>=`). `Tick` ages everything by one unit and
may happen between any two steps. `ARP_TIME` and `MAX_TIME` are both 10000 ms.

*Tables.* `btable_` is a map of maps whose outer keys survive their connection. `ports` is the set of
outer keys, `btable[b][p][m]` the age or `Absent`.

*Descriptors.* `Fd` has one more member than there are ports: a refused client holds a descriptor for
the time of its turn. `accept` takes the lowest free one, which is how a new client inherits the table of a former one.

*Connections.* The states of `sock` tell an orderly end (`fin`, `eof`) from a reset (`rst`, `pipe`, and `dead` once its error has been read), because the
code dies of a second write to the former and of the first to the latter. A process that leaves input
unread resets its connections.

*Failed reads.* `read` returning -1 is taken for a frame. If the turn has read one on an earlier interface, it is still in
`recv_ether_pkt` and is handled a second time (`HandleAgain`). Otherwise its type is uninitialized, and `ReadError`
chooses between what each type leads to. This happens only after a bridge is gone; the properties that count copies
(`OneCopy`, `ImplementsService`) are checked where nothing stops.

*Starting.* A bridge process goes through phases: listening, file open, link made, address written, serving. `ofstream` buffers the
address until `create_symlink()` returns (`FlushAddress`), so the file is empty from `OpenFile` to then, and stays empty when
`my_symlink` fails, because `exit()` does not destroy a local stream. `EnterLoop` is a step of its own: the port listens before, so a station
may connect to a process that is not in its loop yet. The kernel gives each process another port, so `file` holds the process instead of
address and port, and a later write covers an earlier one, as the text has the same length for ports of five digits.
`host_exists()` is asked of the empty list of a new process. `MakeClean` removes all links, whoever runs, and notes in the history variable `careless` if a bridge ran.

*Ends and bridges.* Since links can be removed, a LAN may have several bridges, one after the other or at once, and a station is connected to the one whose
address it found. In `StartUp` the set `Lan` of `Bridge` is therefore `Proc`, the bridge processes, and a member of `Iface` is an *end*: a card of a
station together with the process its socket leads to (`End(k)`). `net` gives the LAN name of a card and `EndsAssumption` says that ends
lead to processes of that name. In `Network`, which begins connected, each LAN has its one bridge.

*Connecting.* `connect` is called in every try and its result ignored; only one on a socket without a connection, to a
port that listens, has an effect (`Dials`). `Select` keeps of `read_set` what is ready, and the next try waits for that. A read
that finds nothing counts as a try as well. `IfaceErased` is `vector::erase`, after which `pos` still moves on. `HasInput` and `Readable` say what
`select` finds ready. `sleep(2)` and the non-blocking flag have no state.

*Limited buffers.* In `Backpressure` a call of `write` and its return are two steps, and between them the process
does nothing else; the bridge writes to one client after the other.

*No route.* Without a route `send_ether_pkt` dereferences a null pointer, and the process ends.

*Spelling.* `README.txt` calls the command "quit"; the programs accept "off". The actions are called `Off`.

## 3. The runs

| run | states | question and answer |
|---|---|---|
| `bridge_safety` | 646 753 (with symmetry) | Three clients compete for two ports, connect, send, leave in every way, reconnect, while entries expire. `PortsConsistent`, `BacklogConsistent`, `NoOneForgotten`, `RequestsAreFlooded`, `ForwardsOnFreshEntries`, `RelaysOnly` and `TypeOK` hold. |
| `bridge_liveness` | 267 940 | With `MCFairSpec`, three clients, two ports and a refusal, and frames of two or three clients that compete for the turns of the bridge: every frame is read (`FramesAreServed`) and every request answered (`RequestsAreAnswered`), whatever the priorities. |
| `net_young` | 36 536 | Two messages between any addresses of two LANs and a router, while everything ages and nothing expires: `OneCopy`, `PendingHasRequest`, `MessagesArrive`, and the network implements `DatagramService` (`ImplementsService`). |
| `net_aged` | 91 600 | The same with both caches expiring at any moments: `NetworkTypeOK`, `ArpTruth` and `SourceMacIsOwn` hold although frames are flooded and sent astray. |
| `net_stops` | 26 719 | A user ends a process or closes its console, or a packet without a route ends a router: `DeparturesNoticed`, `BridgeLossEndsStations`; failed reads, doubled handling and ends are turns of clients (`StationsAreClients`). |
| `campus` | 2 495 | The shipped topology and routing tables: one message between any two addresses arrives, once. The module assumes `WellConfigured` of the shipped files, which TLC evaluates. |
| `startup` | 571 440 | Three bridge processes for two LANs start, fail, refuse, serve and end, the links are removed once at any moment, the user types, another program takes ports and sends, and a station connects three cards, the first and the last to the same LAN: `OneBridgePerClean`, `OneBridgePerLan`, `FoundIsBridge`, `UnacceptedBehindErased`, `TriesFailForAReason`, `SetUpEnds`, `StartersAreClients`, `StartTypeOK` hold. |
| `bridge_learning`, `net_sender`, `startup_found`, `startup_used`, `backpressure` | — | Violations: see section 4. |

**Bounds.** `Budget` (frames), `Dials` (connections), `Starts` (bridge processes), `MaxUp` (frames in flight per client), `MaxNow`
(ticks), `MaxStops`, `MaxCleans`, `MaxDown` (frames waiting at an interface), `MaxTyped` (commands) and the sets `Data` (each content is sent once) and `Dest` (where the clients of `MCBridge` send)
are the only bounds, and each is in a guard of the environment: nothing in the code's own actions is cut off. `Tries` is a constant of the code, 5.

- Two ports and three clients are the least with a full bridge, a refused client, and a flood whose
  targets differ from its source. Four dials let a client leave, another take its descriptor, and a third
  be refused. Two frames let the first teach the bridge what the second uses; `ArpTime = 1` lets an
  entry be fresh, old enough to be at the limit, and too old. Ages saturate, so the clock of `bridge_safety` needs no bound.
- Two messages in `net_young` let the second overtake the first, share its ARP request's target, or use its mapping.
  One tick makes entries old without reaching an expiry (`ArpTime = 1`, `MaxTime = 2`), which is `NothingExpires`, the assumption of those
  properties; in `campus` the clock is off. The interfaces connect in one order: each LAN has two, and no table has an entry yet.
- In `net_aged` one tick is enough for both caches (`ArpTime = 0`, `MaxTime = 1`), and each process notices it at a moment of
  its own, in either order, while messages are in flight. The interfaces connect in one order; tables are per port.
- `net_stops` has one stop. Others follow of themselves: a bridge takes its stations, a packet its router.
- `bridge_liveness` has three frames between three clients, one per client under way: while the frame of one waits, another may be served and send again, and the
  third may follow. All are without a destination, so flooded; what a turn does with its frame has no influence on whose frame the next turn reads.
  Three dials make the third client refused, or let it follow one that has left.
- `startup` has two processes for LAN 1, so that one may fail or follow the other or, after a clean, run beside it (one clean is one more than a LAN needs for a second bridge), and two ports, so that the second card of the station on LAN 1
  is refused when the other program got there first. Three interfaces are the least with one erased, one skipped and one after it. `Tries = 2` has a first
  try, a repetition with the set `select` left, and the end; the proofs are for every number.
- `backpressure` has two stations and room for one frame per direction. Larger buffers take more commands.
- `campus` has one message because two make it too large. `net_young` has two.

**Fairness.** `WF` of `BridgeStep`, `StationTurn` and, in `StartUp`, `BridgeTurn`, `EnterLoop` and `StationStep`: `select` without a time limit returns when a descriptor is
ready, the operating system runs a process that is ready, and from the flush of its address to its loop a bridge waits for nobody. Weak fairness is enough because what is ready stays so.
In `Backpressure` a write that finds room returns.
No fairness is assumed of users, other clients, the clock, console turns, or the steps of a bridge process before its address is known. Priority can
starve clients if frames or requests never end (hazard at `bridge.cpp:354`); the properties are about finitely many,
which `Budget` and `Dials` provide. A console at end of file is always ready and starves everything else;
the liveness properties name that case as an exception instead of assuming it away.

**Deadlock** is checked except in `net_stops` and `startup`, where all processes may have ended, and in `backpressure`, whose stuck
states are what `ActivelyListens` is about.

**Mutants.** Each property of a passing run is paired with a plausible bug (a dropped erase, an off-by-one in the limit,
a wrong match in `pq_`, …) that TLC finds by it. The mutated operators stand next to the
definition they replace, marked "Mutant".

## 4. Where code and documentation disagree

1. `bridge_learning` — `add_arp_entry` is documented to enter the *incoming* station's address (`bridge.hpp:68-75`). After a flood
   the code enters the frame's *destination* for the port it came from (`bridge.cpp:373`). Until the entry expires, frames for that
   station are sent back to where the first one came from, so a lost station looks as if it had moved.
2. `net_sender` — a router that knows the next hop's MAC address replaces the packet's source by its own address (`station.cpp:235`);
   the receiver shows "From R1-cs2". The pending path keeps the source.
3. `startup_found` — the link is there "so that others (stations/routers) can connect" (`bridge.hpp:99`). A second bridge of the same name empties
   the address file (`bridge.cpp:73`) and then fails at `symlink`: the first one serves on, but no new station finds it,
   although nobody has removed a link while a bridge ran (`careless`).
4. `startup_used` — "Connect to bridges" (`station.cpp:592`) skips the interface behind an erased one (`station.cpp:620`). It is never connected,
   nothing is printed about it, and the main loop uses it. `UnacceptedBehindErased` is what does hold.
5. `backpressure` — the bridge "actively listens" (`bridge.cpp:294`). Its write to a station whose buffer is full blocks
   (`bridge.cpp:367`, `380`); if that station is itself writing to the full buffer of the bridge, neither ever reads again.

## 5. The proofs

TLAPS proves every safety property of `bridge_safety`, `net_young`, `net_aged` and `startup`, and `StationsAreClients` of `net_stops`, for all values of the constants: any number of
interfaces, LANs, stations, routers and bridge processes, any port limit, ages, routes, number of tries, and any traffic.

**Assumptions.** `PacketsAssumption` (the constants have their types; `NoIface` and `NoMac` are not an interface or a MAC address),
`BridgeAssumption` (the numbers are naturals), `StationAssumption` and `NetworkAssumption` (every interface belongs to one station and to no other, those of one station have different
addresses, routes lead to own interfaces or none), `RegistryAssumption` (finitely many processes, each with a LAN name), `StartUpAssumption` (the interface file is not empty and names no card twice), `EndsAssumption`
(ends of a card lead to the processes of its LAN, and the station may be connected to each of them).
Besides these, and only where they are named,

- `SourcesAreOwn` assumes `RoutesAreLocal`: the next hop of a route is a neighbour on no other LAN of the station.
- the theorems of `SettledInvariance` and `SettledProofs` assume `WellConfigured` and `NothingExpires`. The former is about the files: no IP or MAC
  address is used twice, a station has one interface per LAN, and each station's route to a host leads to a neighbour that is a router or
  that host. Routes may form loops; what is proved does not need that a message ever arrives. The latter: nobody ends (`MaxStops = 0`), and
  the clock stays below the age at which either cache forgets. It bounds the time, not the number of messages, frames or turns.

`MCNetwork` states `RoutesAreLocal` and `WellConfigured` as assumptions of its network, `MCCampus` states `WellConfigured` and `NothingExpires`
of the shipped files, and TLC evaluates both. So `OneCopy`, which `campus` checks for one message, is proved there for any number of them.
Without `WellConfigured` the properties do fail: a packet routed to a station that is neither its destination nor a router is
dropped, which breaks `OneCopy`, and two stations with one IP address both answer a request, which breaks `PendingHasRequest`.

### Bridges

The inductive invariant (`BridgeInvariance`) is `IInv == TypeOK /\ PortsConsistent /\ BacklogConsistent`. No
part is inductive alone:

- `TypeOK` needs `PortsConsistent`: a turn reads `up[Client(b, j)]`, which is a sequence of frames only if the descriptor leads to an interface.
- `PortsConsistent` needs `BacklogConsistent`: the interface a new port leads to must not have one already.
- `BacklogConsistent` needs the socket states in `PortsConsistent`: an interface that dials anew is `idle`, so it is not served.

`Accepted` and `Removed` say what a new and a removed client do to `clients_` position by position: `vector::erase`
moves everything behind it (`RemoveAtProperties`). `TypeStep`, `PortsStep`, `BacklogStep` then go through the actions.
`MinIsMember` shows from well-foundedness that the first matching port exists.

| theorem | |
|---|---|
| `Invariance` | `Spec => []IInv` |
| `TypeCorrect`, `PortsAreConsistent`, `BacklogIsConsistent` | its parts |
| `RequestsFlooded` | by `NoMacUnlearned`: *no* descriptor, in use or not, has the empty address, since a table is inherited |
| `NoneForgotten` | by `Remembered`, inductive relative to `IInv`, for one interface at a time |
| `ForwardsFresh` | every step relays to all others, or to one with an entry of age at most `ArpTime` |
| `RelaysNothingElse` | every step writes frames that were read, once per port, or one answer |

### The internetwork

`NInv` (`NetworkInvariance`) adds to `IInv` the types of the stations and five facts about them.

- `IInv` needs no second proof. `ClientStep` shows that every step of the network is one of `BridgeClients`. This needs
  `Held`: a running process has closed none of its sockets, so a close is always the first one.
- `ArpTruth` is not inductive, because a cache believes frames. `FramesTrue` says it of every frame on its way, and bridges keep it
  because a port never leads to another LAN (`PortsConsistent`). `CachesTrue` says it of the frame a failed read may hand out again.
- `PendingRouted`: a packet waits for the next hop of a route through its interface. With `RoutesAreLocal` the response can only come
  in there, which makes `SourceMacIsOwn` true; `KeptInTurn` covers the response that a failed read hands to another interface.

`BridgesServeStations` carries every safety property of `BridgeClients` over to the network; `NoOneForgotten` and `RequestsAreFlooded` need a new
base case (`NetworkRemembers`), since the network begins connected. `StartUp` begins as `BridgeClients` does, so `BridgesServeStarters` follows at once.

### While nothing expires

That no message is lost or doubled depends on all parts at once: a bridge that has not learned an address floods the frame, and then
several stations get it. The invariant has to say why that never happens to a frame that carries a message.

`YInv` (`SettledInvariance`) is inductive relative to `NInv`, and has these parts.

- `Calm`, `Ready`, `Served`: nobody stops, what is left of a snapshot has input, and every interface has a port. So no read fails.
- `TablesTrue`: a port's table has no entry but the station's own address. This is what finding 1 seems to break, since `add_arp_entry` after a
  flood enters the *destination* at the source's port. It does not, because only requests are flooded, and their destination is empty.
- `CachesLearned`: a station has the MAC address of somebody only if that one's bridge has it as well. This ties the two caches together.
- `Flows` says of every queue who may have sent what is in it, and to whom. A response or packet goes to somebody the bridge has learned
  (`Sound`), so exactly one port gets it (`RelayTargets`), and that one can use it (`Heard`): it is a router or the destination, or, for a response,
  the station that asked.

`YoungStep` shows that every step is one of eight `Event`s (`Relayed`, `Submitted`, `Forwarded`, `Delivered`, `Answered`, `Unpended`, `Dropped`, or nothing
on its way changes). All further proofs go through these and not through the actions again.

- *Counting.* `OneCopy` and `PendingHasRequest` count frames in queues. `CountAppend`, `CountTail` and `CountRemoveAt` say how `HowMany` changes when a queue
  grows, is served or loses an element in its middle, for every kind of element at once.
- *One copy.* An event leaves a message at its place, moves it to one other, or lets it appear (`MessageEvents`). So it is always at one place, once (`OneHolder`),
  and `OneCopy` says the same with one cardinality over all places.
- *The service.* `Delivered` is `Show`, because a frame that is on its way has not been shown (`HeldNotShown`), and every other event leaves `Inbox` alone.
- *No packet is stuck.* For interfaces i and k of two stations the packets that wait at i for k are as many as the requests and responses between the two. Each event changes both
  sides alike (`BalanceStays`). A response for which nothing waits would be dropped and break the equation; the equation itself excludes it, as one
  side would be zero (`DroppedBalance`).

### The start

`RegistryInv` (`RegistryProofs`) is about bridge processes alone. `OneBridgePerClean` is not inductive: a process may pass when there is no link, so the count must
then be one lower. `PassedCounted` says both, `cleans + 1` with the link and `cleans` without; `my_symlink` trades the one for the other, and a clean
raises the bound as it removes the link (`SymlinkCounted`, by cardinalities).

Nothing keeps users from running `make clean` while a bridge serves, and a second bridge of its LAN then starts beside it. `OneBridgePerLan` says that this is
the only way to two bridges at once: the history variable `careless` records that links were removed while a bridge ran, and until then the link of a running bridge is
there (`LinksHeld`), so no other passes. No theorem assumes how users behave; `OneBridgePerClean` and `FoundIsBridge` hold after a careless clean too.

`SInv` (`StartUpProofs`) is `IInv /\ RegistryInv /\ Listening /\ StationInv /\ OrderInv`.

- `Listening` ties phases to `alive`: a port can be dialled from the flush of the address to the end. `ProcessesAreRegistered` shows that every step of a bridge process is one of
  `Registry`, so `RegistryInv` needs no second proof.
- `StationInv`: what the station has dialled it has not closed, no `Rejected` comes without the end of the connection behind it, and whoever reads was woken by
  something in `read_set`, which is still ready (`TriesFailForAReason`).
- `OrderInv`: the part of `ifaces_` the loop has not reached is the end of the file, whatever was erased before it; what it has passed is accepted or
  behind something erased.

| theorem | |
|---|---|
| `NetworkInvariant`, `RegistryInvariant`, `StartInvariant` | the inductive invariants |
| `NetworkTypeCorrect`, `StartTypeCorrect` | types |
| `StationsKeepToClients`, `StartersKeepToClients` | both compositions implement `BridgeClients` |
| `StartersAreRegistered` | `StartUp` implements `Registry`, with what holds there |
| `BridgesServeStations`, `BridgesServeStarters` | what that gives |
| `ArpCachesAreTrue`, `SourcesAreOwn` | `ArpTruth`; `SourceMacIsOwn` from `RoutesAreLocal` |
| `YoungInvariant`, `OneHolderInvariant` | the inductive invariants while nothing expires |
| `NetworkOneCopy`, `NetworkPendingHasRequest` | no message lost or doubled; no packet stuck |
| `NetworkImplementsService` | the refinement of `DatagramService` |
| `OneBridgeForEachClean`, `FilesLeadToBridges`, `OneBridge` | the registry, whoever cleans, and until a clean falls in the life of a bridge |
| `UnacceptedAreBehindErased`, `TriesHaveReasons` | the loop that connects |

### Only model-checked

Liveness (`FramesAreServed`, `RequestsAreAnswered`, `MessagesArrive`, `SetUpEnds`, `DeparturesNoticed`, `BridgeLossEndsStations`) and anything with ENABLED are out of
the prover's reach. Routing uses bitwise operators, which cannot be used in a module with theorems: that the shipped tables are
`WellConfigured` is evaluated by TLC (an assumption of `MCCampus`). The five violations of section 4 are TLC's.

## 6. What is not modelled

- *Partial reads.* A frame is read and written as one unit. `read` may in fact return part of a frame, and the read for the answer (up to 100
  bytes for nine) may take the beginning of the frame behind it (`station.cpp:606`), after which every later frame is read out of step. In `StartUp` a rest
  stays and counts as the frame.
- *Limits of `Backpressure`.* It has no expiry, no ends and one LAN; `Network` has unlimited buffers.
- *Long messages.* The raw bytes of a `std::string` hold its text only while it fits in the object
  (22 characters with libc++); `Data` stands for such messages.
- *Loading of hosts and routes*: done once at the start. Their content is in `Campus`.
- *Several stations starting at once*: `StartUp` has one in detail, and others as general clients.
- *Command lines, logging, printing*: wording only. Which packets are shown is modelled (`shown`).

## 7. Plan

1. (done) `Packets`, `Sockets`, `Bridge`, `BridgeClients`, `Station`, `Network`, `DatagramService`, `Routing`, `Campus`; proofs of the bridge.
2. (done) `Registry` and `StartUp`: how bridges announce themselves, and how a station finds and connects to them.
3. (done) `BridgeClients` as the specification that `Network` and `StartUp` implement; proofs of both, and of the properties above.
4. (done) `Backpressure`: limited buffers.
5. Frames that are read in pieces: a stream of halves in `Sockets`, and which steps then lose the boundary.
6. (done) `YInv`, and from it `OneCopy`, `PendingHasRequest` and the refinement of `DatagramService`.
