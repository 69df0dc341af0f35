--------------------------- MODULE SettledProofs ---------------------------
(***************************************************************************)
(* What a network without mistakes in its files promises while nothing     *)
(* expires and no process stops, from the invariant YInv: no message is    *)
(* lost or doubled, and no packet waits for an answer that never comes.    *)
(*                                                                         *)
(* Both are matters of counting.  Every Event takes the head of one queue  *)
(* and appends what it makes of it to others; so the first lemmas say how  *)
(* HowMany changes with a queue, and the next ones which counts an Event   *)
(* changes.                                                                *)
(***************************************************************************)
EXTENDS SettledInvariance, FiniteSetTheorems

(* Whether x is one of kind, as a number. *)
Counts(x, kind) == IF x \in kind THEN 1 ELSE 0

(* Queue q after x has been appended to it, or taken out of it, as far as  *)
(* counting goes.                                                          *)
Gains(q, r, x) == \A kind : HowMany(r, kind) = HowMany(q, kind) + Counts(x, kind)
Loses(q, r, x) == \A kind : HowMany(q, kind) = HowMany(r, kind) + Counts(x, kind)

(***************************************************************************)
(* Counting in sequences                                                   *)
(***************************************************************************)
LEMMA CountType ==
  ASSUME NEW S, NEW q \in Seq(S)
  PROVE  \A kind : /\ IsFiniteSet({n \in DOMAIN q : q[n] \in kind})
                   /\ HowMany(q, kind) \in Nat
                   /\ HowMany(q, kind) = 0 <=> \A n \in DOMAIN q : q[n] \notin kind
<1> SUFFICES ASSUME NEW kind
             PROVE  /\ IsFiniteSet({n \in DOMAIN q : q[n] \in kind})
                    /\ HowMany(q, kind) \in Nat
                    /\ HowMany(q, kind) = 0 <=> \A n \in DOMAIN q : q[n] \notin kind
  OBVIOUS
<1> DEFINE T == {n \in DOMAIN q : q[n] \in kind}
<1>1. Len(q) \in Nat /\ DOMAIN q = 1 .. Len(q)
  BY LenProperties
<1>2. IsFiniteSet(1 .. Len(q)) /\ T \in SUBSET (1 .. Len(q))
  BY <1>1, FS_Interval
<1>3. IsFiniteSet(T)
  BY <1>2, FS_Subset
<1>4. HowMany(q, kind) = Cardinality(T)
  BY DEF HowMany
<1>5. T = {} <=> \A n \in DOMAIN q : q[n] \notin kind
  OBVIOUS
<1> HIDE DEF T
<1>6. Cardinality(T) \in Nat /\ (Cardinality(T) = 0 <=> T = {})
  BY <1>3, FS_CardinalityType, FS_EmptySet
<1>7. QED
  BY <1>3, <1>4, <1>5, <1>6 DEF T

LEMMA CountAppend ==
  ASSUME NEW S, NEW q \in Seq(S), NEW x \in S
  PROVE  Gains(q, Append(q, x), x)
<1> SUFFICES ASSUME NEW kind
             PROVE  HowMany(Append(q, x), kind) = HowMany(q, kind) + Counts(x, kind)
  BY DEF Gains
<1> DEFINE r == Append(q, x)
           T == {n \in DOMAIN q : q[n] \in kind}
           U == {n \in DOMAIN r : r[n] \in kind}
           e == Len(q) + 1
<1>1. /\ Len(q) \in Nat /\ DOMAIN q = 1 .. Len(q)
      /\ DOMAIN r = 1 .. e /\ r[e] = x
      /\ \A n \in 1 .. Len(q) : r[n] = q[n]
  BY LenProperties, AppendProperties
<1>2. U = IF x \in kind THEN T \cup {e} ELSE T
  BY <1>1
<1>3. e \notin T
  BY <1>1
<1>4. IsFiniteSet(T)
  BY CountType
<1>5. HowMany(q, kind) = Cardinality(T) /\ HowMany(r, kind) = Cardinality(U)
  BY DEF HowMany
<1>6. HowMany(q, kind) \in Nat
  BY CountType
<1> HIDE DEF T, U, e, r
<1>7. Cardinality(T \cup {e}) = Cardinality(T) + 1
  BY <1>3, <1>4, FS_AddElement
<1>8. QED
  BY <1>2, <1>5, <1>6, <1>7 DEF Counts, r

(* Position j is left out, and what is behind it moves up. *)
LEMMA CountWithout ==
  ASSUME NEW S, NEW q \in Seq(S), NEW r \in Seq(S), NEW j \in 1 .. Len(q),
         Len(r) = Len(q) - 1,
         \A k \in 1 .. Len(q) - 1 : r[k] = IF k < j THEN q[k] ELSE q[k + 1]
  PROVE  Loses(q, r, q[j])
<1> SUFFICES ASSUME NEW kind
             PROVE  HowMany(q, kind) = HowMany(r, kind) + Counts(q[j], kind)
  BY DEF Loses
<1> DEFINE T == {n \in DOMAIN q : q[n] \in kind}
           U == {n \in DOMAIN r : r[n] \in kind}
           m == [n \in U |-> IF n < j THEN n ELSE n + 1]
<1>1. /\ Len(q) \in Nat /\ DOMAIN q = 1 .. Len(q) /\ j \in Nat
      /\ DOMAIN r = 1 .. Len(q) - 1
  BY LenProperties
<1>2. m \in Bijection(U, T \ {j})
  <2>1. ASSUME NEW n \in U
        PROVE  m[n] \in T \ {j}
    BY <1>1
  <2>2. \A n, k \in U : m[n] = m[k] => n = k
    BY <1>1
  <2>3. ASSUME NEW t \in T \ {j}
        PROVE  \E n \in U : m[n] = t
    <3>1. CASE t < j
      <4>1. t \in U /\ m[t] = t
        BY <1>1, <3>1
      <4>2. QED
        BY <4>1
    <3>2. CASE t > j
      <4>1. t - 1 \in U /\ m[t - 1] = t
        BY <1>1, <3>2
      <4>2. QED
        BY <4>1
    <3>3. QED
      BY <1>1, <3>1, <3>2
  <2>4. m \in [U -> T \ {j}]
    BY <2>1
  <2> HIDE DEF m, T, U
  <2>5. QED
    BY <2>2, <2>3, <2>4 DEF Bijection, Injection, Surjection, IsInjective
<1>3. IsFiniteSet(T) /\ IsFiniteSet(U)
  BY CountType
<1>4. HowMany(q, kind) = Cardinality(T) /\ HowMany(r, kind) = Cardinality(U)
  BY DEF HowMany
<1>5. HowMany(q, kind) \in Nat
  BY CountType
<1>6. j \in T <=> q[j] \in kind
  BY <1>1
<1> HIDE DEF T, U, m
<1>7. Cardinality(T \ {j}) = Cardinality(U)
  BY <1>2, <1>3, FS_Bijection DEF ExistsBijection
<1>8. Cardinality(T \ {j}) = IF j \in T THEN Cardinality(T) - 1 ELSE Cardinality(T)
  BY <1>3, FS_RemoveElement
<1>9. QED
  BY <1>4, <1>5, <1>6, <1>7, <1>8 DEF Counts

LEMMA CountTail ==
  ASSUME NEW S, NEW q \in Seq(S), q # <<>>
  PROVE  Loses(q, Tail(q), Head(q))
<1>1. /\ Tail(q) \in Seq(S) /\ Len(Tail(q)) = Len(q) - 1 /\ Head(q) = q[1]
      /\ \A k \in 1 .. Len(q) - 1 : Tail(q)[k] = q[k + 1]
  BY HeadTailProperties, LenProperties
<1>2. Len(q) \in Nat /\ 1 \in 1 .. Len(q)
  BY LenProperties, EmptySeq
<1>3. \A k \in 1 .. Len(q) - 1 : ~(k < 1)
  BY <1>2
<1>4. QED
  BY <1>1, <1>2, <1>3, CountWithout

LEMMA CountRemoveAt ==
  ASSUME NEW S, NEW q \in Seq(S), NEW j \in DOMAIN q
  PROVE  Loses(q, RemoveAt(q, j), q[j])
<1>1. j \in 1 .. Len(q)
  BY LenProperties
<1>2. QED
  BY <1>1, RemoveAtProperties, CountWithout
-----------------------------------------------------------------------------
(* The places a message can be at, and what happens to their counts. *)

PendingOf(d) == {p \in PendingPkt : p.data = d}
FramesOf(d)  == {f \in EtherPkt : IsIp(f) /\ f.ip_pkt.data = d}
PacketsOf(d) == {p \in IpPkt : p.data = d}

CountAt(p, d) ==
  CASE p[1] = "pq"    -> HowMany(pq[p[2]], PendingOf(d))
    [] p[1] = "up"    -> HowMany(up[p[2]], FramesOf(d))
    [] p[1] = "down"  -> HowMany(down[p[2]], FramesOf(d))
    [] p[1] = "shown" -> HowMany(shown[p[2]], PacketsOf(d))

(* Place q if it is d0 that is counted. *)
Only(q, d, d0) == IF d = d0 THEN {q} ELSE {}

(* Message d leaves the places L and gets to the places G. *)
Shift(d, L, G) ==
  \A p \in Places : CountAt(p, d)' + Counts(p, L) = CountAt(p, d) + Counts(p, G)

IsSent(d) == \E m \in sent : m.data = d

(* The places are four families of different ones. *)
LEMMA PlaceFacts ==
  /\ \A p \in Places :
       \/ \E s \in Station : p = <<"pq", s>> \/ p = <<"shown", s>>
       \/ \E i \in Iface : p = <<"up", i>> \/ p = <<"down", i>>
  /\ \A s \in Station : <<"pq", s>> \in Places /\ <<"shown", s>> \in Places
  /\ \A i \in Iface : <<"up", i>> \in Places /\ <<"down", i>> \in Places
  /\ \A x, y : /\ <<"pq", x>> # <<"up", y>> /\ <<"pq", x>> # <<"down", y>>
               /\ <<"pq", x>> # <<"shown", y>> /\ <<"up", x>> # <<"down", y>>
               /\ <<"up", x>> # <<"shown", y>> /\ <<"down", x>> # <<"shown", y>>
               /\ <<"pq", x>> = <<"pq", y>> => x = y
               /\ <<"up", x>> = <<"up", y>> => x = y
               /\ <<"down", x>> = <<"down", y>> => x = y
               /\ <<"shown", x>> = <<"shown", y>> => x = y
BY DEF Places

(* What is counted at each place, before and after a step. *)
LEMMA CountsAt ==
  ASSUME NEW x, NEW d
  PROVE  /\ CountAt(<<"pq", x>>, d) = HowMany(pq[x], PendingOf(d))
         /\ CountAt(<<"up", x>>, d) = HowMany(up[x], FramesOf(d))
         /\ CountAt(<<"down", x>>, d) = HowMany(down[x], FramesOf(d))
         /\ CountAt(<<"shown", x>>, d) = HowMany(shown[x], PacketsOf(d))
         /\ CountAt(<<"pq", x>>, d)' = HowMany(pq'[x], PendingOf(d))
         /\ CountAt(<<"up", x>>, d)' = HowMany(up'[x], FramesOf(d))
         /\ CountAt(<<"down", x>>, d)' = HowMany(down'[x], FramesOf(d))
         /\ CountAt(<<"shown", x>>, d)' = HowMany(shown'[x], PacketsOf(d))
BY DEF CountAt

(* A shift, family by family. *)
LEMMA ShiftOf ==
  ASSUME NEW d, NEW L, NEW G,
         \A s \in Station :
           /\ HowMany(pq'[s], PendingOf(d)) + Counts(<<"pq", s>>, L)
                = HowMany(pq[s], PendingOf(d)) + Counts(<<"pq", s>>, G)
           /\ HowMany(shown'[s], PacketsOf(d)) + Counts(<<"shown", s>>, L)
                = HowMany(shown[s], PacketsOf(d)) + Counts(<<"shown", s>>, G),
         \A i \in Iface :
           /\ HowMany(up'[i], FramesOf(d)) + Counts(<<"up", i>>, L)
                = HowMany(up[i], FramesOf(d)) + Counts(<<"up", i>>, G)
           /\ HowMany(down'[i], FramesOf(d)) + Counts(<<"down", i>>, L)
                = HowMany(down[i], FramesOf(d)) + Counts(<<"down", i>>, G)
  PROVE  Shift(d, L, G)
<1>1. ASSUME NEW p \in Places
      PROVE  CountAt(p, d)' + Counts(p, L) = CountAt(p, d) + Counts(p, G)
  <2>1. ASSUME NEW s \in Station, p = <<"pq", s>> \/ p = <<"shown", s>>
        PROVE  CountAt(p, d)' + Counts(p, L) = CountAt(p, d) + Counts(p, G)
    BY <2>1, CountsAt
  <2>2. ASSUME NEW i \in Iface, p = <<"up", i>> \/ p = <<"down", i>>
        PROVE  CountAt(p, d)' + Counts(p, L) = CountAt(p, d) + Counts(p, G)
    BY <2>2, CountsAt
  <2>3. QED
    BY <2>1, <2>2, PlaceFacts
<1>2. QED
  BY <1>1 DEF Shift

(* The types of the queues. *)
LEMMA QueueTypes ==
  ASSUME NInv
  PROVE  /\ up \in [Iface -> Seq(EtherPkt)]
         /\ down \in [Iface -> Seq(EtherPkt \cup Reply)]
         /\ pq \in [Station -> Seq(PendingPkt)]
         /\ shown \in [Station -> Seq(IpPkt)]
BY DEF NInv, IInv, TypeOK, SocketsTypeOK, StationTypeOK

(* Every count is a number. *)
LEMMA CountsTypes ==
  ASSUME NInv
  PROVE  /\ \A p \in Places : \A d : CountAt(p, d) \in Nat
         /\ \A i \in Iface : \A kind : HowMany(up[i], kind) \in Nat /\ HowMany(down[i], kind) \in Nat
         /\ \A s \in Station : \A kind : HowMany(pq[s], kind) \in Nat /\ HowMany(shown[s], kind) \in Nat
         /\ \A x, kind : Counts(x, kind) \in {0, 1}
<1>1. \A i \in Iface : \A kind : HowMany(up[i], kind) \in Nat /\ HowMany(down[i], kind) \in Nat
  BY QueueTypes, CountType
<1>2. \A s \in Station : \A kind : HowMany(pq[s], kind) \in Nat /\ HowMany(shown[s], kind) \in Nat
  BY QueueTypes, CountType
<1>3. ASSUME NEW p \in Places, NEW d
      PROVE  CountAt(p, d) \in Nat
  <2>1. ASSUME NEW s \in Station, p = <<"pq", s>> \/ p = <<"shown", s>>
        PROVE  CountAt(p, d) \in Nat
    <3>1. /\ HowMany(pq[s], PendingOf(d)) \in Nat /\ HowMany(shown[s], PacketsOf(d)) \in Nat
      BY <1>2
    <3>2. \/ CountAt(p, d) = HowMany(pq[s], PendingOf(d))
          \/ CountAt(p, d) = HowMany(shown[s], PacketsOf(d))
      BY <2>1, CountsAt
    <3>3. QED
      BY <3>1, <3>2
  <2>2. ASSUME NEW i \in Iface, p = <<"up", i>> \/ p = <<"down", i>>
        PROVE  CountAt(p, d) \in Nat
    <3>1. HowMany(up[i], FramesOf(d)) \in Nat /\ HowMany(down[i], FramesOf(d)) \in Nat
      BY <1>1
    <3>2. \/ CountAt(p, d) = HowMany(up[i], FramesOf(d))
          \/ CountAt(p, d) = HowMany(down[i], FramesOf(d))
      BY <2>2, CountsAt
    <3>3. QED
      BY <3>1, <3>2
  <2>3. QED
    BY <2>1, <2>2, PlaceFacts
<1>4. QED
  BY <1>1, <1>2, <1>3 DEF Counts

(* Taking from a connection, and writing to one. *)
LEMMA TakesCount ==
  ASSUME NInv, NEW i \in Iface, Takes(i)
  PROVE  \A x \in Iface : \A kind :
           HowMany(down[x], kind) =
             HowMany(down'[x], kind) + (IF x = i THEN Counts(Head(down[i]), kind) ELSE 0)
<1>1. Loses(down[i], Tail(down[i]), Head(down[i]))
  BY QueueTypes, CountTail DEF Takes
<1>2. \A x \in Iface : down'[x] = IF x = i THEN Tail(down[i]) ELSE down[x]
  BY QueueTypes DEF Takes
<1>3. QED
  BY <1>1, <1>2, CountsTypes DEF Loses

LEMMA EmitsCount ==
  ASSUME NInv, NEW i \in Iface, NEW f \in EtherPkt, Emits(i, f)
  PROVE  \A x \in Iface : \A kind :
           HowMany(up'[x], kind) =
             HowMany(up[x], kind) + (IF x = i THEN Counts(f, kind) ELSE 0)
<1>1. Gains(up[i], Append(up[i], f), f)
  BY QueueTypes, CountAppend
<1>2. \A x \in Iface : up'[x] = IF x = i THEN Append(up[i], f) ELSE up[x]
  BY QueueTypes DEF Emits
<1>3. QED
  BY <1>1, <1>2, CountsTypes DEF Gains

LEMMA PendsCount ==
  ASSUME NInv, NEW s \in Station, NEW p \in PendingPkt,
         pq' = [pq EXCEPT ![s] = Append(@, p)]
  PROVE  \A t \in Station : \A kind :
           HowMany(pq'[t], kind) =
             HowMany(pq[t], kind) + (IF t = s THEN Counts(p, kind) ELSE 0)
<1>1. Gains(pq[s], Append(pq[s], p), p)
  BY QueueTypes, CountAppend
<1>2. \A t \in Station : pq'[t] = IF t = s THEN Append(pq[s], p) ELSE pq[t]
  BY QueueTypes
<1>3. QED
  BY <1>1, <1>2, CountsTypes DEF Gains

LEMMA UnpendsCount ==
  ASSUME NInv, NEW s \in Station, NEW n \in DOMAIN pq[s],
         pq' = [pq EXCEPT ![s] = RemoveAt(@, n)]
  PROVE  \A t \in Station : \A kind :
           HowMany(pq[t], kind) =
             HowMany(pq'[t], kind) + (IF t = s THEN Counts(pq[s][n], kind) ELSE 0)
<1>1. Loses(pq[s], RemoveAt(pq[s], n), pq[s][n])
  BY QueueTypes, CountRemoveAt
<1>2. \A t \in Station : pq'[t] = IF t = s THEN RemoveAt(pq[s], n) ELSE pq[t]
  BY QueueTypes
<1>3. QED
  BY <1>1, <1>2, CountsTypes DEF Loses

(* Message d0 is in the frame that leaves, or in the queue. *)
LEMMA DepartureCounts ==
  ASSUME NInv, NEW s \in Station, NEW dst \in Ip, NEW d0 \in Data, NEW k \in Iface,
         Departs(s, dst, d0, k), NEW d
  PROVE  \E q \in Places :
           /\ \E i \in Iface : q = <<"up", i>> \/ q = <<"pq", s>>
           /\ \A x \in Iface :
                HowMany(up'[x], FramesOf(d)) = HowMany(up[x], FramesOf(d))
                  + Counts(<<"up", x>>, Only(q, d, d0))
           /\ \A t \in Station :
                HowMany(pq'[t], PendingOf(d)) = HowMany(pq[t], PendingOf(d))
                  + Counts(<<"pq", t>>, Only(q, d, d0))
<1> DEFINE i == route[s][dst].iface
<1>0. /\ i \in Iface /\ mac_addr[k] \in AnyMac /\ ip_addr[k] \in Ip
      /\ <<"up", i>> \in Places /\ <<"pq", s>> \in Places
  BY OwnIsIface, PacketsAssumption, PlaceFacts DEF Departs, LeadsTo, AnyMac
<1>1. ASSUME NEW src \in Ip, UNCHANGED pq,
             Emits(i, IpFrame(mac_addr[i], mac_addr[k], create_pkt(src, dst, d0)))
      PROVE  /\ \A x \in Iface :
                  HowMany(up'[x], FramesOf(d)) = HowMany(up[x], FramesOf(d))
                    + Counts(<<"up", x>>, Only(<<"up", i>>, d, d0))
             /\ \A t \in Station :
                  HowMany(pq'[t], PendingOf(d)) = HowMany(pq[t], PendingOf(d))
                    + Counts(<<"pq", t>>, Only(<<"up", i>>, d, d0))
  <2> DEFINE f == IpFrame(mac_addr[i], mac_addr[k], create_pkt(src, dst, d0))
  <2>1. f \in EtherPkt
    <3>1. create_pkt(src, dst, d0) \in IpPkt
      BY DEF create_pkt, IpPkt
    <3>2. QED
      BY <1>0, <3>1, MadeFrames DEF TrueFrame
  <2>2. IsIp(f) /\ f.ip_pkt.data = d0
    BY DEF IpFrame, create_pkt, IsIp
  <2> HIDE DEF f
  <2>3. Counts(f, FramesOf(d)) = IF d = d0 THEN 1 ELSE 0
    BY <2>1, <2>2 DEF Counts, FramesOf
  <2>4. \A x \in Iface : \A kind :
          HowMany(up'[x], kind) =
            HowMany(up[x], kind) + (IF x = i THEN Counts(f, kind) ELSE 0)
    BY <1>0, <1>1, <2>1, EmitsCount DEF f
  <2>5. /\ \A x : Counts(<<"up", x>>, Only(<<"up", i>>, d, d0))
                    = IF x = i /\ d = d0 THEN 1 ELSE 0
        /\ \A t : Counts(<<"pq", t>>, Only(<<"up", i>>, d, d0)) = 0
    BY PlaceFacts DEF Counts, Only
  <2>6. ASSUME NEW x \in Iface
        PROVE  HowMany(up'[x], FramesOf(d)) = HowMany(up[x], FramesOf(d))
                 + Counts(<<"up", x>>, Only(<<"up", i>>, d, d0))
    BY <2>3, <2>4, <2>5
  <2>7. ASSUME NEW t \in Station
        PROVE  HowMany(pq'[t], PendingOf(d)) = HowMany(pq[t], PendingOf(d))
                 + Counts(<<"pq", t>>, Only(<<"up", i>>, d, d0))
    <3>1. HowMany(pq[t], PendingOf(d)) \in Nat
      BY CountsTypes
    <3>2. QED
      BY <1>1, <2>5, <3>1
  <2>8. QED
    BY <2>6, <2>7
<1>2. ASSUME Emits(i, RequestFor(i, ip_addr[k])), NEW p \in PendingPkt, p.data = d0,
             pq' = [pq EXCEPT ![s] = Append(@, p)]
      PROVE  /\ \A x \in Iface :
                  HowMany(up'[x], FramesOf(d)) = HowMany(up[x], FramesOf(d))
                    + Counts(<<"up", x>>, Only(<<"pq", s>>, d, d0))
             /\ \A t \in Station :
                  HowMany(pq'[t], PendingOf(d)) = HowMany(pq[t], PendingOf(d))
                    + Counts(<<"pq", t>>, Only(<<"pq", s>>, d, d0))
  <2> DEFINE f == RequestFor(i, ip_addr[k])
  <2>1. f \in EtherPkt /\ ~IsIp(f)
    BY <1>0, MadeFrames, FrameShapes DEF RequestFor, TrueFrame
  <2> HIDE DEF f
  <2>2. Counts(f, FramesOf(d)) = 0 /\ Counts(p, PendingOf(d)) = IF d = d0 THEN 1 ELSE 0
    BY <1>2, <2>1 DEF Counts, FramesOf, PendingOf
  <2>3. \A x \in Iface : \A kind :
          HowMany(up'[x], kind) =
            HowMany(up[x], kind) + (IF x = i THEN Counts(f, kind) ELSE 0)
    BY <1>0, <1>2, <2>1, EmitsCount DEF f
  <2>4. \A t \in Station : \A kind :
          HowMany(pq'[t], kind) =
            HowMany(pq[t], kind) + (IF t = s THEN Counts(p, kind) ELSE 0)
    BY <1>2, PendsCount
  <2>5. /\ \A x : Counts(<<"up", x>>, Only(<<"pq", s>>, d, d0)) = 0
        /\ \A t : Counts(<<"pq", t>>, Only(<<"pq", s>>, d, d0))
                    = IF t = s /\ d = d0 THEN 1 ELSE 0
    BY PlaceFacts DEF Counts, Only
  <2>6. ASSUME NEW x \in Iface
        PROVE  HowMany(up'[x], FramesOf(d)) = HowMany(up[x], FramesOf(d))
                 + Counts(<<"up", x>>, Only(<<"pq", s>>, d, d0))
    <3>1. HowMany(up[x], FramesOf(d)) \in Nat
      BY CountsTypes
    <3>2. HowMany(up'[x], FramesOf(d)) = HowMany(up[x], FramesOf(d))
                                           + (IF x = i THEN Counts(f, FramesOf(d)) ELSE 0)
      BY <2>3
    <3>3. QED
      BY <2>2, <2>5, <3>1, <3>2
  <2>7. ASSUME NEW t \in Station
        PROVE  HowMany(pq'[t], PendingOf(d)) = HowMany(pq[t], PendingOf(d))
                 + Counts(<<"pq", t>>, Only(<<"pq", s>>, d, d0))
    BY <2>2, <2>4, <2>5
  <2>8. QED
    BY <2>6, <2>7
<1>3. QED
  <2>1. CASE /\ UNCHANGED pq
             /\ \E src \in Ip :
                  Emits(i, IpFrame(mac_addr[i], mac_addr[k], create_pkt(src, dst, d0)))
    BY <1>0, <1>1, <2>1
  <2>2. CASE /\ Emits(i, RequestFor(i, ip_addr[k]))
             /\ \E p \in PendingPkt :
                  p.data = d0 /\ pq' = [pq EXCEPT ![s] = Append(@, p)]
    BY <1>0, <1>2, <2>2
  <2>3. QED
    BY <2>1, <2>2 DEF Departs

(* Relaying: f leaves the queue of i for those of whom it is for. *)
LEMMA RelayCounts ==
  ASSUME NInv, NEW i \in Iface, Relayed(i), NEW f \in EtherPkt, f = Head(up[i]),
         NEW x \in Iface, NEW kind
  PROVE  /\ HowMany(up[x], kind) =
              HowMany(up'[x], kind) + (IF x = i THEN Counts(f, kind) ELSE 0)
         /\ HowMany(down'[x], kind) =
              HowMany(down[x], kind) + (IF x \in Addressees(i, f) THEN Counts(f, kind) ELSE 0)
<1>1. /\ up[i] # <<>> /\ up' = [up EXCEPT ![i] = Tail(@)]
      /\ down' = [k \in Iface |-> IF k \in Addressees(i, f) THEN Append(down[k], f)
                                                          ELSE down[k]]
  BY DEF Relayed
<1>2. /\ HowMany(up[x], kind) \in Nat /\ HowMany(down[x], kind) \in Nat
      /\ up \in [Iface -> Seq(EtherPkt)] /\ down[x] \in Seq(EtherPkt \cup Reply)
      /\ up[i] \in Seq(EtherPkt)
  BY CountsTypes, QueueTypes
<1>3. Loses(up[i], Tail(up[i]), f)
  BY <1>1, <1>2, CountTail
<1>4. Gains(down[x], Append(down[x], f), f)
  BY <1>2, CountAppend
<1>5. up'[x] = IF x = i THEN Tail(up[x]) ELSE up[x]
  BY <1>1, <1>2
<1>6. down'[x] = IF x \in Addressees(i, f) THEN Append(down[x], f) ELSE down[x]
  BY <1>1
<1>7. HowMany(up[x], kind) =
        HowMany(up'[x], kind) + (IF x = i THEN Counts(f, kind) ELSE 0)
  BY <1>2, <1>3, <1>5 DEF Loses
<1>8. HowMany(down'[x], kind) =
        HowMany(down[x], kind) + (IF x \in Addressees(i, f) THEN Counts(f, kind) ELSE 0)
  BY <1>2, <1>4, <1>6 DEF Gains
<1>9. QED
  BY <1>7, <1>8

(* One interface gets what is not a request. *)
LEMMA OneAddressee ==
  ASSUME WellConfigured, NEW i \in Iface, NEW f \in Sound(i), ~IsRequest(f)
  PROVE  \E k \in Iface : Addressees(i, f) = {k}
<1>1. f.mac_dst # NoMac
  BY SoundFields
<1>2. PICK k \in OnLan(lan_name[i]) : f.mac_dst = mac_addr[k]
  BY <1>1, SoundFields
<1>3. \A x \in OnLan(lan_name[i]) : f.mac_dst = mac_addr[x] => x = k
  BY <1>2, AddressesDiffer DEF OnLan
<1>4. QED
  BY <1>1, <1>2, <1>3 DEF Addressees, OnLan

(* A relayed message goes to one place: the way down to its addressee. *)
LEMMA RelayedShift ==
  ASSUME NInv, YInv, WellConfigured, NEW i \in Iface, Relayed(i), NEW d
  PROVE  \/ Shift(d, {}, {})
         \/ \E k \in Iface : Shift(d, {<<"up", i>>}, {<<"down", k>>})
<1>1. PICK f : f = Head(up[i])
  OBVIOUS
<1>2. f \in Sound(i) /\ f \in EtherPkt /\ up[i] # <<>>
  BY <1>1, NextUp DEF Relayed, YInv, Sound
<1>3. UNCHANGED <<pq, shown>>
  BY DEF Relayed
<1>4. ASSUME NEW x \in Iface
      PROVE  /\ HowMany(up[x], FramesOf(d)) \in Nat /\ HowMany(down[x], FramesOf(d)) \in Nat
             /\ HowMany(up[x], FramesOf(d)) =
                  HowMany(up'[x], FramesOf(d)) + (IF x = i THEN Counts(f, FramesOf(d)) ELSE 0)
             /\ HowMany(down'[x], FramesOf(d)) =
                  HowMany(down[x], FramesOf(d))
                    + (IF x \in Addressees(i, f) THEN Counts(f, FramesOf(d)) ELSE 0)
  <2>1. HowMany(up[x], FramesOf(d)) \in Nat /\ HowMany(down[x], FramesOf(d)) \in Nat
    BY CountsTypes
  <2>2. PICK kind : kind = FramesOf(d)
    OBVIOUS
  <2>3. /\ HowMany(up[x], kind) =
             HowMany(up'[x], kind) + (IF x = i THEN Counts(f, kind) ELSE 0)
        /\ HowMany(down'[x], kind) =
             HowMany(down[x], kind) + (IF x \in Addressees(i, f) THEN Counts(f, kind) ELSE 0)
    BY <1>1, <1>2, RelayCounts
  <2>4. QED
    BY <2>1, <2>2, <2>3
<1>5. CASE f \in FramesOf(d)
  <2>1. ~IsRequest(f)
    BY <1>2, <1>5, OneKind DEF FramesOf, IsRequest
  <2>2. PICK k \in Iface : Addressees(i, f) = {k}
    BY <1>2, <2>1, OneAddressee
  <2> DEFINE L == {<<"up", i>>}
             G == {<<"down", k>>}
  <2>3. ASSUME NEW s \in Station
        PROVE  /\ HowMany(pq'[s], PendingOf(d)) + Counts(<<"pq", s>>, L)
                    = HowMany(pq[s], PendingOf(d)) + Counts(<<"pq", s>>, G)
               /\ HowMany(shown'[s], PacketsOf(d)) + Counts(<<"shown", s>>, L)
                    = HowMany(shown[s], PacketsOf(d)) + Counts(<<"shown", s>>, G)
    BY <1>3, PlaceFacts DEF Counts
  <2>4. ASSUME NEW x \in Iface
        PROVE  /\ HowMany(up'[x], FramesOf(d)) + Counts(<<"up", x>>, L)
                    = HowMany(up[x], FramesOf(d)) + Counts(<<"up", x>>, G)
               /\ HowMany(down'[x], FramesOf(d)) + Counts(<<"down", x>>, L)
                    = HowMany(down[x], FramesOf(d)) + Counts(<<"down", x>>, G)
    <3>1. /\ HowMany(up[x], FramesOf(d)) =
               HowMany(up'[x], FramesOf(d)) + (IF x = i THEN 1 ELSE 0)
          /\ HowMany(down'[x], FramesOf(d)) =
               HowMany(down[x], FramesOf(d)) + (IF x = k THEN 1 ELSE 0)
      <4>2. Counts(f, FramesOf(d)) = 1
        BY <1>5 DEF Counts
      <4>3. QED
        BY <1>4, <2>2, <4>2
    <3>2. /\ HowMany(up[x], FramesOf(d)) \in Nat /\ HowMany(down[x], FramesOf(d)) \in Nat
      BY <1>4
    <3>3. /\ Counts(<<"up", x>>, L) = (IF x = i THEN 1 ELSE 0)
          /\ Counts(<<"up", x>>, G) = 0 /\ Counts(<<"down", x>>, L) = 0
          /\ Counts(<<"down", x>>, G) = (IF x = k THEN 1 ELSE 0)
      BY PlaceFacts DEF Counts
    <3>4. QED
      BY <3>1, <3>2, <3>3
  <2> HIDE DEF L, G
  <2>5. Shift(d, L, G)
    BY <2>3, <2>4, ShiftOf
  <2>6. QED
    BY <2>5 DEF L, G
<1>6. CASE f \notin FramesOf(d)
  <2>1. \A p : Counts(p, {}) = 0
    BY DEF Counts
  <2>2. ASSUME NEW x \in Iface
        PROVE  /\ HowMany(up'[x], FramesOf(d)) + 0 = HowMany(up[x], FramesOf(d)) + 0
               /\ HowMany(down'[x], FramesOf(d)) + 0 = HowMany(down[x], FramesOf(d)) + 0
    <3>1. Counts(f, FramesOf(d)) = 0
      BY <1>6 DEF Counts
    <3>2. QED
      BY <1>4, <3>1
  <2>3. Shift(d, {}, {})
    BY <1>3, <2>1, <2>2, ShiftOf
  <2>4. QED
    BY <2>3
<1>7. QED
  BY <1>5, <1>6
-----------------------------------------------------------------------------
(* A message stays where it is, moves to another place, or is new there. *)
Stays(d) == Shift(d, {}, {}) /\ (IsSent(d)' <=> IsSent(d))

Moves(d) ==
  /\ IsSent(d)' <=> IsSent(d)
  /\ \E p, q \in Places : p # q /\ Shift(d, {p}, {q})

Appears(d) == ~IsSent(d) /\ IsSent(d)' /\ \E q \in Places : Shift(d, {}, {q})

(* Places of different families do not count for each other. *)
LEMMA OtherPlaces ==
  ASSUME NEW d, NEW d0
  PROVE  /\ \A a, b, x, y : a # b => Counts(<<a, x>>, Only(<<b, y>>, d, d0)) = 0
         /\ \A p : Counts(p, {}) = 0
BY DEF Counts, Only

(* What shifts message d0 alone moves it, and leaves every other where it  *)
(* is.                                                                     *)
LEMMA OnlyShift ==
  ASSUME NEW d, NEW d0, NEW p \in Places, NEW q \in Places, p # q, UNCHANGED sent,
         Shift(d, Only(p, d, d0), Only(q, d, d0))
  PROVE  Stays(d) \/ Moves(d)
<1>1. IsSent(d)' <=> IsSent(d)
  BY DEF IsSent
<1>2. CASE d = d0
  <2>1. Only(p, d, d0) = {p} /\ Only(q, d, d0) = {q}
    BY <1>2 DEF Only
  <2>2. Shift(d, {p}, {q})
    BY <2>1
  <2>3. QED
    BY <1>1, <2>2 DEF Moves
<1>3. CASE d # d0
  <2>1. Only(p, d, d0) = {} /\ Only(q, d, d0) = {}
    BY <1>3 DEF Only
  <2>2. Shift(d, {}, {})
    BY <2>1
  <2>3. QED
    BY <1>1, <2>2 DEF Stays
<1>4. QED
  BY <1>2, <1>3

(* A frame counts for the message it carries. *)
LEMMA FrameCounts ==
  ASSUME NEW f \in EtherPkt, NEW d
  PROVE  /\ IsIp(f) => Counts(f, FramesOf(d)) = IF d = f.ip_pkt.data THEN 1 ELSE 0
         /\ ~IsIp(f) => Counts(f, FramesOf(d)) = 0
BY DEF Counts, FramesOf

(* The types of what an IP packet carries. *)
LEMMA IpContents ==
  ASSUME NEW f \in EtherPkt, IsIp(f)
  PROVE  f.ip_pkt \in IpPkt /\ f.ip_pkt.dst_ip \in Ip /\ f.ip_pkt.data \in Data
BY DEF EtherPkt, IpPkt, IsIp, TYPE_IP_PKT, TYPE_ARP_PKT

(* What a station takes, and what it writes, for message d. *)
LEMMA TakenCounts ==
  ASSUME NInv, NEW i \in Iface, Takes(i), NEW f \in EtherPkt, f = Head(down[i]), NEW d
  PROVE  /\ \A x \in Iface : HowMany(down'[x], FramesOf(d)) \in Nat
         /\ IsIp(f) => \A x \in Iface :
              HowMany(down[x], FramesOf(d)) = HowMany(down'[x], FramesOf(d))
                + Counts(<<"down", x>>, Only(<<"down", i>>, d, f.ip_pkt.data))
         /\ ~IsIp(f) => \A x \in Iface :
              HowMany(down[x], FramesOf(d)) = HowMany(down'[x], FramesOf(d))
<1>1. ASSUME NEW x \in Iface
      PROVE  /\ HowMany(down'[x], FramesOf(d)) \in Nat
             /\ HowMany(down[x], FramesOf(d)) = HowMany(down'[x], FramesOf(d))
                  + (IF x = i THEN Counts(f, FramesOf(d)) ELSE 0)
  <2>1. PICK kind : kind = FramesOf(d)
    OBVIOUS
  <2>2. HowMany(down[x], kind) =
          HowMany(down'[x], kind) + (IF x = i THEN Counts(f, kind) ELSE 0)
    BY TakesCount
  <2>3. HowMany(down'[x], kind) \in Nat
    <3>1. down[x] \in Seq(EtherPkt \cup Reply) /\ down'[x] \in Seq(EtherPkt \cup Reply)
      BY QueueTypes, HeadTailProperties DEF Takes
    <3>2. QED
      BY <3>1, CountType
  <2>4. QED
    BY <2>1, <2>2, <2>3
<1>2. \A x : Counts(<<"down", x>>, Only(<<"down", i>>, d, f.ip_pkt.data))
               = IF x = i /\ d = f.ip_pkt.data THEN 1 ELSE 0
  BY PlaceFacts DEF Counts, Only
<1>3. QED
  BY <1>1, <1>2, FrameCounts

LEMMA WrittenCounts ==
  ASSUME NInv, NEW i \in Iface, NEW f \in EtherPkt, Emits(i, f), NEW d
  PROVE  /\ IsIp(f) => \A x \in Iface :
              HowMany(up'[x], FramesOf(d)) = HowMany(up[x], FramesOf(d))
                + Counts(<<"up", x>>, Only(<<"up", i>>, d, f.ip_pkt.data))
         /\ ~IsIp(f) => \A x \in Iface :
              HowMany(up'[x], FramesOf(d)) = HowMany(up[x], FramesOf(d))
<1>1. ASSUME NEW x \in Iface
      PROVE  /\ HowMany(up[x], FramesOf(d)) \in Nat
             /\ HowMany(up'[x], FramesOf(d)) = HowMany(up[x], FramesOf(d))
                  + (IF x = i THEN Counts(f, FramesOf(d)) ELSE 0)
  <2>1. PICK kind : kind = FramesOf(d)
    OBVIOUS
  <2>2. HowMany(up'[x], kind) =
          HowMany(up[x], kind) + (IF x = i THEN Counts(f, kind) ELSE 0)
    BY EmitsCount
  <2>3. QED
    BY <2>1, <2>2, CountsTypes
<1>2. \A x : Counts(<<"up", x>>, Only(<<"up", i>>, d, f.ip_pkt.data))
               = IF x = i /\ d = f.ip_pkt.data THEN 1 ELSE 0
  BY PlaceFacts DEF Counts, Only
<1>3. QED
  BY <1>1, <1>2, FrameCounts
-----------------------------------------------------------------------------
(* Where each event takes a message. *)
LEMMA ForwardedShift ==
  ASSUME NInv, YInv, NEW s \in Station, NEW i \in Iface, Forwarded(s, i), NEW d
  PROVE  Stays(d) \/ Moves(d)
<1>1. PICK f : f = Head(down[i])
  OBVIOUS
<1>2. /\ Takes(i) /\ IsIp(f) /\ f \in EtherPkt
      /\ UNCHANGED <<shown, sent>>
  BY <1>1, NextDown DEF Forwarded, Takes, YInv
<1>3. PICK k \in Iface : Departs(s, f.ip_pkt.dst_ip, f.ip_pkt.data, k)
  BY <1>1 DEF Forwarded
<1>4. PICK d0 : d0 = f.ip_pkt.data
  OBVIOUS
<1>5. f.ip_pkt.dst_ip \in Ip /\ d0 \in Data
  BY <1>2, <1>4, IpContents
<1>6. PICK q \in Places :
        /\ \E x \in Iface : q = <<"up", x>> \/ q = <<"pq", s>>
        /\ \A x \in Iface :
             HowMany(up'[x], FramesOf(d)) = HowMany(up[x], FramesOf(d))
               + Counts(<<"up", x>>, Only(q, d, d0))
        /\ \A t \in Station :
             HowMany(pq'[t], PendingOf(d)) = HowMany(pq[t], PendingOf(d))
               + Counts(<<"pq", t>>, Only(q, d, d0))
  BY <1>3, <1>4, <1>5, DepartureCounts
<1>7. PICK p : p = <<"down", i>>
  OBVIOUS
<1>8. \A x \in Iface :
        /\ HowMany(down[x], FramesOf(d)) = HowMany(down'[x], FramesOf(d))
             + Counts(<<"down", x>>, Only(p, d, d0))
        /\ HowMany(down'[x], FramesOf(d)) \in Nat
  <2>1. /\ \A x \in Iface :
             HowMany(down[x], FramesOf(d)) = HowMany(down'[x], FramesOf(d))
               + Counts(<<"down", x>>, Only(<<"down", i>>, d, f.ip_pkt.data))
        /\ \A x \in Iface : HowMany(down'[x], FramesOf(d)) \in Nat
    BY <1>1, <1>2, TakenCounts
  <2>2. QED
    BY <1>4, <1>7, <2>1
<1>9. Shift(d, Only(p, d, d0), Only(q, d, d0))
  <2>1. /\ \A x : /\ Counts(<<"pq", x>>, Only(p, d, d0)) = 0
                  /\ Counts(<<"shown", x>>, Only(p, d, d0)) = 0
                  /\ Counts(<<"up", x>>, Only(p, d, d0)) = 0
                  /\ Counts(<<"shown", x>>, Only(q, d, d0)) = 0
                  /\ Counts(<<"down", x>>, Only(q, d, d0)) = 0
        /\ \A x : Counts(x, Only(q, d, d0)) \in {0, 1} /\ Counts(x, Only(p, d, d0)) \in {0, 1}
    BY <1>6, <1>7, OtherPlaces DEF Counts
  <2>2. ASSUME NEW t \in Station
        PROVE  /\ HowMany(pq'[t], PendingOf(d)) + Counts(<<"pq", t>>, Only(p, d, d0))
                    = HowMany(pq[t], PendingOf(d)) + Counts(<<"pq", t>>, Only(q, d, d0))
               /\ HowMany(shown'[t], PacketsOf(d)) + Counts(<<"shown", t>>, Only(p, d, d0))
                    = HowMany(shown[t], PacketsOf(d)) + Counts(<<"shown", t>>, Only(q, d, d0))
    <3>1. HowMany(pq[t], PendingOf(d)) \in Nat
      BY CountsTypes
    <3>2. QED
      BY <1>2, <1>6, <2>1, <3>1
  <2>3. ASSUME NEW x \in Iface
        PROVE  /\ HowMany(up'[x], FramesOf(d)) + Counts(<<"up", x>>, Only(p, d, d0))
                    = HowMany(up[x], FramesOf(d)) + Counts(<<"up", x>>, Only(q, d, d0))
               /\ HowMany(down'[x], FramesOf(d)) + Counts(<<"down", x>>, Only(p, d, d0))
                    = HowMany(down[x], FramesOf(d)) + Counts(<<"down", x>>, Only(q, d, d0))
    <3>1. HowMany(up[x], FramesOf(d)) \in Nat
      BY CountsTypes
    <3>2. QED
      BY <1>6, <1>8, <2>1, <3>1
  <2>4. QED
    BY <2>2, <2>3, ShiftOf
<1>10. p \in Places /\ p # q
  <2>1. p \in Places
    BY <1>7, PlaceFacts
  <2>2. \A x : <<"down", i>> # <<"up", x>> /\ <<"down", i>> # <<"pq", x>>
    OBVIOUS
  <2>3. p # q
    BY <1>6, <1>7, <2>2
  <2>4. QED
    BY <2>1, <2>3
<1>11. QED
  BY <1>2, <1>9, <1>10, OnlyShift

(* One count for each place, when no message moves. *)
LEMMA NoShift ==
  ASSUME NInv, NEW d, UNCHANGED sent,
         \A t \in Station : /\ HowMany(pq'[t], PendingOf(d)) = HowMany(pq[t], PendingOf(d))
                            /\ HowMany(shown'[t], PacketsOf(d)) = HowMany(shown[t], PacketsOf(d)),
         \A x \in Iface : /\ HowMany(up'[x], FramesOf(d)) = HowMany(up[x], FramesOf(d))
                          /\ HowMany(down'[x], FramesOf(d)) = HowMany(down[x], FramesOf(d))
  PROVE  Stays(d)
<1>1. Shift(d, {}, {})
  BY OtherPlaces, ShiftOf
<1>2. QED
  BY <1>1 DEF Stays, IsSent

(* Answering or dropping a frame of ARP moves no message. *)
LEMMA ArpShift ==
  ASSUME NInv, YInv, WellConfigured, NEW s \in Station, NEW i \in Iface,
         Answered(i) \/ Dropped(s, i), NEW d
  PROVE  Stays(d)
<1>1. PICK f : f = Head(down[i])
  OBVIOUS
<1>2. /\ Takes(i) /\ f \in EtherPkt /\ UNCHANGED <<pq, shown, sent>>
      /\ IsRequest(f) \/ IsResponse(f)
  BY <1>1, NextDown DEF Answered, Dropped, Takes, YInv
<1>3. ~IsIp(f)
  BY <1>2, OneKind DEF IsRequest, IsResponse
<1>4. \A x \in Iface : HowMany(down[x], FramesOf(d)) = HowMany(down'[x], FramesOf(d))
  BY <1>1, <1>2, <1>3, TakenCounts
<1>5. \A x \in Iface : HowMany(up'[x], FramesOf(d)) = HowMany(up[x], FramesOf(d))
  <2>1. CASE Answered(i)
    <3>1. PICK g : g = AnswerTo(i, f)
      OBVIOUS
    <3>2. Emits(i, g) /\ IsRequest(f)
      BY <1>1, <2>1, <3>1 DEF Answered
    <3>3. g \in EtherPkt /\ ~IsIp(g)
      BY <1>2, <3>1, <3>2, MadeFrames, FrameShapes DEF AnswerTo, TrueFrame
    <3>4. QED
      BY <3>2, <3>3, WrittenCounts
  <2>2. CASE UNCHANGED up
    BY <2>2
  <2>3. QED
    BY <2>1, <2>2 DEF Dropped
<1>6. QED
  BY <1>2, <1>4, <1>5, NoShift

(* Delivery moves a message from the way down to the console. *)
LEMMA DeliveredShift ==
  ASSUME NInv, YInv, NEW s \in Station, NEW i \in Iface, Delivered(s, i), NEW d
  PROVE  Stays(d) \/ Moves(d)
<1>1. PICK f : f = Head(down[i])
  OBVIOUS
<1>2. /\ Takes(i) /\ IsIp(f) /\ f \in EtherPkt /\ UNCHANGED <<up, pq, sent>>
      /\ shown' = [shown EXCEPT ![s] = Append(@, f.ip_pkt)]
  BY <1>1, NextDown DEF Delivered, Takes, YInv
<1>3. PICK d0 : d0 = f.ip_pkt.data
  OBVIOUS
<1>4. PICK p : p = <<"down", i>>
  OBVIOUS
<1>5. PICK q : q = <<"shown", s>>
  OBVIOUS
<1>6. \A x \in Iface :
        /\ HowMany(down[x], FramesOf(d)) = HowMany(down'[x], FramesOf(d))
             + Counts(<<"down", x>>, Only(p, d, d0))
        /\ HowMany(down'[x], FramesOf(d)) \in Nat
  <2>1. /\ \A x \in Iface :
             HowMany(down[x], FramesOf(d)) = HowMany(down'[x], FramesOf(d))
               + Counts(<<"down", x>>, Only(<<"down", i>>, d, f.ip_pkt.data))
        /\ \A x \in Iface : HowMany(down'[x], FramesOf(d)) \in Nat
    BY <1>1, <1>2, TakenCounts
  <2>2. QED
    BY <1>3, <1>4, <2>1
<1>7. ASSUME NEW t \in Station
      PROVE  HowMany(shown'[t], PacketsOf(d)) = HowMany(shown[t], PacketsOf(d))
               + Counts(<<"shown", t>>, Only(q, d, d0))
  <2>1. f.ip_pkt \in IpPkt /\ shown[s] \in Seq(IpPkt)
    BY <1>2, IpContents, QueueTypes
  <2>2. Gains(shown[s], Append(shown[s], f.ip_pkt), f.ip_pkt)
    BY <2>1, CountAppend
  <2>3. shown'[t] = IF t = s THEN Append(shown[s], f.ip_pkt) ELSE shown[t]
    BY <1>2, QueueTypes
  <2>4. HowMany(shown[t], PacketsOf(d)) \in Nat
    BY CountsTypes
  <2>5. Counts(f.ip_pkt, PacketsOf(d)) = IF d = d0 THEN 1 ELSE 0
    BY <1>3, <2>1 DEF Counts, PacketsOf
  <2>6. Counts(<<"shown", t>>, Only(q, d, d0)) = IF t = s /\ d = d0 THEN 1 ELSE 0
    BY <1>5 DEF Counts, Only
  <2>7. HowMany(Append(shown[s], f.ip_pkt), PacketsOf(d))
          = HowMany(shown[s], PacketsOf(d)) + Counts(f.ip_pkt, PacketsOf(d))
    BY <2>2 DEF Gains
  <2>8. QED
    BY <2>3, <2>4, <2>5, <2>6, <2>7
<1>8. Shift(d, Only(p, d, d0), Only(q, d, d0))
  <2>1. /\ \A x : /\ Counts(<<"pq", x>>, Only(p, d, d0)) = 0
                  /\ Counts(<<"shown", x>>, Only(p, d, d0)) = 0
                  /\ Counts(<<"up", x>>, Only(p, d, d0)) = 0
                  /\ Counts(<<"pq", x>>, Only(q, d, d0)) = 0
                  /\ Counts(<<"up", x>>, Only(q, d, d0)) = 0
                  /\ Counts(<<"down", x>>, Only(q, d, d0)) = 0
        /\ \A x : Counts(x, Only(q, d, d0)) \in {0, 1} /\ Counts(x, Only(p, d, d0)) \in {0, 1}
    BY <1>4, <1>5, OtherPlaces DEF Counts
  <2>2. ASSUME NEW t \in Station
        PROVE  /\ HowMany(pq'[t], PendingOf(d)) + Counts(<<"pq", t>>, Only(p, d, d0))
                    = HowMany(pq[t], PendingOf(d)) + Counts(<<"pq", t>>, Only(q, d, d0))
               /\ HowMany(shown'[t], PacketsOf(d)) + Counts(<<"shown", t>>, Only(p, d, d0))
                    = HowMany(shown[t], PacketsOf(d)) + Counts(<<"shown", t>>, Only(q, d, d0))
    <3>1. HowMany(shown[t], PacketsOf(d)) \in Nat
      BY CountsTypes
    <3>2. QED
      BY <1>2, <1>7, <2>1, <3>1
  <2>3. ASSUME NEW x \in Iface
        PROVE  /\ HowMany(up'[x], FramesOf(d)) + Counts(<<"up", x>>, Only(p, d, d0))
                    = HowMany(up[x], FramesOf(d)) + Counts(<<"up", x>>, Only(q, d, d0))
               /\ HowMany(down'[x], FramesOf(d)) + Counts(<<"down", x>>, Only(p, d, d0))
                    = HowMany(down[x], FramesOf(d)) + Counts(<<"down", x>>, Only(q, d, d0))
    BY <1>2, <1>6, <2>1
  <2>4. QED
    BY <2>2, <2>3, ShiftOf
<1>9. p \in Places /\ q \in Places /\ p # q
  BY <1>4, <1>5, PlaceFacts
<1>10. QED
  BY <1>2, <1>8, <1>9, OnlyShift

(* Release moves a message from the pending queue to the way up. *)
LEMMA UnpendedShift ==
  ASSUME NInv, YInv, WellConfigured, NEW s \in Station, NEW i \in Iface,
         NEW n \in DOMAIN pq[s], Unpended(s, i, n), NEW d
  PROVE  Stays(d) \/ Moves(d)
<1>1. PICK f : f = Head(down[i])
  OBVIOUS
<1>2. PICK w : w = pq[s][n]
  OBVIOUS
<1>3. PICK g : g = Released(s, w, f.arp_pkt.src_mac)
  OBVIOUS
<1>4. /\ Takes(i) /\ IsResponse(f) /\ f \in EtherPkt /\ UNCHANGED <<shown, sent>>
      /\ Emits(i, g) /\ pq' = [pq EXCEPT ![s] = RemoveAt(@, n)]
      /\ w.iface_name = i
  BY <1>1, <1>2, <1>3, NextDown DEF Unpended, Takes, YInv
<1>5. w \in PendingPkt
  BY <1>2, ElementOfSeq, LenProperties, QueueTypes
<1>6. g \in EtherPkt /\ IsIp(g) /\ g.ip_pkt.data = w.data
  <2>1. f.arp_pkt.src_mac \in AnyMac
    BY <1>4 DEF EtherPkt, ArpPkt, IsResponse, IsArp, AnyMac, TYPE_IP_PKT, TYPE_ARP_PKT
  <2>2. create_pkt(w.src_ipaddr, w.dst_ipaddr, w.data) \in IpPkt
    BY <1>5 DEF create_pkt, IpPkt, PendingPkt
  <2>3. g = IpFrame(mac_addr[i], f.arp_pkt.src_mac,
                    create_pkt(w.src_ipaddr, w.dst_ipaddr, w.data))
    BY <1>3, <1>4 DEF Released
  <2>4. g \in EtherPkt
    BY <2>1, <2>2, <2>3, MadeFrames DEF TrueFrame
  <2>5. QED
    BY <2>3, <2>4, FrameShapes DEF create_pkt
<1>7. PICK d0 : d0 = w.data
  OBVIOUS
<1>8. PICK p : p = <<"pq", s>>
  OBVIOUS
<1>9. PICK q : q = <<"up", i>>
  OBVIOUS
<1>10. \A x \in Iface : HowMany(down[x], FramesOf(d)) = HowMany(down'[x], FramesOf(d))
  <2>1. ~IsIp(f)
    BY <1>4, OneKind DEF IsResponse
  <2>2. QED
    BY <1>1, <1>4, <2>1, TakenCounts
<1>11. \A x \in Iface :
         HowMany(up'[x], FramesOf(d)) = HowMany(up[x], FramesOf(d))
           + Counts(<<"up", x>>, Only(q, d, d0))
  <2>1. d0 = g.ip_pkt.data /\ i \in Iface
    BY <1>6, <1>7
  <2>2. \A x \in Iface :
          HowMany(up'[x], FramesOf(d)) = HowMany(up[x], FramesOf(d))
            + Counts(<<"up", x>>, Only(<<"up", i>>, d, g.ip_pkt.data))
    BY <1>4, <1>6, WrittenCounts
  <2>3. QED
    BY <1>9, <2>1, <2>2
<1>12. ASSUME NEW t \in Station
       PROVE  /\ HowMany(pq[t], PendingOf(d)) = HowMany(pq'[t], PendingOf(d))
                   + Counts(<<"pq", t>>, Only(p, d, d0))
              /\ HowMany(pq'[t], PendingOf(d)) \in Nat
  <2>1. PICK kind : kind = PendingOf(d)
    OBVIOUS
  <2>2. HowMany(pq[t], kind) = HowMany(pq'[t], kind) + (IF t = s THEN Counts(w, kind) ELSE 0)
    <3>1. \A x \in Station : \A k :
            HowMany(pq[x], k) = HowMany(pq'[x], k) + (IF x = s THEN Counts(pq[s][n], k) ELSE 0)
      BY <1>4, UnpendsCount
    <3>2. QED
      BY <1>2, <3>1
  <2>3. HowMany(pq'[t], kind) \in Nat
    <3>1. pq'[t] \in Seq(PendingPkt)
      BY <1>4, QueueTypes, RemoveAtProperties, LenProperties
    <3>2. QED
      BY <3>1, CountType
  <2>4. Counts(w, kind) = IF d = d0 THEN 1 ELSE 0
    BY <1>5, <1>7, <2>1 DEF Counts, PendingOf
  <2>5. Counts(<<"pq", t>>, Only(p, d, d0)) = IF t = s /\ d = d0 THEN 1 ELSE 0
    BY <1>8 DEF Counts, Only
  <2>6. QED
    BY <2>1, <2>2, <2>3, <2>4, <2>5
<1>13. Shift(d, Only(p, d, d0), Only(q, d, d0))
  <2>1. /\ \A x : /\ Counts(<<"down", x>>, Only(p, d, d0)) = 0
                  /\ Counts(<<"shown", x>>, Only(p, d, d0)) = 0
                  /\ Counts(<<"up", x>>, Only(p, d, d0)) = 0
                  /\ Counts(<<"pq", x>>, Only(q, d, d0)) = 0
                  /\ Counts(<<"shown", x>>, Only(q, d, d0)) = 0
                  /\ Counts(<<"down", x>>, Only(q, d, d0)) = 0
        /\ \A x : Counts(x, Only(q, d, d0)) \in {0, 1} /\ Counts(x, Only(p, d, d0)) \in {0, 1}
    BY <1>8, <1>9, OtherPlaces DEF Counts
  <2>2. ASSUME NEW t \in Station
        PROVE  /\ HowMany(pq'[t], PendingOf(d)) + Counts(<<"pq", t>>, Only(p, d, d0))
                    = HowMany(pq[t], PendingOf(d)) + Counts(<<"pq", t>>, Only(q, d, d0))
               /\ HowMany(shown'[t], PacketsOf(d)) + Counts(<<"shown", t>>, Only(p, d, d0))
                    = HowMany(shown[t], PacketsOf(d)) + Counts(<<"shown", t>>, Only(q, d, d0))
    BY <1>4, <1>12, <2>1
  <2>3. ASSUME NEW x \in Iface
        PROVE  /\ HowMany(up'[x], FramesOf(d)) + Counts(<<"up", x>>, Only(p, d, d0))
                    = HowMany(up[x], FramesOf(d)) + Counts(<<"up", x>>, Only(q, d, d0))
               /\ HowMany(down'[x], FramesOf(d)) + Counts(<<"down", x>>, Only(p, d, d0))
                    = HowMany(down[x], FramesOf(d)) + Counts(<<"down", x>>, Only(q, d, d0))
    <3>1. HowMany(up[x], FramesOf(d)) \in Nat
      BY CountsTypes
    <3>2. QED
      BY <1>10, <1>11, <2>1, <3>1
  <2>4. QED
    BY <2>2, <2>3, ShiftOf
<1>14. p \in Places /\ q \in Places /\ p # q
  BY <1>8, <1>9, PlaceFacts
<1>15. QED
  BY <1>4, <1>13, <1>14, OnlyShift

(* A message that is sent appears, at one place. *)
LEMMA SubmittedShift ==
  ASSUME NInv, YInv, NEW s \in Station, NEW dst \in Ip, NEW d0 \in Data,
         Submitted(s, dst, d0), NEW d
  PROVE  Stays(d) \/ Appears(d)
<1>1. /\ \A m \in sent : m.data # d0
      /\ sent' = sent \cup {[from |-> s, dst |-> dst, data |-> d0]}
      /\ UNCHANGED <<down, shown>>
  BY DEF Submitted
<1>2. PICK k \in Iface : Departs(s, dst, d0, k)
  BY DEF Submitted
<1>3. PICK q \in Places :
        /\ \E x \in Iface : q = <<"up", x>> \/ q = <<"pq", s>>
        /\ \A x \in Iface :
             HowMany(up'[x], FramesOf(d)) = HowMany(up[x], FramesOf(d))
               + Counts(<<"up", x>>, Only(q, d, d0))
        /\ \A t \in Station :
             HowMany(pq'[t], PendingOf(d)) = HowMany(pq[t], PendingOf(d))
               + Counts(<<"pq", t>>, Only(q, d, d0))
  BY <1>2, DepartureCounts
<1>4. Shift(d, {}, Only(q, d, d0))
  <2>1. /\ \A x : /\ Counts(<<"shown", x>>, Only(q, d, d0)) = 0
                  /\ Counts(<<"down", x>>, Only(q, d, d0)) = 0
        /\ \A x : Counts(x, Only(q, d, d0)) \in {0, 1} /\ Counts(x, {}) = 0
    BY <1>3, OtherPlaces DEF Counts
  <2>2. ASSUME NEW t \in Station
        PROVE  /\ HowMany(pq'[t], PendingOf(d)) + Counts(<<"pq", t>>, {})
                    = HowMany(pq[t], PendingOf(d)) + Counts(<<"pq", t>>, Only(q, d, d0))
               /\ HowMany(shown'[t], PacketsOf(d)) + Counts(<<"shown", t>>, {})
                    = HowMany(shown[t], PacketsOf(d)) + Counts(<<"shown", t>>, Only(q, d, d0))
    <3>1. HowMany(pq[t], PendingOf(d)) \in Nat
      BY CountsTypes
    <3>2. QED
      BY <1>1, <1>3, <2>1, <3>1
  <2>3. ASSUME NEW x \in Iface
        PROVE  /\ HowMany(up'[x], FramesOf(d)) + Counts(<<"up", x>>, {})
                    = HowMany(up[x], FramesOf(d)) + Counts(<<"up", x>>, Only(q, d, d0))
               /\ HowMany(down'[x], FramesOf(d)) + Counts(<<"down", x>>, {})
                    = HowMany(down[x], FramesOf(d)) + Counts(<<"down", x>>, Only(q, d, d0))
    <3>1. HowMany(up[x], FramesOf(d)) \in Nat
      BY CountsTypes
    <3>2. QED
      BY <1>1, <1>3, <2>1, <3>1
  <2>4. QED
    BY <2>2, <2>3, ShiftOf
<1>5. CASE d = d0
  <2>1. Only(q, d, d0) = {q}
    BY <1>5 DEF Only
  <2>2. Shift(d, {}, {q})
    BY <1>4, <2>1
  <2>3. ~IsSent(d) /\ IsSent(d)'
    <3>1. PICK m : m = [from |-> s, dst |-> dst, data |-> d0]
      OBVIOUS
    <3>2. m \in sent' /\ m.data = d0
      BY <1>1, <3>1
    <3>3. QED
      BY <1>1, <1>5, <3>2 DEF IsSent
  <2>4. QED
    BY <2>2, <2>3 DEF Appears
<1>6. CASE d # d0
  <2>1. Only(q, d, d0) = {}
    BY <1>6 DEF Only
  <2>2. Shift(d, {}, {})
    BY <1>4, <2>1
  <2>3. IsSent(d)' <=> IsSent(d)
    BY <1>1, <1>6 DEF IsSent
  <2>4. QED
    BY <2>2, <2>3 DEF Stays
<1>7. QED
  BY <1>5, <1>6

(* So every event leaves each message, moves it, or lets it appear. *)
LEMMA MessageEvents ==
  ASSUME NInv, YInv, WellConfigured, Event, NEW d
  PROVE  Stays(d) \/ Moves(d) \/ Appears(d)
<1>1. ASSUME NEW i \in Iface, Relayed(i)
      PROVE  Stays(d) \/ Moves(d)
  <2>1. IsSent(d)' <=> IsSent(d)
    BY <1>1 DEF Relayed, IsSent
  <2>2. CASE Shift(d, {}, {})
    BY <2>1, <2>2 DEF Stays
  <2>3. ASSUME NEW k \in Iface, Shift(d, {<<"up", i>>}, {<<"down", k>>})
        PROVE  Moves(d)
    <3>1. /\ <<"up", i>> \in Places /\ <<"down", k>> \in Places
          /\ <<"up", i>> # <<"down", k>>
      BY PlaceFacts
    <3>2. QED
      BY <2>1, <2>3, <3>1 DEF Moves
  <2>4. QED
    BY <1>1, <2>2, <2>3, RelayedShift
<1>2. ASSUME NEW s \in Station, NEW i \in Own(s),
             \/ Forwarded(s, i) \/ Delivered(s, i) \/ Answered(i) \/ Dropped(s, i)
             \/ \E n \in DOMAIN pq[s] : Unpended(s, i, n)
      PROVE  Stays(d) \/ Moves(d)
  <2>1. i \in Iface
    BY OwnIsIface
  <2>2. QED
    BY <1>2, <2>1, ForwardedShift, DeliveredShift, ArpShift, UnpendedShift
<1>3. CASE UNCHANGED flowVars
  <2>1. UNCHANGED up /\ UNCHANGED down /\ UNCHANGED pq /\ UNCHANGED shown /\ UNCHANGED sent
    BY <1>3 DEF flowVars
  <2>2. Stays(d)
    BY <2>1, NoShift
  <2>3. QED
    BY <2>2
<1>4. QED
  BY <1>1, <1>2, <1>3, SubmittedShift DEF Event
-----------------------------------------------------------------------------
(* One copy of a message. *)

(* A message that has been sent is at one place, once, and any other is    *)
(* nowhere.                                                                *)
Nowhere(d, P) == \A p \in P : CountAt(p, d) = 0

OneHolder ==
  \A d \in Data :
    IF IsSent(d) THEN \E p \in Places : CountAt(p, d) = 1 /\ Nowhere(d, Places \ {p})
                 ELSE Nowhere(d, Places)

(* Every count is a number after a step as well. *)
LEMMA NextCounts ==
  ASSUME NInv'
  PROVE  \A p \in Places : \A d : CountAt(p, d)' \in Nat
<1>1. /\ up' \in [Iface -> Seq(EtherPkt)]
      /\ down' \in [Iface -> Seq(EtherPkt \cup Reply)]
      /\ pq' \in [Station -> Seq(PendingPkt)]
      /\ shown' \in [Station -> Seq(IpPkt)]
  BY DEF NInv, IInv, TypeOK, SocketsTypeOK, StationTypeOK
<1>2. ASSUME NEW s \in Station, NEW d
      PROVE  CountAt(<<"pq", s>>, d)' \in Nat /\ CountAt(<<"shown", s>>, d)' \in Nat
  <2>1. pq'[s] \in Seq(PendingPkt) /\ shown'[s] \in Seq(IpPkt)
    BY <1>1
  <2>2. HowMany(pq'[s], PendingOf(d)) \in Nat /\ HowMany(shown'[s], PacketsOf(d)) \in Nat
    BY <2>1, CountType
  <2>3. QED
    BY <2>2, CountsAt
<1>3. ASSUME NEW i \in Iface, NEW d
      PROVE  CountAt(<<"up", i>>, d)' \in Nat /\ CountAt(<<"down", i>>, d)' \in Nat
  <2>1. up'[i] \in Seq(EtherPkt) /\ down'[i] \in Seq(EtherPkt \cup Reply)
    BY <1>1
  <2>2. HowMany(up'[i], FramesOf(d)) \in Nat /\ HowMany(down'[i], FramesOf(d)) \in Nat
    BY <2>1, CountType
  <2>3. QED
    BY <2>2, CountsAt
<1>4. ASSUME NEW p \in Places, NEW d
      PROVE  CountAt(p, d)' \in Nat
  <2>1. ASSUME NEW s \in Station, p = <<"pq", s>> \/ p = <<"shown", s>>
        PROVE  CountAt(p, d)' \in Nat
    BY <1>2, <2>1
  <2>2. ASSUME NEW i \in Iface, p = <<"up", i>> \/ p = <<"down", i>>
        PROVE  CountAt(p, d)' \in Nat
    BY <1>3, <2>2
  <2>3. QED
    BY <2>1, <2>2, PlaceFacts
<1>5. QED
  BY <1>4

(* No event doubles a message or loses one. *)
LEMMA OneHolderStays ==
  ASSUME NInv, NInv', YInv, WellConfigured, Event, OneHolder
  PROVE  OneHolder'
<1> SUFFICES ASSUME NEW d \in Data
             PROVE  IF IsSent(d)'
                    THEN \E p \in Places : CountAt(p, d)' = 1 /\ Nowhere(d, Places \ {p})'
                    ELSE Nowhere(d, Places)'
  BY DEF OneHolder
<1>1. /\ \A p \in Places : CountAt(p, d) \in Nat /\ CountAt(p, d)' \in Nat
      /\ Stays(d) \/ Moves(d) \/ Appears(d)
  BY CountsTypes, NextCounts, MessageEvents
<1>2. /\ IsSent(d) => \E p \in Places :
                        CountAt(p, d) = 1 /\ \A x \in Places : x # p => CountAt(x, d) = 0
      /\ ~IsSent(d) => \A x \in Places : CountAt(x, d) = 0
  BY DEF OneHolder, Nowhere
<1>3. CASE Stays(d)
  <2>1. \A x \in Places : CountAt(x, d)' = CountAt(x, d)
    BY <1>1, <1>3, OtherPlaces DEF Stays, Shift
  <2>2. IsSent(d)' <=> IsSent(d)
    BY <1>3 DEF Stays
  <2>3. QED
    BY <1>2, <2>1, <2>2 DEF Nowhere
<1>4. CASE Moves(d)
  <2>1. PICK p \in Places, q \in Places : p # q /\ Shift(d, {p}, {q})
    BY <1>4 DEF Moves
  <2>2. /\ CountAt(p, d)' + 1 = CountAt(p, d) /\ CountAt(q, d)' = CountAt(q, d) + 1
        /\ \A x \in Places : x # p /\ x # q => CountAt(x, d)' = CountAt(x, d)
    BY <1>1, <2>1 DEF Shift, Counts
  <2>3. CountAt(p, d) # 0
    BY <1>1, <2>2
  <2>4. IsSent(d) /\ IsSent(d)'
    BY <1>2, <1>4, <2>3 DEF Moves
  <2>5. CountAt(p, d) = 1 /\ \A x \in Places : x # p => CountAt(x, d) = 0
    BY <1>2, <2>3, <2>4
  <2>6. CountAt(q, d)' = 1 /\ \A x \in Places : x # q => CountAt(x, d)' = 0
    BY <1>1, <2>1, <2>2, <2>5
  <2>7. QED
    BY <2>4, <2>6 DEF Nowhere
<1>5. CASE Appears(d)
  <2>1. PICK q \in Places : Shift(d, {}, {q})
    BY <1>5 DEF Appears
  <2>2. ~IsSent(d) /\ IsSent(d)'
    BY <1>5 DEF Appears
  <2>3. /\ CountAt(q, d)' = CountAt(q, d) + 1
        /\ \A x \in Places : x # q => CountAt(x, d)' = CountAt(x, d)
    BY <1>1, <2>1 DEF Shift, Counts
  <2>4. CountAt(q, d)' = 1 /\ \A x \in Places : x # q => CountAt(x, d)' = 0
    BY <1>2, <2>2, <2>3
  <2>5. QED
    BY <2>2, <2>4 DEF Nowhere
<1>6. QED
  BY <1>1, <1>3, <1>4, <1>5

(* At first there is no message anywhere. *)
LEMMA OneHolderInit ==
  ASSUME NetworkInit
  PROVE  OneHolder
<1>1. /\ \A i \in Iface : up[i] = <<>> /\ down[i] = <<>>
      /\ \A s \in Station : pq[s] = <<>> /\ shown[s] = <<>>
      /\ sent = {}
  BY DEF NetworkInit, StationInit
<1>2. \A kind : HowMany(<<>>, kind) = 0
  <2>1. <<>> \in Seq({}) /\ DOMAIN <<>> = {}
    BY EmptySeq
  <2>2. QED
    BY <2>1, CountType
<1>3. ASSUME NEW p \in Places, NEW d
      PROVE  CountAt(p, d) = 0
  <2>1. ASSUME NEW s \in Station, p = <<"pq", s>> \/ p = <<"shown", s>>
        PROVE  CountAt(p, d) = 0
    <3>1. /\ HowMany(pq[s], PendingOf(d)) = 0 /\ HowMany(shown[s], PacketsOf(d)) = 0
      BY <1>1, <1>2
    <3>2. QED
      BY <2>1, <3>1, CountsAt
  <2>2. ASSUME NEW i \in Iface, p = <<"up", i>> \/ p = <<"down", i>>
        PROVE  CountAt(p, d) = 0
    <3>1. HowMany(up[i], FramesOf(d)) = 0 /\ HowMany(down[i], FramesOf(d)) = 0
      BY <1>1, <1>2
    <3>2. QED
      BY <2>2, <3>1, CountsAt
  <2>3. QED
    BY <2>1, <2>2, PlaceFacts
<1>4. QED
  BY <1>1, <1>3 DEF OneHolder, Nowhere, IsSent

(***************************************************************************)
(* Every message that has been sent is in one queue once, and no other     *)
(* message is anywhere.                                                    *)
(***************************************************************************)
THEOREM OneHolderInvariant ==
  ASSUME WellConfigured, NothingExpires
  PROVE  NetworkSpec => [](NInv /\ YInv /\ OneHolder)
<1>1. NetworkInit => OneHolder
  BY OneHolderInit
<1>2. /\ NInv /\ YInv /\ OneHolder /\ [NetworkNext]_networkVars /\ NInv' => OneHolder'
  BY YoungStep, OneHolderStays
<1>3. QED
  BY <1>1, <1>2, YoungInvariant, PTL DEF NetworkSpec

(* What is counted at a place are the positions of copies there. *)
LEMMA CopiesCount ==
  ASSUME NInv, Flows, NEW d
  PROVE  \A p \in Places : /\ IsFiniteSet(CopiesAt(p, d))
                           /\ CountAt(p, d) = Cardinality(CopiesAt(p, d))
<1>1. ASSUME NEW s \in Station
      PROVE  /\ IsFiniteSet(CopiesAt(<<"pq", s>>, d))
             /\ IsFiniteSet(CopiesAt(<<"shown", s>>, d))
             /\ CountAt(<<"pq", s>>, d) = Cardinality(CopiesAt(<<"pq", s>>, d))
             /\ CountAt(<<"shown", s>>, d) = Cardinality(CopiesAt(<<"shown", s>>, d))
  <2>1. /\ CopiesAt(<<"pq", s>>, d) = {n \in DOMAIN pq[s] : pq[s][n].data = d}
        /\ CopiesAt(<<"shown", s>>, d) = {n \in DOMAIN shown[s] : shown[s][n].data = d}
    BY DEF CopiesAt
  <2>2. pq[s] \in Seq(PendingPkt) /\ shown[s] \in Seq(IpPkt)
    BY QueueTypes
  <2>3. /\ \A n \in DOMAIN pq[s] : pq[s][n] \in PendingPkt
        /\ \A n \in DOMAIN shown[s] : shown[s][n] \in IpPkt
    BY <2>2, ElementOfSeq, LenProperties
  <2>4. /\ IsFiniteSet({n \in DOMAIN pq[s] : pq[s][n] \in PendingOf(d)})
        /\ IsFiniteSet({n \in DOMAIN shown[s] : shown[s][n] \in PacketsOf(d)})
    BY <2>2, CountType
  <2>5. /\ {n \in DOMAIN pq[s] : pq[s][n] \in PendingOf(d)} = {n \in DOMAIN pq[s] : pq[s][n].data = d}
        /\ {n \in DOMAIN shown[s] : shown[s][n] \in PacketsOf(d)}
             = {n \in DOMAIN shown[s] : shown[s][n].data = d}
    BY <2>3 DEF PendingOf, PacketsOf
  <2>6. /\ CountAt(<<"pq", s>>, d) = HowMany(pq[s], PendingOf(d))
        /\ CountAt(<<"shown", s>>, d) = HowMany(shown[s], PacketsOf(d))
    BY CountsAt
  <2>7. QED
    BY <2>1, <2>4, <2>5, <2>6 DEF HowMany
<1>2. ASSUME NEW i \in Iface
      PROVE  /\ IsFiniteSet(CopiesAt(<<"up", i>>, d))
             /\ IsFiniteSet(CopiesAt(<<"down", i>>, d))
             /\ CountAt(<<"up", i>>, d) = Cardinality(CopiesAt(<<"up", i>>, d))
             /\ CountAt(<<"down", i>>, d) = Cardinality(CopiesAt(<<"down", i>>, d))
  <2>1. /\ CopiesAt(<<"up", i>>, d)
             = {n \in DOMAIN up[i] : IsIp(up[i][n]) /\ up[i][n].ip_pkt.data = d}
        /\ CopiesAt(<<"down", i>>, d)
             = {n \in DOMAIN down[i] : IsIp(down[i][n]) /\ down[i][n].ip_pkt.data = d}
    BY DEF CopiesAt
  <2>2. up[i] \in Seq(EtherPkt) /\ down[i] \in Seq(EtherPkt \cup Reply) /\ down[i] \in Seq(Heard(i))
    BY QueueTypes DEF Flows
  <2>3. /\ \A n \in DOMAIN up[i] : up[i][n] \in EtherPkt
        /\ \A n \in DOMAIN down[i] : down[i][n] \in EtherPkt
    <3>1. Heard(i) \subseteq EtherPkt
      BY DEF Heard
    <3>2. QED
      BY <2>2, <3>1, ElementOfSeq, LenProperties
  <2>4. /\ IsFiniteSet({n \in DOMAIN up[i] : up[i][n] \in FramesOf(d)})
        /\ IsFiniteSet({n \in DOMAIN down[i] : down[i][n] \in FramesOf(d)})
    BY <2>2, CountType
  <2>5. /\ {n \in DOMAIN up[i] : up[i][n] \in FramesOf(d)}
             = {n \in DOMAIN up[i] : IsIp(up[i][n]) /\ up[i][n].ip_pkt.data = d}
        /\ {n \in DOMAIN down[i] : down[i][n] \in FramesOf(d)}
             = {n \in DOMAIN down[i] : IsIp(down[i][n]) /\ down[i][n].ip_pkt.data = d}
    BY <2>3 DEF FramesOf
  <2>6. /\ CountAt(<<"up", i>>, d) = HowMany(up[i], FramesOf(d))
        /\ CountAt(<<"down", i>>, d) = HowMany(down[i], FramesOf(d))
    BY CountsAt
  <2>7. QED
    BY <2>1, <2>4, <2>5, <2>6 DEF HowMany
<1>3. ASSUME NEW p \in Places
      PROVE  IsFiniteSet(CopiesAt(p, d)) /\ CountAt(p, d) = Cardinality(CopiesAt(p, d))
  <2>1. ASSUME NEW s \in Station, p = <<"pq", s>> \/ p = <<"shown", s>>
        PROVE  IsFiniteSet(CopiesAt(p, d)) /\ CountAt(p, d) = Cardinality(CopiesAt(p, d))
    BY <1>1, <2>1
  <2>2. ASSUME NEW i \in Iface, p = <<"up", i>> \/ p = <<"down", i>>
        PROVE  IsFiniteSet(CopiesAt(p, d)) /\ CountAt(p, d) = Cardinality(CopiesAt(p, d))
    BY <1>2, <2>2
  <2>3. QED
    BY <2>1, <2>2, PlaceFacts
<1>4. QED
  BY <1>3

(* One place with one copy is one copy in all. *)
LEMMA HolderHasCopy ==
  ASSUME NInv, YInv, OneHolder
  PROVE  OneCopy
<1>1. SUFFICES ASSUME NEW m \in sent, NEW d, d = m.data
               PROVE  Cardinality(UNION {{<<p, n>> : n \in CopiesAt(p, d)} : p \in Places}) = 1
  BY DEF OneCopy
<1>2. d \in Data /\ IsSent(d)
  BY <1>1 DEF NInv, UsersTypeOK, Message, IsSent
<1>3. PICK p \in Places : CountAt(p, d) = 1 /\ \A x \in Places : x # p => CountAt(x, d) = 0
  BY <1>2 DEF OneHolder, Nowhere
<1>4. \A x \in Places : /\ IsFiniteSet(CopiesAt(x, d))
                        /\ CountAt(x, d) = Cardinality(CopiesAt(x, d))
  BY CopiesCount DEF YInv
<1>5. PICK n : CopiesAt(p, d) = {n}
  BY <1>3, <1>4, FS_Singleton
<1>6. \A x \in Places : x # p => CopiesAt(x, d) = {}
  BY <1>3, <1>4, FS_EmptySet
<1>7. UNION {{<<x, k>> : k \in CopiesAt(x, d)} : x \in Places} = {<<p, n>>}
  BY <1>5, <1>6
<1>8. Cardinality({<<p, n>>}) = 1
  BY FS_Singleton
<1>9. QED
  BY <1>7, <1>8

(***************************************************************************)
(* While nothing expires and no process stops, a message that has been     *)
(* sent is neither lost nor doubled, however frames overtake each other.   *)
(***************************************************************************)
THEOREM NetworkOneCopy ==
  ASSUME WellConfigured, NothingExpires
  PROVE  NetworkSpec => []OneCopy
<1>1. NInv /\ YInv /\ OneHolder => OneCopy
  BY HolderHasCopy
<1>2. QED
  BY <1>1, OneHolderInvariant, PTL
-----------------------------------------------------------------------------
(* The abstract service. *)

(* What is on its way has not been shown anywhere. *)
LEMMA HeldNotShown ==
  ASSUME NInv, OneHolder, NEW i \in Iface, down[i] # <<>>,
         NEW f \in EtherPkt, f = Head(down[i]), IsIp(f)
  PROVE  \A h \in Station : \A n \in DOMAIN shown[h] : shown[h][n].data # f.ip_pkt.data
<1>1. PICK d : d = f.ip_pkt.data
  OBVIOUS
<1>2. d \in Data /\ f \in FramesOf(d)
  BY <1>1, IpContents DEF FramesOf
<1>3. CountAt(<<"down", i>>, d) # 0
  <2>1. down[i] \in Seq(EtherPkt \cup Reply)
    BY QueueTypes
  <2>2. 1 \in DOMAIN down[i] /\ down[i][1] = f
    BY <2>1, HeadTailProperties, EmptySeq, LenProperties
  <2>3. HowMany(down[i], FramesOf(d)) # 0
    <3>1. PICK kind : kind = FramesOf(d)
      OBVIOUS
    <3>2. \A K : HowMany(down[i], K) = 0 <=> \A n \in DOMAIN down[i] : down[i][n] \notin K
      BY <2>1, CountType
    <3>3. HowMany(down[i], kind) = 0 => f \notin kind
      BY <2>2, <3>2
    <3>4. QED
      BY <1>2, <3>1, <3>3
  <2>4. QED
    BY <2>3, CountsAt
<1>4. <<"down", i>> \in Places
  BY PlaceFacts
<1>5. \A x \in Places : x # <<"down", i>> => CountAt(x, d) = 0
  BY <1>2, <1>3, <1>4 DEF OneHolder, Nowhere
<1>6. ASSUME NEW h \in Station, NEW n \in DOMAIN shown[h]
      PROVE  shown[h][n].data # d
  <2>1. shown[h] \in Seq(IpPkt)
    BY QueueTypes
  <2>2. shown[h][n] \in IpPkt
    BY <2>1, ElementOfSeq, LenProperties
  <2>3. CountAt(<<"shown", h>>, d) = 0
    BY <1>5, PlaceFacts
  <2>4. HowMany(shown[h], PacketsOf(d)) = 0
    BY <2>3, CountsAt
  <2>5. shown[h][n] \notin PacketsOf(d)
    BY <2>1, <2>4, CountType
  <2>6. QED
    BY <2>2, <2>5 DEF PacketsOf
<1>7. QED
  BY <1>1, <1>6

(* Delivery is the Show of the abstract service: to an addressee, what was *)
(* sent to it, for the first time.                                         *)
LEMMA DeliveredShows ==
  ASSUME NInv, YInv, WellConfigured, OneHolder, NEW s \in Station, NEW i \in Iface,
         Delivered(s, i)
  PROVE  Service!Show(s)
<1>1. PICK f : f = Head(down[i])
  OBVIOUS
<1>2. PICK p : p = f.ip_pkt
  OBVIOUS
<1>3. /\ down[i] # <<>> /\ f \in EtherPkt /\ f \in Heard(i) /\ IsIp(f)
      /\ is_intended_ip_destination(s, p.dst_ip)
      /\ shown' = [shown EXCEPT ![s] = Append(@, p)] /\ UNCHANGED sent
  BY <1>1, <1>2, NextDown DEF Delivered, Takes, YInv
<1>4. SentTo(p.data, p.dst_ip)
  BY <1>2, <1>3, HeardFields
<1>5. PICK m \in sent : m.data = p.data /\ m.dst = p.dst_ip
  BY <1>4 DEF SentTo
<1>6. m.dst \in {ip_addr[k] : k \in Own(s)}
  BY <1>3, <1>5 DEF is_intended_ip_destination
<1>7. \A h \in Station : \A n \in DOMAIN shown[h] : shown[h][n].data # m.data
  BY <1>1, <1>2, <1>3, <1>5, HeldNotShown
<1>8. Inbox' = [Inbox EXCEPT ![s] = Append(@, Displayed(p))]
  <2>1. shown \in [Station -> Seq(IpPkt)] /\ p \in IpPkt
    BY <1>2, <1>3, QueueTypes, IpContents
  <2>2. PICK q : q = shown[s]
    OBVIOUS
  <2>3. q \in Seq(IpPkt) /\ Append(q, p) \in Seq(IpPkt)
    BY <2>1, <2>2, AppendProperties
  <2>4. [n \in DOMAIN Append(q, p) |-> Displayed(Append(q, p)[n])]
          = Append([n \in DOMAIN q |-> Displayed(q[n])], Displayed(p))
    <3>1. /\ Len(q) \in Nat /\ DOMAIN q = 1 .. Len(q)
          /\ DOMAIN Append(q, p) = 1 .. Len(q) + 1
          /\ Append(q, p)[Len(q) + 1] = p
          /\ \A n \in 1 .. Len(q) : Append(q, p)[n] = q[n]
      BY <2>1, <2>3, LenProperties, AppendProperties
    <3> DEFINE S == {Displayed(x) : x \in IpPkt}
               r == [n \in DOMAIN q |-> Displayed(q[n])]
    <3>2. r \in Seq(S) /\ Len(r) = Len(q)
      <4>1. r \in [1 .. Len(q) -> S]
        BY <2>3, <3>1, ElementOfSeq
      <4>2. QED
        BY <3>1, <4>1, SeqDef, LenProperties
    <3>3. Displayed(p) \in S
      BY <2>1
    <3> HIDE DEF S
    <3>4. /\ DOMAIN Append(r, Displayed(p)) = 1 .. Len(q) + 1
          /\ Append(r, Displayed(p))[Len(q) + 1] = Displayed(p)
          /\ \A n \in 1 .. Len(q) : Append(r, Displayed(p))[n] = r[n]
          /\ Append(r, Displayed(p)) \in Seq(S)
      <4> HIDE DEF r
      <4>1. QED
        BY <3>2, <3>3, AppendProperties, LenProperties
    <3>5. \A n \in 1 .. Len(q) + 1 :
            Displayed(Append(q, p)[n]) = Append(r, Displayed(p))[n]
      BY <3>1, <3>4
    <3>6. Append(r, Displayed(p)) = [n \in 1 .. Len(q) + 1 |-> Append(r, Displayed(p))[n]]
      <4> HIDE DEF r
      <4>1. QED
        BY <3>4, LenProperties
    <3>7. QED
      BY <3>1, <3>5, <3>6
  <2>5. QED
    BY <1>3, <2>1, <2>2, <2>4 DEF Inbox
<1>9. QED
  <2>1. ~Service!Shown(m)
    BY <1>7 DEF Service!Shown, Inbox, Displayed
  <2>2. Displayed(p) = [dst |-> m.dst, data |-> m.data]
    BY <1>5 DEF Displayed
  <2>3. QED
    BY <1>3, <1>5, <1>6, <1>8, <2>1, <2>2 DEF Service!Show

(* The initial states map to initial states, *)
LEMMA ServiceInit ==
  ASSUME NetworkInit
  PROVE  Service!Init
<1>1. sent = {} /\ \A s \in Station : shown[s] = <<>>
  BY DEF NetworkInit, StationInit
<1>2. \A s \in Station : [n \in DOMAIN shown[s] |-> Displayed(shown[s][n])] = <<>>
  BY <1>1, EmptySeq
<1>3. Inbox = [s \in Station |-> <<>>]
  BY <1>2 DEF Inbox
<1>4. QED
  BY <1>1, <1>3 DEF Service!Init

(* and every event to a step of the service or to none. *)
LEMMA ServiceStep ==
  ASSUME NInv, YInv, WellConfigured, OneHolder, Event
  PROVE  [Service!Next]_<<sent, Inbox>>
<1>1. UNCHANGED shown => UNCHANGED Inbox
  BY DEF Inbox
<1>2. ASSUME NEW s \in Station, NEW dst \in Ip, NEW d \in Data, Submitted(s, dst, d)
      PROVE  Service!Next
  <2>1. Service!Send(s, dst, d)
    BY <1>1, <1>2 DEF Submitted, Service!Send
  <2>2. QED
    BY <2>1 DEF Service!Next
<1>3. ASSUME NEW s \in Station, NEW i \in Own(s), Delivered(s, i)
      PROVE  Service!Next
  <2>1. i \in Iface
    BY OwnIsIface
  <2>2. Service!Show(s)
    BY <1>3, <2>1, DeliveredShows
  <2>3. QED
    BY <2>2 DEF Service!Next
<1>4. ASSUME NEW i, \/ Relayed(i) \/ Answered(i)
                    \/ \E s \in Station : \/ Forwarded(s, i) \/ Dropped(s, i)
                                          \/ \E n \in DOMAIN pq[s] : Unpended(s, i, n)
      PROVE  UNCHANGED <<sent, Inbox>>
  BY <1>1, <1>4 DEF Relayed, Answered, Forwarded, Dropped, Unpended
<1>5. CASE UNCHANGED flowVars
  BY <1>1, <1>5 DEF flowVars
<1>6. QED
  BY <1>2, <1>3, <1>4, <1>5 DEF Event

(***************************************************************************)
(* The network implements the abstract service, for every topology and     *)
(* every routing without mistakes: each message is shown at most once, at  *)
(* the station it was sent to, after it was sent.  Every step of a bridge, *)
(* a router or a cache is a step of the service or none of its business.   *)
(***************************************************************************)
THEOREM NetworkImplementsService ==
  ASSUME WellConfigured, NothingExpires
  PROVE  NetworkSpec => ImplementsService
<1>1. NetworkInit => Service!Init
  BY ServiceInit
<1>2. /\ NInv /\ YInv /\ OneHolder /\ [NetworkNext]_networkVars
      => [Service!Next]_<<sent, Inbox>>
  BY YoungStep, ServiceStep
<1>3. QED
  BY <1>1, <1>2, OneHolderInvariant, PTL DEF NetworkSpec, ImplementsService, Service!Spec
-----------------------------------------------------------------------------
(* Packets that wait, and what they wait for. *)

(* The equation of PendingHasRequest for interfaces i of s and k. *)
Balanced(s, i, k) ==
  HowMany(pq[s], Waits(i, k)) =
    HowMany(up[i], Asks(i, k)) + HowMany(down[k], Asks(i, k))
      + HowMany(up[k], Answers(i, k)) + HowMany(down[i], Answers(i, k))

(* What is put at, or taken from, y counts for x. *)
At(x, y, c, kind) == IF x = y /\ c \in kind THEN 1 ELSE 0

(* The terms of the equation are numbers. *)
LEMMA BalanceTypes ==
  ASSUME NInv, NEW s \in Station, NEW i \in Iface, NEW k \in Iface
  PROVE  /\ HowMany(pq[s], Waits(i, k)) \in Nat
         /\ HowMany(up[i], Asks(i, k)) \in Nat /\ HowMany(down[k], Asks(i, k)) \in Nat
         /\ HowMany(up[k], Answers(i, k)) \in Nat /\ HowMany(down[i], Answers(i, k)) \in Nat
BY CountsTypes

(* What is counted for requests and what for responses. *)
LEMMA ArpKinds ==
  ASSUME NEW f \in EtherPkt, NEW i, NEW k
  PROVE  /\ ~IsRequest(f) => f \notin Asks(i, k)
         /\ ~IsResponse(f) => f \notin Answers(i, k)
         /\ IsIp(f) => ~IsRequest(f) /\ ~IsResponse(f)
         /\ IsRequest(f) => ~IsResponse(f)
BY OneKind DEF Asks, Answers, IsRequest, IsResponse

(* Of the frames between i and k, those that have been taken. *)
LEMMA TakenBalance ==
  ASSUME NInv, NEW j \in Iface, Takes(j), NEW f, f = Head(down[j]),
         NEW i \in Iface, NEW k \in Iface
  PROVE  /\ HowMany(down[k], Asks(i, k)) =
              HowMany(down'[k], Asks(i, k)) + At(k, j, f, Asks(i, k))
         /\ HowMany(down[i], Answers(i, k)) =
              HowMany(down'[i], Answers(i, k)) + At(i, j, f, Answers(i, k))
         /\ HowMany(down'[k], Asks(i, k)) \in Nat /\ HowMany(down'[i], Answers(i, k)) \in Nat
<1>1. \A x \in Iface : \A kind :
        HowMany(down[x], kind) = HowMany(down'[x], kind) + (IF x = j THEN Counts(f, kind) ELSE 0)
  BY TakesCount
<1>2. \A x \in Iface : \A kind :
        HowMany(down[x], kind) = HowMany(down'[x], kind) + At(x, j, f, kind)
  <2> SUFFICES ASSUME NEW x \in Iface, NEW kind
               PROVE  HowMany(down[x], kind) = HowMany(down'[x], kind) + At(x, j, f, kind)
    OBVIOUS
  <2>1. At(x, j, f, kind) = IF x = j THEN Counts(f, kind) ELSE 0
    BY DEF At, Counts
  <2>2. HowMany(down[x], kind) = HowMany(down'[x], kind) + (IF x = j THEN Counts(f, kind) ELSE 0)
    BY <1>1
  <2>3. QED
    BY <2>1, <2>2
<1>3. ASSUME NEW x \in Iface
      PROVE  down'[x] \in Seq(EtherPkt \cup Reply)
  BY QueueTypes, HeadTailProperties DEF Takes
<1>4. \A x \in Iface : \A kind : HowMany(down'[x], kind) \in Nat
  BY <1>3, CountType
<1>5. QED
  BY <1>2, <1>4

(* Of the frames between i and k, those that have been sent. *)
LEMMA EmittedBalance ==
  ASSUME NInv, NEW j \in Iface, NEW f \in EtherPkt, Emits(j, f),
         NEW i \in Iface, NEW k \in Iface
  PROVE  /\ HowMany(up'[i], Asks(i, k)) =
              HowMany(up[i], Asks(i, k)) + At(i, j, f, Asks(i, k))
         /\ HowMany(up'[k], Answers(i, k)) =
              HowMany(up[k], Answers(i, k)) + At(k, j, f, Answers(i, k))
<1>1. \A x \in Iface : \A kind :
        HowMany(up'[x], kind) = HowMany(up[x], kind) + (IF x = j THEN Counts(f, kind) ELSE 0)
  BY EmitsCount
<1>2. \A x \in Iface : \A kind :
        HowMany(up'[x], kind) = HowMany(up[x], kind) + At(x, j, f, kind)
  <2> SUFFICES ASSUME NEW x \in Iface, NEW kind
               PROVE  HowMany(up'[x], kind) = HowMany(up[x], kind) + At(x, j, f, kind)
    OBVIOUS
  <2>1. At(x, j, f, kind) = IF x = j THEN Counts(f, kind) ELSE 0
    BY DEF At, Counts
  <2>2. HowMany(up'[x], kind) = HowMany(up[x], kind) + (IF x = j THEN Counts(f, kind) ELSE 0)
    BY <1>1
  <2>3. QED
    BY <2>1, <2>2
<1>3. QED
  BY <1>2

(* A message that departs: it waits with its request, or neither. *)
LEMMA DepartureBalance ==
  ASSUME NInv, WellConfigured, NEW t \in Station, NEW dst \in Ip, NEW d \in Data,
         NEW k0 \in Iface, Departs(t, dst, d, k0),
         NEW s \in Station, NEW i \in Own(s), NEW k \in Iface
  PROVE  \E n \in {0, 1} :
           /\ HowMany(pq'[s], Waits(i, k)) = HowMany(pq[s], Waits(i, k)) + n
           /\ HowMany(up'[i], Asks(i, k)) = HowMany(up[i], Asks(i, k)) + n
           /\ HowMany(up'[k], Answers(i, k)) = HowMany(up[k], Answers(i, k))
<1>1. PICK j : j = route[t][dst].iface
  OBVIOUS
<1>2. /\ j \in Own(t) /\ j \in Iface /\ i \in Iface
      /\ mac_addr[k0] \in AnyMac /\ ip_addr[k0] \in Ip
  BY <1>1, OwnIsIface, PacketsAssumption DEF Departs, LeadsTo, AnyMac
<1>3. /\ HowMany(pq[s], Waits(i, k)) \in Nat
      /\ HowMany(up[i], Asks(i, k)) \in Nat /\ HowMany(up[k], Answers(i, k)) \in Nat
  BY <1>2, BalanceTypes
<1>4. ASSUME NEW src \in Ip, UNCHANGED pq,
             Emits(j, IpFrame(mac_addr[j], mac_addr[k0], create_pkt(src, dst, d)))
      PROVE  /\ HowMany(pq'[s], Waits(i, k)) = HowMany(pq[s], Waits(i, k)) + 0
             /\ HowMany(up'[i], Asks(i, k)) = HowMany(up[i], Asks(i, k)) + 0
             /\ HowMany(up'[k], Answers(i, k)) = HowMany(up[k], Answers(i, k))
  <2>1. PICK f : f = IpFrame(mac_addr[j], mac_addr[k0], create_pkt(src, dst, d))
    OBVIOUS
  <2>2. f \in EtherPkt
    <3>1. create_pkt(src, dst, d) \in IpPkt
      BY DEF create_pkt, IpPkt
    <3>2. QED
      BY <1>2, <2>1, <3>1, MadeFrames DEF TrueFrame
  <2>3. f \notin Asks(i, k) /\ f \notin Answers(i, k)
    BY <2>1, <2>2, FrameShapes, ArpKinds
  <2>4. Emits(j, f)
    BY <1>4, <2>1
  <2>5. At(i, j, f, Asks(i, k)) = 0 /\ At(k, j, f, Answers(i, k)) = 0
    BY <2>3 DEF At
  <2>6. /\ HowMany(up'[i], Asks(i, k)) = HowMany(up[i], Asks(i, k)) + At(i, j, f, Asks(i, k))
        /\ HowMany(up'[k], Answers(i, k)) =
             HowMany(up[k], Answers(i, k)) + At(k, j, f, Answers(i, k))
    BY <1>2, <2>2, <2>4, EmittedBalance
  <2>7. QED
    BY <1>3, <1>4, <2>5, <2>6
<1>5. ASSUME Emits(j, RequestFor(j, ip_addr[k0])), NEW p \in PendingPkt,
             p.iface_name = j, p.next_hop_ipaddr = ip_addr[k0],
             pq' = [pq EXCEPT ![t] = Append(@, p)]
      PROVE  \E n \in {0, 1} :
               /\ HowMany(pq'[s], Waits(i, k)) = HowMany(pq[s], Waits(i, k)) + n
               /\ HowMany(up'[i], Asks(i, k)) = HowMany(up[i], Asks(i, k)) + n
               /\ HowMany(up'[k], Answers(i, k)) = HowMany(up[k], Answers(i, k))
  <2>1. PICK f : f = RequestFor(j, ip_addr[k0])
    OBVIOUS
  <2>2. /\ f \in EtherPkt /\ IsRequest(f) /\ f.mac_src = mac_addr[j]
        /\ f.arp_pkt.dst_ip = ip_addr[k0]
    <3>1. PICK r : r = create_req_pkt(j, ip_addr[k0])
      OBVIOUS
    <3>2. f = ArpFrame(mac_addr[j], NoMac, r) /\ r.op = ARP_REQUEST /\ r.dst_ip = ip_addr[k0]
      BY <2>1, <3>1 DEF RequestFor, create_req_pkt
    <3>3. f \in EtherPkt
      BY <1>2, <3>1, <3>2, MadeFrames DEF TrueFrame
    <3>4. QED
      BY <3>2, <3>3, FrameShapes
  <2>3. Emits(j, f)
    BY <1>5, <2>1
  <2>4. f \in Asks(i, k) <=> i = j /\ k = k0
    BY <1>2, <2>2, AddressesDiffer DEF Asks
  <2>5. p \in Waits(i, k) <=> i = j /\ k = k0
    BY <1>5, AddressesDiffer DEF Waits
  <2>6. i = j => s = t
    BY <1>2, OwnIsIface
  <2>7. f \notin Answers(i, k)
    BY <2>2, ArpKinds
  <2>8. PICK n : n = At(i, j, f, Asks(i, k))
    OBVIOUS
  <2>9. n \in {0, 1} /\ At(k, j, f, Answers(i, k)) = 0 /\ At(s, t, p, Waits(i, k)) = n
    BY <2>4, <2>5, <2>6, <2>7, <2>8 DEF At
  <2>10. /\ HowMany(up'[i], Asks(i, k)) = HowMany(up[i], Asks(i, k)) + At(i, j, f, Asks(i, k))
         /\ HowMany(up'[k], Answers(i, k)) =
              HowMany(up[k], Answers(i, k)) + At(k, j, f, Answers(i, k))
    BY <1>2, <2>2, <2>3, EmittedBalance
  <2>11. HowMany(pq'[s], Waits(i, k)) = HowMany(pq[s], Waits(i, k)) + At(s, t, p, Waits(i, k))
    <3>1. \A x \in Station : \A kind :
            HowMany(pq'[x], kind) = HowMany(pq[x], kind) + (IF x = t THEN Counts(p, kind) ELSE 0)
      BY <1>5, PendsCount
    <3>2. PICK kind : kind = Waits(i, k)
      OBVIOUS
    <3>3. HowMany(pq'[s], kind) = HowMany(pq[s], kind) + (IF s = t THEN Counts(p, kind) ELSE 0)
      BY <3>1
    <3>4. At(s, t, p, kind) = IF s = t THEN Counts(p, kind) ELSE 0
      BY DEF At, Counts
    <3>5. QED
      BY <3>2, <3>3, <3>4
  <2>12. QED
    BY <1>3, <2>8, <2>9, <2>10, <2>11
<1>6. QED
  <2>1. CASE /\ UNCHANGED pq
             /\ \E src \in Ip :
                  Emits(j, IpFrame(mac_addr[j], mac_addr[k0], create_pkt(src, dst, d)))
    BY <1>4, <2>1
  <2>2. CASE /\ Emits(j, RequestFor(j, ip_addr[k0]))
             /\ \E p \in PendingPkt :
                  /\ p.iface_name = j /\ p.next_hop_ipaddr = ip_addr[k0]
                  /\ pq' = [pq EXCEPT ![t] = Append(@, p)]
    BY <1>5, <2>2
  <2>3. QED
    BY <1>1, <2>1, <2>2 DEF Departs

(* Relaying moves a request to every other interface of the LAN, so once   *)
(* to the one it asks for, and a response to the one that asked.           *)
LEMMA RelayedBalance ==
  ASSUME NInv, YInv, WellConfigured, NEW j \in Iface, Relayed(j),
         NEW s \in Station, NEW i \in Own(s), NEW k \in Iface \ Own(s), Balanced(s, i, k)
  PROVE  Balanced(s, i, k)'
<1>1. PICK f : f = Head(up[j])
  OBVIOUS
<1>2. f \in Sound(j) /\ f \in EtherPkt /\ UNCHANGED pq
  BY <1>1, NextUp DEF Relayed, YInv, Sound
<1>3. i \in Iface /\ i # k
  BY OwnIsIface
<1>4. \A x \in Iface : \A kind :
        /\ HowMany(up[x], kind) = HowMany(up'[x], kind) + At(x, j, f, kind)
        /\ HowMany(down'[x], kind) =
             HowMany(down[x], kind) + (IF x \in Addressees(j, f) THEN Counts(f, kind) ELSE 0)
        /\ HowMany(up'[x], kind) \in Nat
  <2> SUFFICES ASSUME NEW x \in Iface, NEW kind
               PROVE  /\ HowMany(up[x], kind) = HowMany(up'[x], kind) + At(x, j, f, kind)
                      /\ HowMany(down'[x], kind) = HowMany(down[x], kind)
                           + (IF x \in Addressees(j, f) THEN Counts(f, kind) ELSE 0)
                      /\ HowMany(up'[x], kind) \in Nat
    OBVIOUS
  <2>1. /\ HowMany(up[x], kind) =
             HowMany(up'[x], kind) + (IF x = j THEN Counts(f, kind) ELSE 0)
        /\ HowMany(down'[x], kind) =
             HowMany(down[x], kind) + (IF x \in Addressees(j, f) THEN Counts(f, kind) ELSE 0)
    BY <1>1, <1>2, RelayCounts
  <2>2. At(x, j, f, kind) = IF x = j THEN Counts(f, kind) ELSE 0
    BY DEF At, Counts
  <2>3. up'[x] \in Seq(EtherPkt)
    BY QueueTypes, HeadTailProperties DEF Relayed
  <2>4. HowMany(up'[x], kind) \in Nat
    BY <2>3, CountType
  <2>5. QED
    BY <2>1, <2>2, <2>4
<1>5. f \in Asks(i, k) => i = j /\ k \in Addressees(j, f)
  <2>1. SUFFICES ASSUME f \in Asks(i, k)
                 PROVE  i = j /\ k \in Addressees(j, f)
    OBVIOUS
  <2>2. IsRequest(f) /\ f.mac_src = mac_addr[i] /\ f.arp_pkt.dst_ip = ip_addr[k]
    BY <2>1 DEF Asks
  <2>3. f.mac_src = mac_addr[j] /\ f.mac_dst = NoMac /\ SoundRequest(j, f)
    BY <1>2, <2>2, SoundFields
  <2>4. i = j
    BY <1>3, <2>2, <2>3, AddressesDiffer
  <2>5. PICK x \in OnLan(lan_name[j]) : f.arp_pkt.dst_ip = ip_addr[x]
    BY <2>3 DEF SoundRequest
  <2>6. x = k
    BY <2>2, <2>5, AddressesDiffer DEF OnLan
  <2>7. QED
    BY <1>3, <2>3, <2>4, <2>5, <2>6 DEF Addressees
<1>6. f \in Answers(i, k) => k = j /\ i \in Addressees(j, f)
  <2>1. SUFFICES ASSUME f \in Answers(i, k)
                 PROVE  k = j /\ i \in Addressees(j, f)
    OBVIOUS
  <2>2. IsResponse(f) /\ f.arp_pkt.src_ip = ip_addr[k] /\ f.arp_pkt.dst_mac = mac_addr[i]
    BY <2>1 DEF Answers
  <2>3. SoundResponse(j, f) /\ f.mac_dst # NoMac
    BY <1>2, <2>2, SoundFields, OneKind
  <2>4. k = j
    BY <2>2, <2>3, AddressesDiffer DEF SoundResponse
  <2>5. PICK x \in OnLan(lan_name[j]) : f.mac_dst = mac_addr[x] /\ f.arp_pkt.dst_mac = mac_addr[x]
    BY <2>3 DEF SoundResponse
  <2>6. x = i
    BY <1>3, <2>2, <2>5, AddressesDiffer DEF OnLan
  <2>7. QED
    BY <2>3, <2>4, <2>5, <2>6 DEF Addressees
<1>7. /\ HowMany(up[i], Asks(i, k)) + HowMany(down[k], Asks(i, k))
           = HowMany(up'[i], Asks(i, k)) + HowMany(down'[k], Asks(i, k))
      /\ HowMany(down'[k], Asks(i, k)) \in Nat
  <2>1. PICK kind : kind = Asks(i, k)
    OBVIOUS
  <2>2. HowMany(down[k], kind) \in Nat /\ HowMany(up[i], kind) \in Nat
    BY <1>3, CountsTypes
  <2>3. /\ HowMany(up[i], kind) = HowMany(up'[i], kind) + At(i, j, f, kind)
        /\ HowMany(down'[k], kind) =
             HowMany(down[k], kind) + (IF k \in Addressees(j, f) THEN Counts(f, kind) ELSE 0)
        /\ HowMany(up'[i], kind) \in Nat
    BY <1>3, <1>4
  <2>4. At(i, j, f, kind) = IF k \in Addressees(j, f) THEN Counts(f, kind) ELSE 0
    BY <1>5, <2>1 DEF At, Counts
  <2>5. At(i, j, f, kind) \in {0, 1}
    BY DEF At
  <2>6. QED
    BY <2>1, <2>2, <2>3, <2>4, <2>5
<1>8. /\ HowMany(up[k], Answers(i, k)) + HowMany(down[i], Answers(i, k))
           = HowMany(up'[k], Answers(i, k)) + HowMany(down'[i], Answers(i, k))
      /\ HowMany(down'[i], Answers(i, k)) \in Nat
  <2>1. PICK kind : kind = Answers(i, k)
    OBVIOUS
  <2>2. HowMany(down[i], kind) \in Nat /\ HowMany(up[k], kind) \in Nat
    BY <1>3, CountsTypes
  <2>3. /\ HowMany(up[k], kind) = HowMany(up'[k], kind) + At(k, j, f, kind)
        /\ HowMany(down'[i], kind) =
             HowMany(down[i], kind) + (IF i \in Addressees(j, f) THEN Counts(f, kind) ELSE 0)
        /\ HowMany(up'[k], kind) \in Nat
    BY <1>3, <1>4
  <2>4. At(k, j, f, kind) = IF i \in Addressees(j, f) THEN Counts(f, kind) ELSE 0
    BY <1>6, <2>1 DEF At, Counts
  <2>5. At(k, j, f, kind) \in {0, 1}
    BY DEF At
  <2>6. QED
    BY <2>1, <2>2, <2>3, <2>4, <2>5
<1>9. /\ HowMany(up'[i], Asks(i, k)) \in Nat /\ HowMany(up'[k], Answers(i, k)) \in Nat
      /\ HowMany(up[i], Asks(i, k)) \in Nat /\ HowMany(down[k], Asks(i, k)) \in Nat
      /\ HowMany(up[k], Answers(i, k)) \in Nat /\ HowMany(down[i], Answers(i, k)) \in Nat
  BY <1>3, <1>4, BalanceTypes
<1>10. QED
  BY <1>2, <1>7, <1>8, <1>9 DEF Balanced

(* A departure that takes nothing from between i and k keeps the balance, *)
LEMMA DepartedBalance ==
  ASSUME NInv, WellConfigured, NEW t \in Station, NEW dst \in Ip, NEW d \in Data,
         NEW k0 \in Iface, Departs(t, dst, d, k0),
         NEW s \in Station, NEW i \in Own(s), NEW k \in Iface \ Own(s), Balanced(s, i, k),
         HowMany(down'[k], Asks(i, k)) = HowMany(down[k], Asks(i, k)),
         HowMany(down'[i], Answers(i, k)) = HowMany(down[i], Answers(i, k))
  PROVE  Balanced(s, i, k)'
<1>1. i \in Iface
  BY OwnIsIface
<1>2. PICK n \in {0, 1} :
        /\ HowMany(pq'[s], Waits(i, k)) = HowMany(pq[s], Waits(i, k)) + n
        /\ HowMany(up'[i], Asks(i, k)) = HowMany(up[i], Asks(i, k)) + n
        /\ HowMany(up'[k], Answers(i, k)) = HowMany(up[k], Answers(i, k))
  BY DepartureBalance
<1>3. /\ HowMany(pq[s], Waits(i, k)) \in Nat
      /\ HowMany(up[i], Asks(i, k)) \in Nat /\ HowMany(down[k], Asks(i, k)) \in Nat
      /\ HowMany(up[k], Answers(i, k)) \in Nat /\ HowMany(down[i], Answers(i, k)) \in Nat
  BY <1>1, BalanceTypes
<1>4. QED
  BY <1>2, <1>3 DEF Balanced

(* and forwarding or delivery takes nothing. *)
LEMMA ForwardedBalance ==
  ASSUME NInv, YInv, WellConfigured, NEW t \in Station, NEW j \in Own(t),
         Forwarded(t, j) \/ Delivered(t, j),
         NEW s \in Station, NEW i \in Own(s), NEW k \in Iface \ Own(s), Balanced(s, i, k)
  PROVE  Balanced(s, i, k)'
<1>1. PICK f : f = Head(down[j])
  OBVIOUS
<1>2. i \in Iface /\ j \in Iface
  BY OwnIsIface
<1>3. Takes(j) /\ IsIp(f) /\ f \in EtherPkt
  BY <1>1, <1>2, NextDown DEF Forwarded, Delivered, Takes, YInv
<1>4. f \notin Asks(i, k) /\ f \notin Answers(i, k)
  BY <1>3, ArpKinds
<1>5. /\ HowMany(down'[k], Asks(i, k)) = HowMany(down[k], Asks(i, k))
      /\ HowMany(down'[i], Answers(i, k)) = HowMany(down[i], Answers(i, k))
  <2>1. At(k, j, f, Asks(i, k)) = 0 /\ At(i, j, f, Answers(i, k)) = 0
    BY <1>4 DEF At
  <2>2. /\ HowMany(down[k], Asks(i, k)) =
             HowMany(down'[k], Asks(i, k)) + At(k, j, f, Asks(i, k))
        /\ HowMany(down[i], Answers(i, k)) =
             HowMany(down'[i], Answers(i, k)) + At(i, j, f, Answers(i, k))
        /\ HowMany(down'[k], Asks(i, k)) \in Nat /\ HowMany(down'[i], Answers(i, k)) \in Nat
    BY <1>1, <1>2, <1>3, TakenBalance
  <2>3. QED
    BY <2>1, <2>2
<1>6. CASE Forwarded(t, j)
  <2>1. PICK k0 \in Iface : Departs(t, f.ip_pkt.dst_ip, f.ip_pkt.data, k0)
    BY <1>1, <1>6 DEF Forwarded
  <2>2. f.ip_pkt.dst_ip \in Ip /\ f.ip_pkt.data \in Data
    BY <1>3, IpContents
  <2>3. QED
    BY <1>5, <2>1, <2>2, DepartedBalance
<1>7. CASE Delivered(t, j)
  <2>1. UNCHANGED <<up, pq>>
    BY <1>7 DEF Delivered
  <2>2. QED
    BY <1>5, <2>1 DEF Balanced
<1>8. QED
  BY <1>6, <1>7

(* An answer replaces the request it is for. *)
LEMMA AnsweredBalance ==
  ASSUME NInv, YInv, WellConfigured, NEW j \in Iface, Answered(j),
         NEW s \in Station, NEW i \in Own(s), NEW k \in Iface \ Own(s), Balanced(s, i, k)
  PROVE  Balanced(s, i, k)'
<1>1. PICK f : f = Head(down[j])
  OBVIOUS
<1>2. PICK g : g = AnswerTo(j, f)
  OBVIOUS
<1>3. /\ i \in Iface /\ Takes(j) /\ IsRequest(f) /\ f.arp_pkt.dst_ip = ip_addr[j]
      /\ f \in EtherPkt /\ f \in Heard(j) /\ Emits(j, g) /\ UNCHANGED pq
  BY <1>1, <1>2, OwnIsIface, NextDown DEF Answered, Takes, YInv
<1>4. PICK x \in Iface : f \in Sound(x)
  BY <1>3, HeardFields
<1>5. f.mac_src = mac_addr[x] /\ f.arp_pkt.src_mac = mac_addr[x]
  BY <1>3, <1>4, SoundFields DEF IsRequest
<1>6. /\ g \in EtherPkt /\ IsResponse(g) /\ g.arp_pkt.src_ip = ip_addr[j]
      /\ g.arp_pkt.dst_mac = mac_addr[x]
  <2>1. PICK r : r = create_resp_pkt(f.arp_pkt, ip_addr[j], mac_addr[j])
    OBVIOUS
  <2>2. /\ g = ArpFrame(mac_addr[j], f.mac_src, r) /\ r.op = ARP_RESPONSE
        /\ r.src_ip = ip_addr[j] /\ r.dst_mac = mac_addr[x]
    BY <1>2, <1>5, <2>1 DEF AnswerTo, create_resp_pkt
  <2>3. g \in EtherPkt
    BY <1>3, <2>1, <2>2, MadeFrames DEF TrueFrame
  <2>4. QED
    BY <2>2, <2>3, FrameShapes
<1>7. f \notin Answers(i, k) /\ g \notin Asks(i, k)
  BY <1>3, <1>6, ArpKinds
<1>8. k = j => (f \in Asks(i, k) <=> g \in Answers(i, k))
  BY <1>3, <1>5, <1>6, AddressesDiffer DEF Asks, Answers
<1>9. /\ At(i, j, f, Answers(i, k)) = 0 /\ At(i, j, g, Asks(i, k)) = 0
      /\ At(k, j, f, Asks(i, k)) = At(k, j, g, Answers(i, k))
      /\ At(k, j, f, Asks(i, k)) \in {0, 1}
  BY <1>7, <1>8 DEF At
<1>10. /\ HowMany(down[k], Asks(i, k)) =
            HowMany(down'[k], Asks(i, k)) + At(k, j, f, Asks(i, k))
       /\ HowMany(down[i], Answers(i, k)) =
            HowMany(down'[i], Answers(i, k)) + At(i, j, f, Answers(i, k))
       /\ HowMany(down'[k], Asks(i, k)) \in Nat /\ HowMany(down'[i], Answers(i, k)) \in Nat
  BY <1>1, <1>3, TakenBalance
<1>11. /\ HowMany(up'[i], Asks(i, k)) = HowMany(up[i], Asks(i, k)) + At(i, j, g, Asks(i, k))
       /\ HowMany(up'[k], Answers(i, k)) =
            HowMany(up[k], Answers(i, k)) + At(k, j, g, Answers(i, k))
  BY <1>3, <1>6, EmittedBalance
<1>12. HowMany(up[i], Asks(i, k)) \in Nat /\ HowMany(up[k], Answers(i, k)) \in Nat
  BY <1>3, BalanceTypes
<1>13. QED
  BY <1>3, <1>9, <1>10, <1>11, <1>12 DEF Balanced

(* A response that is taken leaves with one packet. *)
LEMMA UnpendedBalance ==
  ASSUME NInv, YInv, WellConfigured, NEW t \in Station, NEW j \in Own(t),
         NEW n \in DOMAIN pq[t], Unpended(t, j, n),
         NEW s \in Station, NEW i \in Own(s), NEW k \in Iface \ Own(s), Balanced(s, i, k)
  PROVE  Balanced(s, i, k)'
<1>1. PICK f : f = Head(down[j])
  OBVIOUS
<1>2. PICK w : w = pq[t][n]
  OBVIOUS
<1>3. PICK g : g = Released(t, w, f.arp_pkt.src_mac)
  OBVIOUS
<1>4. i \in Iface /\ j \in Iface
  BY OwnIsIface
<1>5. /\ Takes(j) /\ IsResponse(f) /\ f \in EtherPkt /\ f \in Heard(j) /\ Emits(j, g)
      /\ pq' = [pq EXCEPT ![t] = RemoveAt(@, n)]
      /\ w.iface_name = j /\ w.next_hop_ipaddr = f.arp_pkt.src_ip
  BY <1>1, <1>2, <1>3, <1>4, NextDown DEF Unpended, Takes, YInv
<1>6. w \in PendingPkt
  BY <1>2, ElementOfSeq, LenProperties, QueueTypes
<1>7. g \in EtherPkt /\ g \notin Asks(i, k) /\ g \notin Answers(i, k)
  <2>1. f.arp_pkt.src_mac \in AnyMac
    BY <1>5 DEF EtherPkt, ArpPkt, IsResponse, IsArp, AnyMac, TYPE_IP_PKT, TYPE_ARP_PKT
  <2>2. create_pkt(w.src_ipaddr, w.dst_ipaddr, w.data) \in IpPkt
    BY <1>6 DEF create_pkt, IpPkt, PendingPkt
  <2>3. g = IpFrame(mac_addr[j], f.arp_pkt.src_mac,
                    create_pkt(w.src_ipaddr, w.dst_ipaddr, w.data))
    BY <1>3, <1>5 DEF Released
  <2>4. g \in EtherPkt
    BY <1>4, <2>1, <2>2, <2>3, MadeFrames DEF TrueFrame
  <2>5. QED
    BY <2>3, <2>4, FrameShapes, ArpKinds
<1>8. f.arp_pkt.dst_mac = mac_addr[j]
  BY <1>4, <1>5, HeardFields
<1>9. i = j => /\ f \in Answers(i, k) <=> w \in Waits(i, k)
               /\ s = t
  <2>1. i = j => s = t
    BY OwnIsIface
  <2>2. i = j => (f \in Answers(i, k) <=> f.arp_pkt.src_ip = ip_addr[k])
    BY <1>5, <1>8 DEF Answers
  <2>3. i = j => (w \in Waits(i, k) <=> f.arp_pkt.src_ip = ip_addr[k])
    BY <1>5, <1>6 DEF Waits
  <2>4. QED
    BY <2>1, <2>2, <2>3
<1>10. w \in Waits(i, k) => i = j
  BY <1>5 DEF Waits
<1>11. f \notin Asks(i, k)
  BY <1>5, ArpKinds
<1>12. /\ At(i, j, f, Answers(i, k)) = At(s, t, w, Waits(i, k))
       /\ At(k, j, f, Asks(i, k)) = 0
       /\ At(i, j, g, Asks(i, k)) = 0 /\ At(k, j, g, Answers(i, k)) = 0
       /\ At(i, j, f, Answers(i, k)) \in {0, 1}
  BY <1>7, <1>9, <1>10, <1>11 DEF At
<1>13. /\ HowMany(pq[s], Waits(i, k)) =
            HowMany(pq'[s], Waits(i, k)) + At(s, t, w, Waits(i, k))
       /\ HowMany(pq'[s], Waits(i, k)) \in Nat
  <2>1. PICK kind : kind = Waits(i, k)
    OBVIOUS
  <2>2. \A x \in Station : \A m :
          HowMany(pq[x], m) = HowMany(pq'[x], m) + (IF x = t THEN Counts(pq[t][n], m) ELSE 0)
    BY <1>5, UnpendsCount
  <2>3. HowMany(pq[s], kind) = HowMany(pq'[s], kind) + (IF s = t THEN Counts(w, kind) ELSE 0)
    BY <1>2, <2>2
  <2>4. At(s, t, w, kind) = IF s = t THEN Counts(w, kind) ELSE 0
    BY DEF At, Counts
  <2>5. HowMany(pq'[s], kind) \in Nat
    <3>1. pq'[s] \in Seq(PendingPkt)
      BY <1>5, QueueTypes, RemoveAtProperties, LenProperties
    <3>2. QED
      BY <3>1, CountType
  <2>6. QED
    BY <2>1, <2>3, <2>4, <2>5
<1>14. /\ HowMany(down[k], Asks(i, k)) =
            HowMany(down'[k], Asks(i, k)) + At(k, j, f, Asks(i, k))
       /\ HowMany(down[i], Answers(i, k)) =
            HowMany(down'[i], Answers(i, k)) + At(i, j, f, Answers(i, k))
       /\ HowMany(down'[k], Asks(i, k)) \in Nat /\ HowMany(down'[i], Answers(i, k)) \in Nat
  BY <1>1, <1>4, <1>5, TakenBalance
<1>15. /\ HowMany(up'[i], Asks(i, k)) = HowMany(up[i], Asks(i, k)) + At(i, j, g, Asks(i, k))
       /\ HowMany(up'[k], Answers(i, k)) =
            HowMany(up[k], Answers(i, k)) + At(k, j, g, Answers(i, k))
  BY <1>4, <1>5, <1>7, EmittedBalance
<1>16. HowMany(up[i], Asks(i, k)) \in Nat /\ HowMany(up[k], Answers(i, k)) \in Nat
  BY <1>4, BalanceTypes
<1>17. QED
  BY <1>12, <1>13, <1>14, <1>15, <1>16 DEF Balanced

(* A response finds its packet: nothing that counts is dropped. *)
LEMMA DroppedBalance ==
  ASSUME NInv, YInv, WellConfigured, PendingHasRequest,
         NEW t \in Station, NEW j \in Own(t), Dropped(t, j),
         NEW s \in Station, NEW i \in Own(s), NEW k \in Iface \ Own(s)
  PROVE  Balanced(s, i, k)'
<1>1. PICK f : f = Head(down[j])
  OBVIOUS
<1>2. i \in Iface /\ j \in Iface
  BY OwnIsIface
<1>3. /\ Takes(j) /\ f \in EtherPkt
      /\ \/ IsRequest(f) /\ f.arp_pkt.dst_ip # ip_addr[j]
         \/ /\ IsResponse(f)
            /\ \A n \in DOMAIN pq[t] : pq[t][n].next_hop_ipaddr # f.arp_pkt.src_ip
      /\ UNCHANGED <<up, pq>>
  BY <1>1, <1>2, NextDown DEF Dropped, Takes, YInv
<1>4. Balanced(s, i, k)
  BY DEF PendingHasRequest, Balanced
<1>5. /\ HowMany(pq[s], Waits(i, k)) \in Nat
      /\ HowMany(up[i], Asks(i, k)) \in Nat /\ HowMany(down[k], Asks(i, k)) \in Nat
      /\ HowMany(up[k], Answers(i, k)) \in Nat /\ HowMany(down[i], Answers(i, k)) \in Nat
  BY <1>2, BalanceTypes
<1>6. ~(k = j /\ f \in Asks(i, k))
  BY <1>3, ArpKinds DEF Asks
<1>7. ~(i = j /\ f \in Answers(i, k))
  <2>1. SUFFICES ASSUME i = j, f \in Answers(i, k)
                 PROVE  FALSE
    OBVIOUS
  <2>2. s = t
    BY <2>1, OwnIsIface
  <2>3. IsResponse(f) /\ f.arp_pkt.src_ip = ip_addr[k]
    BY <2>1 DEF Answers
  <2>4. \A n \in DOMAIN pq[s] : pq[s][n] \notin Waits(i, k)
    BY <1>3, <2>2, <2>3, ArpKinds DEF Waits
  <2>5. HowMany(pq[s], Waits(i, k)) = 0
    <3>1. pq[s] \in Seq(PendingPkt)
      BY QueueTypes
    <3>2. \A kind : HowMany(pq[s], kind) = 0 <=> \A n \in DOMAIN pq[s] : pq[s][n] \notin kind
      BY <3>1, CountType
    <3>3. QED
      BY <2>4, <3>2
  <2>6. HowMany(down[i], Answers(i, k)) # 0
    <3>1. down[i] \in Seq(EtherPkt \cup Reply) /\ down[i] # <<>>
      BY <1>2, <1>3, <2>1, QueueTypes DEF Takes
    <3>2. 1 \in DOMAIN down[i] /\ down[i][1] = f
      BY <1>1, <2>1, <3>1, HeadTailProperties, EmptySeq, LenProperties
    <3>3. \A kind : HowMany(down[i], kind) = 0 <=> \A n \in DOMAIN down[i] : down[i][n] \notin kind
      BY <3>1, CountType
    <3>4. QED
      BY <2>1, <3>2, <3>3
  <2>7. QED
    BY <1>4, <1>5, <2>5, <2>6 DEF Balanced
<1>8. At(k, j, f, Asks(i, k)) = 0 /\ At(i, j, f, Answers(i, k)) = 0
  BY <1>6, <1>7 DEF At
<1>9. /\ HowMany(down[k], Asks(i, k)) =
           HowMany(down'[k], Asks(i, k)) + At(k, j, f, Asks(i, k))
      /\ HowMany(down[i], Answers(i, k)) =
           HowMany(down'[i], Answers(i, k)) + At(i, j, f, Answers(i, k))
      /\ HowMany(down'[k], Asks(i, k)) \in Nat /\ HowMany(down'[i], Answers(i, k)) \in Nat
  BY <1>1, <1>2, <1>3, TakenBalance
<1>10. QED
  BY <1>3, <1>4, <1>5, <1>8, <1>9 DEF Balanced

(* Every event keeps the equation. *)
LEMMA BalanceStays ==
  ASSUME NInv, YInv, WellConfigured, Event, PendingHasRequest
  PROVE  PendingHasRequest'
<1> SUFFICES ASSUME NEW s \in Station, NEW i \in Own(s), NEW k \in Iface \ Own(s)
             PROVE  Balanced(s, i, k)'
  BY DEF PendingHasRequest, Balanced
<1>1. Balanced(s, i, k)
  BY DEF PendingHasRequest, Balanced
<1>2. ASSUME NEW j \in Iface, Relayed(j)
      PROVE  Balanced(s, i, k)'
  BY <1>1, <1>2, RelayedBalance
<1>3. ASSUME NEW t \in Station, NEW dst \in Ip, NEW d \in Data, Submitted(t, dst, d)
      PROVE  Balanced(s, i, k)'
  <2>1. PICK k0 \in Iface : Departs(t, dst, d, k0)
    BY <1>3 DEF Submitted
  <2>2. UNCHANGED down
    BY <1>3 DEF Submitted
  <2>3. QED
    BY <1>1, <2>1, <2>2, DepartedBalance
<1>4. ASSUME NEW t \in Station, NEW j \in Own(t),
             Forwarded(t, j) \/ Delivered(t, j)
      PROVE  Balanced(s, i, k)'
  BY <1>1, <1>4, ForwardedBalance
<1>5. ASSUME NEW t \in Station, NEW j \in Own(t), Answered(j)
      PROVE  Balanced(s, i, k)'
  BY <1>1, <1>5, OwnIsIface, AnsweredBalance
<1>6. ASSUME NEW t \in Station, NEW j \in Own(t), NEW n \in DOMAIN pq[t], Unpended(t, j, n)
      PROVE  Balanced(s, i, k)'
  BY <1>1, <1>6, UnpendedBalance
<1>7. ASSUME NEW t \in Station, NEW j \in Own(t), Dropped(t, j)
      PROVE  Balanced(s, i, k)'
  BY <1>7, DroppedBalance
<1>8. CASE UNCHANGED flowVars
  BY <1>1, <1>8 DEF flowVars, Balanced
<1>9. QED
  BY <1>2, <1>3, <1>4, <1>5, <1>6, <1>7, <1>8 DEF Event

(* At first both sides are zero. *)
LEMMA BalanceInit ==
  ASSUME NetworkInit
  PROVE  PendingHasRequest
<1>1. /\ \A i \in Iface : up[i] = <<>> /\ down[i] = <<>>
      /\ \A s \in Station : pq[s] = <<>>
  BY DEF NetworkInit, StationInit
<1>2. \A kind : HowMany(<<>>, kind) = 0
  <2>1. <<>> \in Seq({}) /\ DOMAIN <<>> = {}
    BY EmptySeq
  <2>2. QED
    BY <2>1, CountType
<1>3. \A s \in Station : \A i \in Own(s) : i \in Iface
  BY OwnIsIface
<1>4. QED
  BY <1>1, <1>2, <1>3 DEF PendingHasRequest

(***************************************************************************)
(* While nothing expires and no process stops, no packet waits for an      *)
(* answer that will not come, although a response releases one packet and  *)
(* any number of them may wait for it: each has a request or a response of *)
(* its own on the way.                                                     *)
(***************************************************************************)
THEOREM NetworkPendingHasRequest ==
  ASSUME WellConfigured, NothingExpires
  PROVE  NetworkSpec => []PendingHasRequest
<1>1. NetworkInit => PendingHasRequest
  BY BalanceInit
<1>2. /\ NInv /\ YInv /\ PendingHasRequest /\ [NetworkNext]_networkVars
      => PendingHasRequest'
  BY YoungStep, BalanceStays
<1>3. QED
  BY <1>1, <1>2, YoungInvariant, PTL DEF NetworkSpec
=============================================================================
