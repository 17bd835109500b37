-------------------------- MODULE LazyRouterProofs --------------------------
(***************************************************************************)
(* The safety properties of LazyRouter, for any number of requests and     *)
(* hosts, any capacity of the LRU and any number of events.                *)
(*                                                                         *)
(* CoreInv is inductive by itself.  FlightInv, FreshInv and OrderInv are   *)
(* inductive on top of it, and give the remaining properties.              *)
(***************************************************************************)
EXTENDS LazyRouter, TLAPS

-----------------------------------------------------------------------------
(* What the operations of the LRU keep, for every list and capacity *)

\* Every entry of new is an entry of old.
OnlyOldEntries(new, old) ==
  \A j \in DOMAIN new : \E i \in DOMAIN old : new[j] = old[i]

\* Unlinking a node keeps the other entries, in order, and loses its key.
LEMMA RemoveFacts ==
  ASSUME NEW E, NEW list \in Seq(E), NEW i \in DOMAIN list
  PROVE  /\ remove(list, i) \in Seq(E)
         /\ Len(remove(list, i)) = Len(list) - 1
         /\ OnlyOldEntries(remove(list, i), list)
         /\ Unique(list) => Unique(remove(list, i))
         /\ Unique(list) => ~InCache(remove(list, i), list[i].key)
<1>1. /\ remove(list, i) \in Seq(E)
      /\ Len(remove(list, i)) = Len(list) - 1
  BY DEF remove
<1>2. \A j \in DOMAIN remove(list, i) :
        \E m \in DOMAIN list :
          /\ m # i
          /\ m = IF j < i THEN j ELSE j + 1
          /\ remove(list, i)[j] = list[m]
  BY DEF remove
<1>3. Unique(list) => Unique(remove(list, i))
  BY <1>1, <1>2 DEF Unique, remove
<1>4. Unique(list) => ~InCache(remove(list, i), list[i].key)
  BY <1>2 DEF Unique, InCache
<1>5. OnlyOldEntries(remove(list, i), list)
  BY <1>2 DEF OnlyOldEntries
<1>6. QED
  BY <1>1, <1>3, <1>4, <1>5

\* A new front entry with a key the list does not have.
LEMMA AddToFrontFacts ==
  ASSUME NEW E, NEW list \in Seq(E), NEW e \in E
  PROVE  /\ addToFront(list, e) \in Seq(E)
         /\ Len(addToFront(list, e)) = Len(list) + 1
         /\ \A j \in DOMAIN addToFront(list, e) :
              \/ addToFront(list, e)[j] = e
              \/ \E i \in DOMAIN list : addToFront(list, e)[j] = list[i]
         /\ Unique(list) /\ ~InCache(list, e.key)
              => Unique(addToFront(list, e))
<1>1. /\ addToFront(list, e) \in Seq(E)
      /\ Len(addToFront(list, e)) = Len(list) + 1
  BY DEF addToFront
<1>2. \A j \in DOMAIN addToFront(list, e) :
        \/ j = 1 /\ addToFront(list, e)[j] = e
        \/ j # 1 /\ j - 1 \in DOMAIN list
                 /\ addToFront(list, e)[j] = list[j - 1]
  BY DEF addToFront
<1>3. Unique(list) /\ ~InCache(list, e.key) => Unique(addToFront(list, e))
  <2> SUFFICES ASSUME Unique(list), ~InCache(list, e.key),
                      NEW a \in DOMAIN addToFront(list, e),
                      NEW b \in DOMAIN addToFront(list, e),
                      addToFront(list, e)[a].key = addToFront(list, e)[b].key
               PROVE  a = b
    BY DEF Unique
  <2>1. a \in Nat /\ b \in Nat
    BY <1>1
  <2>2. CASE a = 1
    BY <1>2, <2>1, <2>2 DEF InCache
  <2>3. CASE a # 1
    BY <1>2, <2>1, <2>3 DEF InCache, Unique
  <2>4. QED
    BY <2>2, <2>3
<1>4. QED
  BY <1>1, <1>2, <1>3

LEMMA NodeOfInList ==
  ASSUME NEW list, NEW k, InCache(list, k)
  PROVE  NodeOf(list, k) \in DOMAIN list /\ list[NodeOf(list, k)].key = k
BY DEF InCache, NodeOf

\* Moving a node to the front only reorders the list.
LEMMA MoveToFrontFacts ==
  ASSUME NEW E, NEW list \in Seq(E), NEW i \in DOMAIN list
  PROVE  /\ moveToFront(list, i) \in Seq(E)
         /\ Len(moveToFront(list, i)) = Len(list)
         /\ OnlyOldEntries(moveToFront(list, i), list)
         /\ Unique(list) => Unique(moveToFront(list, i))
<1> DEFINE rest == remove(list, i)
<1>1. list[i] \in E /\ Len(list) \in Nat
  OBVIOUS
<1>2. /\ rest \in Seq(E)
      /\ Len(rest) = Len(list) - 1
      /\ OnlyOldEntries(rest, list)
      /\ Unique(list) => Unique(rest) /\ ~InCache(rest, list[i].key)
  BY RemoveFacts
<1> HIDE DEF rest
<1>3. /\ addToFront(rest, list[i]) \in Seq(E)
      /\ Len(addToFront(rest, list[i])) = Len(rest) + 1
      /\ \A j \in DOMAIN addToFront(rest, list[i]) :
           \/ addToFront(rest, list[i])[j] = list[i]
           \/ \E m \in DOMAIN rest : addToFront(rest, list[i])[j] = rest[m]
      /\ Unique(rest) /\ ~InCache(rest, list[i].key)
           => Unique(addToFront(rest, list[i]))
  BY <1>1, <1>2, AddToFrontFacts
<1>4. moveToFront(list, i) = addToFront(rest, list[i])
  BY DEF moveToFront, rest
<1>5. OnlyOldEntries(addToFront(rest, list[i]), list)
  BY <1>2, <1>3 DEF OnlyOldEntries
<1>6. QED
  BY <1>1, <1>2, <1>3, <1>4, <1>5

\* Get only reorders the list.
LEMMA GetFacts ==
  ASSUME NEW E, NEW list \in Seq(E), NEW k
  PROVE  /\ Get(list, k) \in Seq(E)
         /\ Len(Get(list, k)) = Len(list)
         /\ OnlyOldEntries(Get(list, k), list)
         /\ Unique(list) => Unique(Get(list, k))
<1>1. CASE InCache(list, k)
  BY <1>1, NodeOfInList, MoveToFrontFacts DEF Get
<1>2. CASE ~InCache(list, k)
  BY <1>2 DEF Get, OnlyOldEntries
<1>3. QED
  BY <1>1, <1>2

\* The value Get returns is that of an entry carrying the key.
LEMMA GetValueFacts ==
  ASSUME NEW list, NEW k, InCache(list, k)
  PROVE  \E i \in DOMAIN list :
           list[i].key = k /\ GetValue(list, k) = list[i].value
BY NodeOfInList DEF GetValue

\* Delete unlinks the key's entry and keeps the others.
LEMMA DeleteFacts ==
  ASSUME NEW E, NEW list \in Seq(E), NEW k, Unique(list)
  PROVE  /\ Delete(list, k) \in Seq(E)
         /\ Len(Delete(list, k)) <= Len(list)
         /\ OnlyOldEntries(Delete(list, k), list)
         /\ Unique(Delete(list, k))
         /\ ~InCache(Delete(list, k), k)
<1>1. CASE InCache(list, k)
  <2>1. /\ NodeOf(list, k) \in DOMAIN list
        /\ list[NodeOf(list, k)].key = k
        /\ Delete(list, k) = remove(list, NodeOf(list, k))
    BY <1>1, NodeOfInList DEF Delete
  <2>2. Len(list) \in Nat
    OBVIOUS
  <2>3. QED
    BY <2>1, <2>2, RemoveFacts
<1>2. CASE ~InCache(list, k)
  BY <1>2 DEF Delete, OnlyOldEntries
<1>3. QED
  BY <1>1, <1>2

\* Put never grows the list beyond the capacity, and adds one entry.  The
\* router only puts a key that is absent (SingleFlight of LazyRouter).
LEMMA PutAbsentFacts ==
  ASSUME NEW E, NEW list \in Seq(E), NEW capacity \in Nat \ {0},
         NEW k, NEW v, [key |-> k, value |-> v] \in E,
         Unique(list), Len(list) <= capacity, ~InCache(list, k)
  PROVE  LET new == Put(list, capacity, k, v) IN
         /\ new \in Seq(E)
         /\ Len(new) <= capacity
         /\ Unique(new)
         /\ \A j \in DOMAIN new :
              \/ new[j] = [key |-> k, value |-> v]
              \/ \E i \in DOMAIN list : new[j] = list[i]
<1> DEFINE e == [key |-> k, value |-> v]
           room == IF Len(list) >= capacity THEN evict(list) ELSE list
<1>1. e \in E /\ e.key = k
  OBVIOUS
<1>2. /\ room \in Seq(E)
      /\ Len(room) < capacity
      /\ OnlyOldEntries(room, list)
      /\ Unique(room)
  <2>1. CASE Len(list) >= capacity
    <3>1. Len(list) = capacity /\ Len(list) \in DOMAIN list
      BY <2>1
    <3>2. room = remove(list, Len(list))
      BY <2>1, <3>1 DEF evict
    <3>3. QED
      BY <3>1, <3>2, RemoveFacts
  <2>2. CASE ~(Len(list) >= capacity)
    BY <2>2 DEF OnlyOldEntries
  <2>3. QED
    BY <2>1, <2>2
<1>3. Put(list, capacity, k, v) = addToFront(room, e)
  BY DEF Put
<1>4. ~InCache(room, e.key)
  BY <1>2 DEF InCache, OnlyOldEntries
<1> HIDE DEF room, e
<1>5. ASSUME NEW En, NEW l \in Seq(En), NEW x \in En, Unique(l),
             ~InCache(l, x.key)
      PROVE  /\ addToFront(l, x) \in Seq(En)
             /\ Len(addToFront(l, x)) = Len(l) + 1
             /\ Unique(addToFront(l, x))
             /\ \A j \in DOMAIN addToFront(l, x) :
                  \/ addToFront(l, x)[j] = x
                  \/ \E i \in DOMAIN l : addToFront(l, x)[j] = l[i]
  BY <1>5, AddToFrontFacts
<1>6. /\ addToFront(room, e) \in Seq(E)
      /\ Len(addToFront(room, e)) = Len(room) + 1
      /\ Unique(addToFront(room, e))
      /\ \A j \in DOMAIN addToFront(room, e) :
           \/ addToFront(room, e)[j] = e
           \/ \E i \in DOMAIN room : addToFront(room, e)[j] = room[i]
  BY <1>1, <1>2, <1>4, <1>5
<1>7. \A j \in DOMAIN addToFront(room, e) :
        \/ addToFront(room, e)[j] = e
        \/ \E i \in DOMAIN list : addToFront(room, e)[j] = list[i]
  BY <1>2, <1>6 DEF OnlyOldEntries
<1>8. Len(room) \in Nat
  BY <1>2
<1>9. Len(addToFront(room, e)) <= capacity
  BY <1>2, <1>6, <1>8
<1>10. QED
  BY <1>3, <1>6, <1>7, <1>9 DEF e

-----------------------------------------------------------------------------
(* The invariants *)

CoreInv == TypeOK /\ LRUBounded /\ SingleFlight

\* A follower waits for a request, and only a request that has read the row
\* of its host, or was told of it, holds a version.
FlightInv ==
  /\ NoOrphanedFollower
  /\ \A r \in Requests :
       /\ pc[r] = "wait" => flight[r] \in Requests
       /\ loaded[r] # 0 =>
            pc[r] \in {"compile", "publish", "published", "woken"}

\* r holds a version of h that it is about to cache.
Carries(r, h, v) ==
  /\ pc[r] \in {"compile", "publish"}
  /\ host[r] = h
  /\ loaded[r] = v
  /\ v # 0

\* A handler of h for version v is resident.
Resident(list, h, v) ==
  \E i \in DOMAIN list : list[i].key = h /\ list[i].value = v

\* A version of h that a later request can still be served.
Live(h, v) == Resident(lru, h, v) \/ \E r \in Requests : Carries(r, h, v)

\* A version that is resident, or about to be, is the row's unless the
\* consumer stands between the row and the LRU, or passed by during its load.
FreshInv ==
  \A h \in Hosts, v \in 1..MaxEvents :
    Live(h, v) => v = store[h] \/ dropping = h \/ h \in raced

\* A lower bound of every version that a later request can be served.
Floor(h, n) ==
  /\ store[h] # 0 => n <= store[h]
  /\ \A v \in 1..MaxEvents : Live(h, v) => n <= v

\* The versions of a host are ordered: what was served, what can still be
\* served, what the row holds, what the consumer has received.
OrderInv ==
  /\ \A h \in Hosts :
       /\ store[h] <= clock
       /\ newest[h] <= clock
       /\ Floor(h, newest[h])
       /\ \A v \in 1..MaxEvents :
            Live(h, v) => v <= clock /\ (store[h] # 0 => v <= store[h])
  /\ \A r \in Requests :
       /\ pc[r] \notin {"idle", "host", "default"} => seen[r] <= newest[host[r]]
       /\ pc[r] = "published" /\ loaded[r] # 0 =>
            /\ seen[r] <= loaded[r]
            /\ loaded[r] <= clock
            /\ Floor(host[r], loaded[r])

-----------------------------------------------------------------------------
(* The LRU under the router's operations *)

Entries == [key : Hosts, value : 1..MaxEvents]

\* Get and Delete add nothing: what is not resident does not become so.
LEMMA LruShrinks ==
  ASSUME NEW list \in Seq(Entries), Unique(list), Len(list) <= Capacity,
         NEW k, NEW new,
         new = list \/ new = Get(list, k) \/ new = Delete(list, k)
  PROVE  /\ new \in Seq(Entries)
         /\ Unique(new)
         /\ Len(new) <= Capacity
         /\ \A h : InCache(new, h) => InCache(list, h)
         /\ \A h, v : Resident(new, h, v) => Resident(list, h, v)
<1>1. /\ new \in Seq(Entries)
      /\ Unique(new)
      /\ Len(new) <= Len(list)
      /\ OnlyOldEntries(new, list)
  <2>1. CASE new = list
    BY <2>1 DEF OnlyOldEntries
  <2>2. CASE new = Get(list, k)
    BY <2>2, GetFacts
  <2>3. CASE new = Delete(list, k)
    BY <2>3, DeleteFacts, Zenon
  <2>4. QED
    BY <2>1, <2>2, <2>3, Zenon
<1>2. Len(new) <= Capacity
  BY <1>1, ConstantsAssumption
<1>3. QED
  BY <1>1, <1>2, Zenon DEF OnlyOldEntries, InCache, Resident

\* Publishing adds the one entry it is given, for a host that has none.
LEMMA LruPublishes ==
  ASSUME NEW list \in Seq(Entries), Unique(list), Len(list) <= Capacity,
         NEW k \in Hosts, NEW v \in 1..MaxEvents, ~InCache(list, k)
  PROVE  LET new == Put(list, Capacity, k, v) IN
         /\ new \in Seq(Entries)
         /\ Unique(new)
         /\ Len(new) <= Capacity
         /\ \A h : InCache(new, h) => h = k \/ InCache(list, h)
         /\ \A h, w : Resident(new, h, w) =>
              (h = k /\ w = v) \/ Resident(list, h, w)
         /\ \A w : Resident(new, k, w) => w = v
<1> DEFINE new == Put(list, Capacity, k, v)
<1>1. [key |-> k, value |-> v] \in Entries /\ Capacity \in Nat \ {0}
  BY ConstantsAssumption, Zenon DEF Entries
<1>2. /\ new \in Seq(Entries)
      /\ Len(new) <= Capacity
      /\ Unique(new)
      /\ \A j \in DOMAIN new :
           \/ new[j] = [key |-> k, value |-> v]
           \/ \E i \in DOMAIN list : new[j] = list[i]
  BY <1>1, PutAbsentFacts
<1> HIDE DEF new
<1>3. /\ \A h : InCache(new, h) => h = k \/ InCache(list, h)
      /\ \A h, w : Resident(new, h, w) =>
           (h = k /\ w = v) \/ Resident(list, h, w)
  BY <1>2 DEF InCache, Resident
<1>4. \A w : ~Resident(list, k, w)
  BY Zenon DEF InCache, Resident
<1>5. \A w : Resident(new, k, w) => w = v
  BY <1>3, <1>4, Zenon
<1>6. QED
  BY <1>2, <1>3, <1>5, Zenon DEF new
-----------------------------------------------------------------------------
(* CoreInv *)

LEMMA CoreInit == Init => CoreInv
<1> SUFFICES ASSUME Init
             PROVE  CoreInv
  BY Zenon
<1> USE ConstantsAssumption DEF Init
<1>1. TypeOK
  <2>1. lru \in Seq([key : Hosts, value : 1..MaxEvents])
    OBVIOUS
  <2>2. deleted \in BOOLEAN
    BY Zenon
  <2>3. QED
    BY <2>1, <2>2 DEF TypeOK, PCs
<1>2. LRUBounded
  BY DEF LRUBounded, Unique
<1>3. SingleFlight
  BY Zenon DEF SingleFlight, Owns, InCache, OwnerStates
<1>4. QED
  BY <1>1, <1>2, <1>3, Zenon DEF CoreInv

\* A step that leaves the flights alone and adds nothing to the LRU.
LEMMA CoreFrame ==
  ASSUME CoreInv, TypeOK', NEW k, UNCHANGED calls,
         lru' = lru \/ lru' = Get(lru, k) \/ lru' = Delete(lru, k),
         \A r \in Requests, h \in Hosts : Owns(r, h)' <=> Owns(r, h)
  PROVE  CoreInv'
<1>1. /\ lru \in Seq(Entries)
      /\ Unique(lru)
      /\ Len(lru) <= Capacity
  BY Zenon DEF CoreInv, TypeOK, LRUBounded, Entries
<1>2. /\ Unique(lru')
      /\ Len(lru') <= Capacity
      /\ \A h : InCache(lru', h) => InCache(lru, h)
  BY <1>1, LruShrinks, Zenon
<1>3. LRUBounded'
  BY <1>2, Zenon DEF LRUBounded
<1>4. SingleFlight'
  BY <1>2, Zenon DEF CoreInv, SingleFlight
<1>5. QED
  BY <1>3, <1>4, Zenon DEF CoreInv

LEMMA TypeStep == CoreInv /\ [Next]_vars => TypeOK'
<1> SUFFICES ASSUME CoreInv, [Next]_vars
             PROVE  TypeOK'
  BY Zenon
<1> USE ConstantsAssumption DEF CoreInv
<1>0. /\ lru \in Seq(Entries)
      /\ Unique(lru)
      /\ Len(lru) <= Capacity
  BY Zenon DEF TypeOK, LRUBounded, Entries
<1>1. ASSUME NEW k, lru' = Get(lru, k) \/ lru' = Delete(lru, k)
      PROVE  lru' \in Seq([key : Hosts, value : 1..MaxEvents])
  BY <1>0, <1>1, LruShrinks, Zenon DEF Entries
<1>2. ASSUME NEW k, InCache(lru, k)
      PROVE  GetValue(lru, k) \in 1..MaxEvents
  <2>1. PICK i \in DOMAIN lru : GetValue(lru, k) = lru[i].value
    BY <1>2, GetValueFacts
  <2>2. lru[i] \in Entries
    BY <1>0
  <2>3. QED
    BY <2>1, <2>2, Zenon DEF Entries
<1>3. ASSUME NEW r \in Requests, Finish(r)
      PROVE  /\ pc' \in [Requests -> PCs]
             /\ host' \in [Requests -> Hosts]
             /\ flight' \in [Requests -> Requests \cup {NoFlight}]
             /\ loaded' \in [Requests -> 0..MaxEvents]
             /\ seen' \in [Requests -> 0..MaxEvents]
             /\ ctxDone' \subseteq Requests
  BY <1>3, SMTT(30) DEF Finish, TypeOK, PCs
<1>4. ASSUME NEW r \in Requests, NEW v \in 1..MaxEvents, ServeOrCancel(r, v) \/ Serve(r, v)
      PROVE  Finish(r) /\ newest' \in [Hosts -> 0..MaxEvents]
  BY <1>4, SMTT(30) DEF ServeOrCancel, Serve, TypeOK
<1>5. ASSUME NEW r \in Requests, NEW h \in Hosts, Arrive(r, h)
      PROVE  TypeOK'
  BY <1>5, Zenon DEF Arrive, TypeOK, PCs, appVars
<1>6. ASSUME NEW r \in Requests, Disconnect(r)
      PROVE  TypeOK'
  BY <1>6, Zenon DEF Disconnect, TypeOK, locals, appVars
<1>7. ASSUME NEW r \in Requests, LookupHit(r)
      PROVE  TypeOK'
  BY <1>7, Zenon DEF LookupHit, TypeOK, PCs, appVars
<1>8. ASSUME NEW r \in Requests, LookupMiss(r)
      PROVE  TypeOK'
  BY <1>8, <1>3, ZenonT(40) DEF LookupMiss, TypeOK, PCs, appVars
<1>9. ASSUME NEW r \in Requests, FastPath(r)
      PROVE  TypeOK'
  <2>1. CASE InCache(lru, host[r])
    BY <1>9, <1>1, <1>2, <1>3, <1>4, <2>1, Zenon DEF FastPath, TypeOK, appVars
  <2>2. CASE ~InCache(lru, host[r])
    BY <1>9, <1>1, <2>2, Zenon DEF FastPath, TypeOK, PCs, appVars, locals
  <2>3. QED
    BY <2>1, <2>2, Zenon
<1>10. ASSUME NEW r \in Requests, ClaimHit(r)
       PROVE  TypeOK'
  BY <1>10, <1>1, <1>2, <1>3, <1>4, Zenon DEF ClaimHit, TypeOK, appVars
<1>11. ASSUME NEW r \in Requests, ClaimFollow(r)
       PROVE  TypeOK'
  BY <1>11, Zenon DEF ClaimFollow, TypeOK, PCs, appVars
<1>12. ASSUME NEW r \in Requests, ClaimOwn(r)
       PROVE  TypeOK'
  BY <1>12, Zenon DEF ClaimOwn, TypeOK, PCs, OwnerStates, appVars, locals
<1>13. ASSUME NEW r \in Requests, GiveUp(r)
       PROVE  TypeOK'
  BY <1>13, <1>3, Zenon DEF GiveUp, TypeOK, appVars
<1>14. ASSUME NEW r \in Requests, Wake(r)
       PROVE  TypeOK'
  <2>1. CASE InCache(lru, host[r])
    BY <1>14, <1>1, <1>2, <1>3, <1>4, <2>1, Zenon DEF Wake, TypeOK, appVars
  <2>2. CASE ~InCache(lru, host[r])
    BY <1>14, <1>1, <1>3, <2>2, Zenon DEF Wake, TypeOK, appVars
  <2>3. QED
    BY <2>1, <2>2, Zenon
<1>15. ASSUME NEW r \in Requests, ReadRow(r)
       PROVE  TypeOK'
  BY <1>15, Zenon DEF ReadRow, TypeOK, PCs, OwnerStates, appVars
<1>16. ASSUME NEW r \in Requests, Compile(r)
       PROVE  TypeOK'
  <2>1. loaded' \in [Requests -> 0..MaxEvents]
    BY <1>16 DEF Compile, TypeOK
  <2>2. QED
    BY <1>16, <2>1, Zenon DEF Compile, TypeOK, PCs, OwnerStates, appVars
<1>17. ASSUME NEW r \in Requests, Publish(r)
       PROVE  TypeOK'
  <2>1. lru' \in Seq([key : Hosts, value : 1..MaxEvents])
    <3>1. CASE loaded[r] # 0
      <4>1. host[r] \in Hosts /\ loaded[r] \in 1..MaxEvents
        BY <3>1 DEF TypeOK
      <4>2. ~InCache(lru, host[r])
        BY <1>17, <4>1, Zenon DEF Publish, SingleFlight, Owns, OwnerStates
      <4>3. QED
        BY <1>0, <1>17, <3>1, <4>1, <4>2, LruPublishes, Zenon DEF Publish, Entries
    <3>2. CASE loaded[r] = 0
      BY <1>17, <3>2, Zenon DEF Publish, TypeOK
    <3>3. QED
      BY <3>1, <3>2, Zenon
  <2>2. QED
    BY <1>17, <2>1, Zenon DEF Publish, TypeOK, PCs, appVars
<1>18. ASSUME NEW r \in Requests, OwnerReturns(r)
       PROVE  TypeOK'
  <2>1. CASE loaded[r] # 0
    <3>1. loaded[r] \in 1..MaxEvents
      BY <2>1 DEF TypeOK
    <3>2. QED
      BY <1>18, <1>3, <1>4, <2>1, <3>1, Zenon DEF OwnerReturns, TypeOK, appVars
  <2>2. CASE loaded[r] = 0
    BY <1>18, <1>3, <2>2, Zenon DEF OwnerReturns, TypeOK, appVars
  <2>3. QED
    BY <2>1, <2>2, Zenon
<1>19. ASSUME NEW names \in SUBSET Hosts, NEW del \in BOOLEAN,
              ReceiveEvent(names, del)
       PROVE  TypeOK'
  BY <1>19, SMTT(40) DEF ReceiveEvent, TypeOK, locals
<1>20. ASSUME NEW h \in Hosts, WriteRow(h)
       PROVE  TypeOK'
  <2>1. store' \in [Hosts -> 0..MaxEvents]
    <3> DEFINE row == IF deleted THEN 0 ELSE clock
    <3>1. row \in 0..MaxEvents
      BY DEF TypeOK
    <3>2. store' = [store EXCEPT ![h] = row] \/ store' = store
      BY <1>20, Zenon DEF WriteRow
    <3> HIDE DEF row
    <3>3. QED
      BY <3>1, <3>2, Zenon DEF TypeOK
  <2>2. QED
    BY <1>20, <2>1, Zenon DEF WriteRow, TypeOK, locals
<1>21. CASE WriteRowFails
  BY <1>21, Zenon DEF WriteRowFails, TypeOK, locals
<1>22. CASE DropHandler
  BY <1>22, <1>1, Zenon DEF DropHandler, TypeOK, locals
<1>23. CASE UNCHANGED vars
  BY <1>23, Zenon DEF vars, TypeOK, locals, appVars
<1>24. QED
  BY <1>5, <1>6, <1>7, <1>8, <1>9, <1>10, <1>11, <1>12, <1>13, <1>14, <1>15, <1>16, <1>17,
    <1>18, <1>19, <1>20, <1>21, <1>22, <1>23 DEF Next, RequestStep, ConsumerStep
LEMMA CoreStep == CoreInv /\ [Next]_vars => CoreInv'
<1> SUFFICES ASSUME CoreInv, [Next]_vars
             PROVE  CoreInv'
  BY Zenon
<1> USE ConstantsAssumption
<1>0. TypeOK /\ TypeOK'
  BY TypeStep, Zenon DEF CoreInv
<1> DEFINE SameOwners == /\ calls' = calls
                         /\ \A q \in Requests, g \in Hosts :
                              Owns(q, g)' <=> Owns(q, g)
<1>1. ASSUME SameOwners, NEW k,
             lru' = lru \/ lru' = Get(lru, k) \/ lru' = Delete(lru, k)
      PROVE  CoreInv'
  BY <1>0, <1>1, CoreFrame, Zenon
<1>2. ASSUME NEW r \in Requests, pc[r] \notin OwnerStates, Finish(r),
             calls' = calls
      PROVE  SameOwners
  BY <1>0, <1>2 DEF Finish, TypeOK, Owns, OwnerStates
<1>3. ASSUME NEW r \in Requests, NEW v, ServeOrCancel(r, v) \/ Serve(r, v)
      PROVE  Finish(r)
  BY <1>3, Zenon DEF ServeOrCancel, Serve
<1>5. ASSUME NEW r \in Requests, NEW h \in Hosts, Arrive(r, h)
      PROVE  CoreInv'
  <2>1. SameOwners
    BY <1>0, <1>5, Zenon DEF Arrive, TypeOK, Owns, OwnerStates
  <2>2. QED
    BY <1>1, <1>5, <2>1, Zenon DEF Arrive
<1>6. ASSUME NEW r \in Requests, Disconnect(r)
      PROVE  CoreInv'
  <2>1. SameOwners
    BY <1>6, Zenon DEF Disconnect, locals, Owns
  <2>2. QED
    BY <1>1, <1>6, <2>1, Zenon DEF Disconnect
<1>7. ASSUME NEW r \in Requests, LookupHit(r)
      PROVE  CoreInv'
  <2>1. SameOwners
    BY <1>0, <1>7, Zenon DEF LookupHit, TypeOK, Owns, OwnerStates
  <2>2. QED
    BY <1>1, <1>7, <2>1, Zenon DEF LookupHit
<1>8. ASSUME NEW r \in Requests, LookupMiss(r)
      PROVE  CoreInv'
  <2>1. SameOwners
    BY <1>0, <1>2, <1>8, Zenon DEF LookupMiss, TypeOK, Owns, OwnerStates
  <2>2. QED
    BY <1>1, <1>8, <2>1, Zenon DEF LookupMiss
<1>9. ASSUME NEW r \in Requests, FastPath(r)
      PROVE  CoreInv'
  <2>1. SameOwners
    <3>1. CASE InCache(lru, host[r])
      BY <1>2, <1>3, <1>9, <3>1, Zenon DEF FastPath, OwnerStates
    <3>2. CASE ~InCache(lru, host[r])
      BY <1>0, <1>9, <3>2, Zenon DEF FastPath, locals, TypeOK, Owns, OwnerStates
    <3>3. QED
      BY <3>1, <3>2, Zenon
  <2>2. QED
    BY <1>1, <1>9, <2>1, Zenon DEF FastPath
<1>10. ASSUME NEW r \in Requests, ClaimHit(r)
       PROVE  CoreInv'
  <2>1. SameOwners
    BY <1>2, <1>3, <1>10, Zenon DEF ClaimHit, OwnerStates
  <2>2. QED
    BY <1>1, <1>10, <2>1, Zenon DEF ClaimHit
<1>11. ASSUME NEW r \in Requests, ClaimFollow(r)
       PROVE  CoreInv'
  <2>1. SameOwners
    BY <1>0, <1>11, Zenon DEF ClaimFollow, TypeOK, Owns, OwnerStates
  <2>2. QED
    BY <1>1, <1>11, <2>1, Zenon DEF ClaimFollow
<1>12. ASSUME NEW r \in Requests, ClaimOwn(r)
       PROVE  CoreInv'
  <2>1. \A q \in Requests, g \in Hosts :
          Owns(q, g)' <=> (q = r /\ g = host[r]) \/ Owns(q, g)
    BY <1>0, <1>12, Zenon DEF ClaimOwn, locals, TypeOK, Owns, OwnerStates
  <2>2. \A q \in Requests, g \in Hosts :
          (calls[g] = q)' <=> (q = r /\ g = host[r]) \/ calls[g] = q
    BY <1>0, <1>12, Zenon DEF ClaimOwn, TypeOK
  <2>3. SingleFlight'
    BY <1>12, <2>1, <2>2 DEF CoreInv, SingleFlight, ClaimOwn
  <2>4. QED
    BY <1>0, <1>12, <2>3, Zenon DEF ClaimOwn, CoreInv, LRUBounded
<1>13. ASSUME NEW r \in Requests, GiveUp(r)
       PROVE  CoreInv'
  <2>1. SameOwners
    BY <1>2, <1>13, Zenon DEF GiveUp, OwnerStates
  <2>2. QED
    BY <1>1, <1>13, <2>1, Zenon DEF GiveUp
<1>14. ASSUME NEW r \in Requests, Wake(r)
       PROVE  CoreInv'
  <2>1. Finish(r)
    BY <1>3, <1>14, Zenon DEF Wake
  <2>2. SameOwners
    BY <1>2, <1>14, <2>1, Zenon DEF Wake, OwnerStates
  <2>3. QED
    BY <1>1, <1>14, <2>2, Zenon DEF Wake
<1>15. ASSUME NEW r \in Requests, ReadRow(r)
       PROVE  CoreInv'
  <2>1. SameOwners
    BY <1>0, <1>15, Zenon DEF ReadRow, TypeOK, Owns, OwnerStates
  <2>2. QED
    BY <1>1, <1>15, <2>1, Zenon DEF ReadRow
<1>16. ASSUME NEW r \in Requests, Compile(r)
       PROVE  CoreInv'
  <2>1. SameOwners
    BY <1>0, <1>16, Zenon DEF Compile, TypeOK, Owns, OwnerStates
  <2>2. QED
    BY <1>1, <1>16, <2>1, Zenon DEF Compile
<1>17. ASSUME NEW r \in Requests, Publish(r)
       PROVE  CoreInv'
  <2>1. host[r] \in Hosts /\ Owns(r, host[r]) /\ calls[host[r]] = r
    BY <1>0, <1>17, Zenon DEF Publish, TypeOK, CoreInv, SingleFlight, Owns, OwnerStates
  <2>2. \A q \in Requests, g \in Hosts :
          Owns(q, g)' <=> q # r /\ Owns(q, g)
    BY <1>0, <1>17, Zenon DEF Publish, TypeOK, Owns, OwnerStates
  <2>3. \A q \in Requests, g \in Hosts :
          (calls[g] = q)' <=> g # host[r] /\ calls[g] = q
    BY <1>0, <1>17, <2>1, Zenon DEF Publish, TypeOK
  <2>4. \A q \in Requests, g \in Hosts :
          q # r /\ Owns(q, g) => g # host[r]
    BY <2>1 DEF CoreInv, SingleFlight
  <2>5. \A g \in Hosts : Owns(r, g) <=> g = host[r]
    BY <2>1, Zenon DEF Owns
  <2>6. /\ Unique(lru')
        /\ Len(lru') <= Capacity
        /\ \A g : InCache(lru', g) => g = host[r] \/ InCache(lru, g)
    <3>1. /\ lru \in Seq(Entries)
          /\ Unique(lru)
          /\ Len(lru) <= Capacity
      BY <1>0, Zenon DEF CoreInv, TypeOK, LRUBounded, Entries
    <3>2. CASE loaded[r] # 0
      <4>1. loaded[r] \in 1..MaxEvents /\ ~InCache(lru, host[r])
        <5>1. loaded[r] \in 0..MaxEvents
          BY <1>0, Zenon DEF TypeOK
        <5>2. ~InCache(lru, host[r])
          BY <2>1, Zenon DEF CoreInv, SingleFlight
        <5>3. QED
          BY <3>2, <5>1, <5>2
      <4>2. QED
        BY <1>17, <2>1, <3>1, <3>2, <4>1, LruPublishes, Zenon DEF Publish
    <3>3. CASE loaded[r] = 0
      BY <1>17, <3>1, <3>3, Zenon DEF Publish
    <3>4. QED
      BY <3>2, <3>3, Zenon
  <2>7. SingleFlight'
    BY <2>1, <2>2, <2>3, <2>4, <2>5, <2>6 DEF CoreInv, SingleFlight
  <2>8. QED
    BY <1>0, <2>6, <2>7, Zenon DEF CoreInv, LRUBounded
<1>18. ASSUME NEW r \in Requests, OwnerReturns(r)
       PROVE  CoreInv'
  <2>1. Finish(r)
    BY <1>3, <1>18, Zenon DEF OwnerReturns
  <2>2. SameOwners
    BY <1>2, <1>18, <2>1, Zenon DEF OwnerReturns, OwnerStates
  <2>3. QED
    BY <1>1, <1>18, <2>2, Zenon DEF OwnerReturns
<1>19. ASSUME NEW names \in SUBSET Hosts, NEW del \in BOOLEAN,
              ReceiveEvent(names, del)
       PROVE  CoreInv'
  <2>1. SameOwners
    BY <1>19, Zenon DEF ReceiveEvent, locals, Owns
  <2>2. QED
    BY <1>1, <1>19, <2>1, Zenon DEF ReceiveEvent
<1>20. ASSUME NEW h \in Hosts, WriteRow(h)
       PROVE  CoreInv'
  <2>1. SameOwners
    BY <1>20, Zenon DEF WriteRow, locals, Owns
  <2>2. QED
    BY <1>1, <1>20, <2>1, Zenon DEF WriteRow
<1>21. CASE WriteRowFails
  <2>1. SameOwners
    BY <1>21, Zenon DEF WriteRowFails, locals, Owns
  <2>2. QED
    BY <1>1, <1>21, <2>1, Zenon DEF WriteRowFails
<1>22. CASE DropHandler
  <2>1. SameOwners
    BY <1>22, Zenon DEF DropHandler, locals, Owns
  <2>2. QED
    BY <1>1, <1>22, <2>1, Zenon DEF DropHandler
<1>23. CASE UNCHANGED vars
  <2>1. SameOwners
    BY <1>23, Zenon DEF vars, locals, Owns
  <2>2. QED
    BY <1>1, <1>23, <2>1, Zenon DEF vars
<1>24. QED
  BY <1>5, <1>6, <1>7, <1>8, <1>9, <1>10, <1>11, <1>12, <1>13, <1>14, <1>15, <1>16, <1>17,
    <1>18, <1>19, <1>20, <1>21, <1>22, <1>23, Zenon DEF Next, RequestStep, ConsumerStep
-----------------------------------------------------------------------------
(* FlightInv *)

LEMMA FlightInit == Init => FlightInv
BY Zenon DEF Init, FlightInv, NoOrphanedFollower

LEMMA FlightStep == CoreInv /\ FlightInv /\ [Next]_vars => FlightInv'
<1> SUFFICES ASSUME CoreInv, FlightInv, [Next]_vars
             PROVE  FlightInv'
  BY Zenon
<1> USE ConstantsAssumption
<1>0. TypeOK /\ TypeOK' /\ SingleFlight
  BY TypeStep, Zenon DEF CoreInv
<1> DEFINE LoadedOK == \A q \in Requests : loaded[q] # 0 =>
             pc[q] \in {"compile", "publish", "published", "woken"}
           StillOwned == \A q \in Requests, g \in Hosts :
             Owns(q, g) => Owns(q, g)'
           SameFollowers == \A q \in Requests : pc'[q] = "wait" =>
             pc[q] = "wait" /\ flight'[q] = flight[q] /\ host'[q] = host[q]
<1>a. ASSUME LoadedOK', StillOwned, SameFollowers
      PROVE  FlightInv'
  BY <1>0, <1>a, Zenon DEF TypeOK, FlightInv, NoOrphanedFollower
<1>1. ASSUME NEW r \in Requests, pc[r] \notin OwnerStates, Finish(r)
      PROVE  FlightInv'
  <2>1. StillOwned /\ SameFollowers
    BY <1>0, <1>1, Zenon DEF Finish, TypeOK, Owns, OwnerStates
  <2>2. LoadedOK'
    BY <1>0, <1>1 DEF Finish, TypeOK, FlightInv
  <2>3. QED
    BY <1>a, <2>1, <2>2, Zenon
<1>2. ASSUME NEW r \in Requests, NEW v, ServeOrCancel(r, v) \/ Serve(r, v)
      PROVE  Finish(r)
  BY <1>2, Zenon DEF ServeOrCancel, Serve
<1>3. ASSUME UNCHANGED <<pc, locals>>
      PROVE  FlightInv'
  BY <1>3, Zenon DEF FlightInv, NoOrphanedFollower, Owns, locals
<1> DEFINE Moves(r, s) == pc' = [pc EXCEPT ![r] = s]
<1>4. ASSUME NEW r \in Requests, NEW s, Moves(r, s),
             pc[r] \notin OwnerStates \cup {"published", "woken"}, s # "wait",
             UNCHANGED <<flight, loaded>>,
             \A q \in Requests : q # r => host'[q] = host[q]
      PROVE  FlightInv'
  <2>1. StillOwned /\ SameFollowers
    BY <1>0, <1>4, Zenon DEF TypeOK, Owns, OwnerStates
  <2>2. LoadedOK'
    BY <1>0, <1>4, Zenon DEF TypeOK, FlightInv, OwnerStates
  <2>3. QED
    BY <1>a, <2>1, <2>2, Zenon
<1>5. ASSUME NEW r \in Requests, NEW h \in Hosts, Arrive(r, h)
      PROVE  FlightInv'
  BY <1>0, <1>4, <1>5, Zenon DEF Arrive, TypeOK, OwnerStates
<1>6. ASSUME NEW r \in Requests, Disconnect(r)
      PROVE  FlightInv'
  BY <1>3, <1>6, Zenon DEF Disconnect
<1>7. ASSUME NEW r \in Requests, LookupHit(r)
      PROVE  FlightInv'
  BY <1>4, <1>7, Zenon DEF LookupHit, OwnerStates
<1>8. ASSUME NEW r \in Requests, LookupMiss(r)
      PROVE  FlightInv'
  <2>1. CASE pc[r] = "host"
    BY <1>0, <1>4, <1>8, <2>1, Zenon DEF LookupMiss, TypeOK, OwnerStates
  <2>2. CASE pc[r] = "default"
    BY <1>1, <1>8, <2>2, Zenon DEF LookupMiss, OwnerStates
  <2>3. QED
    BY <1>8, <2>1, <2>2, Zenon DEF LookupMiss
<1>9. ASSUME NEW r \in Requests, FastPath(r)
      PROVE  FlightInv'
  <2>1. CASE InCache(lru, host[r])
    BY <1>1, <1>2, <1>9, <2>1, Zenon DEF FastPath, OwnerStates
  <2>2. CASE ~InCache(lru, host[r])
    BY <1>4, <1>9, <2>2, Zenon DEF FastPath, OwnerStates, locals
  <2>3. QED
    BY <2>1, <2>2, Zenon
<1>10. ASSUME NEW r \in Requests, ClaimHit(r)
       PROVE  FlightInv'
  BY <1>1, <1>2, <1>10, Zenon DEF ClaimHit, OwnerStates
<1>11. ASSUME NEW r \in Requests, ClaimFollow(r)
       PROVE  FlightInv'
  <2>1. calls[host[r]] \in Requests /\ Owns(calls[host[r]], host[r])
    BY <1>0, <1>11 DEF ClaimFollow, TypeOK, SingleFlight
  <2>2. QED
    BY <1>0, <1>11, <2>1, Zenon DEF ClaimFollow, TypeOK, FlightInv, NoOrphanedFollower, Owns,
      OwnerStates
<1>12. ASSUME NEW r \in Requests, ClaimOwn(r)
       PROVE  FlightInv'
  BY <1>4, <1>12, Zenon DEF ClaimOwn, OwnerStates, locals
<1>13. ASSUME NEW r \in Requests, GiveUp(r)
       PROVE  FlightInv'
  BY <1>1, <1>13, Zenon DEF GiveUp, OwnerStates
<1>14. ASSUME NEW r \in Requests, Wake(r)
       PROVE  FlightInv'
  BY <1>1, <1>2, <1>14, Zenon DEF Wake, OwnerStates
<1>15. ASSUME NEW r \in Requests, ReadRow(r)
       PROVE  FlightInv'
  <2>1. StillOwned /\ SameFollowers
    BY <1>0, <1>15, Zenon DEF ReadRow, TypeOK, Owns, OwnerStates
  <2>2. LoadedOK'
    BY <1>0, <1>15, ZenonT(40) DEF ReadRow, TypeOK, FlightInv
  <2>3. QED
    BY <1>a, <2>1, <2>2, Zenon
<1>16. ASSUME NEW r \in Requests, Compile(r)
       PROVE  FlightInv'
  BY <1>0, <1>16, SMTT(40) DEF Compile, TypeOK, FlightInv, NoOrphanedFollower, Owns, OwnerStates
<1>17. ASSUME NEW r \in Requests, Publish(r)
       PROVE  FlightInv'
  BY <1>0, <1>17, Zenon DEF Publish, TypeOK, FlightInv, NoOrphanedFollower, Owns, OwnerStates
<1>18. ASSUME NEW r \in Requests, OwnerReturns(r)
       PROVE  FlightInv'
  BY <1>1, <1>2, <1>18, Zenon DEF OwnerReturns, OwnerStates
<1>19. ASSUME NEW names \in SUBSET Hosts, NEW del \in BOOLEAN,
              ReceiveEvent(names, del)
       PROVE  FlightInv'
  BY <1>3, <1>19, Zenon DEF ReceiveEvent
<1>20. CASE ConsumerStep
  BY <1>3, <1>20, Zenon DEF ConsumerStep, WriteRow, WriteRowFails, DropHandler
<1>21. CASE UNCHANGED vars
  BY <1>3, <1>21, Zenon DEF vars
<1>22. QED
  BY <1>5, <1>6, <1>7, <1>8, <1>9, <1>10, <1>11, <1>12, <1>13, <1>14, <1>15, <1>16, <1>17,
    <1>18, <1>19, <1>20, <1>21, Zenon DEF Next, RequestStep

\* The flights of the router: type correctness, one load per host, a bounded
\* LRU with one handler per host, and no follower waiting for an ended flight.
THEOREM RouterFlights ==
  Spec => [](TypeOK /\ SingleFlight /\ LRUBounded /\ NoOrphanedFollower)
<1>1. Init => CoreInv /\ FlightInv
  BY CoreInit, FlightInit, Zenon
<1>2. CoreInv /\ FlightInv /\ [Next]_vars => (CoreInv /\ FlightInv)'
  BY CoreStep, FlightStep, Zenon
<1>3. CoreInv /\ FlightInv =>
        TypeOK /\ SingleFlight /\ LRUBounded /\ NoOrphanedFollower
  BY Zenon DEF CoreInv, FlightInv
<1>4. QED
  BY <1>1, <1>2, <1>3, PTL DEF Spec
-----------------------------------------------------------------------------
(* What a step makes servable *)

LEMMA NothingLiveInit == Init => \A h, v : ~Live(h, v)
<1> SUFFICES ASSUME Init, NEW h, NEW v
             PROVE  ~Live(h, v)
  BY Zenon
<1>1. ~Resident(lru, h, v)
  <2>1. DOMAIN lru = {}
    BY DEF Init
  <2>2. QED
    BY <2>1, Zenon DEF Resident
<1>2. \A r \in Requests : ~Carries(r, h, v)
  BY Zenon DEF Init, Carries
<1>3. QED
  BY <1>1, <1>2, Zenon DEF Live

\* Every version that a step makes servable is the row's: only the load adds
\* one.  What the LRU gains, the publishing request carried.
LEMMA LiveStep ==
  ASSUME CoreInv, FlightInv, [Next]_vars, NEW h \in Hosts,
         NEW v \in 1..MaxEvents, Live(h, v)'
  PROVE  Live(h, v) \/ v = store[h]
<1> USE ConstantsAssumption
<1>0. /\ TypeOK
      /\ lru \in Seq(Entries)
      /\ Unique(lru)
      /\ Len(lru) <= Capacity
  BY Zenon DEF CoreInv, TypeOK, LRUBounded, Entries
<1> DEFINE Carried == \E q \in Requests : Carries(q, h, v)
           OldLru == \E k : \/ lru' = lru
                            \/ lru' = Get(lru, k)
                            \/ lru' = Delete(lru, k)
<1>1. ASSUME OldLru, Carried' => Carried \/ v = store[h]
      PROVE  Live(h, v) \/ v = store[h]
  <2>1. Resident(lru', h, v) => Resident(lru, h, v)
    BY <1>0, <1>1, LruShrinks, Zenon
  <2>2. QED
    BY <1>1, <2>1, Zenon DEF Live
<1>2. ASSUME NEW r \in Requests, Finish(r)
      PROVE  Carried' => Carried
  BY <1>0, <1>2, Zenon DEF Finish, TypeOK, Carries
<1>3. ASSUME NEW r \in Requests, NEW w, ServeOrCancel(r, w) \/ Serve(r, w)
      PROVE  Finish(r)
  BY <1>3, Zenon DEF ServeOrCancel, Serve
<1>4. ASSUME UNCHANGED <<pc, locals>>
      PROVE  Carried' => Carried
  BY <1>4, Zenon DEF Carries, locals
<1>5. ASSUME NEW r \in Requests, NEW g \in Hosts, Arrive(r, g)
      PROVE  Live(h, v) \/ v = store[h]
  <2>1. Carried' => Carried
    BY <1>0, <1>5, Zenon DEF Arrive, TypeOK, Carries
  <2>2. QED
    BY <1>1, <1>5, <2>1, Zenon DEF Arrive
<1>6. ASSUME NEW r \in Requests, Disconnect(r)
      PROVE  Live(h, v) \/ v = store[h]
  BY <1>1, <1>4, <1>6, Zenon DEF Disconnect
<1>7. ASSUME NEW r \in Requests, LookupHit(r)
      PROVE  Live(h, v) \/ v = store[h]
  <2>1. Carried' => Carried
    BY <1>0, <1>7, Zenon DEF LookupHit, TypeOK, Carries
  <2>2. QED
    BY <1>1, <1>7, <2>1, Zenon DEF LookupHit
<1>8. ASSUME NEW r \in Requests, LookupMiss(r)
      PROVE  Live(h, v) \/ v = store[h]
  <2>1. Carried' => Carried
    BY <1>0, <1>2, <1>8, Zenon DEF LookupMiss, TypeOK, Carries
  <2>2. QED
    BY <1>1, <1>8, <2>1, Zenon DEF LookupMiss
<1>9. ASSUME NEW r \in Requests, FastPath(r)
      PROVE  Live(h, v) \/ v = store[h]
  <2>1. Carried' => Carried
    <3>1. CASE InCache(lru, host[r])
      BY <1>2, <1>3, <1>9, <3>1, Zenon DEF FastPath
    <3>2. CASE ~InCache(lru, host[r])
      BY <1>0, <1>9, <3>2, Zenon DEF FastPath, TypeOK, Carries, locals
    <3>3. QED
      BY <3>1, <3>2, Zenon
  <2>2. QED
    BY <1>1, <1>9, <2>1, Zenon DEF FastPath
<1>10. ASSUME NEW r \in Requests, ClaimHit(r)
       PROVE  Live(h, v) \/ v = store[h]
  BY <1>1, <1>2, <1>3, <1>10, Zenon DEF ClaimHit
<1>11. ASSUME NEW r \in Requests, ClaimFollow(r)
       PROVE  Live(h, v) \/ v = store[h]
  <2>1. Carried' => Carried
    BY <1>0, <1>11, Zenon DEF ClaimFollow, TypeOK, Carries
  <2>2. QED
    BY <1>1, <1>11, <2>1, Zenon DEF ClaimFollow
<1>12. ASSUME NEW r \in Requests, ClaimOwn(r)
       PROVE  Live(h, v) \/ v = store[h]
  <2>1. Carried' => Carried
    BY <1>0, <1>12, Zenon DEF ClaimOwn, TypeOK, Carries, locals
  <2>2. QED
    BY <1>1, <1>12, <2>1, Zenon DEF ClaimOwn
<1>13. ASSUME NEW r \in Requests, GiveUp(r)
       PROVE  Live(h, v) \/ v = store[h]
  BY <1>1, <1>2, <1>13, Zenon DEF GiveUp
<1>14. ASSUME NEW r \in Requests, Wake(r)
       PROVE  Live(h, v) \/ v = store[h]
  <2>1. Finish(r)
    BY <1>3, <1>14, Zenon DEF Wake
  <2>2. QED
    BY <1>1, <1>2, <1>14, <2>1, Zenon DEF Wake
<1>15. ASSUME NEW r \in Requests, ReadRow(r)
       PROVE  Live(h, v) \/ v = store[h]
  <2>1. loaded[r] = 0
    BY <1>15, Zenon DEF ReadRow, FlightInv
  <2>2. Carried' => Carried \/ v = store[h]
    BY <1>0, <1>15, <2>1, SMTT(40) DEF ReadRow, TypeOK, Carries
  <2>3. QED
    BY <1>1, <1>15, <2>2, Zenon DEF ReadRow
<1>16. ASSUME NEW r \in Requests, Compile(r)
       PROVE  Live(h, v) \/ v = store[h]
  <2>1. Carried' => Carried
    BY <1>0, <1>16, Zenon DEF Compile, TypeOK, Carries
  <2>2. QED
    BY <1>1, <1>16, <2>1, Zenon DEF Compile
<1>17. ASSUME NEW r \in Requests, Publish(r)
       PROVE  Live(h, v) \/ v = store[h]
  <2>1. Carried' => Carried
    BY <1>0, <1>17, Zenon DEF Publish, TypeOK, Carries
  <2>2. Resident(lru', h, v) => Resident(lru, h, v) \/ Carries(r, h, v)
    <3>1. CASE loaded[r] # 0
      <4>1. host[r] \in Hosts /\ loaded[r] \in 1..MaxEvents
        BY <1>0, <3>1, SMTT(40) DEF TypeOK
      <4>2. ~InCache(lru, host[r])
        BY <1>17, <4>1, Zenon DEF Publish, CoreInv, SingleFlight, Owns, OwnerStates
      <4>3. Resident(lru', h, v) =>
              (h = host[r] /\ v = loaded[r]) \/ Resident(lru, h, v)
        BY <1>0, <1>17, <3>1, <4>1, <4>2, LruPublishes, Zenon DEF Publish
      <4>4. QED
        BY <1>17, <3>1, <4>3, Zenon DEF Publish, Carries
    <3>2. CASE loaded[r] = 0
      BY <1>17, <3>2, Zenon DEF Publish
    <3>3. QED
      BY <3>1, <3>2, Zenon
  <2>3. QED
    BY <2>1, <2>2, Zenon DEF Live
<1>18. ASSUME NEW r \in Requests, OwnerReturns(r)
       PROVE  Live(h, v) \/ v = store[h]
  <2>1. Finish(r)
    BY <1>3, <1>18, Zenon DEF OwnerReturns
  <2>2. QED
    BY <1>1, <1>2, <1>18, <2>1, Zenon DEF OwnerReturns
<1>19. ASSUME NEW names \in SUBSET Hosts, NEW del \in BOOLEAN,
              ReceiveEvent(names, del)
       PROVE  Live(h, v) \/ v = store[h]
  BY <1>1, <1>4, <1>19, Zenon DEF ReceiveEvent
<1>20. CASE ConsumerStep
  BY <1>1, <1>4, <1>20, Zenon DEF ConsumerStep, WriteRow, WriteRowFails, DropHandler
<1>21. CASE UNCHANGED vars
  BY <1>1, <1>4, <1>21, Zenon DEF vars
<1>22. QED
  BY <1>5, <1>6, <1>7, <1>8, <1>9, <1>10, <1>11, <1>12, <1>13, <1>14, <1>15, <1>16, <1>17,
    <1>18, <1>19, <1>20, <1>21, Zenon DEF Next, RequestStep
-----------------------------------------------------------------------------
(* FreshInv *)

\* Only the consumer writes rows and drops handlers.
LEMMA ConsumerOnly ==
  ASSUME [Next]_vars
  PROVE  \/ \E g \in Hosts : WriteRow(g)
         \/ DropHandler
         \/ UNCHANGED <<store, dropping, raced>>
BY ZenonT(40) DEF Next, RequestStep, ConsumerStep, Arrive, Disconnect, LookupHit, LookupMiss,
  FastPath, ClaimHit, ClaimFollow, ClaimOwn, GiveUp, Wake, ReadRow, Compile, Publish,
  OwnerReturns, ReceiveEvent, WriteRowFails, vars, appVars

LEMMA FreshStep ==
  CoreInv /\ FlightInv /\ FreshInv /\ [Next]_vars => FreshInv'
<1> SUFFICES ASSUME CoreInv, FlightInv, FreshInv, [Next]_vars,
                    NEW h \in Hosts, NEW v \in 1..MaxEvents, Live(h, v)'
             PROVE  (v = store[h] \/ dropping = h \/ h \in raced)'
  BY Zenon DEF FreshInv
<1> USE ConstantsAssumption
<1>0. TypeOK
  BY Zenon DEF CoreInv
<1>1. v = store[h] \/ dropping = h \/ h \in raced
  BY LiveStep, Zenon DEF FreshInv
<1>2. ASSUME NEW g \in Hosts, WriteRow(g)
      PROVE  (v = store[h] \/ dropping = h \/ h \in raced)'
  <2>1. dropping = NoHost /\ dropping' = g /\ raced' = raced
    BY <1>2, Zenon DEF WriteRow
  <2>2. h # g => store'[h] = store[h]
    BY <1>0, <1>2, Zenon DEF WriteRow, TypeOK
  <2>3. QED
    BY <1>1, <2>1, <2>2, Zenon
<1>3. CASE DropHandler
  <2>1. CASE h = dropping
    <3>1. ~InCache(Delete(lru, h), h)
      BY DeleteFacts, Zenon DEF CoreInv, TypeOK, LRUBounded
    <3>2. ~Resident(lru', h, v)
      BY <1>3, <2>1, <3>1, Zenon DEF DropHandler, Resident, InCache
    <3>3. PICK r \in Requests : Carries(r, h, v)
      BY <1>3, <3>2, Zenon DEF Live, Carries, DropHandler, locals
    <3>4. v = store[h] \/ r \in StaleLoads(h)
      BY <3>3, Zenon DEF Carries, StaleLoads
    <3>5. QED
      BY <1>3, <2>1, <3>4, Zenon DEF DropHandler
  <2>2. CASE h # dropping
    BY <1>1, <1>3, <2>2, Zenon DEF DropHandler
  <2>3. QED
    BY <2>1, <2>2, Zenon
<1>4. CASE UNCHANGED <<store, dropping, raced>>
  BY <1>1, <1>4, Zenon
<1>5. QED
  BY <1>2, <1>3, <1>4, ConsumerOnly, Zenon

\* A resident handler is the one of the row, unless the consumer stands
\* between the row and the LRU or applied the last event during a load.
THEOREM RouterFreshness == Spec => []StaleOnlyIfRaced
<1> DEFINE Inv == CoreInv /\ FlightInv /\ FreshInv
<1>1. Init => Inv
  BY CoreInit, FlightInit, NothingLiveInit, Zenon DEF FreshInv
<1>2. Inv /\ [Next]_vars => Inv'
  BY CoreStep, FlightStep, FreshStep, Zenon
<1>3. Inv => StaleOnlyIfRaced
  <2> SUFFICES ASSUME CoreInv, FreshInv, NEW i \in DOMAIN lru
               PROVE  \/ lru[i].value = store[lru[i].key]
                      \/ dropping = lru[i].key
                      \/ lru[i].key \in raced
    BY Zenon DEF StaleOnlyIfRaced
  <2>1. lru \in Seq(Entries)
    BY Zenon DEF CoreInv, TypeOK, Entries
  <2>2. lru[i].key \in Hosts /\ lru[i].value \in 1..MaxEvents
    <3>1. lru[i] \in Entries
      BY <2>1
    <3>2. QED
      BY <3>1, Zenon DEF Entries
  <2>3. Live(lru[i].key, lru[i].value)
    BY Zenon DEF Live, Resident
  <2>4. QED
    BY <2>2, <2>3, Zenon DEF FreshInv
<1>4. QED
  BY <1>1, <1>2, <1>3, PTL DEF Spec
-----------------------------------------------------------------------------
(* OrderInv *)

\* Rows only take the version of the event being applied, or none.
LEMMA StoreStep ==
  ASSUME CoreInv, [Next]_vars, NEW h \in Hosts
  PROVE  /\ store'[h] = store[h] \/ store'[h] = 0 \/ store'[h] = clock
         /\ clock <= clock'
<1> USE ConstantsAssumption
<1>0. TypeOK
  BY Zenon DEF CoreInv
<1>1. clock' = clock \/ clock' = clock + 1
  BY Zenon DEF Next, RequestStep, ConsumerStep, Arrive, Disconnect, LookupHit, LookupMiss,
    FastPath, ClaimHit, ClaimFollow, ClaimOwn, GiveUp, Wake, ReadRow, Compile, Publish,
    OwnerReturns, ReceiveEvent, WriteRow, WriteRowFails, DropHandler, vars, appVars
<1>2. ASSUME NEW g \in Hosts, WriteRow(g)
      PROVE  store'[h] = store[h] \/ store'[h] = 0 \/ store'[h] = clock
  <2> DEFINE row == IF deleted THEN 0 ELSE clock
  <2>1. row = 0 \/ row = clock
    BY Zenon
  <2>2. store' = [store EXCEPT ![g] = row] \/ store' = store
    BY <1>2, Zenon DEF WriteRow
  <2> HIDE DEF row
  <2>3. QED
    BY <1>0, <2>1, <2>2, Zenon DEF TypeOK
<1>3. DropHandler => store' = store
  BY Zenon DEF DropHandler
<1>4. clock \in Nat
  BY <1>0 DEF TypeOK
<1>5. clock <= clock'
  BY <1>1, <1>4
<1>6. QED
  BY <1>2, <1>3, <1>5, ConsumerOnly, Zenon

\* A floor stays one: whatever is loaded later is the row's version.
LEMMA FloorStep ==
  ASSUME CoreInv, FlightInv, [Next]_vars, NEW h \in Hosts, NEW n \in Nat,
         Floor(h, n), n <= clock
  PROVE  Floor(h, n)'
<1>1. store'[h] # 0 => n <= store'[h]
  BY StoreStep, Zenon DEF Floor
<1>2. ASSUME NEW v \in 1..MaxEvents, Live(h, v)'
      PROVE  n <= v
  <2>1. Live(h, v) \/ v = store[h]
    BY <1>2, LiveStep, Zenon
  <2>2. v # 0
    BY ConstantsAssumption
  <2>3. QED
    BY <2>1, <2>2, Zenon DEF Floor
<1>3. QED
  BY <1>1, <1>2, Zenon DEF Floor

\* What is served becomes a floor: a handler from the LRU is the only version
\* of its host, and a publisher's version is a floor by OrderInv.
LEMMA ServedIsFloor ==
  ASSUME CoreInv, OrderInv, NEW r \in Requests, NEW v,
         \/ InCache(lru, host[r]) /\ v = GetValue(lru, host[r])
         \/ pc[r] = "published" /\ loaded[r] # 0 /\ v = loaded[r]
  PROVE  v \in 1..MaxEvents /\ v <= clock /\ Floor(host[r], v)
<1> USE ConstantsAssumption
<1>0. TypeOK /\ host[r] \in Hosts /\ lru \in Seq(Entries)
  BY Zenon DEF CoreInv, TypeOK, Entries
<1>1. CASE InCache(lru, host[r]) /\ v = GetValue(lru, host[r])
  <2>1. PICK i \in DOMAIN lru : lru[i].key = host[r] /\ v = lru[i].value
    BY <1>1, GetValueFacts
  <2>2. v \in 1..MaxEvents
    <3>1. lru[i] \in Entries
      BY <1>0
    <3>2. QED
      BY <2>1, <3>1, Zenon DEF Entries
  <2>3. Live(host[r], v)
    BY <2>1, Zenon DEF Live, Resident
  <2>4. \A w : Live(host[r], w) => w = v
    <3>1. \A w : Resident(lru, host[r], w) => w = v
      BY <2>1, Zenon DEF Resident, CoreInv, LRUBounded, Unique
    <3>2. \A w : \A q \in Requests : ~Carries(q, host[r], w)
      BY <1>0, <1>1 DEF Carries, CoreInv, SingleFlight, Owns, OwnerStates
    <3>3. QED
      BY <3>1, <3>2, Zenon DEF Live
  <2>5. QED
    BY <1>0, <2>2, <2>3, <2>4 DEF OrderInv, Floor
<1>2. CASE pc[r] = "published" /\ loaded[r] # 0 /\ v = loaded[r]
  BY <1>0, <1>2 DEF OrderInv, TypeOK
<1>3. QED
  BY <1>1, <1>2, Zenon
\* The newest version served of a host only grows, and stays a floor.
LEMMA NewestStep ==
  ASSUME CoreInv, OrderInv, [Next]_vars, NEW h \in Hosts
  PROVE  /\ newest[h] <= newest'[h]
         /\ newest'[h] <= clock
         /\ Floor(h, newest'[h])
<1> USE ConstantsAssumption
<1>0. TypeOK
  BY Zenon DEF CoreInv
<1>1. CASE newest' = newest
  BY <1>0, <1>1 DEF TypeOK, OrderInv
<1>2. ASSUME NEW r \in Requests, NEW v, ServeOrCancel(r, v) \/ Serve(r, v),
             \/ InCache(lru, host[r]) /\ v = GetValue(lru, host[r])
             \/ pc[r] = "published" /\ loaded[r] # 0 /\ v = loaded[r]
      PROVE  /\ newest[h] <= newest'[h]
             /\ newest'[h] <= clock
             /\ Floor(h, newest'[h])
  <2>1. v \in 1..MaxEvents /\ v <= clock /\ Floor(host[r], v)
    BY <1>2, ServedIsFloor, Zenon
  <2>2. CASE Serve(r, v)
    <3>1. newest' = [newest EXCEPT ![host[r]] = IF v > @ THEN v ELSE @]
      BY <2>2, Zenon DEF Serve
    <3>2. QED
      BY <1>0, <2>1, <3>1, SMTT(40) DEF TypeOK, OrderInv
  <2>3. QED
    BY <1>1, <1>2, <2>2, Zenon DEF ServeOrCancel
<1>3. ASSUME NEW r \in Requests,
             FastPath(r) \/ ClaimHit(r) \/ Wake(r) \/ OwnerReturns(r)
      PROVE  \/ newest' = newest
             \/ \E v : /\ ServeOrCancel(r, v) \/ Serve(r, v)
                       /\ \/ InCache(lru, host[r]) /\ v = GetValue(lru, host[r])
                          \/ /\ pc[r] = "published"
                             /\ loaded[r] # 0
                             /\ v = loaded[r]
  BY <1>3, Zenon DEF FastPath, ClaimHit, Wake, OwnerReturns
<1>4. \/ newest' = newest
      \/ \E r \in Requests :
           FastPath(r) \/ ClaimHit(r) \/ Wake(r) \/ OwnerReturns(r)
  BY Zenon DEF Next, RequestStep, ConsumerStep, Arrive, Disconnect, LookupHit, LookupMiss,
    ClaimFollow, ClaimOwn, GiveUp, ReadRow, Compile, Publish, ReceiveEvent, WriteRow,
    WriteRowFails, DropHandler, vars
<1>5. QED
  BY <1>1, <1>2, <1>3, <1>4, Zenon

\* A request keeps what it knew when it was resolved until it is answered.
LEMMA LocalsStep ==
  ASSUME CoreInv, FlightInv, [Next]_vars, NEW r \in Requests,
         pc'[r] \notin {"idle", "host", "default"}
  PROVE  /\ host'[r] = host[r]
         /\ \/ pc[r] \in {"host", "default"} /\ seen'[r] = newest[host[r]]
            \/ /\ pc[r] \notin {"idle", "host", "default"}
               /\ seen'[r] = seen[r]
         /\ pc'[r] = "published" =>
              /\ loaded'[r] = loaded[r]
              /\ pc[r] = "published" \/ Publish(r)
<1> USE ConstantsAssumption
<1>0. TypeOK
  BY Zenon DEF CoreInv
<1> DEFINE Goal ==
      /\ host'[r] = host[r]
      /\ \/ pc[r] \in {"host", "default"} /\ seen'[r] = newest[host[r]]
         \/ /\ pc[r] \notin {"idle", "host", "default"}
            /\ seen'[r] = seen[r]
      /\ pc'[r] = "published" =>
           /\ loaded'[r] = loaded[r]
           /\ pc[r] = "published" \/ Publish(r)
<1>1. ASSUME NEW q \in Requests, Finish(q)
      PROVE  Goal
  BY <1>0, <1>1 DEF Finish, TypeOK
<1>2. CASE UNCHANGED <<pc, locals>>
  BY <1>2, Zenon DEF locals
<1>3. ASSUME NEW q \in Requests, NEW h \in Hosts, Arrive(q, h)
      PROVE  Goal
  BY <1>0, <1>3, Zenon DEF Arrive, TypeOK
<1>4. ASSUME NEW q \in Requests, LookupHit(q) \/ LookupMiss(q)
      PROVE  Goal
  BY <1>0, <1>1, <1>4, SMTT(40) DEF LookupHit, LookupMiss, TypeOK
<1>5. ASSUME NEW q \in Requests, FastPath(q) \/ ClaimHit(q) \/ ClaimFollow(q)
      PROVE  Goal
  BY <1>0, <1>1, <1>5, Zenon DEF FastPath, ClaimHit, ClaimFollow, ServeOrCancel, Serve, locals,
    TypeOK
<1>6. ASSUME NEW q \in Requests, ClaimOwn(q) \/ GiveUp(q) \/ Wake(q)
      PROVE  Goal
  BY <1>0, <1>1, <1>6, Zenon DEF ClaimOwn, GiveUp, Wake, ServeOrCancel, Serve, locals, TypeOK
<1>7. ASSUME NEW q \in Requests, ReadRow(q) \/ Compile(q)
      PROVE  Goal
  BY <1>0, <1>7, Zenon DEF ReadRow, Compile, TypeOK
<1>8. ASSUME NEW q \in Requests, Publish(q)
      PROVE  Goal
  BY <1>0, <1>8, Zenon DEF Publish, TypeOK
<1>9. ASSUME NEW q \in Requests, OwnerReturns(q)
      PROVE  Goal
  BY <1>1, <1>9, Zenon DEF OwnerReturns, ServeOrCancel, Serve
<1>10. QED
  BY <1>2, <1>3, <1>4, <1>5, <1>6, <1>7, <1>8, <1>9, Zenon DEF Next, RequestStep, ConsumerStep,
    Disconnect, ReceiveEvent, WriteRow, WriteRowFails, DropHandler, vars
\* The parts of OrderInv that are about one request.
LEMMA OrderSeen ==
  ASSUME OrderInv, NEW r \in Requests,
         pc[r] \notin {"idle", "host", "default"}
  PROVE  seen[r] <= newest[host[r]]
BY Zenon DEF OrderInv

LEMMA OrderPublished ==
  ASSUME OrderInv, NEW r \in Requests, pc[r] = "published", loaded[r] # 0
  PROVE  /\ seen[r] <= loaded[r]
         /\ loaded[r] <= clock
         /\ Floor(host[r], loaded[r])
BY Zenon DEF OrderInv

\* The version a request has just published is a floor: it is resident alone.
LEMMA PublishedIsFloor ==
  ASSUME CoreInv, OrderInv, CoreInv', NEW r \in Requests, Publish(r),
         loaded[r] # 0
  PROVE  Floor(host[r], loaded[r])'
<1> USE ConstantsAssumption
<1>1. /\ TypeOK
      /\ host[r] \in Hosts
      /\ host'[r] = host[r]
      /\ loaded[r] \in 1..MaxEvents
      /\ loaded'[r] = loaded[r]
      /\ store' = store
  <2>1. TypeOK
    BY Zenon DEF CoreInv
  <2>2. host[r] \in Hosts /\ loaded[r] \in 1..MaxEvents
    BY <2>1 DEF TypeOK
  <2>3. host' = host /\ store' = store /\ loaded'[r] = loaded[r]
    BY Zenon DEF Publish
  <2>4. QED
    BY <2>1, <2>2, <2>3, Zenon
<1>2. store[host[r]] # 0 => loaded[r] <= store[host[r]]
  BY <1>1, Zenon DEF OrderInv, Live, Carries, Publish
<1>3. \A v : Resident(lru', host[r], v) => v = loaded[r]
  <2>1. ~InCache(lru, host[r])
    BY <1>1, Zenon DEF CoreInv, SingleFlight, Owns, OwnerStates, Publish
  <2>2. lru \in Seq(Entries) /\ Unique(lru) /\ Len(lru) <= Capacity
    BY Zenon DEF CoreInv, TypeOK, LRUBounded, Entries
  <2>3. lru' = Put(lru, Capacity, host[r], loaded[r])
    BY Zenon DEF Publish
  <2>4. QED
    BY <1>1, <2>1, <2>2, <2>3, LruPublishes, Zenon
<1>4. \A v : \A q \in Requests : ~Carries(q, host[r], v)'
  <2>1. calls'[host[r]] = NoFlight
    BY <1>1, Zenon DEF Publish, TypeOK
  <2>2. \A q \in Requests : ~Owns(q, host[r])'
    BY <1>1, <2>1 DEF CoreInv, SingleFlight
  <2>3. QED
    BY <1>1, <2>2, Zenon DEF Carries, Owns, OwnerStates
<1>5. \A v : Live(host[r], v)' => v = loaded[r]
  BY <1>1, <1>3, <1>4, Zenon DEF Live, Carries
<1>6. store'[host'[r]] # 0 => loaded'[r] <= store'[host'[r]]
  BY <1>1, <1>2, Zenon
<1>7. ASSUME NEW v \in 1..MaxEvents, Live(host[r], v)'
      PROVE  loaded'[r] <= v
  <2>1. v = loaded'[r]
    BY <1>1, <1>5, <1>7, Zenon
  <2>2. QED
    BY <2>1
<1>8. QED
  BY <1>6, <1>7, Zenon DEF Floor

LEMMA OrderStep ==
  CoreInv /\ FlightInv /\ OrderInv /\ [Next]_vars => OrderInv'
<1> SUFFICES ASSUME CoreInv, FlightInv, OrderInv, [Next]_vars
             PROVE  OrderInv'
  BY Zenon
<1> USE ConstantsAssumption
<1>0. CoreInv' /\ TypeOK /\ TypeOK'
  BY CoreStep, Zenon DEF CoreInv
<1>1. ASSUME NEW h \in Hosts
      PROVE  (/\ store[h] <= clock
              /\ newest[h] <= clock
              /\ Floor(h, newest[h])
              /\ \A v \in 1..MaxEvents :
                   Live(h, v) => v <= clock /\ (store[h] # 0 => v <= store[h]))'
  <2>1. /\ store[h] \in Nat /\ clock \in Nat /\ clock' \in Nat
        /\ store'[h] \in Nat /\ newest'[h] \in Nat
    BY <1>0 DEF TypeOK
  <2>2. /\ store'[h] = store[h] \/ store'[h] = 0 \/ store'[h] = clock
        /\ clock <= clock'
    BY StoreStep, Zenon
  <2>3. /\ newest'[h] <= clock
        /\ Floor(h, newest'[h])
    BY NewestStep, Zenon
  <2>4. Floor(h, newest[h])'
    BY <2>1, <2>3, FloorStep, Zenon DEF Floor
  <2>5. ASSUME NEW v \in 1..MaxEvents, Live(h, v)'
        PROVE  v <= clock' /\ (store'[h] # 0 => v <= store'[h])
    <3>1. Live(h, v) \/ v = store[h]
      BY <2>5, LiveStep, Zenon
    <3>2. v <= clock /\ (store[h] # 0 => v <= store[h])
      BY <2>1, <3>1 DEF OrderInv
    <3>3. QED
      BY <2>1, <2>2, <3>2
  <2>6. store[h] <= clock
    BY Zenon DEF OrderInv
  <2>7. QED
    BY <2>1, <2>2, <2>3, <2>4, <2>5, <2>6
<1>2. ASSUME NEW r \in Requests, pc'[r] \notin {"idle", "host", "default"}
      PROVE  seen'[r] <= newest'[host'[r]]
  <2>1. host[r] \in Hosts /\ host'[r] = host[r]
    BY <1>0, <1>2, LocalsStep, Zenon DEF TypeOK
  <2>2. seen'[r] <= newest[host[r]]
    <3>1. newest[host[r]] \in Nat
      BY <1>0, <2>1 DEF TypeOK
    <3>2. CASE seen'[r] = newest[host[r]]
      BY <3>1, <3>2
    <3>3. CASE /\ pc[r] \notin {"idle", "host", "default"}
               /\ seen'[r] = seen[r]
      BY <3>3, Zenon DEF OrderInv
    <3>4. QED
      BY <1>2, <3>2, <3>3, LocalsStep, Zenon
  <2>3. newest[host[r]] <= newest'[host[r]]
    BY <2>1, NewestStep, Zenon
  <2>4. QED
    BY <1>0, <2>1, <2>2, <2>3, SMTT(40) DEF TypeOK
<1>3. ASSUME NEW r \in Requests, pc'[r] = "published", loaded'[r] # 0
      PROVE  /\ seen'[r] <= loaded'[r]
             /\ loaded'[r] <= clock'
             /\ Floor(host[r], loaded[r])'
  <2>1. /\ host'[r] = host[r]
        /\ loaded'[r] = loaded[r]
        /\ pc[r] = "published" \/ Publish(r)
    BY <1>3, LocalsStep, Zenon
  <2>2. /\ host[r] \in Hosts
        /\ loaded[r] \in 1..MaxEvents
        /\ clock \in Nat
        /\ clock' \in Nat
        /\ seen[r] \in Nat
        /\ newest[host[r]] \in Nat
    BY <1>0, <1>3, <2>1, SMTT(40) DEF TypeOK
  <2>3. clock <= clock'
    BY <2>2, StoreStep, Zenon
  <2>4. pc[r] \in {"published", "publish"} /\ seen'[r] = seen[r]
    BY <1>3, <2>1, LocalsStep, Zenon DEF Publish
  <2>5. CASE pc[r] = "published"
    <3>1. seen[r] <= loaded[r] /\ loaded[r] <= clock /\ Floor(host[r], loaded[r])
      BY <1>3, <2>1, <2>5, OrderPublished, Zenon
    <3>2. Floor(host[r], loaded[r])'
      <4>1. ASSUME NEW h \in Hosts, NEW n \in Nat, h = host[r], n = loaded[r]
            PROVE  Floor(h, n)'
        BY <3>1, <4>1, FloorStep, Zenon
      <4>2. host'[r] \in Hosts /\ loaded'[r] \in Nat
        BY <2>1, <2>2
      <4>3. QED
        BY <2>1, <4>1, <4>2, Zenon
    <3>3. seen'[r] <= loaded'[r] /\ loaded'[r] <= clock'
      BY <2>1, <2>2, <2>3, <2>4, <3>1
    <3>4. QED
      BY <3>2, <3>3, Zenon
  <2>6. CASE Publish(r)
    <3>1. Live(host[r], loaded[r])
      BY <2>1, <1>3, <2>6, Zenon DEF Publish, Live, Carries
    <3>2. newest[host[r]] <= loaded[r] /\ loaded[r] <= clock
      BY <2>2, <3>1, Zenon DEF OrderInv, Floor
    <3>3. seen[r] <= newest[host[r]]
      BY <2>4, Zenon DEF OrderInv
    <3>4. Floor(host[r], loaded[r])'
      BY <1>0, <1>3, <2>1, <2>6, PublishedIsFloor, Zenon
    <3>5. seen'[r] <= loaded'[r] /\ loaded'[r] <= clock'
      BY <2>1, <2>2, <2>3, <2>4, <3>2, <3>3
    <3>6. QED
      BY <3>4, <3>5, Zenon
  <2>7. QED
    BY <2>1, <2>5, <2>6, Zenon
<1>4. QED
  BY <1>1, <1>2, <1>3, Zenon DEF OrderInv

\* Once a config of a host has been served, no request that is resolved later
\* is served an older one.
THEOREM RouterMonotonic == Spec => []ConfigNeverGoesBack
<1> DEFINE Inv == CoreInv /\ FlightInv /\ OrderInv
<1>1. Init => Inv
  <2>1. Init => OrderInv
    BY NothingLiveInit, ConstantsAssumption DEF Init, OrderInv, Floor
  <2>2. QED
    BY <2>1, CoreInit, FlightInit, Zenon
<1>2. Inv /\ [Next]_vars => Inv'
  BY CoreStep, FlightStep, OrderStep, Zenon
<1>3. Inv => ConfigNeverGoesBack
  <2>0. SUFFICES ASSUME Inv, NEW r \in Requests, NEW v \in Offered(r)
                 PROVE  v >= seen[r]
    BY Zenon DEF ConfigNeverGoesBack
  <2>1. /\ host[r] \in Hosts
        /\ seen[r] \in Nat
        /\ newest[host[r]] \in Nat
        /\ loaded[r] \in Nat
    BY <2>0, ConstantsAssumption DEF CoreInv, TypeOK
  <2>2. CASE pc[r] = "published" /\ loaded[r] # 0
    <3>1. v = loaded[r]
      BY <2>0, <2>2, Zenon DEF Offered
    <3>2. seen[r] <= loaded[r]
      BY <2>0, <2>2, OrderPublished, Zenon
    <3>3. QED
      BY <2>1, <3>1, <3>2, Zenon
  <2>3. CASE ~(pc[r] = "published" /\ loaded[r] # 0)
    <3>1. /\ pc[r] \in {"handler", "claim", "woken"}
          /\ InCache(lru, host[r])
          /\ v = GetValue(lru, host[r])
      BY <2>0, <2>3, Zenon DEF Offered
    <3>2. PICK i \in DOMAIN lru : lru[i].key = host[r] /\ v = lru[i].value
      BY <3>1, GetValueFacts
    <3>3. v \in 1..MaxEvents
      BY <2>0, <3>1, ServedIsFloor, Zenon
    <3>4. newest[host[r]] <= v
      <4>1. Live(host[r], v)
        BY <3>2, Zenon DEF Live, Resident
      <4>2. Floor(host[r], newest[host[r]])
        BY <2>0, <2>1, Zenon DEF OrderInv
      <4>3. QED
        BY <3>3, <4>1, <4>2, Zenon DEF Floor
    <3>5. seen[r] <= newest[host[r]]
      <4>1. pc[r] \notin {"idle", "host", "default"}
        BY <3>1, Zenon
      <4>2. QED
        BY <2>0, <4>1, OrderSeen, Zenon
    <3>6. v \in Nat
      BY <3>3, ConstantsAssumption
    <3>7. QED
      BY <2>1, <3>4, <3>5, <3>6
  <2>4. QED
    BY <2>2, <2>3, Zenon
<1>4. QED
  BY <1>1, <1>2, <1>3, PTL DEF Spec
=============================================================================
