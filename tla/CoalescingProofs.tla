-------------------------- MODULE CoalescingProofs --------------------------
(***************************************************************************)
(* The safety properties of Coalescing, for any number of requests and     *)
(* keys, any size of the pool of writers and any combination of faults.    *)
(*                                                                         *)
(* TypeInv is inductive by itself, FlightInv on top of it.  CalmInv needs  *)
(* both: it is about what a waiter finds when its flight ends.             *)
(***************************************************************************)
EXTENDS Coalescing, FiniteSetTheorems, TLAPS

TypeInv == TypeOK /\ env \in Environments

\* A waiter waits for the owner of its key's flight, which has yet to close its
\* channel; who has waited remembers for whom.
FlightInv ==
  /\ FlightHasOwner
  /\ OthersFetchAfterWaiting
  /\ closed = {r \in Requests : pc[r] = "delete"}
  /\ \A r \in Requests :
       /\ pc[r] = "wait" =>
            waitsFor[r] \in Requests \ closed /\ flightMu[key[r]] = waitsFor[r]
       /\ pc[r] \in {"woken", "waiterMeta", "waiterBody"} => waitsFor[r] \in Requests

\* Every response is cached and stays so.
Calm == env.faults = {} /\ env.workers >= Cardinality(Requests)

\* A request that has a response, or is told of one, finds it in the cache.
CalmInv ==
  Calm =>
    \A r \in Requests :
      /\ r \in resp => /\ pc[r] \in {"close", "delete", "woken", "waiterMeta", "waiterBody"}
                       /\ key[r] \in entry
      /\ pc[r] = "record" => key[r] \in entry

-----------------------------------------------------------------------------
(* TypeInv *)

Writers == {r \in Requests : pc[r] = "write"}

\* What the fields of an environment are.
LEMMA EnvironmentType ==
  ASSUME env \in Environments
  PROVE  env.keys \subseteq Keys /\ env.workers \in Nat \ {0} /\ env.faults \subseteq AllFaults
BY CoalescingAssumption, Zenon

\* The tokens of the pool are held by the writers, one for each, and
\* so fewer than there are requests if one of these is not writing.
LEMMA OthersWrite ==
  ASSUME TypeInv, NEW r \in Requests
  PROVE  /\ pool \in Nat
         /\ IsFiniteSet(Writers) /\ Cardinality(Writers) = pool
         /\ pc[r] # "write" => pool < Cardinality(Requests)
<1>1. IsFiniteSet(Requests) /\ Writers \in SUBSET Requests
  BY CoalescingAssumption, Zenon DEF Writers
<1>2. IsFiniteSet(Writers) /\ Cardinality(Writers) = pool
  BY <1>1, FS_Subset, Zenon DEF TypeInv, TypeOK, Writers
<1>3. pool \in Nat
  BY <1>2, FS_CardinalityType, Zenon
<1>4. /\ Cardinality(Writers) <= Cardinality(Requests)
      /\ Cardinality(Requests) = Cardinality(Writers) => Requests = Writers
  BY <1>1, FS_Subset, Zenon
<1>5. Cardinality(Requests) \in Nat
  BY <1>1, FS_CardinalityType, Zenon
<1>6. pc[r] # "write" => Writers # Requests
  BY Zenon DEF Writers
<1> QED
  BY <1>2, <1>3, <1>4, <1>5, <1>6

\* The number of writers after a step of one request.
LEMMA WritersStep ==
  ASSUME TypeInv, NEW r \in Requests, NEW s \in PCs, pc' = [pc EXCEPT ![r] = s]
  PROVE  /\ s = "write" /\ pc[r] # "write" => Cardinality(Writers') = pool + 1
         /\ s # "write" /\ pc[r] = "write" => Cardinality(Writers') = pool - 1
         /\ (s = "write") = (pc[r] = "write") => Cardinality(Writers') = pool
<1>1. IsFiniteSet(Writers) /\ Cardinality(Writers) = pool
  BY OthersWrite, Zenon
<1>2. Cardinality(Writers \cup {r}) = IF r \in Writers THEN pool ELSE pool + 1
  BY <1>1, FS_AddElement, Zenon
<1>3. Cardinality(Writers \ {r}) = IF r \in Writers THEN pool - 1 ELSE pool
  BY <1>1, FS_RemoveElement, Zenon
<1>4. Writers' = IF s = "write" THEN Writers \cup {r} ELSE Writers \ {r}
  BY Zenon DEF TypeInv, TypeOK, Writers
<1>5. pc[r] = "write" <=> r \in Writers
  BY Zenon DEF Writers
<1> QED
  BY <1>2, <1>3, <1>4, <1>5, Zenon

\* Every step keeps the types and the count of the pool's tokens.
LEMMA TypeStep ==
  ASSUME TypeInv, [Next]_vars
  PROVE  TypeInv'
<1> USE CoalescingAssumption, EnvironmentType
<1>w. ASSUME Writers' = Writers, pool' = pool, env' = env
      PROVE  /\ pool' = Cardinality({r \in Requests : pc'[r] = "write"})
             /\ pool' <= env'.workers
  BY <1>w, Zenon DEF TypeInv, TypeOK, Writers
<1>s. ASSUME NEW r \in Requests, NEW s \in PCs, Goto(r, s), env' = env,
             \/ (s = "write") = (pc[r] = "write") /\ pool' = pool
             \/ /\ s = "write" /\ pc[r] # "write"
                /\ pool' = pool + 1 /\ pool < env.workers
             \/ s # "write" /\ pc[r] = "write" /\ pool' = pool - 1
      PROVE  /\ pool' = Cardinality({q \in Requests : pc'[q] = "write"})
             /\ pool' <= env'.workers
  <2>1. /\ s = "write" /\ pc[r] # "write" => Cardinality(Writers') = pool + 1
        /\ s # "write" /\ pc[r] = "write" => Cardinality(Writers') = pool - 1
        /\ (s = "write") = (pc[r] = "write") => Cardinality(Writers') = pool
        /\ pool \in Nat
    BY <1>s, WritersStep, OthersWrite, Zenon DEF Goto
  <2>2. pool <= env.workers /\ env.workers \in Nat
    BY Zenon DEF TypeInv, TypeOK
  <2>3. pool' = Cardinality(Writers')
    BY <1>s, <2>1, Zenon
  <2>4. pool' <= env'.workers
    BY <1>s, <2>1, <2>2
  <2> QED
    BY <2>3, <2>4, Zenon DEF Writers
<1>1. ASSUME NEW r \in Requests, NEW k \in Keys, Arrive(r, k)
      PROVE  TypeInv'
  <2>1. pool' = Cardinality({q \in Requests : pc'[q] = "write"}) /\ pool' <= env'.workers
    BY <1>1, <1>s, Zenon DEF Arrive, PCs, cache
  <2> QED
    BY <1>1, <2>1, Zenon DEF TypeInv, TypeOK, Arrive, Goto, PCs, cache, flights
<1>2. ASSUME NEW r \in Requests, ReadMeta(r)
      PROVE  TypeInv'
  <2>1. pool' = Cardinality({q \in Requests : pc'[q] = "write"}) /\ pool' <= env'.workers
    BY <1>2, <1>s, Zenon DEF ReadMeta, PCs, cache, OwnerStates
  <2> QED
    BY <1>2, <2>1 DEF TypeInv, TypeOK, ReadMeta, Goto, PCs, OwnerStates, cache, flights
<1>3. ASSUME NEW r \in Requests, ReadBody(r)
      PROVE  TypeInv'
  <2>1. pool' = Cardinality({q \in Requests : pc'[q] = "write"}) /\ pool' <= env'.workers
    BY <1>3, <1>s, Zenon DEF ReadBody, Return, PCs, cache
  <2> QED
    BY <1>3, <2>1, Zenon DEF TypeInv, TypeOK, ReadBody, Return, Goto, PCs, cache
<1>4. ASSUME NEW r \in Requests, ReadBodyFails(r)
      PROVE  TypeInv'
  <2>1. pool' = Cardinality({q \in Requests : pc'[q] = "write"}) /\ pool' <= env'.workers
    BY <1>4, <1>s, Zenon DEF ReadBodyFails, PCs, cache, OwnerStates
  <2> QED
    BY <1>4, <2>1, Zenon DEF TypeInv, TypeOK, ReadBodyFails, Goto, PCs, OwnerStates, cache,
      flights
<1>5. ASSUME NEW r \in Requests, Claim(r)
      PROVE  TypeInv'
  <2>1. pool' = Cardinality({q \in Requests : pc'[q] = "write"}) /\ pool' <= env'.workers
    BY <1>5, <1>s, Zenon DEF Claim, PCs, cache, OwnerStates
  <2> QED
    BY <1>5, <2>1 DEF TypeInv, TypeOK, Claim, Goto, PCs, OwnerStates, cache
<1>6. ASSUME NEW r \in Requests, Join(r)
      PROVE  TypeInv'
  <2>1. pool' = Cardinality({q \in Requests : pc'[q] = "write"}) /\ pool' <= env'.workers
    BY <1>6, <1>s, Zenon DEF Join, PCs, cache
  <2>2. flightMu[key[r]] \in Requests
    BY <1>6 DEF TypeInv, TypeOK, Join
  <2> QED
    BY <1>6, <2>1, <2>2 DEF TypeInv, TypeOK, Join, Goto, PCs, cache
<1>7. ASSUME NEW r \in Requests, Woken(r)
      PROVE  TypeInv'
  <2>1. pool' = Cardinality({q \in Requests : pc'[q] = "write"}) /\ pool' <= env'.workers
    BY <1>7, <1>s, Zenon DEF Woken, PCs, cache, OwnerStates
  <2> QED
    BY <1>7, <2>1, Zenon DEF TypeInv, TypeOK, Woken, Goto, PCs, OwnerStates, cache, flights
<1>8. ASSUME NEW r \in Requests, FetchOK(r)
      PROVE  TypeInv'
  <2>1. pool' = Cardinality({q \in Requests : pc'[q] = "write"}) /\ pool' <= env'.workers
    BY <1>8, <1>s, Zenon DEF FetchOK, PCs, cache, OwnerStates
  <2> QED
    BY <1>8, <2>1 DEF TypeInv, TypeOK, FetchOK, Goto, PCs, OwnerStates, cache, flights
<1>9. ASSUME NEW r \in Requests, FetchFails(r)
      PROVE  TypeInv'
  <2>1. pool' = Cardinality({q \in Requests : pc'[q] = "write"}) /\ pool' <= env'.workers
    BY <1>9, <1>s, Zenon DEF FetchFails, Leave, Return, PCs, cache, OwnerStates
  <2> QED
    BY <1>9, <2>1 DEF TypeInv, TypeOK, FetchFails, Leave, Return, Goto, PCs, OwnerStates, cache
<1>10. ASSUME NEW r \in Requests, Acquire(r)
       PROVE  TypeInv'
  <2>1. pool' = Cardinality({q \in Requests : pc'[q] = "write"}) /\ pool' <= env'.workers
    BY <1>10, <1>s, Zenon DEF Acquire, PCs, OwnerStates
  <2> QED
    BY <1>10, <2>1 DEF TypeInv, TypeOK, Acquire, Goto, PCs, OwnerStates, flights
<1>11. ASSUME NEW r \in Requests, Write(r)
       PROVE  TypeInv'
  <2>1. pool' = Cardinality({q \in Requests : pc'[q] = "write"}) /\ pool' <= env'.workers
    BY <1>11, <1>s, Zenon DEF Write, PCs, OwnerStates
  <2> QED
    BY <1>11, <2>1 DEF TypeInv, TypeOK, Write, Goto, PCs, OwnerStates, flights
<1>12. ASSUME NEW r \in Requests, Record(r)
       PROVE  TypeInv'
  <2>1. pool' = Cardinality({q \in Requests : pc'[q] = "write"}) /\ pool' <= env'.workers
    BY <1>12, <1>s, Zenon DEF Record, Return, PCs, cache, OwnerStates
  <2> QED
    BY <1>12, <2>1 DEF TypeInv, TypeOK, Record, Return, Goto, PCs, OwnerStates, cache
<1>13. ASSUME NEW r \in Requests, Close(r)
       PROVE  TypeInv'
  <2>1. Writers' = Writers /\ pool' = pool /\ env' = env
    BY <1>13, Zenon DEF Close, Writers, cache
  <2> QED
    BY <1>13, <1>w, <2>1 DEF TypeInv, TypeOK, Close, PCs, OwnerStates, cache
<1>14. ASSUME NEW r \in Requests, Delete(r)
       PROVE  TypeInv'
  <2>1. pool' = Cardinality({q \in Requests : pc'[q] = "write"}) /\ pool' <= env'.workers
    BY <1>14, <1>s, Zenon DEF Delete, Return, PCs, cache
  <2> QED
    BY <1>14, <2>1, Zenon DEF TypeInv, TypeOK, Delete, Return, Goto, PCs, cache
<1>15. ASSUME NEW k \in Keys, Vanish(k)
       PROVE  TypeInv'
  BY <1>15, Zenon DEF TypeInv, TypeOK, Vanish, flights
<1>16. CASE UNCHANGED vars
  BY <1>16, Zenon DEF TypeInv, TypeOK, vars, cache, flights
<1> QED
  BY <1>1, <1>2, <1>3, <1>4, <1>5, <1>6, <1>7, <1>8, <1>9, <1>10, <1>11, <1>12, <1>13, <1>14,
    <1>15, <1>16, Zenon DEF Next, RequestStep

-----------------------------------------------------------------------------
(* FlightInv and CalmInv *)

\* Every step keeps the bookkeeping of flights and waiters.
LEMMA FlightStep ==
  ASSUME TypeInv, FlightInv, [Next]_vars
  PROVE  FlightInv'
<1> USE CoalescingAssumption DEF TypeInv, TypeOK, OwnerStates
<1>1. ASSUME NEW r \in Requests, NEW k \in Keys, Arrive(r, k)
      PROVE  FlightInv'
  BY <1>1 DEF FlightInv, FlightHasOwner, OthersFetchAfterWaiting, IsOwner, Arrive, Goto, cache,
    flights
<1>2. ASSUME NEW r \in Requests, ReadMeta(r)
      PROVE  FlightInv'
  BY <1>2 DEF FlightInv, FlightHasOwner, OthersFetchAfterWaiting, IsOwner, ReadMeta, Goto,
    cache, flights
<1>3. ASSUME NEW r \in Requests, ReadBody(r)
      PROVE  FlightInv'
  BY <1>3 DEF FlightInv, FlightHasOwner, OthersFetchAfterWaiting, IsOwner, ReadBody, Return,
    Goto, cache
<1>4. ASSUME NEW r \in Requests, ReadBodyFails(r)
      PROVE  FlightInv'
  BY <1>4 DEF FlightInv, FlightHasOwner, OthersFetchAfterWaiting, IsOwner, ReadBodyFails, Goto,
    cache, flights
<1>5. ASSUME NEW r \in Requests, Claim(r)
      PROVE  FlightInv'
  BY <1>5 DEF FlightInv, FlightHasOwner, OthersFetchAfterWaiting, IsOwner, Claim, Goto, cache
<1>6. ASSUME NEW r \in Requests, Join(r)
      PROVE  FlightInv'
  BY <1>6 DEF FlightInv, FlightHasOwner, OthersFetchAfterWaiting, IsOwner, Join, Goto, cache
<1>7. ASSUME NEW r \in Requests, Woken(r)
      PROVE  FlightInv'
  BY <1>7 DEF FlightInv, FlightHasOwner, OthersFetchAfterWaiting, IsOwner, Woken, Goto, cache,
    flights
<1>8. ASSUME NEW r \in Requests, FetchOK(r)
      PROVE  FlightInv'
  BY <1>8 DEF FlightInv, FlightHasOwner, OthersFetchAfterWaiting, IsOwner, FetchOK, Goto, cache,
    flights
<1>9. ASSUME NEW r \in Requests, FetchFails(r)
      PROVE  FlightInv'
  BY <1>9 DEF FlightInv, FlightHasOwner, OthersFetchAfterWaiting, IsOwner, FetchFails, Leave,
    Return, Goto, cache
<1>10. ASSUME NEW r \in Requests, Acquire(r)
      PROVE  FlightInv'
  BY <1>10 DEF FlightInv, FlightHasOwner, OthersFetchAfterWaiting, IsOwner, Acquire, Goto,
    flights
<1>11. ASSUME NEW r \in Requests, Write(r)
      PROVE  FlightInv'
  BY <1>11 DEF FlightInv, FlightHasOwner, OthersFetchAfterWaiting, IsOwner, Write, Goto, flights
<1>12. ASSUME NEW r \in Requests, Record(r)
      PROVE  FlightInv'
  BY <1>12 DEF FlightInv, FlightHasOwner, OthersFetchAfterWaiting, IsOwner, Record, Return,
    Goto, cache
<1>13. ASSUME NEW r \in Requests, Close(r)
      PROVE  FlightInv'
  BY <1>13 DEF FlightInv, FlightHasOwner, OthersFetchAfterWaiting, IsOwner, Close, cache
<1>14. ASSUME NEW r \in Requests, Delete(r)
      PROVE  FlightInv'
  BY <1>14 DEF FlightInv, FlightHasOwner, OthersFetchAfterWaiting, IsOwner, Delete, Return,
    Goto, cache
<1>15. ASSUME NEW k \in Keys, Vanish(k)
       PROVE  FlightInv'
  BY <1>15 DEF FlightInv, FlightHasOwner, OthersFetchAfterWaiting, IsOwner, Vanish, flights
<1>16. CASE UNCHANGED vars
  BY <1>16 DEF FlightInv, FlightHasOwner, OthersFetchAfterWaiting, IsOwner, vars, cache, flights
<1> QED
  BY <1>1, <1>2, <1>3, <1>4, <1>5, <1>6, <1>7, <1>8, <1>9, <1>10, <1>11, <1>12, <1>13, <1>14,
    <1>15, <1>16, Zenon DEF Next, RequestStep

\* In a calm environment the pool has a token for every writer, no entry goes
\* away, and no body fails.
LEMMA CalmStep ==
  ASSUME TypeInv, FlightInv, CalmInv, [Next]_vars
  PROVE  CalmInv'
<1> USE CoalescingAssumption, EnvironmentType DEF TypeInv, TypeOK
<1>1. ASSUME NEW r \in Requests, NEW k \in Keys, Arrive(r, k)
      PROVE  CalmInv'
  BY <1>1 DEF CalmInv, Calm, Arrive, Goto, cache, flights
<1>2. ASSUME NEW r \in Requests, ReadMeta(r)
      PROVE  CalmInv'
  BY <1>2 DEF CalmInv, Calm, ReadMeta, Goto, cache, flights
<1>3. ASSUME NEW r \in Requests, ReadBody(r)
      PROVE  CalmInv'
  BY <1>3 DEF CalmInv, Calm, ReadBody, Return, Goto, cache
<1>4. ASSUME NEW r \in Requests, ReadBodyFails(r)
      PROVE  CalmInv'
  BY <1>4 DEF CalmInv, Calm, ReadBodyFails, Goto, cache, flights
<1>5. ASSUME NEW r \in Requests, Claim(r)
      PROVE  CalmInv'
  BY <1>5 DEF CalmInv, Calm, Claim, Goto, cache
<1>6. ASSUME NEW r \in Requests, Join(r)
      PROVE  CalmInv'
  <2> DEFINE o == flightMu[key[r]]
  <2>1. o \in Requests /\ key[o] = key[r] /\ key[r] \in Keys
    BY <1>6 DEF Join, FlightInv, FlightHasOwner
  <2> QED
    BY <1>6, <2>1 DEF CalmInv, Calm, Join, Goto, cache
<1>7. ASSUME NEW r \in Requests, Woken(r)
      PROVE  CalmInv'
  BY <1>7 DEF CalmInv, Calm, Woken, Goto, cache, flights
<1>8. ASSUME NEW r \in Requests, FetchOK(r)
      PROVE  CalmInv'
  BY <1>8 DEF CalmInv, Calm, FetchOK, Goto, cache, flights
<1>9. ASSUME NEW r \in Requests, FetchFails(r)
      PROVE  CalmInv'
  BY <1>9 DEF CalmInv, Calm, FetchFails, Leave, Return, Goto, cache
<1>10. ASSUME NEW r \in Requests, Acquire(r)
      PROVE  CalmInv'
  <2>1. Calm => pool < env.workers
    <3>1. pool < Cardinality(Requests)
      BY <1>10, OthersWrite, Zenon DEF Acquire
    <3>2. pool \in Nat /\ Cardinality(Requests) \in Nat
      BY <1>10, OthersWrite, FS_CardinalityType, Zenon
    <3> QED
      BY <3>1, <3>2 DEF Calm
  <2> QED
    BY <1>10, <2>1 DEF CalmInv, Calm, Acquire, Goto, flights
<1>11. ASSUME NEW r \in Requests, Write(r)
      PROVE  CalmInv'
  BY <1>11 DEF CalmInv, Calm, Write, Goto, flights
<1>12. ASSUME NEW r \in Requests, Record(r)
      PROVE  CalmInv'
  BY <1>12 DEF CalmInv, Calm, Record, Return, Goto, cache
<1>13. ASSUME NEW r \in Requests, Close(r)
      PROVE  CalmInv'
  <2>1. ASSUME NEW q \in Requests, pc[q] = "wait", waitsFor[q] = r
        PROVE  key[q] = key[r]
    <3>1. key[q] \in Keys /\ flightMu[key[q]] = r
      BY <2>1 DEF FlightInv
    <3> QED
      BY <3>1 DEF FlightInv, FlightHasOwner
  <2> QED
    BY <1>13, <2>1 DEF CalmInv, Calm, Close, cache
<1>14. ASSUME NEW r \in Requests, Delete(r)
      PROVE  CalmInv'
  BY <1>14 DEF CalmInv, Calm, Delete, Return, Goto, cache
<1>15. ASSUME NEW k \in Keys, Vanish(k)
       PROVE  CalmInv'
  BY <1>15, Zenon DEF CalmInv, Calm, Vanish, flights
<1>16. CASE UNCHANGED vars
  BY <1>16, Zenon DEF CalmInv, Calm, vars, cache, flights
<1> QED
  BY <1>1, <1>2, <1>3, <1>4, <1>5, <1>6, <1>7, <1>8, <1>9, <1>10, <1>11, <1>12, <1>13, <1>14,
    <1>15, <1>16, Zenon DEF Next, RequestStep

-----------------------------------------------------------------------------
(* The theorems *)

\* The inductive invariant.
LEMMA CoalescingInv == Spec => [](TypeInv /\ FlightInv /\ CalmInv)
<1>1. Init => TypeInv
  <2>1. Cardinality({}) = 0
    BY FS_EmptySet, Zenon
  <2>2. Init => {r \in Requests : pc[r] = "write"} = {}
    BY Zenon DEF Init
  <2> QED
    BY <2>1, <2>2, CoalescingAssumption, EnvironmentType DEF Init, TypeInv, TypeOK, PCs
<1>2. Init => FlightInv /\ CalmInv
  BY CoalescingAssumption DEF Init, FlightInv, FlightHasOwner, OthersFetchAfterWaiting, CalmInv
<1>3. TypeInv /\ FlightInv /\ CalmInv /\ [Next]_vars => (TypeInv /\ FlightInv /\ CalmInv)'
  BY TypeStep, FlightStep, CalmStep, Zenon
<1> QED
  BY <1>1, <1>2, <1>3, PTL DEF Spec

\* The variables keep their types, and writeSem holds one token for each request
\* inside SetResponseToCache.
THEOREM CoalescingTypes == Spec => []TypeOK
<1>1. TypeInv => TypeOK
  BY Zenon DEF TypeInv
<1> QED
  BY <1>1, CoalescingInv, PTL

\* A key has a flight exactly while its owner is between LoadOrStore and the
\* deferred delete: no request closes or deletes another's flight, and no error
\* or panic leaves one behind.
THEOREM FlightsHaveOwners == Spec => []FlightHasOwner
<1>1. FlightInv => FlightHasOwner
  BY Zenon DEF FlightInv
<1> QED
  BY <1>1, CoalescingInv, PTL

\* Whoever fetches upstream without owning the flight has waited for one.
THEOREM OnlyOwnersFetchFirst == Spec => []OthersFetchAfterWaiting
<1>1. FlightInv => OthersFetchAfterWaiting
  BY Zenon DEF FlightInv
<1> QED
  BY <1>1, CoalescingInv, PTL

\* The order of the owner's last steps, cache write before record before close,
\* spares every waiter a second fetch, for any number of requests and keys, when
\* no cache write fails, is refused or is undone.
THEOREM WaitersServedFromCache == Spec => []NoRefetch
<1>1. CalmInv => NoRefetch
  BY Zenon DEF CalmInv, Calm, NoRefetch
<1> QED
  BY <1>1, CoalescingInv, PTL
=============================================================================
