----------------------------- MODULE Coalescing -----------------------------
(***************************************************************************)
(* TargetHandler.ServeHTTP for a location with caching: the cache lookup,  *)
(* the flight that one request owns and others wait for, the upstream      *)
(* fetch, the cache write through the bounded pool of writers, and the     *)
(* deferred release of the waiters.                                        *)
(*                                                                         *)
(* The disk cache (see DiskCache) is abstracted to whether a key has a     *)
(* fresh entry.  A lookup is still two steps, because the metadata is read *)
(* first and the body may be gone then.  Headers are left out.             *)
(***************************************************************************)
EXTENDS Naturals, FiniteSets

CONSTANTS
  Requests,      \* the goroutines serving requests
  Keys,          \* cache keys
  NoKey, NoFlight,
  Environments   \* the keys requested, the capacity of writeSem, and what
                 \* goes wrong

AllFaults == {"vanish",  \* entries are evicted, expired or purged
              "write",   \* SetResponseToCache fails
              "veto",    \* a plugin's ShouldCache says no
              "client"}  \* the client goes away while a body is copied

ASSUME CoalescingAssumption ==
  /\ NoFlight \notin Requests /\ NoKey \notin Keys
  /\ IsFiniteSet(Requests)
  /\ \A e \in Environments :
       /\ e.keys \subseteq Keys
       /\ e.workers \in Nat \ {0}
       /\ e.faults \subseteq AllFaults

VARIABLES
  env,        \* the environment of this behavior
  pc,         \* where a request is
  key,        \* the key of its response
  entry,      \* keys with a fresh entry in the disk cache
  flightMu,   \* the request that owns the flight of a key
  closed,     \* owners whose channel is closed and whose flight is not deleted
  waitsFor,   \* the owner of the flight a request waits for
  resp,       \* owners that recorded a response, waiters whose flight has one
  pool        \* tokens in writeSem

cache == <<entry, pool>>
flights == <<flightMu, closed, waitsFor, resp>>
vars == <<env, pc, key, cache, flights>>

OwnerStates == {"fetch", "store", "write", "record", "close", "delete"}
PCs == {"idle", "meta", "body", "claim", "wait", "woken", "waiterMeta",
        "waiterBody"} \cup OwnerStates

Init ==
  /\ env \in Environments
  /\ pc = [r \in Requests |-> "idle"]
  /\ key = [r \in Requests |-> NoKey]
  /\ entry = {}
  /\ flightMu = [k \in Keys |-> NoFlight]
  /\ closed = {}
  /\ waitsFor = [r \in Requests |-> NoFlight]
  /\ resp = {}
  /\ pool = 0

Goto(r, s) == pc' = [pc EXCEPT ![r] = s]

\* The handler returns; the goroutine's locals are gone.
Return(r) ==
  /\ Goto(r, "idle")
  /\ key' = [key EXCEPT ![r] = NoKey]
  /\ waitsFor' = [waitsFor EXCEPT ![r] = NoFlight]
  /\ resp' = resp \ {r}

IsOwner(r) == flightMu[key[r]] = r

-----------------------------------------------------------------------------
(* The cache lookup *)

Arrive(r, k) ==
  /\ pc[r] = "idle"
  /\ k \in env.keys
  /\ key' = [key EXCEPT ![r] = k]
  /\ Goto(r, "meta")
  /\ UNCHANGED <<env, cache, flights>>

\* StreamCachedResponseTTL, called for the request itself and for a waiter:
\* no entry is a miss.
ReadMeta(r) ==
  LET waiter == pc[r] = "waiterMeta" IN
  /\ pc[r] \in {"meta", "waiterMeta"}
  /\ Goto(r, IF key[r] \in entry
             THEN IF waiter THEN "waiterBody" ELSE "body"
             ELSE IF waiter THEN "fetch" ELSE "claim")
  /\ UNCHANGED <<env, key, cache, flights>>

\* The body is streamed: a hit.
ReadBody(r) ==
  /\ pc[r] \in {"body", "waiterBody"}
  /\ key[r] \in entry
  /\ Return(r)
  /\ UNCHANGED <<env, cache, flightMu, closed>>

\* Mutant: a body that fails is looked up again.
ReadBodyFailsRetries(r) ==
  /\ pc[r] \in {"body", "waiterBody"}
  /\ key[r] \notin entry \/ "client" \in env.faults
  /\ Goto(r, IF pc[r] = "body" THEN "meta" ELSE "waiterMeta")
  /\ UNCHANGED <<env, key, cache, flights>>

\* The body is gone, or cannot be copied to the client: an error is a miss.
ReadBodyFails(r) ==
  /\ pc[r] \in {"body", "waiterBody"}
  /\ key[r] \notin entry \/ "client" \in env.faults
  /\ Goto(r, IF pc[r] = "body" THEN "claim" ELSE "fetch")
  /\ UNCHANGED <<env, key, cache, flights>>

-----------------------------------------------------------------------------
(* The flight *)

\* Mutant: the flight that is found is replaced.
ClaimAlways(r) ==
  /\ pc[r] = "claim"
  /\ flightMu' = [flightMu EXCEPT ![key[r]] = r]
  /\ Goto(r, "fetch")
  /\ UNCHANGED <<env, key, cache, closed, waitsFor, resp>>

\* LoadOrStore finds no flight: this request owns one.
Claim(r) ==
  /\ pc[r] = "claim"
  /\ flightMu[key[r]] = NoFlight
  /\ flightMu' = [flightMu EXCEPT ![key[r]] = r]
  /\ Goto(r, "fetch")
  /\ UNCHANGED <<env, key, cache, closed, waitsFor, resp>>

\* It finds one: its channel may be closed already.
Join(r) ==
  LET o == flightMu[key[r]] IN
  /\ pc[r] = "claim"
  /\ o # NoFlight
  /\ waitsFor' = [waitsFor EXCEPT ![r] = o]
  /\ IF o \in closed
     THEN /\ Goto(r, "woken")
          /\ resp' = IF o \in resp THEN resp \cup {r} ELSE resp
     ELSE Goto(r, "wait") /\ UNCHANGED resp
  /\ UNCHANGED <<env, key, cache, flightMu, closed>>

\* serveWaiterFromFlight: headers first, then the entry; without a response on
\* the flight the waiter fetches for itself.
Woken(r) ==
  /\ pc[r] = "woken"
  /\ Goto(r, IF r \in resp THEN "waiterMeta" ELSE "fetch")
  /\ UNCHANGED <<env, key, cache, flights>>

\* An owner's deferred function runs when it returns, also after a panic.
Leave(r) ==
  IF IsOwner(r)
  THEN Goto(r, "close") /\ UNCHANGED <<key, waitsFor, resp>>
  ELSE Return(r)

\* The upstream is fetched and the response is written.  One with status 2xx
\* and a body goes on to the cache.
FetchOK(r) ==
  /\ pc[r] = "fetch"
  /\ \/ Goto(r, "store")
     \/ "veto" \in env.faults /\ Goto(r, "record")
  /\ UNCHANGED <<env, key, cache, flights>>

\* Mutant: only an orderly return releases the waiters.
FetchFailsAbruptly(r) ==
  /\ pc[r] = "fetch"
  /\ Return(r)
  /\ UNCHANGED <<env, cache, flightMu, closed>>

\* Any other response, a redirect, a gateway error or a panic.
FetchFails(r) ==
  /\ pc[r] = "fetch"
  /\ Leave(r)
  /\ UNCHANGED <<env, cache, flightMu, closed>>

-----------------------------------------------------------------------------
(* The cache write *)

\* Mutant: the pool is not bounded.
AcquireAlways(r) ==
  /\ pc[r] = "store"
  /\ pool' = pool + 1
  /\ Goto(r, "write")
  /\ UNCHANGED <<env, key, entry, flights>>

\* A writer that finds the pool full does not wait: nothing is cached.
Acquire(r) ==
  /\ pc[r] = "store"
  /\ IF pool < env.workers
     THEN pool' = pool + 1 /\ Goto(r, "write")
     ELSE UNCHANGED pool /\ Goto(r, "record")
  /\ UNCHANGED <<env, key, entry, flights>>

\* SetResponseToCache, an error of which is logged; the token is returned.
Write(r) ==
  /\ pc[r] = "write"
  /\ \/ entry' = entry \cup {key[r]}
     \/ "write" \in env.faults /\ UNCHANGED entry
  /\ pool' = pool - 1
  /\ Goto(r, "record")
  /\ UNCHANGED <<env, key, flights>>

\* Mutant: the owner records the response before it is cached.
RecordBeforeWrite(r) ==
  /\ pc[r] \in {"store", "record"}
  /\ IF IsOwner(r)
     THEN /\ resp' = resp \cup {r}
          /\ Goto(r, "close")
          /\ UNCHANGED <<key, waitsFor>>
     ELSE Return(r)
  /\ UNCHANGED <<env, cache, flightMu, closed>>

\* The owner records the response whether or not it was cached.
Record(r) ==
  /\ pc[r] = "record"
  /\ IF IsOwner(r)
     THEN /\ resp' = resp \cup {r}
          /\ Goto(r, "close")
          /\ UNCHANGED <<key, waitsFor>>
     ELSE Return(r)
  /\ UNCHANGED <<env, cache, flightMu, closed>>

\* The deferred function closes the channel and then deletes the flight.
Close(r) ==
  LET waiters == {q \in Requests : pc[q] = "wait" /\ waitsFor[q] = r} IN
  /\ pc[r] = "close"
  /\ pc' = [q \in Requests |-> IF q = r THEN "delete"
                               ELSE IF q \in waiters THEN "woken" ELSE pc[q]]
  /\ resp' = IF r \in resp THEN resp \cup waiters ELSE resp
  /\ closed' = closed \cup {r}
  /\ UNCHANGED <<env, key, cache, flightMu, waitsFor>>

Delete(r) ==
  /\ pc[r] = "delete"
  /\ flightMu' = [flightMu EXCEPT ![key[r]] = NoFlight]
  /\ closed' = closed \ {r}
  /\ Return(r)
  /\ UNCHANGED <<env, cache>>

\* An entry is evicted, expired or purged.
Vanish(k) ==
  /\ "vanish" \in env.faults
  /\ k \in entry
  /\ entry' = entry \ {k}
  /\ UNCHANGED <<env, pc, key, pool, flights>>

RequestStep(r) ==
  \/ ReadMeta(r) \/ ReadBody(r) \/ ReadBodyFails(r)
  \/ Claim(r) \/ Join(r) \/ Woken(r) \/ FetchOK(r) \/ FetchFails(r)
  \/ Acquire(r) \/ Write(r) \/ Record(r) \/ Close(r) \/ Delete(r)

Next ==
  \/ \E r \in Requests, k \in Keys : Arrive(r, k)
  \/ \E r \in Requests : RequestStep(r)
  \/ \E k \in Keys : Vanish(k)

Spec == Init /\ [][Next]_vars

\* Goroutines are scheduled, and the upstream answers or its transport gives up.
FairSpec == Spec /\ \A r \in Requests : WF_vars(RequestStep(r))

-----------------------------------------------------------------------------
(* Properties *)

TypeOK ==
  /\ pc \in [Requests -> PCs]
  /\ key \in [Requests -> Keys \cup {NoKey}]
  /\ \A r \in Requests : key[r] = NoKey <=> pc[r] = "idle"
  /\ entry \subseteq Keys
  /\ flightMu \in [Keys -> Requests \cup {NoFlight}]
  /\ waitsFor \in [Requests -> Requests \cup {NoFlight}]
  /\ closed \cup resp \subseteq Requests
  /\ pool = Cardinality({r \in Requests : pc[r] = "write"})
  /\ pool <= env.workers

\* A key has a flight exactly while its owner is between claiming and deleting
\* it, so that nobody deletes or closes the flight of another request and none
\* is left behind by an error or a panic.
FlightHasOwner ==
  /\ \A k \in Keys : flightMu[k] # NoFlight =>
       pc[flightMu[k]] \in OwnerStates /\ key[flightMu[k]] = k
  /\ \A r \in Requests : pc[r] \in {"close", "delete"} => IsOwner(r)

\* "Only the owner performs the upstream fetch": whoever else fetches has waited
\* for a flight that left it without a response it could use.
OthersFetchAfterWaiting ==
  \A r \in Requests :
    pc[r] \in {"fetch", "store", "write", "record"} /\ ~IsOwner(r) =>
      waitsFor[r] # NoFlight

\* The flight is released "after the cache has been written, so waiters can
\* serve straight from cache instead of re-fetching upstream": as long as no
\* cache write is refused, fails or is undone, a waiter whose flight got a
\* response is served without another fetch.
NoRefetch ==
  env.faults = {} /\ env.workers >= Cardinality(Requests) =>
    \A r \in Requests : pc[r] = "fetch" => r \notin resp

\* Every request is answered, also after errors and panics of the flight's
\* owner.
EveryRequestAnswered ==
  \A r \in Requests : pc[r] # "idle" ~> pc[r] = "idle"
=============================================================================
