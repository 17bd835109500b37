----------------------------- MODULE LazyRouter -----------------------------
(***************************************************************************)
(* Lazy target materialization on an edge: the store-backed resolver, the  *)
(* shared FlightTable with its LRU of compiled handlers, and the consumer  *)
(* that applies target events to the store underneath the requests.        *)
(*                                                                         *)
(* A config is a version number: version n is the config carried by the    *)
(* n-th target event the edge applies, and 0 is "no config" (no row, or a  *)
(* load that failed).  A compiled handler is the version it was compiled   *)
(* from.  ft.mu and the LRU's own mutex make each critical section of      *)
(* materialize one step: the LRU is also read and dropped outside ft.mu,   *)
(* but only Put adds to it, and Put runs under ft.mu.                      *)
(***************************************************************************)
EXTENDS Naturals, Sequences, LRUCache

CONSTANTS
  Requests,         \* the goroutines serving requests
  Hosts,            \* normalized hostnames
  DefaultHostname,  \* router.DefaultHostname, tried after the request's host
  Capacity,         \* cluster.lru_size
  MaxEvents,        \* bound: target events applied in one behaviour
  NoFlight,         \* no channel in ft.calls
  NoHost            \* the consumer has no handler to drop

ASSUME ConstantsAssumption ==
  /\ DefaultHostname \in Hosts
  /\ NoHost \notin Hosts
  /\ NoFlight \notin Requests
  /\ Capacity \in Nat \ {0}
  /\ MaxEvents \in Nat

VARIABLES
  store,     \* Pebble: the version in the row h/<host>, 0 when there is none
  lru,       \* ps.lazyLRU: a list of [key, value] entries
  calls,     \* ft.calls: the request that owns the running load of a host
  pc,        \* where a request is
  host,      \* the candidate hostname a request is resolving or loading
  ctxDone,   \* requests whose client has gone away
  flight,    \* the owner a follower waits for
  loaded,    \* the version an owner read from the store, 0 if its load failed;
             \* for a woken follower, what its flight loaded (history)
  clock,     \* number of events the consumer has begun to apply
  todo,      \* hostnames the current event still has to be applied to
  deleted,   \* whether the current event is a delete
  dropping,  \* host whose row is written and whose handler is to be dropped
  raced,     \* history: hosts whose last drop found a load of an older row
  newest,    \* history: newest version of a host any request was served
  seen       \* history: newest[host] when a request was resolved

locals  == <<host, flight, loaded, seen>>
appVars == <<clock, todo, deleted, dropping>>
vars == <<store, lru, calls, pc, ctxDone, locals, appVars, raced, newest>>

OwnerStates == {"load", "compile", "publish"}
PCs == {"idle", "host", "default", "handler", "claim", "wait", "woken",
        "published"} \cup OwnerStates

Init ==
  /\ store = [h \in Hosts |-> 0]
  /\ lru = <<>>
  /\ calls = [h \in Hosts |-> NoFlight]
  /\ pc = [r \in Requests |-> "idle"]
  /\ host = [r \in Requests |-> DefaultHostname]
  /\ ctxDone = {}
  /\ flight = [r \in Requests |-> NoFlight]
  /\ loaded = [r \in Requests |-> 0]
  /\ clock = 0
  /\ todo = {}
  /\ deleted = FALSE
  /\ dropping = NoHost
  /\ raced = {}
  /\ newest = [h \in Hosts |-> 0]
  /\ seen = [r \in Requests |-> 0]

-----------------------------------------------------------------------------
(* The request path *)

\* The response (a 404, 408 or 502 among them) is written; the goroutine's
\* locals are gone and it takes its next request.
Finish(r) ==
  /\ pc' = [pc EXCEPT ![r] = "idle"]
  /\ host' = [host EXCEPT ![r] = DefaultHostname]
  /\ flight' = [flight EXCEPT ![r] = NoFlight]
  /\ loaded' = [loaded EXCEPT ![r] = 0]
  /\ seen' = [seen EXCEPT ![r] = 0]
  /\ ctxDone' = ctxDone \ {r}

\* tch.ServeHTTP with a handler compiled from version v.
Serve(r, v) ==
  /\ Finish(r)
  /\ newest' = [newest EXCEPT ![host[r]] = IF v > @ THEN v ELSE @]

\* The tail of LazyHandler.ServeHTTP: a client that has gone gets 408 even
\* when the handler is there.
ServeOrCancel(r, v) ==
  IF r \in ctxDone THEN Finish(r) /\ UNCHANGED newest ELSE Serve(r, v)

Arrive(r, h) ==
  /\ pc[r] = "idle"
  /\ pc' = [pc EXCEPT ![r] = "host"]
  /\ host' = [host EXCEPT ![r] = h]
  /\ UNCHANGED <<store, lru, calls, ctxDone, flight, loaded, seen,
                 appVars, raced, newest>>

\* The client disconnects: the request's context is canceled.
Disconnect(r) ==
  /\ pc[r] # "idle"
  /\ r \notin ctxDone
  /\ ctxDone' = ctxDone \cup {r}
  /\ UNCHANGED <<store, lru, calls, pc, locals, appVars, raced,
                 newest>>

\* HasTargetByHost found a row: the resolver builds a LazyHandler for the host.
LookupHit(r) ==
  /\ pc[r] \in {"host", "default"}
  /\ store[host[r]] # 0
  /\ pc' = [pc EXCEPT ![r] = "handler"]
  /\ seen' = [seen EXCEPT ![r] = newest[host[r]]]
  /\ UNCHANGED <<store, lru, calls, host, ctxDone, flight, loaded,
                 appVars, raced, newest>>

\* No row, or a store error (the resolver logs it and reports no target): the
\* router tries the default hostname, and then answers 404.
LookupMiss(r) ==
  /\ \/ /\ pc[r] = "host"
        /\ pc' = [pc EXCEPT ![r] = "default"]
        /\ host' = [host EXCEPT ![r] = DefaultHostname]
        /\ UNCHANGED <<ctxDone, flight, loaded, seen>>
     \/ /\ pc[r] = "default"
        /\ Finish(r)
  /\ UNCHANGED <<store, lru, calls, appVars, raced, newest>>

\* LazyHandler.ServeHTTP reads the cache without the flight lock.
FastPath(r) ==
  /\ pc[r] = "handler"
  /\ lru' = Get(lru, host[r])
  /\ IF InCache(lru, host[r])
     THEN Serve(r, GetValue(lru, host[r]))
     ELSE /\ pc' = [pc EXCEPT ![r] = "claim"]
          /\ UNCHANGED <<locals, ctxDone, newest>>
  /\ UNCHANGED <<store, calls, appVars, raced>>

\* The first critical section of materialize: a resident handler, else a
\* running load to wait for, else this request owns the load.
ClaimHit(r) ==
  /\ pc[r] = "claim"
  /\ InCache(lru, host[r])
  /\ lru' = Get(lru, host[r])
  /\ ServeOrCancel(r, GetValue(lru, host[r]))
  /\ UNCHANGED <<store, calls, appVars, raced>>

ClaimFollow(r) ==
  /\ pc[r] = "claim"
  /\ ~InCache(lru, host[r])
  /\ calls[host[r]] # NoFlight
  /\ flight' = [flight EXCEPT ![r] = calls[host[r]]]
  /\ pc' = [pc EXCEPT ![r] = "wait"]
  /\ UNCHANGED <<store, lru, calls, host, ctxDone, loaded, seen,
                 appVars, raced, newest>>

\* Mutant: the flight is claimed without reading the cache under the lock.
ClaimOwnUnchecked(r) ==
  /\ pc[r] = "claim"
  /\ calls[host[r]] = NoFlight
  /\ calls' = [calls EXCEPT ![host[r]] = r]
  /\ pc' = [pc EXCEPT ![r] = "load"]
  /\ UNCHANGED <<store, lru, locals, ctxDone, appVars, raced, newest>>

ClaimOwn(r) ==
  /\ pc[r] = "claim"
  /\ ~InCache(lru, host[r])
  /\ calls[host[r]] = NoFlight
  /\ calls' = [calls EXCEPT ![host[r]] = r]
  /\ pc' = [pc EXCEPT ![r] = "load"]
  /\ UNCHANGED <<store, lru, locals, ctxDone, appVars, raced, newest>>

\* A follower's select takes ctx.Done, also when the channel is closed too.
GiveUp(r) ==
  /\ pc[r] \in {"wait", "woken"}
  /\ r \in ctxDone
  /\ Finish(r)
  /\ UNCHANGED <<store, lru, calls, appVars, raced, newest>>

\* A follower's select takes the closed channel; it reads the cache again.
Wake(r) ==
  /\ pc[r] = "woken"
  /\ lru' = Get(lru, host[r])
  /\ IF InCache(lru, host[r])
     THEN ServeOrCancel(r, GetValue(lru, host[r]))
     ELSE Finish(r) /\ UNCHANGED newest
  /\ UNCHANGED <<store, calls, appVars, raced>>

\* materializeTarget reads the row; no row or a store error fails the load.
ReadRow(r) ==
  /\ pc[r] = "load"
  /\ \/ /\ store[host[r]] # 0
        /\ loaded' = [loaded EXCEPT ![r] = store[host[r]]]
        /\ pc' = [pc EXCEPT ![r] = "compile"]
     \/ /\ pc' = [pc EXCEPT ![r] = "publish"]
        /\ UNCHANGED loaded
  /\ UNCHANGED <<store, lru, calls, host, ctxDone, flight, seen,
                 appVars, raced, newest>>

\* The config is compiled; an invalid one, or a panic, fails the load.
Compile(r) ==
  /\ pc[r] = "compile"
  /\ pc' = [pc EXCEPT ![r] = "publish"]
  /\ \/ UNCHANGED loaded
     \/ loaded' = [loaded EXCEPT ![r] = 0]
  /\ UNCHANGED <<store, lru, calls, host, ctxDone, flight, seen,
                 appVars, raced, newest>>

\* Mutant: the channel is not closed.
PublishWithoutClose(r) ==
  /\ pc[r] = "publish"
  /\ lru' = IF loaded[r] # 0 THEN Put(lru, Capacity, host[r], loaded[r])
                             ELSE lru
  /\ calls' = [calls EXCEPT ![host[r]] = NoFlight]
  /\ pc' = [pc EXCEPT ![r] = "published"]
  /\ UNCHANGED <<store, locals, ctxDone, appVars, raced, newest>>

\* Mutant: the result of a failed load is cached too.
PublishAlways(r) ==
  /\ pc[r] = "publish"
  /\ lru' = Put(lru, Capacity, host[r], loaded[r])
  /\ calls' = [calls EXCEPT ![host[r]] = NoFlight]
  /\ pc' = [q \in Requests |-> IF q = r THEN "published"
                               ELSE IF pc[q] = "wait" /\ flight[q] = r
                               THEN "woken" ELSE pc[q]]
  /\ UNCHANGED <<store, locals, ctxDone, appVars, raced, newest>>

\* The second critical section: cache the handler, end the flight and close
\* its channel.
Publish(r) ==
  LET h == host[r]
      followers == {f \in Requests : pc[f] = "wait" /\ flight[f] = r}
  IN
  /\ pc[r] = "publish"
  /\ lru' = IF loaded[r] # 0 THEN Put(lru, Capacity, h, loaded[r]) ELSE lru
  /\ calls' = [calls EXCEPT ![h] = NoFlight]
  /\ pc' = [q \in Requests |-> IF q = r THEN "published"
                               ELSE IF q \in followers THEN "woken"
                               ELSE pc[q]]
  /\ loaded' = [q \in Requests |->
                  IF q \in followers THEN loaded[r] ELSE loaded[q]]
  /\ UNCHANGED <<store, host, ctxDone, flight, seen, appVars, raced,
                 newest>>

\* The owner answers from what it loaded itself, not from the cache.
OwnerReturns(r) ==
  /\ pc[r] = "published"
  /\ IF loaded[r] # 0
     THEN ServeOrCancel(r, loaded[r])
     ELSE Finish(r) /\ UNCHANGED newest
  /\ UNCHANGED <<store, lru, calls, appVars, raced>>

-----------------------------------------------------------------------------
(* The consumer: one event at a time, one hostname at a time *)

ConsumerIdle == todo = {} /\ dropping = NoHost

\* applyTargetEvent: an upsert names every hostname its config claims, in an
\* order its server_name fixes; a delete names the event's own hostname only.
ReceiveEvent(names, del) ==
  /\ ConsumerIdle
  /\ clock < MaxEvents
  /\ names # {}
  /\ del => \E h \in Hosts : names = {h}
  /\ clock' = clock + 1
  /\ todo' = names
  /\ deleted' = del
  /\ UNCHANGED <<store, lru, calls, pc, ctxDone, locals, dropping, raced, newest>>

\* Mutant: the events are applied newest first.
WriteRowNewestFirst(h) ==
  /\ dropping = NoHost
  /\ h \in todo
  /\ store' = [store EXCEPT ![h] = IF deleted THEN 0 ELSE MaxEvents + 1 - clock]
  /\ todo' = todo \ {h}
  /\ dropping' = h
  /\ UNCHANGED <<lru, calls, pc, ctxDone, locals, clock, deleted, raced, newest>>

\* PutTargetByHost or DeleteTargetByHost.  A failed delete is only logged.
WriteRow(h) ==
  /\ dropping = NoHost
  /\ h \in todo
  /\ \/ store' = [store EXCEPT ![h] = IF deleted THEN 0 ELSE clock]
     \/ deleted /\ UNCHANGED store
  /\ todo' = todo \ {h}
  /\ dropping' = h
  /\ UNCHANGED <<lru, calls, pc, ctxDone, locals, clock, deleted, raced, newest>>

\* A failed put ends the event; the rest of its hostnames are not applied.
WriteRowFails ==
  /\ dropping = NoHost
  /\ todo # {}
  /\ ~deleted
  /\ todo' = {}
  /\ UNCHANGED <<store, lru, calls, pc, ctxDone, locals, clock, deleted, dropping, raced,
                 newest>>

\* Loads of h that hold a version the row no longer has.
StaleLoads(h) ==
  {r \in Requests : /\ pc[r] \in {"compile", "publish"}
                    /\ host[r] = h
                    /\ loaded[r] \notin {0, store[h]}}

\* Mutant: the compiled handler stays resident.
DropHandlerForgets ==
  /\ dropping # NoHost
  /\ raced' = IF StaleLoads(dropping) = {} THEN raced \ {dropping}
                                           ELSE raced \cup {dropping}
  /\ dropping' = NoHost
  /\ UNCHANGED <<store, lru, calls, pc, ctxDone, locals, clock, todo, deleted,
                 newest>>

\* lazyLRU.Delete: the next request reads the row again.
DropHandler ==
  /\ dropping # NoHost
  /\ lru' = Delete(lru, dropping)
  /\ raced' = IF StaleLoads(dropping) = {} THEN raced \ {dropping}
                                           ELSE raced \cup {dropping}
  /\ dropping' = NoHost
  /\ UNCHANGED <<store, calls, pc, ctxDone, locals, clock, todo, deleted, newest>>

-----------------------------------------------------------------------------
RequestStep(r) ==
  \/ LookupHit(r) \/ LookupMiss(r) \/ FastPath(r)
  \/ ClaimHit(r) \/ ClaimFollow(r) \/ ClaimOwn(r) \/ GiveUp(r) \/ Wake(r)
  \/ ReadRow(r) \/ Compile(r) \/ Publish(r) \/ OwnerReturns(r)

ConsumerStep ==
  \/ \E h \in Hosts : WriteRow(h)
  \/ WriteRowFails
  \/ DropHandler

Next ==
  \/ \E r \in Requests, h \in Hosts : Arrive(r, h)
  \/ \E r \in Requests : Disconnect(r) \/ RequestStep(r)
  \/ \E names \in SUBSET Hosts, del \in BOOLEAN : ReceiveEvent(names, del)
  \/ ConsumerStep

Spec == Init /\ [][Next]_vars

\* Goroutines are scheduled: a request that can move does, and the consumer's
\* loop runs.  Arrivals, disconnects and events are the environment's.
FairSpec ==
  /\ Spec
  /\ \A r \in Requests : WF_vars(RequestStep(r))
  /\ WF_vars(ConsumerStep)

-----------------------------------------------------------------------------
(* Properties *)

Owns(r, h) == pc[r] \in OwnerStates /\ host[r] = h

TypeOK ==
  /\ store \in [Hosts -> 0..MaxEvents]
  /\ lru \in Seq([key : Hosts, value : 1..MaxEvents])
  /\ calls \in [Hosts -> Requests \cup {NoFlight}]
  /\ pc \in [Requests -> PCs]
  /\ host \in [Requests -> Hosts]
  /\ ctxDone \subseteq Requests
  /\ flight \in [Requests -> Requests \cup {NoFlight}]
  /\ loaded \in [Requests -> 0..MaxEvents]
  /\ clock \in 0..MaxEvents
  /\ todo \subseteq Hosts
  /\ deleted \in BOOLEAN
  /\ dropping \in Hosts \cup {NoHost}
  /\ raced \subseteq Hosts
  /\ newest \in [Hosts -> 0..MaxEvents]
  /\ seen \in [Requests -> 0..MaxEvents]

\* materialize runs "load at most once across concurrent callers": a host has
\* a channel in ft.calls exactly while one request loads it, and nothing is
\* loaded while its handler is resident, so Put never replaces a handler.
SingleFlight ==
  \A r \in Requests, h \in Hosts :
    /\ Owns(r, h) <=> calls[h] = r
    /\ Owns(r, h) => ~InCache(lru, h)

\* The LRU holds at most lru_size handlers, and one per host.
LRUBounded ==
  /\ Len(lru) <= Capacity
  /\ Unique(lru)

\* Nobody waits for a flight that has ended: a follower blocked on a channel
\* waits for a request that is still loading the follower's own host.
NoOrphanedFollower ==
  \A f \in Requests : pc[f] = "wait" => Owns(flight[f], host[f])

\* A resident handler is the one of the row in the store, except while the
\* consumer stands between the row and the LRU, or when the event before was
\* applied in the middle of a load (see FreshAfterUpdate).
StaleOnlyIfRaced ==
  \A i \in DOMAIN lru :
    LET h == lru[i].key IN
    \/ lru[i].value = store[h]
    \/ dropping = h
    \/ h \in raced

\* The handler a request would be served if it took its step now: the fast
\* path, the claim and a woken follower read the cache, an owner has its own.
Offered(r) ==
  CASE pc[r] \in {"handler", "claim", "woken"} /\ InCache(lru, host[r])
         -> {GetValue(lru, host[r])}
    [] pc[r] = "published" /\ loaded[r] # 0
         -> {loaded[r]}
    [] OTHER -> {}

\* Once a config of a host has been served, no request that is resolved later
\* is served an older one, whatever is evicted, dropped or loaded again in
\* between and however the loads and the events interleave.
ConfigNeverGoesBack ==
  \A r \in Requests : \A v \in Offered(r) : v >= seen[r]

\* Every request is answered: a follower is woken by every end of its flight,
\* the failed and the panicking load included.
EveryRequestAnswered ==
  \A r \in Requests : pc[r] # "idle" ~> pc[r] = "idle"

\* What applyTargetUpdate's comment promises: the event "refreshes the lazy
\* router so the next request serves the new config".  With no event being
\* applied, a handler that a request can reach is the one of the row.
FreshAfterUpdate ==
  ConsumerIdle =>
    \A i \in DOMAIN lru : store[lru[i].key] \in {0, lru[i].value}
=============================================================================
