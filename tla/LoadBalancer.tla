---------------------------- MODULE LoadBalancer ----------------------------
(***************************************************************************)
(* The load balancer of a target: the requests that choose an upstream with *)
(* one of the four algorithms and mark it by the outcome, and the active   *)
(* health checker that marks the same upstreams.  Marks are not ordered:   *)
(* a request or a probe that began earlier may mark later.                 *)
(*                                                                         *)
(* Times are ranks.  Only the order of the times in use matters, so that   *)
(* after every change the times are numbered afresh from 0, the zero time. *)
(***************************************************************************)
EXTENDS Naturals, FiniteSets, FiniteSetsExt

CONSTANTS
  N,             \* upstreams, numbered from 0 as in the slice
  Weight,        \* per upstream: its weight, which may be 0
  TableSize,     \* maglevTableSize, a prime
  h1, h2,        \* per upstream: the two checksums of its URL
  Requests,      \* requests that can be under way at the same time
  checker,       \* the goroutine of the health checker
  None,
  Environments   \* see IsEnvironment

Upstreams == 0..N-1
Slots == 0..TableSize-1
Procs == Requests \cup {checker}

Algorithms == {"rr", "wrr", "maglev", "lc"}

\* One environment is chosen for a behavior: the algorithm, whether health
\* checks are configured, how often an upstream goes down or comes back,
\* how many requests run at once, the upstream that the location pins (or
\* None), and whether responses can exceed max_body_size.
IsEnvironment(e) ==
  /\ e.algorithm \in Algorithms
  /\ e.active \in BOOLEAN
  /\ e.maxFlips \in Nat
  /\ e.requests \subseteq Requests
  /\ e.pinned \in Upstreams \cup {None}
  /\ e.tooLarge \in BOOLEAN

ASSUME LoadBalancerAssumption ==
  /\ N \in Nat \ {0}
  /\ Weight \in [Upstreams -> Nat]
  /\ TableSize \in Nat \ {0, 1}
  /\ h1 \in [Upstreams -> Nat] /\ h2 \in [Upstreams -> Nat]
  /\ \A u \in Upstreams : h2[u] % TableSize # 0
  /\ checker \notin Requests /\ None \notin Upstreams
  /\ \A e \in Environments : IsEnvironment(e)

VARIABLES
  healthy, lastCheck,   \* the fields of each upstream
  cursor,               \* rr: idx modulo N; wrr: current
  weights,              \* wrr: what is left of each upstream's weight
  table, dirty,         \* maglev: the lookup table, and whether it is out of date
  mu,                   \* who holds the algorithm's lock, or None
  up,                   \* whether the upstream answers
  flips,
  pc, at, tries,        \* per goroutine: where it is, the upstream it is at,
                        \* and the upstreams it has looked at
  now, result,          \* per goroutine: the arguments of its mark
  steady,               \* history: the upstreams healthy since Next was called
  env

upstreamState == <<healthy, lastCheck>>
lbState == <<cursor, weights, table, dirty>>
world == <<up, flips, env>>
locals == <<at, tries, now, result>>
vars == <<upstreamState, lbState, mu, world, pc, locals, steady>>

\* A weight of 0 or less is taken as 1.
EffectiveWeight(u) == IF Weight[u] <= 0 THEN 1 ELSE Weight[u]

-----------------------------------------------------------------------------
(* Maglev's table *)

perm(u, j) == (h1[u] + j * h2[u]) % TableSize

\* The turn of upstream u: it takes its next slot whose entry is 0.  Upstream
\* 0 cannot be told from an empty slot, so that others take its slots.
TakeSlot(s, u) ==
  LET free == {j \in s.next[u]..TableSize-1 : s.table[perm(u, j)] = 0}
  IN  [table  |-> [s.table EXCEPT ![perm(u, Min(free))] = u],
       next   |-> [s.next EXCEPT ![u] = Min(free) + 1],
       filled |-> s.filled + 1]

\* buildTableLocked, as a function of the healthy upstreams: turns go round until
\* as many slots were taken as there are.
buildTable ==
  [H \in SUBSET Upstreams |->
     LET start == [table  |-> [s \in Slots |-> 0],
                   next   |-> [u \in Upstreams |-> 0],
                   filled |-> 0]
         turn[k \in 0..TableSize * N] ==
           IF k = 0 THEN start
           ELSE LET s == turn[k-1]
                    u == (k - 1) % N
                IN  IF s.filled < TableSize /\ u \in H THEN TakeSlot(s, u) ELSE s
     IN  turn[TableSize * N].table]

-----------------------------------------------------------------------------
(* Health and times *)

Healthy == {u \in Upstreams : healthy[u]}

\* Mutant: the times are not compared.
probeFirst == Min(Upstreams)

\* The upstream whose check is the oldest, the first one of those.
probeCandidate ==
  Min({u \in Upstreams : \A v \in Upstreams : lastCheck[u] <= lastCheck[v]})

\* The times in use, numbered afresh.
Rank(times, t) == Cardinality({s \in times \cup {0} : s < t})

SetTimes(last, nows) ==
  LET times == {last[u] : u \in Upstreams} \cup {nows[p] : p \in Procs}
  IN  /\ lastCheck' = [u \in Upstreams |-> Rank(times, last[u])]
      /\ now' = [p \in Procs |-> Rank(times, nows[p])]

\* time.Now(): later than every time that is in use.
Clock == 1 + Max({lastCheck[u] : u \in Upstreams} \cup {now[p] : p \in Procs})

Init ==
  /\ env \in Environments
  /\ healthy = [u \in Upstreams |-> TRUE]
  /\ lastCheck = [u \in Upstreams |-> 0]
  /\ cursor = 0
  /\ weights = [u \in Upstreams |-> IF env.algorithm = "wrr" THEN EffectiveWeight(u)
                                                             ELSE 0]
  /\ table = [s \in Slots |-> IF env.algorithm = "maglev" THEN buildTable[Upstreams][s]
                                                          ELSE 0]
  /\ dirty = FALSE
  /\ mu = None
  /\ up \in [Upstreams -> BOOLEAN]
  /\ flips = 0
  /\ pc = [p \in Procs |-> "idle"]
  /\ at = [p \in Procs |-> 0]
  /\ tries = [p \in Procs |-> 0]
  /\ now = [p \in Procs |-> 0]
  /\ result = [p \in Procs |-> FALSE]
  /\ steady = [r \in Requests |-> {}]

Goto(p, label) == pc' = [pc EXCEPT ![p] = label]

\* Next returns u.
Return(r, u) ==
  /\ at' = [at EXCEPT ![r] = u]
  /\ tries' = [tries EXCEPT ![r] = 0]
  /\ Goto(r, "forward")
  /\ steady' = [steady EXCEPT ![r] = {}]

-----------------------------------------------------------------------------
(* capturingTransport.RoundTrip, grpcTransport.RoundTrip *)

Locking == env.algorithm \in {"wrr", "lc"}

\* A request goes to the upstream its location pins, or to one that Next chooses.
RoundTrip(r) ==
  /\ pc[r] = "idle" /\ r \in env.requests
  /\ IF env.pinned # None
     THEN Return(r, env.pinned)
     ELSE /\ Goto(r, IF env.algorithm = "maglev" THEN "dirty?" ELSE "scan")
          /\ steady' = [steady EXCEPT ![r] = Healthy]
          /\ UNCHANGED <<at, tries>>
  /\ UNCHANGED <<upstreamState, lbState, mu, world, now, result>>

\* The next upstream of the loop in Next.  Nothing on the request path counts
\* active requests, so that leastConnections takes the first healthy one.
Look(r) ==
  LET step == CASE env.algorithm = "rr"  -> [u |-> cursor, c |-> (cursor + 1) % N]
                [] env.algorithm = "wrr" -> [u |-> (cursor + 1) % N, c |-> (cursor + 1) % N]
                [] OTHER                 -> [u |-> tries[r], c |-> cursor]
  IN  /\ pc[r] = "scan" /\ tries[r] < N
      /\ mu \in {None, r} /\ mu' = IF Locking THEN r ELSE None
      /\ at' = [at EXCEPT ![r] = step.u]
      /\ cursor' = step.c
      /\ tries' = [tries EXCEPT ![r] = @ + 1]
      /\ Goto(r, "load")
      /\ UNCHANGED <<upstreamState, weights, table, dirty, world, now, result, steady>>

\* Mutant: the weight is not looked at.
EligibleAnyWeight(u) == healthy[u]

\* Whether the upstream the loop is at is chosen.
Eligible(u) == healthy[u] /\ (env.algorithm = "wrr" => weights[u] > 0)

Load(r) ==
  LET u == at[r]
      last == env.algorithm = "wrr" /\ weights[u] = 1
  IN  /\ pc[r] = "load"
      /\ IF Eligible(u)
         THEN /\ weights' = IF env.algorithm = "wrr" THEN [weights EXCEPT ![u] = @ - 1]
                                                     ELSE weights
              /\ IF last THEN Goto(r, "refill") /\ UNCHANGED <<mu, at, tries, steady>>
                         ELSE Return(r, u) /\ mu' = None
         ELSE /\ Goto(r, "scan")
              /\ UNCHANGED <<mu, weights, at, tries, steady>>
      /\ UNCHANGED <<upstreamState, cursor, table, dirty, world, now, result>>

\* wrr: the counter reached 0, every healthy upstream gets its weight back.
\* MarkHealthy does not take the lock, so the marks may have changed.
Refill(r) ==
  /\ pc[r] = "refill"
  /\ weights' = [u \in Upstreams |-> IF healthy[u] THEN EffectiveWeight(u) ELSE weights[u]]
  /\ Return(r, at[r])
  /\ mu' = None
  /\ UNCHANGED <<upstreamState, cursor, table, dirty, world, now, result>>

\* No upstream was eligible.
Fallback(r) ==
  /\ pc[r] = "scan" /\ tries[r] = N
  /\ Return(r, probeCandidate)
  /\ mu' = None
  /\ UNCHANGED <<upstreamState, lbState, world, now, result>>

\* Maglev: the table is rebuilt before it is used, once, under the lock.
IsDirty(r) ==
  /\ pc[r] = "dirty?"
  /\ Goto(r, IF dirty THEN "rebuild" ELSE "select")
  /\ UNCHANGED <<upstreamState, lbState, mu, world, locals, steady>>

\* Mutant: the lock is given up before dirty is cleared.
RebuildUnlocked(r) ==
  /\ pc[r] = "rebuild" /\ mu = None
  /\ table' = IF dirty /\ Healthy # {} THEN buildTable[Healthy] ELSE table
  /\ Goto(r, IF dirty THEN "clear" ELSE "select")
  /\ UNCHANGED <<upstreamState, cursor, weights, dirty, mu, world, locals, steady>>

Rebuild(r) ==
  /\ pc[r] = "rebuild" /\ mu = None
  /\ IF dirty
     THEN /\ table' = IF Healthy # {} THEN buildTable[Healthy] ELSE table
          /\ mu' = r
          /\ Goto(r, "clear")
     ELSE Goto(r, "select") /\ UNCHANGED <<table, mu>>
  /\ UNCHANGED <<upstreamState, cursor, weights, dirty, world, locals, steady>>

Clear(r) ==
  /\ pc[r] = "clear"
  /\ dirty' = FALSE
  /\ mu' = None
  /\ Goto(r, "select")
  /\ UNCHANGED <<upstreamState, cursor, weights, table, world, locals, steady>>

\* Mutant: the other upstreams are not looked at.
ChosenOrCandidate(s) == IF healthy[table[s]] THEN table[s] ELSE probeCandidate

\* The upstream of slot s, else the first healthy one, else the fallback; the
\* read lock keeps marks out.
Chosen(s) ==
  CASE healthy[table[s]] -> table[s]
    [] ~healthy[table[s]] /\ Healthy # {} -> Min(Healthy)
    [] OTHER -> probeCandidate

Select(r) ==
  /\ pc[r] = "select" /\ mu = None
  /\ \E s \in Slots : Return(r, Chosen(s))
  /\ UNCHANGED <<upstreamState, lbState, mu, world, now, result>>

-----------------------------------------------------------------------------
(* The answer, and the mark it leads to *)

\* The probe of an upstream: up also says that its health path has the expected
\* status.
probe(u) == {up[u]}

\* A request's response marks the upstream healthy whatever its status, unless it
\* is too large.
Outcomes(r) == {up[at[r]]} \cup (IF env.tooLarge THEN {FALSE} ELSE {})

\* The request or probe ends.
Answer(p) ==
  /\ pc[p] = "forward"
  /\ \E ok \in IF p = checker THEN probe(at[p]) ELSE Outcomes(p) :
       result' = [result EXCEPT ![p] = ok]
  /\ Goto(p, "mark")
  /\ UNCHANGED <<upstreamState, lbState, mu, world, at, tries, now, steady>>

\* Where a goroutine goes after its mark: a request is done, the checker looks
\* at the next upstream.
After(p) == IF p = checker THEN "probing" ELSE "idle"

Forget(p) ==
  /\ at' = [at EXCEPT ![p] = 0]
  /\ result' = [result EXCEPT ![p] = FALSE]

\* The upstreams that are still healthy, for the history.
StillHealthy(u, ok) ==
  steady' = [r \in Requests |-> IF ok THEN steady[r] ELSE steady[r] \ {u}]

\* MarkHealthy of rr, wrr and lc: the time is taken, then two atomic stores.
MarkHealthy(p) ==
  /\ pc[p] = "mark" /\ env.algorithm # "maglev"
  /\ SetTimes(lastCheck, [now EXCEPT ![p] = Clock])
  /\ Goto(p, "store")
  /\ UNCHANGED <<healthy, lbState, mu, world, at, tries, result, steady>>

StoreHealthy(p) ==
  /\ pc[p] = "store"
  /\ healthy' = [healthy EXCEPT ![at[p]] = result[p]]
  /\ StillHealthy(at[p], result[p])
  /\ Goto(p, "stamp")
  /\ UNCHANGED <<lastCheck, lbState, mu, world, locals>>

StoreLastCheck(p) ==
  /\ pc[p] = "stamp"
  /\ SetTimes([lastCheck EXCEPT ![at[p]] = now[p]], [now EXCEPT ![p] = 0])
  /\ Forget(p)
  /\ Goto(p, After(p))
  /\ UNCHANGED <<healthy, lbState, mu, world, tries, steady>>

\* setHealth of maglev: a mark that changes nothing does not count as a check.
setHealth(p) ==
  /\ pc[p] = "mark" /\ env.algorithm = "maglev" /\ mu = None
  /\ IF healthy[at[p]] = result[p]
     THEN /\ Forget(p)
          /\ Goto(p, After(p))
          /\ UNCHANGED <<healthy, lastCheck, now, steady>>
     ELSE /\ healthy' = [healthy EXCEPT ![at[p]] = result[p]]
          /\ StillHealthy(at[p], result[p])
          /\ SetTimes([lastCheck EXCEPT ![at[p]] = Clock], now)
          /\ Goto(p, "set dirty")
          /\ UNCHANGED <<at, result>>
  /\ UNCHANGED <<lbState, mu, world, tries>>

\* The table is out of date from here on.
SetDirty(p) ==
  /\ pc[p] = "set dirty"
  /\ dirty' = TRUE
  /\ Forget(p)
  /\ Goto(p, After(p))
  /\ UNCHANGED <<upstreamState, cursor, weights, table, mu, world, tries, now, steady>>

-----------------------------------------------------------------------------
(* HealthChecker.run and probeUnhealthy *)

Tick ==
  /\ env.active
  /\ pc[checker] = "idle"
  /\ Goto(checker, "probing")
  /\ UNCHANGED <<upstreamState, lbState, mu, world, locals, steady>>

\* Mutant: the last upstream is left out.
probeUnhealthyButLast ==
  LET u == tries[checker] IN
  /\ pc[checker] = "probing"
  /\ IF u = N - 1
     THEN /\ tries' = [tries EXCEPT ![checker] = 0]
          /\ Goto(checker, "idle")
          /\ UNCHANGED at
     ELSE /\ tries' = [tries EXCEPT ![checker] = @ + 1]
          /\ IF healthy[u] THEN UNCHANGED <<pc, at>>
             ELSE at' = [at EXCEPT ![checker] = u] /\ Goto(checker, "forward")
  /\ UNCHANGED <<upstreamState, lbState, mu, world, now, result, steady>>

\* The next upstream is skipped when it is healthy, and probed otherwise.
probeUnhealthy ==
  LET u == tries[checker] IN
  /\ pc[checker] = "probing"
  /\ IF u = N
     THEN /\ tries' = [tries EXCEPT ![checker] = 0]
          /\ Goto(checker, "idle")
          /\ UNCHANGED at
     ELSE /\ tries' = [tries EXCEPT ![checker] = @ + 1]
          /\ IF healthy[u] THEN UNCHANGED <<pc, at>>
             ELSE at' = [at EXCEPT ![checker] = u] /\ Goto(checker, "forward")
  /\ UNCHANGED <<upstreamState, lbState, mu, world, now, result, steady>>

-----------------------------------------------------------------------------
\* An upstream goes down or comes back.
Flip(u) ==
  /\ flips < env.maxFlips
  /\ flips' = flips + 1
  /\ up' = [up EXCEPT ![u] = ~@]
  /\ UNCHANGED <<upstreamState, lbState, mu, env, pc, locals, steady>>

Choose(r) ==
  \/ Look(r) \/ Load(r) \/ Refill(r) \/ Fallback(r)
  \/ IsDirty(r) \/ Rebuild(r) \/ Clear(r) \/ Select(r)

Mark(p) ==
  \/ Answer(p) \/ MarkHealthy(p) \/ StoreHealthy(p) \/ StoreLastCheck(p)
  \/ setHealth(p) \/ SetDirty(p)

Request(r) == RoundTrip(r) \/ Choose(r) \/ Mark(r)

Checker == Tick \/ probeUnhealthy \/ Mark(checker)

Next ==
  \/ \E r \in Requests : Request(r)
  \/ Checker
  \/ \E u \in Upstreams : Flip(u)

Spec == Init /\ [][Next]_vars

\* Requests keep coming, their goroutines and the checker's are scheduled.
FairSpec ==
  /\ Spec
  /\ \A r \in Requests : WF_vars(Request(r))
  /\ WF_vars(Checker)

-----------------------------------------------------------------------------
(* Properties *)

Ranks == 0..N + Cardinality(Procs)

TypeOK ==
  /\ healthy \in [Upstreams -> BOOLEAN] /\ up \in [Upstreams -> BOOLEAN]
  /\ lastCheck \in [Upstreams -> Ranks]
  /\ cursor \in Upstreams
  /\ \A u \in Upstreams : weights[u] \in 0..EffectiveWeight(u)
  /\ table \in [Slots -> Upstreams] /\ dirty \in BOOLEAN
  /\ mu \in Requests \cup {None}
  /\ at \in [Procs -> Upstreams] /\ tries \in [Procs -> 0..N]
  /\ now \in [Procs -> Ranks] /\ result \in [Procs -> BOOLEAN]
  /\ steady \in [Requests -> SUBSET Upstreams]

\* Nothing disturbs the choice of one upstream after the other: maglev and lc
\* look at all of them whatever others do, rr shares its counter with other
\* requests, and wrr loses a counter to a mark that comes before the refill.
Undisturbed ==
  \/ env.algorithm \in {"maglev", "lc"}
  \/ Cardinality(env.requests) = 1 /\ (env.algorithm = "wrr" => ~env.active)

\* Next returns an upstream that is marked unhealthy only if there was none
\* that stayed healthy from the call to the return.
FallbackJustified ==
  [][\A r \in Requests :
       /\ Undisturbed
       /\ pc[r] \in {"scan", "select"} /\ pc'[r] = "forward"
       /\ ~healthy[at'[r]]
       => steady[r] = {}]_vars

\* Maglev's table is the one of the upstreams that are healthy now, when it is
\* not marked dirty and no goroutine is about to mark it; a table of the time
\* before stays only as long as no upstream is healthy.
TableCurrent ==
  env.algorithm = "maglev" /\ ~dirty /\ Healthy # {}
    /\ (\A p \in Procs : pc[p] # "set dirty")
  => table = buildTable[Healthy]

Reachable == {u \in Upstreams : up[u]}

\* "A dead upstream keeps being retried by subsequent requests, so it can return
\* to rotation the moment it recovers": if some upstream answers for good, one
\* that answers is healthy again and again.
RecoversByRequests ==
  <>[](Reachable # {}) => []<>(Reachable \cap Healthy # {})

\* The same for the algorithms that note every check, and for maglev when
\* health checks are configured.
FallbackRecovers ==
  <>[](/\ Reachable # {} /\ ~env.tooLarge
       /\ env.algorithm # "maglev" \/ env.active)
  => []<>(Reachable \cap Healthy # {})

\* Health checks bring back every upstream that answers, not only one, whatever
\* marks of earlier requests and probes are still to come.
ChecksRecoverAll ==
  \A u \in Upstreams :
    <>[](up[u] /\ env.active /\ ~env.tooLarge) => <>[]healthy[u]
=============================================================================
