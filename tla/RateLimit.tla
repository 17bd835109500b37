------------------------------ MODULE RateLimit -----------------------------
(***************************************************************************)
(* The token-bucket registry of the ratelimit plugin and of the firewall's *)
(* rate_limit action (each has a store of its own): buckets are created on *)
(* first use, replaced when their parameters differ from the ones asked    *)
(* for, and idle ones are deleted when the size of the registry is a       *)
(* multiple of a constant.  Time is counted in ticks.                      *)
(***************************************************************************)
EXTENDS Naturals, FiniteSets

CONSTANTS
  Keys,          \* target|IP and rule|IP
  storeOf,       \* the store a key belongs to
  Params,        \* the parameters a key may be used with: sets of [rate, burst]
  DefaultRate, DefaultBurst,
  Ttl,           \* a bucket idle for longer may be deleted
  SweepSize      \* deletion happens at multiples of this number of buckets

IsParams(p) == p.rate \in Nat /\ p.burst \in Nat

\* rps and burst that are not positive stand for the defaults.
Effective(p) ==
  [rate  |-> IF p.rate = 0 THEN DefaultRate ELSE p.rate,
   burst |-> IF p.burst = 0 THEN DefaultBurst ELSE p.burst]

\* The keys that are always used with the same parameters.
Steady == {k \in Keys : \E p \in Params[k] : Params[k] = {p}}

ParamsOf(k) == Effective(CHOOSE p \in Params[k] : TRUE)

ASSUME RateLimitAssumption ==
  /\ DefaultRate \in Nat \ {0} /\ DefaultBurst \in Nat \ {0}
  /\ Ttl \in Nat /\ SweepSize \in Nat \ {0}
  /\ \A k \in Keys : \A p \in Params[k] : IsParams(p)

\* An idle bucket has been refilled when it is deleted.  The code has no such
\* check: a rule with a burst larger than its rate fills in five minutes breaks it.
ASSUME FullBeforeDeletion ==
  \A k \in Steady : ParamsOf(k).burst <= (Ttl + 1) * ParamsOf(k).rate

VARIABLES
  clock,
  limiters,   \* the buckets: a function on the keys that have one
  answer      \* the last answer to a key

limitVars == <<clock, limiters, answer>>

LimitInit ==
  /\ clock = 0
  /\ limiters = [k \in {} |-> 0]
  /\ answer = [k \in Keys |-> "none"]

Fewer(a, b) == IF a <= b THEN a ELSE b

\* rate.Limiter: the tokens of bucket b at time t.
TokensAt(b, t) == Fewer(b.params.burst, b.tokens + (t - b.last) * b.params.rate)

NewLimiter(p) == [params |-> p, tokens |-> p.burst, last |-> clock, seen |-> clock]

\* Allow of rate.Limiter takes a token if there is one.
TakeFrom(b) ==
  IF TokensAt(b, clock) >= 1
  THEN [b EXCEPT !.tokens = TokensAt(b, clock) - 1, !.last = clock, !.seen = clock]
  ELSE [b EXCEPT !.seen = clock]

\* The bucket Allow uses.
Bucket(k, p) ==
  IF k \in DOMAIN limiters /\ limiters[k].params = p
  THEN limiters[k] ELSE NewLimiter(p)

Same(k, D) == {j \in D : storeOf[j] = storeOf[k]}

\* Mutant: a bucket is deleted one tick early.
IdleEarly(b) == clock - b.seen >= Ttl

Idle(b) == clock - b.seen > Ttl

\* The buckets left after a call for key k.
Kept(k, L) ==
  {j \in DOMAIN L :
     ~ (/\ j \in Same(k, DOMAIN L)
        /\ Cardinality(Same(k, DOMAIN L)) % SweepSize = 0
        /\ Idle(L[j]))}

\* Store.Allow, under the mutex of the store.
Allow(k, p) ==
  LET b == Bucket(k, Effective(p))
      L == [j \in DOMAIN limiters \cup {k} |->
              IF j = k THEN TakeFrom(b) ELSE limiters[j]]
  IN /\ answer' = [answer EXCEPT ![k] = IF TokensAt(b, clock) >= 1 THEN "yes" ELSE "no"]
     /\ limiters' = [j \in Kept(k, L) |-> L[j]]
     /\ UNCHANGED clock

Tick ==
  /\ clock' = clock + 1
  /\ UNCHANGED <<limiters, answer>>

LimitNext == Tick \/ \E k \in Keys : \E p \in Params[k] : Allow(k, p)

LimitSpec == LimitInit /\ [][LimitNext]_limitVars

-----------------------------------------------------------------------------
(* Properties *)

Limiter ==
  [params : [rate : Nat \ {0}, burst : Nat \ {0}], tokens : Nat, last : Nat, seen : Nat]

\* A bucket never holds more than its burst, is not ahead of the clock, and was
\* seen when it was last taken from.
LimitTypeOK ==
  /\ clock \in Nat
  /\ DOMAIN limiters \subseteq Keys
  /\ \A k \in DOMAIN limiters :
       /\ limiters[k] \in Limiter
       /\ limiters[k].tokens <= limiters[k].params.burst
       /\ limiters[k].last <= limiters[k].seen
       /\ limiters[k].seen <= clock
       /\ k \in Steady => limiters[k].params = ParamsOf(k)
  /\ limiters = [k \in DOMAIN limiters |-> limiters[k]]
  /\ answer \in [Keys -> {"none", "yes", "no"}]

Level ==
  [k \in Steady |->
     IF k \in DOMAIN limiters THEN TokensAt(limiters[k], clock) ELSE ParamsOf(k).burst]

Buckets ==
  INSTANCE TokenBucket
  WITH Keys <- Steady,
       Rate <- [k \in Steady |-> ParamsOf(k).rate],
       Burst <- [k \in Steady |-> ParamsOf(k).burst],
       level <- Level,
       answer <- [k \in Steady |-> answer[k]]

\* The registry keeps the promise of a token bucket to every key that is used with
\* one set of parameters, in spite of lazy creation, of other keys that replace or
\* share buckets, and of the deletion of idle buckets.
BucketsImplemented == Buckets!Spec
=============================================================================
