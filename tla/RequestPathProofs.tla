-------------------------- MODULE RequestPathProofs -------------------------
(***************************************************************************)
(* For any keys, parameters, deletion size and idle time, the registry of  *)
(* token buckets implements TokenBucket; and with any number of workers,   *)
(* in any environment, the requests use it so that the buckets they share  *)
(* still do.                                                               *)
(*                                                                         *)
(* ConnInv, what a worker knows of its request, is inductive by itself;    *)
(* RequestDecisionProofs and ResponseProofs build on it.                   *)
(***************************************************************************)
EXTENDS RequestPath, FiniteSetTheorems, TLAPS

-----------------------------------------------------------------------------
(* The registry of token buckets *)

\* Arithmetic the provers need: one more tick adds one rate.
LEMMA OneMore ==
  ASSUME NEW a \in Nat, NEW r \in Nat
  PROVE  a * r \in Nat /\ (a + 1) * r = a * r + r
OBVIOUS

\* More ticks add no less.
LEMMA Longer ==
  ASSUME NEW a \in Nat, NEW b \in Nat, NEW r \in Nat, a <= b
  PROVE  a * r <= b * r
<1>1. b - a \in Nat
  OBVIOUS
<1>2. (b - a) * r \in Nat
  BY <1>1, OneMore, Zenon
<1>3. b * r = a * r + (b - a) * r
  BY <1>1
<1> QED
  BY <1>2, <1>3, OneMore

\* Parameters in effect are positive.
LEMMA EffectiveType ==
  ASSUME NEW k \in Keys, NEW p \in Params[k]
  PROVE  Effective(p) \in [rate : Nat \ {0}, burst : Nat \ {0}]
BY RateLimitAssumption, Zenon DEF Effective, IsParams

\* A steady key is used with one set of parameters.
LEMMA SteadyParams ==
  ASSUME NEW k \in Steady
  PROVE  /\ k \in Keys
         /\ \A p \in Params[k] : Effective(p) = ParamsOf(k)
         /\ ParamsOf(k) \in [rate : Nat \ {0}, burst : Nat \ {0}]
<1>1. PICK p \in Params[k] : Params[k] = {p}
  BY Zenon DEF Steady
<1>2. k \in Keys
  BY Zenon DEF Steady
<1>3. (CHOOSE q \in Params[k] : TRUE) = p
  BY <1>1, Zenon
<1> QED
  BY <1>1, <1>2, <1>3, EffectiveType, Zenon DEF ParamsOf

\* What a bucket holds is a number of at most its burst.
LEMMA TokensType ==
  ASSUME NEW b \in Limiter, NEW t \in Nat, b.last <= t
  PROVE  /\ TokensAt(b, t) \in Nat
         /\ TokensAt(b, t) <= b.params.burst
<1>1. t - b.last \in Nat
  BY DEF Limiter
<1>2. b.params.rate \in Nat /\ b.params.burst \in Nat /\ b.tokens \in Nat
  BY Zenon DEF Limiter
<1>3. (t - b.last) * b.params.rate \in Nat
  BY <1>1, <1>2, OneMore, Zenon
<1> QED
  BY <1>2, <1>3 DEF TokensAt, Fewer

\* A bucket regains its rate with a tick, up to its burst.
LEMMA TokensTick ==
  ASSUME NEW b \in Limiter, NEW t \in Nat, b.last <= t
  PROVE  TokensAt(b, t + 1) = Fewer(b.params.burst, TokensAt(b, t) + b.params.rate)
<1> DEFINE e == t - b.last
<1>1. e \in Nat
  BY DEF Limiter
<1>2. b.params.rate \in Nat /\ b.params.burst \in Nat /\ b.tokens \in Nat /\ b.last \in Nat
  BY Zenon DEF Limiter
<1>3. e * b.params.rate \in Nat /\ (e + 1) * b.params.rate = e * b.params.rate + b.params.rate
  BY <1>1, <1>2, OneMore, Zenon
<1>4. (t + 1) - b.last = e + 1
  BY <1>2
<1> HIDE DEF e
<1>5. TokensAt(b, t + 1) = Fewer(b.params.burst, b.tokens + e * b.params.rate + b.params.rate)
  BY <1>1, <1>2, <1>3, <1>4 DEF TokensAt
<1>6. TokensAt(b, t) = Fewer(b.params.burst, b.tokens + e * b.params.rate)
  BY Zenon DEF TokensAt, e
<1> QED
  BY <1>2, <1>3, <1>5, <1>6 DEF Fewer

\* The bucket a call uses, in a state of the invariant.
LEMMA BucketType ==
  ASSUME LimitTypeOK, NEW k \in Keys, NEW p \in Params[k]
  PROVE  LET b == Bucket(k, Effective(p)) IN
         /\ b \in Limiter
         /\ b.params = Effective(p)
         /\ b.tokens <= b.params.burst
         /\ b.last <= clock
<1>1. Effective(p) \in [rate : Nat \ {0}, burst : Nat \ {0}]
  BY EffectiveType, Zenon
<1>2. CASE k \in DOMAIN limiters /\ limiters[k].params = Effective(p)
  <2>1. limiters[k].last <= limiters[k].seen /\ limiters[k].seen <= clock
    BY <1>2, Zenon DEF LimitTypeOK
  <2>2. limiters[k].last \in Nat /\ limiters[k].seen \in Nat /\ clock \in Nat
    BY <1>2, Zenon DEF LimitTypeOK, Limiter
  <2> QED
    BY <1>2, <2>1, <2>2 DEF LimitTypeOK, Bucket
<1>3. CASE ~ (k \in DOMAIN limiters /\ limiters[k].params = Effective(p))
  BY <1>1, <1>3 DEF LimitTypeOK, Bucket, NewLimiter, Limiter
<1> QED
  BY <1>2, <1>3, Zenon

\* What is left of a bucket after a call.
LEMMA TakenType ==
  ASSUME NEW b \in Limiter, clock \in Nat, b.tokens <= b.params.burst, b.last <= clock
  PROVE  /\ TakeFrom(b) \in Limiter
         /\ TakeFrom(b).params = b.params
         /\ TakeFrom(b).tokens <= b.params.burst
         /\ TakeFrom(b).last <= TakeFrom(b).seen
         /\ TakeFrom(b).seen = clock
<1>1. TokensAt(b, clock) \in Nat /\ TokensAt(b, clock) <= b.params.burst
  BY TokensType, Zenon
<1>2. CASE TokensAt(b, clock) >= 1
  <2>1. TakeFrom(b) = [b EXCEPT !.tokens = TokensAt(b, clock) - 1,
                                !.last = clock, !.seen = clock]
    BY <1>2, Zenon DEF TakeFrom
  <2>2. TokensAt(b, clock) - 1 \in Nat /\ TokensAt(b, clock) - 1 <= b.params.burst
    BY <1>1, <1>2 DEF Limiter
  <2>3. b = [params |-> b.params, tokens |-> b.tokens, last |-> b.last, seen |-> b.seen]
    BY Zenon DEF Limiter
  <2>4. TakeFrom(b) = [params |-> b.params, tokens |-> TokensAt(b, clock) - 1,
                       last |-> clock, seen |-> clock]
    BY <2>1, <2>3, Zenon
  <2>5. b.params \in [rate : Nat \ {0}, burst : Nat \ {0}]
    BY Zenon DEF Limiter
  <2> QED
    BY <2>2, <2>4, <2>5 DEF Limiter
<1>3. CASE ~ (TokensAt(b, clock) >= 1)
  <2>1. TakeFrom(b) = [b EXCEPT !.seen = clock]
    BY <1>3, Zenon DEF TakeFrom
  <2> QED
    BY <2>1, Zenon DEF Limiter
<1> QED
  BY <1>2, <1>3, Zenon

\* A call takes one token, or none if there is none.
LEMMA TakenTokens ==
  ASSUME NEW b \in Limiter, clock \in Nat, b.tokens <= b.params.burst, b.last <= clock
  PROVE  TokensAt(TakeFrom(b), clock) =
           IF TokensAt(b, clock) >= 1 THEN TokensAt(b, clock) - 1 ELSE TokensAt(b, clock)
<1>1. TokensAt(b, clock) \in Nat /\ TokensAt(b, clock) <= b.params.burst
  BY TokensType, Zenon
<1>2. CASE TokensAt(b, clock) >= 1
  <2>1. TakeFrom(b) = [b EXCEPT !.tokens = TokensAt(b, clock) - 1,
                                !.last = clock, !.seen = clock]
    BY <1>2, Zenon DEF TakeFrom
  <2>2. /\ TakeFrom(b).tokens = TokensAt(b, clock) - 1
        /\ TakeFrom(b).last = clock
        /\ TakeFrom(b).params = b.params
    BY <2>1, Zenon DEF Limiter
  <2>3. (clock - clock) * b.params.rate = 0 /\ b.params.burst \in Nat
    BY DEF Limiter
  <2>4. TokensAt(TakeFrom(b), clock) = Fewer(b.params.burst, TokensAt(b, clock) - 1)
    BY <1>1, <2>2, <2>3 DEF TokensAt
  <2> QED
    BY <1>1, <1>2, <2>3, <2>4 DEF Fewer
<1>3. CASE ~ (TokensAt(b, clock) >= 1)
  <2>1. TakeFrom(b) = [b EXCEPT !.seen = clock]
    BY <1>3, Zenon DEF TakeFrom
  <2> QED
    BY <1>3, <2>1, Zenon DEF TokensAt, Limiter
<1> QED
  BY <1>2, <1>3, Zenon

\* The registry after a call, key by key: the key's own bucket is kept, and the
\* others are as they were or deleted because they were idle.
LEMMA AllowEffect ==
  ASSUME LimitTypeOK, NEW k \in Keys, NEW p \in Params[k], Allow(k, p)
  PROVE  LET b == Bucket(k, Effective(p)) IN
         /\ k \in DOMAIN limiters' /\ limiters'[k] = TakeFrom(b)
         /\ DOMAIN limiters' \subseteq DOMAIN limiters \cup {k}
         /\ \A j \in DOMAIN limiters' \ {k} : limiters'[j] = limiters[j]
         /\ \A j \in DOMAIN limiters \ DOMAIN limiters' : Idle(limiters[j])
         /\ limiters' = [j \in DOMAIN limiters' |-> limiters'[j]]
<1> DEFINE b == Bucket(k, Effective(p))
           L == [j \in DOMAIN limiters \cup {k} |->
                   IF j = k THEN TakeFrom(b) ELSE limiters[j]]
<1>1. limiters' = [j \in Kept(k, L) |-> L[j]]
  BY Zenon DEF Allow
<1>2. b \in Limiter /\ b.tokens <= b.params.burst /\ b.last <= clock
  BY BucketType, Zenon
<1>3. TakeFrom(b).seen = clock /\ clock \in Nat
  BY <1>2, TakenType, Zenon DEF LimitTypeOK
<1>4. ~ Idle(TakeFrom(b))
  BY <1>3, RateLimitAssumption DEF Idle
<1> HIDE DEF b
<1>5. L[k] = TakeFrom(b) /\ DOMAIN L = DOMAIN limiters \cup {k}
  BY Zenon
<1>6. k \in Kept(k, L)
  BY <1>4, <1>5, Zenon DEF Kept
<1>7. Kept(k, L) \subseteq DOMAIN L
  BY Zenon DEF Kept
<1>8. \A j \in DOMAIN L \ Kept(k, L) : Idle(L[j])
  BY Zenon DEF Kept
<1>9. \A j \in DOMAIN L \ {k} : L[j] = limiters[j]
  BY Zenon
<1> HIDE DEF L
<1> QED
  BY <1>1, <1>5, <1>6, <1>7, <1>8, <1>9, Zenon DEF b

\* A bucket that is idle long enough to be deleted is full.
LEMMA IdleIsFull ==
  ASSUME LimitTypeOK, NEW k \in Steady, k \in DOMAIN limiters, Idle(limiters[k])
  PROVE  TokensAt(limiters[k], clock) = ParamsOf(k).burst
<1> DEFINE b == limiters[k]
           e == clock - b.last
<1>1. b \in Limiter /\ b.last <= b.seen /\ b.seen <= clock /\ b.params = ParamsOf(k)
  BY Zenon DEF LimitTypeOK
<1>2. clock \in Nat /\ Ttl \in Nat /\ clock - b.seen > Ttl
  BY RateLimitAssumption, Zenon DEF LimitTypeOK, Idle
<1>3. /\ b.last \in Nat /\ b.seen \in Nat /\ b.tokens \in Nat
      /\ b.params.rate \in Nat /\ b.params.burst \in Nat
  BY <1>1, Zenon DEF Limiter
<1>4. e \in Nat /\ Ttl + 1 \in Nat /\ Ttl + 1 <= e
  BY <1>1, <1>2, <1>3
<1>5. (Ttl + 1) * b.params.rate <= e * b.params.rate
  BY <1>3, <1>4, Longer, Zenon
<1>6. b.params.burst <= (Ttl + 1) * b.params.rate
  BY <1>1, FullBeforeDeletion, Zenon
<1>7. e * b.params.rate \in Nat /\ (Ttl + 1) * b.params.rate \in Nat
  BY <1>3, <1>4, OneMore, Zenon
<1>8. TokensAt(b, clock) = Fewer(b.params.burst, b.tokens + e * b.params.rate)
  BY Zenon DEF TokensAt
<1>9. TokensAt(b, clock) = b.params.burst
  <2> HIDE DEF e, b
  <2> QED
    BY <1>3, <1>5, <1>6, <1>7, <1>8 DEF Fewer
<1> QED
  BY <1>1, <1>9, Zenon

\* The registry's invariant is inductive.
THEOREM LimitTypes == LimitSpec => []LimitTypeOK
<1>1. LimitInit => LimitTypeOK
  BY DEF LimitInit, LimitTypeOK
<1>2. LimitTypeOK /\ [LimitNext]_limitVars => LimitTypeOK'
  <2> SUFFICES ASSUME LimitTypeOK, [LimitNext]_limitVars PROVE LimitTypeOK'
    BY Zenon
  <2>1. CASE Tick
    <3>1. clock' = clock + 1 /\ limiters' = limiters /\ answer' = answer
      BY <2>1, Zenon DEF Tick
    <3>2. \A k \in DOMAIN limiters : limiters[k].seen \in Nat
      BY Zenon DEF LimitTypeOK, Limiter
    <3> QED
      BY <3>1, <3>2 DEF LimitTypeOK
  <2>2. ASSUME NEW k \in Keys, NEW p \in Params[k], Allow(k, p) PROVE LimitTypeOK'
    <3> DEFINE b == Bucket(k, Effective(p))
    <3>1. /\ b \in Limiter /\ b.params = Effective(p)
          /\ b.tokens <= b.params.burst /\ b.last <= clock
      BY BucketType, Zenon
    <3>2. clock' = clock /\ clock \in Nat
      BY <2>2, Zenon DEF Allow, LimitTypeOK
    <3>3. /\ TakeFrom(b) \in Limiter /\ TakeFrom(b).params = Effective(p)
          /\ TakeFrom(b).tokens <= TakeFrom(b).params.burst
          /\ TakeFrom(b).last <= TakeFrom(b).seen
          /\ TakeFrom(b).seen <= clock
      <4> HIDE DEF b
      <4> QED BY <3>1, <3>2, TakenType
    <3>4. k \in Steady => Effective(p) = ParamsOf(k)
      BY SteadyParams, Zenon
    <3>5. /\ k \in DOMAIN limiters' /\ limiters'[k] = TakeFrom(b)
          /\ DOMAIN limiters' \subseteq DOMAIN limiters \cup {k}
          /\ \A j \in DOMAIN limiters' \ {k} : limiters'[j] = limiters[j]
          /\ limiters' = [j \in DOMAIN limiters' |-> limiters'[j]]
      BY <2>2, AllowEffect
    <3>6. answer' \in [Keys -> {"none", "yes", "no"}]
      BY <2>2, Zenon DEF Allow, LimitTypeOK
    <3> HIDE DEF b
    <3>7. ASSUME NEW j \in DOMAIN limiters'
          PROVE  /\ limiters'[j] \in Limiter
                 /\ limiters'[j].tokens <= limiters'[j].params.burst
                 /\ limiters'[j].last <= limiters'[j].seen
                 /\ limiters'[j].seen <= clock'
                 /\ j \in Steady => limiters'[j].params = ParamsOf(j)
      <4>1. CASE j = k
        BY <3>2, <3>3, <3>4, <3>5, <4>1, Zenon
      <4>2. CASE j # k
        <5>1. j \in DOMAIN limiters /\ limiters'[j] = limiters[j]
          BY <3>5, <4>2, Zenon
        <5> QED
          BY <3>2, <5>1, Zenon DEF LimitTypeOK
      <4> QED
        BY <4>1, <4>2, Zenon
    <3>8. DOMAIN limiters' \subseteq Keys
      BY <3>5, Zenon DEF LimitTypeOK
    <3> QED
      BY <3>2, <3>5, <3>6, <3>7, <3>8, Zenon DEF LimitTypeOK
  <2>3. CASE UNCHANGED limitVars
    BY <2>3, Zenon DEF limitVars, LimitTypeOK
  <2> QED
    BY <2>1, <2>2, <2>3, Zenon DEF LimitNext
<1> QED
  BY <1>1, <1>2, PTL DEF LimitSpec

\* The level of a steady key is what the bucket of its next call will hold.
LEMMA LevelIsBucket ==
  ASSUME LimitTypeOK, NEW k \in Steady
  PROVE  /\ Level[k] = TokensAt(Bucket(k, ParamsOf(k)), clock)
         /\ Level[k] \in Nat
<1>1. k \in Keys /\ ParamsOf(k) \in [rate : Nat \ {0}, burst : Nat \ {0}]
  BY SteadyParams, Zenon
<1>2. clock \in Nat
  BY Zenon DEF LimitTypeOK
<1>3. CASE k \in DOMAIN limiters
  <2>1. limiters[k].params = ParamsOf(k) /\ limiters[k] \in Limiter
    BY <1>3, Zenon DEF LimitTypeOK
  <2>2. limiters[k].last \in Nat /\ limiters[k].last <= clock
    BY <1>2, <1>3, <2>1 DEF LimitTypeOK, Limiter
  <2>3. Level[k] = TokensAt(limiters[k], clock)
    BY <1>3, Zenon DEF Level
  <2>4. Bucket(k, ParamsOf(k)) = limiters[k]
    BY <1>3, <2>1, Zenon DEF Bucket
  <2>5. TokensAt(limiters[k], clock) \in Nat
    BY <1>2, <2>1, <2>2, TokensType, Zenon
  <2> QED
    BY <2>3, <2>4, <2>5, Zenon
<1>4. CASE k \notin DOMAIN limiters
  <2>1. Level[k] = ParamsOf(k).burst
    BY <1>4, Zenon DEF Level
  <2>2. Bucket(k, ParamsOf(k)) = NewLimiter(ParamsOf(k))
    BY <1>4, Zenon DEF Bucket
  <2>3. (clock - clock) * ParamsOf(k).rate = 0 /\ ParamsOf(k).burst \in Nat
    BY <1>1, <1>2
  <2>4. TokensAt(NewLimiter(ParamsOf(k)), clock) =
          Fewer(ParamsOf(k).burst, ParamsOf(k).burst + 0)
    BY <2>3, Zenon DEF TokensAt, NewLimiter
  <2> QED
    BY <2>1, <2>2, <2>3, <2>4 DEF Fewer
<1> QED
  BY <1>3, <1>4, Zenon

\* A call moves the level of its own key only; the deletion of idle buckets moves none.
LEMMA LevelAllow ==
  ASSUME LimitTypeOK, LimitTypeOK', NEW k \in Keys, NEW p \in Params[k], Allow(k, p)
  PROVE  \A j \in Steady :
           Level'[j] = IF j = k /\ Level[j] >= 1 THEN Level[j] - 1 ELSE Level[j]
<1> SUFFICES ASSUME NEW j \in Steady
             PROVE  Level'[j] = IF j = k /\ Level[j] >= 1 THEN Level[j] - 1 ELSE Level[j]
  BY Zenon
<1> DEFINE b == Bucket(k, Effective(p))
<1>1. /\ b \in Limiter /\ b.tokens <= b.params.burst /\ b.last <= clock
  BY BucketType, Zenon
<1>2. clock' = clock /\ clock \in Nat
  BY Zenon DEF Allow, LimitTypeOK
<1>3. /\ k \in DOMAIN limiters' /\ limiters'[k] = TakeFrom(b)
      /\ DOMAIN limiters' \subseteq DOMAIN limiters \cup {k}
      /\ \A i \in DOMAIN limiters' \ {k} : limiters'[i] = limiters[i]
      /\ \A i \in DOMAIN limiters \ DOMAIN limiters' : Idle(limiters[i])
  BY AllowEffect, Zenon
<1>4. Level'[j] = IF j \in DOMAIN limiters' THEN TokensAt(limiters'[j], clock')
                  ELSE ParamsOf(j).burst
  BY Zenon DEF Level, TokensAt, Fewer
<1>5. Level[j] = IF j \in DOMAIN limiters THEN TokensAt(limiters[j], clock)
                 ELSE ParamsOf(j).burst
  BY Zenon DEF Level
<1>6. CASE j = k
  <2>1. Level[k] = TokensAt(b, clock)
    BY <1>6, LevelIsBucket, SteadyParams, Zenon
  <2>2. Level'[k] = TokensAt(TakeFrom(b), clock)
    BY <1>2, <1>3, <1>4, <1>6, Zenon
  <2> HIDE DEF b
  <2>3. TokensAt(TakeFrom(b), clock) =
          IF TokensAt(b, clock) >= 1 THEN TokensAt(b, clock) - 1 ELSE TokensAt(b, clock)
    BY <1>1, <1>2, TakenTokens, Zenon
  <2> QED
    BY <1>6, <2>1, <2>2, <2>3, Zenon
<1>7. CASE j # k
  <2>1. CASE j \in DOMAIN limiters'
    BY <1>2, <1>3, <1>4, <1>5, <1>7, <2>1, Zenon
  <2>2. CASE j \in DOMAIN limiters /\ j \notin DOMAIN limiters'
    <3>1. TokensAt(limiters[j], clock) = ParamsOf(j).burst
      BY <1>3, <2>2, IdleIsFull, Zenon
    <3> QED
      BY <1>4, <1>5, <1>7, <2>2, <3>1, Zenon
  <2>3. CASE j \notin DOMAIN limiters /\ j \notin DOMAIN limiters'
    BY <1>4, <1>5, <1>7, <2>3, Zenon
  <2> QED
    BY <2>1, <2>2, <2>3, Zenon
<1> QED
  BY <1>6, <1>7, Zenon

\* A tick gives every steady key its rate.
LEMMA LevelTick ==
  ASSUME LimitTypeOK, Tick
  PROVE  \A j \in Steady : Level'[j] = Fewer(ParamsOf(j).burst, Level[j] + ParamsOf(j).rate)
<1> SUFFICES ASSUME NEW j \in Steady
             PROVE  Level'[j] = Fewer(ParamsOf(j).burst, Level[j] + ParamsOf(j).rate)
  BY Zenon
<1>1. clock' = clock + 1 /\ limiters' = limiters /\ clock \in Nat
  BY Zenon DEF Tick, LimitTypeOK
<1>2. Level'[j] = IF j \in DOMAIN limiters' THEN TokensAt(limiters'[j], clock')
                  ELSE ParamsOf(j).burst
  BY Zenon DEF Level, TokensAt, Fewer
<1>3. Level[j] = IF j \in DOMAIN limiters THEN TokensAt(limiters[j], clock)
                 ELSE ParamsOf(j).burst
  BY Zenon DEF Level
<1>4. CASE j \in DOMAIN limiters
  <2>1. limiters[j] \in Limiter /\ limiters[j].params = ParamsOf(j)
    BY <1>4, Zenon DEF LimitTypeOK
  <2>2. limiters[j].last <= clock
    BY <1>1, <1>4, <2>1 DEF LimitTypeOK, Limiter
  <2>3. TokensAt(limiters[j], clock + 1) =
          Fewer(limiters[j].params.burst, TokensAt(limiters[j], clock) + limiters[j].params.rate)
    BY <1>1, <2>1, <2>2, TokensTick, Zenon
  <2> QED
    BY <1>1, <1>2, <1>3, <1>4, <2>1, <2>3, Zenon
<1>5. CASE j \notin DOMAIN limiters
  <2>1. ParamsOf(j).burst \in Nat /\ ParamsOf(j).rate \in Nat
    BY SteadyParams, Zenon
  <2> QED
    BY <1>1, <1>2, <1>3, <1>5, <2>1 DEF Fewer
<1> QED
  BY <1>4, <1>5, Zenon

\* The registry implements the token bucket: a tick refills, a call of a steady key
\* takes or is refused, and a call of another key, with the deletions it causes, is
\* invisible.
THEOREM RegistryIsTokenBucket == LimitSpec => BucketsImplemented
<1> DEFINE rate == [k \in Steady |-> ParamsOf(k).rate]
           burst == [k \in Steady |-> ParamsOf(k).burst]
           answers == [k \in Steady |-> answer[k]]
<1>1. LimitInit => Buckets!Init
  <2> SUFFICES ASSUME LimitInit PROVE Buckets!Init
    BY Zenon
  <2>1. Level = burst
    BY Zenon DEF LimitInit, Level
  <2>2. answers = [k \in Steady |-> "none"]
    BY Zenon DEF LimitInit, Steady
  <2> QED
    BY <2>1, <2>2, Zenon DEF Buckets!Init
<1>2. LimitTypeOK /\ LimitTypeOK' /\ [LimitNext]_limitVars => [Buckets!Next]_(Buckets!vars)
  <2> SUFFICES ASSUME LimitTypeOK, LimitTypeOK', [LimitNext]_limitVars
               PROVE  [Buckets!Next]_(Buckets!vars)
    BY Zenon
  <2>1. CASE Tick
    <3>1. Level' = [k \in Steady |-> Level'[k]]
      BY Zenon DEF Level
    <3>2. \A k \in Steady : Level'[k] = Fewer(burst[k], Level[k] + rate[k])
      BY <2>1, LevelTick, Zenon
    <3>3. answers' = answers
      BY <2>1, Zenon DEF Tick
    <3>4. Level' = [k \in Steady |-> Fewer(burst[k], Level[k] + rate[k])]
      BY <3>1, <3>2, Zenon
    <3>5. Buckets!Refill
      BY <3>3, <3>4, Zenon DEF Buckets!Refill, Buckets!Smaller, Fewer
    <3> QED
      BY <3>5, Zenon DEF Buckets!Next
  <2>2. ASSUME NEW k \in Keys, NEW p \in Params[k], Allow(k, p)
        PROVE  [Buckets!Next]_(Buckets!vars)
    <3>1. Level' = [j \in Steady |-> Level'[j]] /\ Level = [j \in Steady |-> Level[j]]
      BY Zenon DEF Level
    <3>2. \A j \in Steady :
            Level'[j] = IF j = k /\ Level[j] >= 1 THEN Level[j] - 1 ELSE Level[j]
      BY <2>2, LevelAllow, Zenon
    <3>3. answer' = [answer EXCEPT ![k] =
                       IF TokensAt(Bucket(k, Effective(p)), clock) >= 1 THEN "yes" ELSE "no"]
      BY <2>2, Zenon DEF Allow
    <3>4. answer \in [Keys -> {"none", "yes", "no"}] /\ Steady \subseteq Keys
      BY Zenon DEF LimitTypeOK, Steady
    <3>5. CASE k \in Steady
      <4>1. Level[k] = TokensAt(Bucket(k, Effective(p)), clock) /\ Level[k] \in Nat
        BY <3>5, LevelIsBucket, SteadyParams, Zenon
      <4>2. CASE Level[k] >= 1
        <5>1. Level' = [Level EXCEPT ![k] = Level[k] - 1]
          BY <3>1, <3>2, <4>2, Zenon
        <5>2. answers' = [answers EXCEPT ![k] = "yes"]
          BY <3>3, <3>4, <3>5, <4>1, <4>2, Zenon
        <5>3. Buckets!Take(k)
          BY <4>2, <5>1, <5>2, Zenon DEF Buckets!Take
        <5> QED
          BY <3>5, <5>3, Zenon DEF Buckets!Next
      <4>3. CASE ~ (Level[k] >= 1)
        <5>1. Level' = Level /\ Level[k] = 0
          BY <3>1, <3>2, <4>1, <4>3
        <5>2. answers' = [answers EXCEPT ![k] = "no"]
          BY <3>3, <3>4, <3>5, <4>1, <4>3, Zenon
        <5>3. Buckets!Refuse(k)
          BY <5>1, <5>2, Zenon DEF Buckets!Refuse
        <5> QED
          BY <3>5, <5>3, Zenon DEF Buckets!Next
      <4> QED
        BY <4>2, <4>3, Zenon
    <3>6. CASE k \notin Steady
      <4>1. Level' = Level
        BY <3>1, <3>2, <3>6, Zenon
      <4>2. answers' = answers
        BY <3>3, <3>4, <3>6, Zenon
      <4> QED
        BY <4>1, <4>2, Zenon DEF Buckets!vars
    <3> QED
      BY <3>5, <3>6, Zenon
  <2>3. CASE UNCHANGED limitVars
    <3>1. Level' = Level /\ answers' = answers
      BY <2>3, Zenon DEF limitVars, Level, TokensAt, Fewer
    <3> QED
      BY <3>1, Zenon DEF Buckets!vars
  <2> QED
    BY <2>1, <2>2, <2>3, Zenon DEF LimitNext
<1> QED
  BY <1>1, <1>2, LimitTypes, PTL DEF LimitSpec, BucketsImplemented, Buckets!Spec

-----------------------------------------------------------------------------
(* First and last elements *)

\* A set of numbers has a least one.
LEMMA LeastExists ==
  ASSUME NEW I, I \subseteq Nat, I # {}
  PROVE  \E i \in I : \A j \in I : i <= j
<1> DEFINE Upto(i) == {j \in I : j <= i}
           T == {Upto(i) : i \in I}
           R == StrictSubsetOrdering(Nat)
           F == FiniteSubsetsOf(Nat)
<1>1. IsWellFoundedOn(R, F)
  BY FS_StrictSubsetOrderingWellFounded, Zenon
<1>2. ASSUME NEW i \in I
      PROVE  Upto(i) \in F
  <2>1. Upto(i) \in SUBSET Nat /\ i \in Nat /\ \A j \in Upto(i) : j <= i
    BY Zenon
  <2>2. IsFiniteSet(Upto(i))
    BY <2>1, FS_BoundedSetOfNaturals, Zenon
  <2> QED
    BY <2>1, <2>2, Zenon DEF FiniteSubsetsOf
<1>3. T \subseteq F /\ T # {}
  BY <1>2, Zenon
<1> HIDE DEF R, F, T
<1>4. PICK x \in T : \A y \in T : ~ (<<y, x>> \in R)
  BY <1>1, <1>3, WFMin
<1>5. PICK i \in I : x = Upto(i)
  BY Zenon DEF T
<1>6. ASSUME NEW j \in I, j < i
      PROVE  FALSE
  <2>1. Upto(j) \in T
    BY Zenon DEF T
  <2>2. i \in Nat /\ j \in Nat
    BY Zenon
  <2>3. Upto(j) \in SUBSET Nat /\ Upto(i) \in SUBSET Nat
    BY Zenon
  <2>4. ASSUME NEW k \in I, k <= j
        PROVE  k <= i
    <3>1. k \in Nat
      BY Zenon
    <3> QED
      BY <1>6, <2>2, <2>4, <3>1
  <2>5. i \in Upto(i) /\ i \notin Upto(j)
    BY <1>6, <2>2
  <2>6. <<Upto(j), Upto(i)>> \in R
    BY <2>3, <2>4, <2>5, Zenon DEF R, StrictSubsetOrdering
  <2> QED
    BY <1>4, <1>5, <2>1, <2>6, Zenon
<1> QED
  BY <1>6

\* A bounded one has a greatest.
LEMMA GreatestExists ==
  ASSUME NEW I, NEW n \in Nat, I \subseteq 1 .. n, I # {}
  PROVE  \E i \in I : \A j \in I : j <= i
<1> DEFINE J == {n - i : i \in I}
<1>1. J \subseteq Nat
  OBVIOUS
<1>0. J # {}
  BY Zenon
<1>2. PICK j \in J : \A k \in J : j <= k
  BY <1>0, <1>1, LeastExists, Zenon
<1>3. PICK i \in I : j = n - i
  BY Zenon
<1>4. \A k \in I : n - i <= n - k
  BY <1>2, <1>3, Zenon
<1>5. \A k \in I : k \in 1 .. n
  BY Zenon
<1>6. \A k \in I : k \in Int
  BY <1>5
<1> QED
  BY <1>4, <1>6

\* The two ways to name the least member of a set of positions agree.
LEMMA FirstFacts ==
  ASSUME NEW I, NEW n \in Nat, I \subseteq 1 .. n
  PROVE  /\ I = {} => First(I) = 0 /\ FirstOf(I) = 0
         /\ I # {} => First(I) \in I /\ \A j \in I : First(I) <= j
         /\ FirstOf(I) = First(I)
<1>1. I \subseteq Nat
  OBVIOUS
<1>2. I # {} => \E i \in I : \A j \in I : i <= j
  BY <1>1, LeastExists, Zenon
<1> QED
  BY <1>2, Zenon DEF First, FirstOf

-----------------------------------------------------------------------------
(* Routing *)

\* What is left of a path without its last slash.
LEMMA TrimFacts ==
  ASSUME NEW p \in Seq(STRING)
  PROVE  /\ Len(TrimSuffix(p, "/")) \in Nat
         /\ Len(TrimSuffix(p, "/")) <= Len(p)
         /\ Len(p) >= 1 /\ p # <<"/">> => Len(TrimSuffix(p, "/")) >= 1
         /\ p = <<"/">> => Len(TrimSuffix(p, "/")) = 0
<1>1. CASE p # <<>> /\ p[Len(p)] = "/"
  <2>1. Len(p) \in Nat /\ Len(p) >= 1
    BY <1>1
  <2>2. TrimSuffix(p, "/") = SubSeq(p, 1, Len(p) - 1)
    BY <1>1, Zenon DEF TrimSuffix
  <2>3. \A n \in Nat : n <= Len(p) => Len(SubSeq(p, 1, n)) = n
    OBVIOUS
  <2>4. Len(p) = 1 => p = <<"/">>
    BY <1>1
  <2>5. Len(p) - 1 \in Nat /\ Len(p) - 1 <= Len(p)
    BY <2>1
  <2>6. Len(SubSeq(p, 1, Len(p) - 1)) = Len(p) - 1
    BY <2>3, <2>5, Zenon
  <2>7. p = <<"/">> => Len(p) = 1
    OBVIOUS
  <2> QED
    BY <2>1, <2>2, <2>4, <2>6, <2>7
<1>2. CASE ~ (p # <<>> /\ p[Len(p)] = "/")
  <2>1. TrimSuffix(p, "/") = p
    BY <1>2, Zenon DEF TrimSuffix
  <2>2. p # <<"/">>
    BY <1>2
  <2> QED
    BY <2>1, <2>2
<1> QED
  BY <1>1, <1>2, Zenon

\* The target a host leads to is one of the site.
LEMMA LookupFacts ==
  ASSUME NEW site, IsSite(site), NEW host
  PROVE  lookup(site, host) # 0 => lookup(site, host) \in DOMAIN site.targets
<1> DEFINE T == Named(site, host)
<1>1. T \subseteq 1 .. Len(site.targets) /\ Len(site.targets) \in Nat
  BY Zenon DEF Named, IsSite, IsSeq
<1>2. T # {} => \E t \in T : \A u \in T : u <= t
  BY <1>1, GreatestExists, Zenon
<1>3. T # {} => lookup(site, host) \in T
  BY <1>2, Zenon DEF lookup
<1>4. T = {} => lookup(site, host) = 0
  BY Zenon DEF lookup
<1>5. T \subseteq DOMAIN site.targets
  BY Zenon DEF Named
<1> QED
  BY <1>3, <1>4, <1>5, Zenon

\* The location that locate chooses is one of the list; it is the default one
\* only if no location that matches has a priority.
LEMMA LocateFacts ==
  ASSUME NEW ls, IsSeq(ls), NEW path
  PROVE  LET D == {i \in DOMAIN ls : ls[i].path = <<"/">>}
             B == {i \in DOMAIN ls :
                     /\ Matches(ls[i], path)
                     /\ Priority(ls[i]) > 0
                     /\ \A j \in DOMAIN ls :
                          Matches(ls[j], path) => Priority(ls[j]) <= Priority(ls[i])}
             l == locate(ls, path)
         IN /\ DefaultLoc(ls) \in DOMAIN ls \cup {0}
            /\ l \in DOMAIN ls \cup {0}
            /\ B # {} => l \in B /\ \A i \in B : l <= i
            /\ B = {} /\ D # {} => l \in D /\ \A i \in D : l <= i
            /\ B = {} /\ D = {} => l = 0
<1> DEFINE D == {i \in DOMAIN ls : ls[i].path = <<"/">>}
           B == {i \in DOMAIN ls :
                   /\ Matches(ls[i], path)
                   /\ Priority(ls[i]) > 0
                   /\ \A j \in DOMAIN ls :
                        Matches(ls[j], path) => Priority(ls[j]) <= Priority(ls[i])}
<1>1. /\ Len(ls) \in Nat /\ DOMAIN ls = 1 .. Len(ls)
      /\ D \subseteq 1 .. Len(ls) /\ B \subseteq 1 .. Len(ls)
  BY Zenon DEF IsSeq
<1>2. Best(ls, path) = FirstOf(B) /\ DefaultLoc(ls) = FirstOf(D)
  BY Zenon DEF Best, DefaultLoc
<1>3. locate(ls, path) = IF Best(ls, path) # 0 THEN Best(ls, path) ELSE DefaultLoc(ls)
  BY Zenon DEF locate
<1> HIDE DEF D, B
<1>4. /\ B # {} => FirstOf(B) \in B /\ \A i \in B : FirstOf(B) <= i
      /\ B = {} => FirstOf(B) = 0
  BY <1>1, FirstFacts, Zenon
<1>5. /\ D # {} => FirstOf(D) \in D /\ \A i \in D : FirstOf(D) <= i
      /\ D = {} => FirstOf(D) = 0
  BY <1>1, FirstFacts, Zenon
<1>6. B # {} => FirstOf(B) # 0
  BY <1>1, <1>4
<1>7. /\ DefaultLoc(ls) \in DOMAIN ls \cup {0}
      /\ locate(ls, path) \in DOMAIN ls \cup {0}
      /\ B # {} => locate(ls, path) \in B /\ \A i \in B : locate(ls, path) <= i
      /\ B = {} /\ D # {} => locate(ls, path) \in D /\ \A i \in D : locate(ls, path) <= i
      /\ B = {} /\ D = {} => locate(ls, path) = 0
  BY <1>1, <1>2, <1>3, <1>4, <1>5, <1>6, Zenon
<1> QED
  BY <1>7, Zenon DEF B, D

-----------------------------------------------------------------------------
(* The policies of a site *)

\* A location of the site.
LEMMA LocationFacts ==
  ASSUME NEW site, IsSite(site), NEW p \in Locations(site)
  PROVE  /\ p = <<p[1], p[2]>>
         /\ p[1] \in DOMAIN site.targets
         /\ p[2] \in DOMAIN site.targets[p[1]].locations
         /\ IsLocation(site.targets[p[1]].locations[p[2]])
<1>1. PICK t \in DOMAIN site.targets :
        p \in {<<t, l>> : l \in DOMAIN site.targets[t].locations}
  BY Zenon DEF Locations
<1>2. PICK l \in DOMAIN site.targets[t].locations : p = <<t, l>>
  BY <1>1, Zenon
<1> QED
  BY <1>1, <1>2, Zenon DEF IsSite

\* Of some locations one comes last.
LEMMA LastExists ==
  ASSUME NEW site, IsSite(site), NEW P, P \subseteq Locations(site), P # {}
  PROVE  \E p \in P : \A q \in P : q[1] < p[1] \/ (q[1] = p[1] /\ q[2] <= p[2])
<1> DEFINE T == {p[1] : p \in P}
           n == Len(site.targets)
<1>0. n \in Nat /\ DOMAIN site.targets = 1 .. n
  BY Zenon DEF IsSite, IsSeq
<1>1. \A p \in P : p[1] \in DOMAIN site.targets
  BY LocationFacts, Zenon
<1>2. T \subseteq 1 .. n
  BY <1>0, <1>1, Zenon
<1>3. T # {}
  BY Zenon
<1> HIDE DEF T, n
<1>4. PICK t \in T : \A u \in T : u <= t
  BY <1>0, <1>2, <1>3, GreatestExists, Zenon
<1> DEFINE Q == {p \in P : p[1] = t}
           L == {p[2] : p \in Q}
           m == Len(site.targets[t].locations)
<1>5. t \in DOMAIN site.targets /\ Q # {}
  BY <1>0, <1>2, Zenon DEF T
<1>6. m \in Nat /\ DOMAIN site.targets[t].locations = 1 .. m
  BY <1>5, Zenon DEF IsSite, IsSeq
<1>7. \A p \in Q : p[2] \in DOMAIN site.targets[t].locations
  BY LocationFacts, Zenon
<1>8. L \subseteq 1 .. m
  BY <1>6, <1>7, Zenon
<1>9. L # {}
  BY <1>5
<1>10. \A p \in P : p[1] \in T /\ p[1] \in 1 .. n
  BY <1>0, <1>1, Zenon DEF T
<1>11. \A p \in P : p[1] = t => p[2] \in L
  BY Zenon
<1> HIDE DEF L, m
<1>12. PICK l \in L : \A k \in L : k <= l
  BY <1>6, <1>8, <1>9, GreatestExists, Zenon
<1>13. PICK p \in Q : p[2] = l
  BY Zenon DEF L
<1>14. t \in 1 .. n
  BY <1>2, Zenon
<1>15. ASSUME NEW q \in P
       PROVE  q[1] < p[1] \/ (q[1] = p[1] /\ q[2] <= p[2])
  <2>1. q[1] <= t /\ q[1] \in Int /\ t \in Int
    BY <1>0, <1>4, <1>10, <1>14
  <2>2. q[1] = t => q[2] <= l
    BY <1>11, <1>12, Zenon
  <2> QED
    BY <1>13, <2>1, <2>2
<1> QED
  BY <1>13, <1>15, Zenon

\* A policy is empty or the rules of a location of the site, one with the name and
\* the path that were asked for.
LEMMA PolicyFacts ==
  ASSUME NEW site, IsSite(site), NEW name, NEW path
  PROVE  LET P == {p \in Locations(site) :
                     LET l == site.targets[p[1]].locations[p[2]] IN
                     /\ ~ site.lazy /\ site.targets[p[1]].name = name
                     /\ l.path = path /\ l.waf.enabled}
         IN /\ P = {} => Policy(site, name, path) = <<>>
            /\ P # {} => \E p \in P : Policy(site, name, path) =
                           site.targets[p[1]].locations[p[2]].waf.rules
<1> DEFINE P == {p \in Locations(site) :
                   LET l == site.targets[p[1]].locations[p[2]] IN
                   /\ ~ site.lazy /\ site.targets[p[1]].name = name
                   /\ l.path = path /\ l.waf.enabled}
           last == CHOOSE p \in P : \A q \in P : q[1] < p[1] \/ (q[1] = p[1] /\ q[2] <= p[2])
<1>1. Policy(site, name, path) =
        IF P = {} THEN <<>> ELSE site.targets[last[1]].locations[last[2]].waf.rules
  BY DEF Policy
<1>2. P \subseteq Locations(site)
  BY Zenon
<1> HIDE DEF P
<1>3. P # {} => \E p \in P : \A q \in P : q[1] < p[1] \/ (q[1] = p[1] /\ q[2] <= p[2])
  BY <1>2, LastExists, Zenon
<1>4. P # {} => last \in P
  BY <1>3, Zenon
<1>5. /\ P = {} => Policy(site, name, path) = <<>>
      /\ P # {} => \E p \in P : Policy(site, name, path) =
                           site.targets[p[1]].locations[p[2]].waf.rules
  BY <1>1, <1>4, Zenon
<1> QED
  BY <1>5, Zenon DEF P

\* A policy is a sequence of rules.
LEMMA PolicyType ==
  ASSUME NEW site, IsSite(site), NEW name, NEW path
  PROVE  /\ IsSeq(Policy(site, name, path))
         /\ \A i \in DOMAIN Policy(site, name, path) : IsRule(Policy(site, name, path)[i])
         /\ Policy(site, name, path) # <<>> =>
              \E p \in Locations(site) :
                Policy(site, name, path) = site.targets[p[1]].locations[p[2]].waf.rules
<1> DEFINE P == {p \in Locations(site) :
                   LET l == site.targets[p[1]].locations[p[2]] IN
                   /\ ~ site.lazy /\ site.targets[p[1]].name = name
                   /\ l.path = path /\ l.waf.enabled}
<1>4. /\ P = {} => Policy(site, name, path) = <<>>
      /\ P # {} => \E p \in P : Policy(site, name, path) =
                           site.targets[p[1]].locations[p[2]].waf.rules
  BY PolicyFacts, Zenon
<1>5. P \subseteq Locations(site)
  BY Zenon
<1> HIDE DEF P
<1>1. \/ Policy(site, name, path) = <<>>
      \/ \E p \in Locations(site) :
           Policy(site, name, path) = site.targets[p[1]].locations[p[2]].waf.rules
  BY <1>4, <1>5, Zenon
<1>2. CASE Policy(site, name, path) = <<>>
  <2>1. IsSeq(<<>>) /\ DOMAIN <<>> = {}
    BY DEF IsSeq
  <2> QED
    BY <1>2, <2>1
<1>3. CASE \E p \in Locations(site) :
             Policy(site, name, path) = site.targets[p[1]].locations[p[2]].waf.rules
  BY <1>3, LocationFacts, Zenon DEF IsLocation
<1> QED
  BY <1>1, <1>2, <1>3, Zenon

\* The rule that decides is one of the policy, and decisive.
LEMMA EvaluateFacts ==
  ASSUME NEW policy, IsSeq(policy), NEW req
  PROVE  LET i == evaluate(policy, req) IN
         i # 0 => i \in DOMAIN policy /\ Decisive(policy[i])
<1> DEFINE I == {i \in DOMAIN policy : Decisive(policy[i]) /\ ruleMatches(policy, i, req)}
<1>1. I \subseteq 1 .. Len(policy) /\ Len(policy) \in Nat
  BY Zenon DEF IsSeq
<1>2. evaluate(policy, req) = First(I)
  BY Zenon DEF evaluate
<1>3. I = {} => First(I) = 0
  BY <1>1, FirstFacts
<1>4. I # {} => First(I) \in I
  BY <1>1, FirstFacts, Zenon
<1> QED
  BY <1>2, <1>3, <1>4, Zenon

-----------------------------------------------------------------------------
(* The invariant of the workers *)

\* A route leads to a location of the site, or to none.
LEMMA RouteFacts ==
  ASSUME NEW site, IsSite(site), NEW host, NEW path
  PROVE  LET p == route(site, host, path) IN
         /\ p = <<p[1], p[2]>>
         /\ p[2] # 0 => p \in Locations(site)
<1> DEFINE h == lookup(site, NormalizeHost(host))
           d == lookup(site, DefaultHostname)
           f == defaultHandler(site)
           t == IF h # 0 THEN h ELSE d
           p == route(site, host, path)
<1>1. p = IF t # 0 THEN <<t, locate(site.targets[t].locations, path)>>
          ELSE <<f, IF f = 0 THEN 0 ELSE DefaultLoc(site.targets[f].locations)>>
  BY Zenon DEF route
<1>2. t # 0 => t \in DOMAIN site.targets
  BY LookupFacts
<1>3. f # 0 => f \in DOMAIN site.targets
  <2> DEFINE T == {u \in DOMAIN site.targets : DefaultLoc(site.targets[u].locations) # 0}
  <2>1. T \subseteq 1 .. Len(site.targets) /\ Len(site.targets) \in Nat
    BY Zenon DEF IsSite, IsSeq
  <2>2. f = IF site.lazy THEN 0 ELSE FirstOf(T)
    BY Zenon DEF defaultHandler
  <2>3. T \subseteq DOMAIN site.targets
    BY Zenon
  <2> HIDE DEF T, f
  <2>4. FirstOf(T) # 0 => FirstOf(T) \in T
    BY <2>1, FirstFacts, Zenon
  <2> QED
    BY <2>2, <2>3, <2>4, Zenon
<1>4. \A u \in DOMAIN site.targets : IsSeq(site.targets[u].locations)
  BY Zenon DEF IsSite
<1>5. \A u \in DOMAIN site.targets :
        /\ locate(site.targets[u].locations, path) \in DOMAIN site.targets[u].locations \cup {0}
        /\ DefaultLoc(site.targets[u].locations) \in DOMAIN site.targets[u].locations \cup {0}
  BY <1>4, LocateFacts, Zenon
<1>6. \A u \in DOMAIN site.targets : \A l \in DOMAIN site.targets[u].locations :
        <<u, l>> \in Locations(site)
  BY DEF Locations
<1> HIDE DEF t, f, p
<1>7. CASE t # 0
  <2>1. p = <<t, locate(site.targets[t].locations, path)>>
    BY <1>1, <1>7, Zenon
  <2> QED
    BY <1>2, <1>5, <1>6, <1>7, <2>1, SMTT(30) DEF p
<1>8. CASE t = 0 /\ f # 0
  <2>1. p = <<f, DefaultLoc(site.targets[f].locations)>>
    BY <1>1, <1>8, Zenon
  <2> QED
    BY <1>3, <1>5, <1>6, <1>8, <2>1, SMTT(30) DEF p
<1>9. CASE t = 0 /\ f = 0
  <2>1. p = <<f, 0>>
    BY <1>1, <1>9, Zenon
  <2> QED
    BY <2>1 DEF p
<1> QED
  BY <1>7, <1>8, <1>9, Zenon

\* The fields of what a worker is doing.
Conn(c) ==
  c = [pc |-> c.pc, req |-> c.req, place |-> c.place, hook |-> c.hook, ruled |-> c.ruled,
       drained |-> c.drained, out |-> c.out, wanted |-> c.wanted, ids |-> c.ids]

\* The rules that the firewall applies to the request of c.
PolicyFor(e, c) ==
  LET t == e.site.targets[c.place[1]]
  IN Policy(e.site, t.name, t.locations[c.place[2]].path)

\* A worker serves a request of the environment at the location it was routed to; until
\* it answers nothing was written; the firewall's rule is that of the location's policy.
Sound(e, c) ==
  /\ Conn(c)
  /\ c.pc \in {"idle", "hook", "serve", "done"}
  /\ c.hook \in Nat \ {0}
  /\ c.pc # "idle" =>
       /\ c.req \in e.requests
       /\ c.place = route(e.site, c.req.host, c.req.path)
       /\ c.ids = RequestIDs(c.req, e.statuses # {})
       /\ c.ruled # <<>> => c.place[2] # 0 /\ c.ruled = <<evaluate(PolicyFor(e, c), c.req)>>
  /\ c.pc \in {"hook", "serve"} =>
       /\ c.place[2] # 0
       /\ c.out = NoOutput(e.statuses, e.logging, c.req.method = "HEAD")

\* Every worker is sound: its request is one of the environment, its place is where
\* route leads, and what it has written and decided so far agrees with its step.
ConnInv ==
  /\ env \in Environments
  /\ conn = [w \in Workers |-> conn[w]]
  /\ \A w \in Workers : Sound(env, conn[w])

\* The fields after the updates that the actions make.
LEMMA DoneFields ==
  ASSUME NEW c, Conn(c), NEW o, NEW r
  PROVE  Done(c, o, r) =
           [pc |-> "done", req |-> c.req, place |-> c.place, hook |-> c.hook, ruled |-> c.ruled,
            drained |-> c.drained, out |-> finish(o), wanted |-> r, ids |-> c.ids]
<1> DEFINE d == [pc |-> c.pc, req |-> c.req, place |-> c.place, hook |-> c.hook,
                 ruled |-> c.ruled, drained |-> c.drained, out |-> c.out,
                 wanted |-> c.wanted, ids |-> c.ids]
<1>1. c = d
  BY Zenon DEF Conn
<1>2. [d EXCEPT !.pc = "done"] =
        [pc |-> "done", req |-> c.req, place |-> c.place, hook |-> c.hook, ruled |-> c.ruled,
         drained |-> c.drained, out |-> c.out, wanted |-> c.wanted, ids |-> c.ids]
  OBVIOUS
<1>3. [[pc |-> "done", req |-> c.req, place |-> c.place, hook |-> c.hook, ruled |-> c.ruled,
        drained |-> c.drained, out |-> c.out, wanted |-> c.wanted, ids |-> c.ids]
       EXCEPT !.out = finish(o)] =
        [pc |-> "done", req |-> c.req, place |-> c.place, hook |-> c.hook, ruled |-> c.ruled,
         drained |-> c.drained, out |-> finish(o), wanted |-> c.wanted, ids |-> c.ids]
  OBVIOUS
<1>4. [[pc |-> "done", req |-> c.req, place |-> c.place, hook |-> c.hook, ruled |-> c.ruled,
        drained |-> c.drained, out |-> finish(o), wanted |-> c.wanted, ids |-> c.ids]
       EXCEPT !.wanted = r] =
        [pc |-> "done", req |-> c.req, place |-> c.place, hook |-> c.hook, ruled |-> c.ruled,
         drained |-> c.drained, out |-> finish(o), wanted |-> r, ids |-> c.ids]
  OBVIOUS
<1> HIDE DEF d
<1>5. Done(c, o, r) = [[[d EXCEPT !.pc = "done"] EXCEPT !.out = finish(o)] EXCEPT !.wanted = r]
  BY <1>1, Zenon DEF Done
<1> QED
  BY <1>2, <1>3, <1>4, <1>5, Zenon

\* The fields of a worker that goes on to the next hook.
LEMMA PassedFields ==
  ASSUME NEW c, Conn(c)
  PROVE  Passed(c) =
           [pc |-> c.pc, req |-> c.req, place |-> c.place, hook |-> c.hook + 1, ruled |-> c.ruled,
            drained |-> c.drained, out |-> c.out, wanted |-> c.wanted, ids |-> c.ids]
BY DEF Passed, Conn

\* A worker that answers stays sound.
LEMMA DoneSound ==
  ASSUME NEW e, NEW c, Sound(e, c), c.pc # "idle", NEW o, NEW r
  PROVE  Sound(e, Done(c, o, r))
<1> DEFINE d == Done(c, o, r)
<1>1. d = [pc |-> "done", req |-> c.req, place |-> c.place, hook |-> c.hook, ruled |-> c.ruled,
            drained |-> c.drained, out |-> finish(o), wanted |-> r, ids |-> c.ids]
  BY DoneFields, Zenon DEF Sound
<1> HIDE DEF d
<1>2. Conn(d)
  BY <1>1, Zenon DEF Conn
<1>3. PolicyFor(e, d) = PolicyFor(e, c)
  BY <1>1, Zenon DEF PolicyFor
<1>4. /\ d.pc = "done" /\ d.hook = c.hook /\ d.req = c.req /\ d.place = c.place
      /\ d.ids = c.ids /\ d.ruled = c.ruled
  BY <1>1, Zenon
<1>5. Sound(e, d)
  BY <1>2, <1>3, <1>4, Zenon DEF Sound
<1> QED
  BY <1>5, Zenon DEF d

\* Going on to the next hook keeps a worker sound.
LEMMA PassedSound ==
  ASSUME NEW e, NEW c, Sound(e, c), c.pc = "hook"
  PROVE  Sound(e, Passed(c))
<1> DEFINE d == Passed(c)
<1>1. d = [pc |-> c.pc, req |-> c.req, place |-> c.place, hook |-> c.hook + 1, ruled |-> c.ruled,
            drained |-> c.drained, out |-> c.out, wanted |-> c.wanted, ids |-> c.ids]
  BY PassedFields, Zenon DEF Sound
<1> HIDE DEF d
<1>2. Conn(d)
  BY <1>1, Zenon DEF Conn
<1>3. PolicyFor(e, d) = PolicyFor(e, c)
  BY <1>1, Zenon DEF PolicyFor
<1>4. /\ d.pc = "hook" /\ d.hook = c.hook + 1 /\ d.req = c.req /\ d.place = c.place
      /\ d.ids = c.ids /\ d.ruled = c.ruled /\ d.out = c.out
  BY <1>1, Zenon
<1>6. c.hook + 1 \in Nat \ {0}
  BY DEF Sound
<1>5. Sound(e, d)
  BY <1>2, <1>3, <1>4, <1>6, Zenon DEF Sound
<1> QED
  BY <1>5, Zenon DEF d

\* One worker's step leaves the invariant if it leaves the worker sound.
LEMMA OneWorker ==
  ASSUME ConnInv, env' = env, NEW w \in Workers, NEW d, conn' = [conn EXCEPT ![w] = d],
         Sound(env, d)
  PROVE  ConnInv'
<1>1. \A v \in Workers : conn'[v] = IF v = w THEN d ELSE conn[v]
  BY Zenon DEF ConnInv
<1>2. conn' = [v \in Workers |-> conn'[v]]
  BY Zenon DEF ConnInv
<1>3. \A v \in Workers : Sound(env, conn'[v])
  BY <1>1, Zenon DEF ConnInv
<1> QED
  BY <1>2, <1>3, Zenon DEF ConnInv

\* A worker without a request is sound.
LEMMA BlankSound ==
  ASSUME NEW e PROVE Sound(e, Blank)
<1>1. Conn(Blank) /\ Blank.pc = "idle" /\ Blank.hook = 1
  BY Zenon DEF Conn, Blank
<1> QED
  BY <1>1 DEF Sound

\* A worker after the arrival of request q.
Arrived(e, q) ==
  LET p == route(e.site, q.host, q.path) IN
  [pc |-> "hook", req |-> q, place |-> p, hook |-> 1, ruled |-> <<>>, drained |-> FALSE,
   out |-> NoOutput(e.statuses, e.logging /\ p[2] # 0, q.method = "HEAD"),
   wanted |-> NoReply, ids |-> RequestIDs(q, e.statuses # {})]

\* The record of a worker, with its fields named.
Record(pc, req, place, hook, ruled, drained, out, wanted, ids) ==
  [pc |-> pc, req |-> req, place |-> place, hook |-> hook, ruled |-> ruled,
   drained |-> drained, out |-> out, wanted |-> wanted, ids |-> ids]

\* The fields of a worker whose request has just arrived.
LEMMA ArrivedFields ==
  ASSUME NEW q
  PROVE  LET p == route(env.site, q.host, q.path) IN
         [Blank EXCEPT !.pc = "hook", !.req = q, !.place = p,
              !.out = NoOutput(env.statuses, env.logging /\ p[2] # 0, q.method = "HEAD"),
              !.ids = RequestIDs(q, env.statuses # {})] = Arrived(env, q)
<1> DEFINE p == route(env.site, q.host, q.path)
           o == NoOutput(env.statuses, env.logging /\ p[2] # 0, q.method = "HEAD")
           n == NoOutput({}, FALSE, FALSE)
           ids == RequestIDs(q, env.statuses # {})
           none == [page |-> "", line |-> ""]
           idle == "idle"
           hook == "hook"
           nowhere == <<0, 0>>
           one == 1
           unruled == <<>>
           no == FALSE
           B(pc, req, place, out, id) ==
             Record(pc, req, place, one, unruled, no, out, NoReply, id)
<1>0. Blank = B(idle, NoRequest, nowhere, n, none)
  BY Zenon DEF Blank, Record
<1>6. Arrived(env, q) = B(hook, q, p, o, ids)
  BY Zenon DEF Arrived, Record
<1> HIDE DEF p, o, n, ids, none, idle, hook, nowhere, one, unruled, no
<1>1. [B(idle, NoRequest, nowhere, n, none) EXCEPT !.pc = hook]
        = B(hook, NoRequest, nowhere, n, none)
  BY DEF Record
<1>2. [B(hook, NoRequest, nowhere, n, none) EXCEPT !.req = q] = B(hook, q, nowhere, n, none)
  BY DEF Record
<1>3. [B(hook, q, nowhere, n, none) EXCEPT !.place = p] = B(hook, q, p, n, none)
  BY DEF Record
<1>4. [B(hook, q, p, n, none) EXCEPT !.out = o] = B(hook, q, p, o, none)
  BY DEF Record
<1>5. [B(hook, q, p, o, none) EXCEPT !.ids = ids] = B(hook, q, p, o, ids)
  BY DEF Record
<1> HIDE DEF B
<1>8. [Blank EXCEPT !.pc = hook, !.req = q, !.place = p, !.out = o, !.ids = ids]
        = Arrived(env, q)
  <2>1. [Blank EXCEPT !.pc = hook] = B(hook, NoRequest, nowhere, n, none)
    BY <1>0, <1>1, Zenon
  <2>2. [[Blank EXCEPT !.pc = hook] EXCEPT !.req = q] = B(hook, q, nowhere, n, none)
    BY <1>2, <2>1, Zenon
  <2>3. [[[Blank EXCEPT !.pc = hook] EXCEPT !.req = q] EXCEPT !.place = p]
          = B(hook, q, p, n, none)
    BY <1>3, <2>2, Zenon
  <2>4. [[[[Blank EXCEPT !.pc = hook] EXCEPT !.req = q] EXCEPT !.place = p] EXCEPT !.out = o]
          = B(hook, q, p, o, none)
    BY <1>4, <2>3, Zenon
  <2>5. [[[[[Blank EXCEPT !.pc = hook] EXCEPT !.req = q] EXCEPT !.place = p]
          EXCEPT !.out = o] EXCEPT !.ids = ids] = B(hook, q, p, o, ids)
    BY <1>5, <2>4, Zenon
  <2> QED
    BY <1>6, <2>5
<1> QED
  BY <1>8, Zenon DEF p, o, ids, hook

\* A worker that the firewall has looked at.
Inspected(c, i, drained) ==
  [pc |-> c.pc, req |-> c.req, place |-> c.place, hook |-> c.hook, ruled |-> <<i>>,
   drained |-> drained, out |-> c.out, wanted |-> c.wanted, ids |-> c.ids]

\* The fields of a worker whose firewall has decided.
LEMMA InspectedFields ==
  ASSUME NEW c, Conn(c), NEW i, NEW drained
  PROVE  [c EXCEPT !.ruled = <<i>>, !.drained = drained] = Inspected(c, i, drained)
<1> DEFINE B(ruled, read) ==
             [pc |-> c.pc, req |-> c.req, place |-> c.place, hook |-> c.hook, ruled |-> ruled,
              drained |-> read, out |-> c.out, wanted |-> c.wanted, ids |-> c.ids]
<1>0. c = B(c.ruled, c.drained)
  BY Zenon DEF Conn
<1>1. [B(c.ruled, c.drained) EXCEPT !.ruled = <<i>>] = B(<<i>>, c.drained)
  OBVIOUS
<1>2. [B(<<i>>, c.drained) EXCEPT !.drained = drained] = B(<<i>>, drained)
  OBVIOUS
<1>3. Inspected(c, i, drained) = B(<<i>>, drained)
  BY Zenon DEF Inspected
<1> HIDE DEF B
<1>4. [c EXCEPT !.ruled = <<i>>, !.drained = drained] =
        [[c EXCEPT !.ruled = <<i>>] EXCEPT !.drained = drained]
  BY Zenon
<1> QED
  BY <1>0, <1>1, <1>2, <1>3, <1>4, Zenon

\* Arrival makes the worker sound, whether or not the request has a location.
LEMMA ArrivedSound ==
  ASSUME NEW e, NEW q, q \in e.requests, e.logging \in BOOLEAN
  PROVE  LET a == Arrived(e, q) IN
         /\ Conn(a) /\ a.pc = "hook" /\ a.hook = 1
         /\ a.place[2] # 0 => Sound(e, a)
         /\ \A o, r : Sound(e, Done(a, o, r))
<1> DEFINE a == Arrived(e, q)
           p == route(e.site, q.host, q.path)
<1>1. a = [pc |-> "hook", req |-> q, place |-> p, hook |-> 1, ruled |-> <<>>, drained |-> FALSE,
           out |-> NoOutput(e.statuses, e.logging /\ p[2] # 0, q.method = "HEAD"),
           wanted |-> NoReply, ids |-> RequestIDs(q, e.statuses # {})]
  BY Zenon DEF Arrived
<1> HIDE DEF a, p
<1>2. Conn(a)
  BY <1>1, Zenon DEF Conn
<1>3. /\ a.pc = "hook" /\ a.hook = 1 /\ a.req = q /\ a.place = p /\ a.ruled = <<>>
      /\ a.ids = RequestIDs(q, e.statuses # {})
      /\ a.out = NoOutput(e.statuses, e.logging /\ p[2] # 0, q.method = "HEAD")
  BY <1>1, Zenon
<1>4. p[2] # 0 => (e.logging /\ p[2] # 0) = e.logging
  BY Zenon
<1>5. ASSUME p[2] # 0 PROVE Sound(e, a)
  <2>1. a.out = NoOutput(e.statuses, e.logging, q.method = "HEAD")
    BY <1>3, <1>4, <1>5, Zenon
  <2> QED
    BY <1>2, <1>3, <1>5, <2>1, SMTT(30) DEF Sound, p
<1>6. ASSUME NEW o, NEW r PROVE Sound(e, Done(a, o, r))
  <2> DEFINE d == Done(a, o, r)
  <2>1. d = [pc |-> "done", req |-> a.req, place |-> a.place, hook |-> a.hook,
             ruled |-> a.ruled, drained |-> a.drained, out |-> finish(o), wanted |-> r,
             ids |-> a.ids]
    BY <1>2, DoneFields, Zenon
  <2> HIDE DEF d
  <2>2. Conn(d)
    BY <2>1, Zenon DEF Conn
  <2>3. /\ d.pc = "done" /\ d.hook = 1 /\ d.req = q /\ d.place = p /\ d.ruled = <<>>
        /\ d.ids = RequestIDs(q, e.statuses # {})
    BY <1>3, <2>1, Zenon
  <2>4. Sound(e, d)
    BY <2>2, <2>3 DEF Sound, p
  <2> QED
    BY <2>4, Zenon DEF d
<1>7. a.place[2] # 0 => p[2] # 0
  BY <1>3
<1> QED
  BY <1>2, <1>3, <1>5, <1>6, <1>7, Zenon DEF a

\* So does the firewall's look at the request.
LEMMA InspectedSound ==
  ASSUME NEW e, NEW c, Sound(e, c), c.pc = "hook", NEW drained
  PROVE  LET d == Inspected(c, evaluate(PolicyFor(e, c), c.req), drained) IN
         Sound(e, d) /\ d.pc = "hook" /\ d.req = c.req /\ d.hook = c.hook /\ d.place = c.place
<1> DEFINE i == evaluate(PolicyFor(e, c), c.req)
           d == Inspected(c, i, drained)
<1>1. d = [pc |-> c.pc, req |-> c.req, place |-> c.place, hook |-> c.hook, ruled |-> <<i>>,
           drained |-> drained, out |-> c.out, wanted |-> c.wanted, ids |-> c.ids]
  BY Zenon DEF Inspected
<1> HIDE DEF d
<1>2. Conn(d)
  BY <1>1, Zenon DEF Conn
<1>3. /\ d.pc = "hook" /\ d.hook = c.hook /\ d.req = c.req /\ d.place = c.place
      /\ d.ruled = <<i>> /\ d.ids = c.ids /\ d.out = c.out
  BY <1>1, Zenon
<1>4. PolicyFor(e, d) = PolicyFor(e, c)
  BY <1>3, Zenon DEF PolicyFor
<1>5. Sound(e, d)
  BY <1>2, <1>3, <1>4, Zenon DEF Sound
<1> QED
  BY <1>3, <1>5, Zenon DEF d

-----------------------------------------------------------------------------
(* The workers and the buckets *)

\* A worker that runs a hook has a location of the site.
LEMMA ServingFacts ==
  ASSUME ConnInv, NEW w \in Workers, conn[w].pc \in {"hook", "serve"}
  PROVE  /\ IsEnvironment(env) /\ IsSite(env.site)
         /\ conn[w].req \in env.requests
         /\ conn[w].place \in Locations(env.site)
         /\ conn[w].place = <<conn[w].place[1], conn[w].place[2]>>
         /\ IsLocation(Location(conn[w]))
<1>1. IsEnvironment(env) /\ IsSite(env.site)
  BY RequestPathAssumption DEF ConnInv, IsEnvironment
<1>2. /\ conn[w].req \in env.requests /\ conn[w].place[2] # 0
      /\ conn[w].place = route(env.site, conn[w].req.host, conn[w].req.path)
  BY Zenon DEF ConnInv, Sound
<1>3. conn[w].place \in Locations(env.site)
  BY <1>1, <1>2, RouteFacts
<1> QED
  BY <1>1, <1>2, <1>3, LocationFacts, Zenon DEF Location, TargetOf

\* The plugin's bucket is one of the keys, always used with the plugin's parameters.
LEMMA RateLimitKeyFacts ==
  ASSUME ConnInv, NEW w \in Workers, conn[w].pc \in {"hook", "serve"}, Limited
  PROVE  LET k == RateLimitKey(conn[w]) IN
         k \in Keys /\ k[1] = "ratelimit" /\ PluginParams \in Params[k]
<1> DEFINE c == conn[w]
           k == RateLimitKey(c)
<1>1. /\ IsEnvironment(env) /\ c.req \in env.requests /\ c.place \in Locations(env.site)
  BY ServingFacts, Zenon
<1>2. PICK i \in DOMAIN env.hooks : env.hooks[i] = "ratelimit"
  BY Zenon DEF Limited
<1>3. k = <<"ratelimit", env.site.targets[c.place[1]].name, c.req.remote>>
  BY Zenon DEF RateLimitKey, TargetOf
<1> HIDE DEF c, k
<1>4. k \in Keys
  BY <1>1, <1>2, <1>3, Zenon DEF IsEnvironment, IsMetered
<1>5. k[1] = "ratelimit"
  BY <1>3, Zenon
<1>6. PluginParams \in Params[k]
  BY <1>4, <1>5, RequestPathAssumption, Zenon
<1> QED
  BY <1>4, <1>5, <1>6, Zenon DEF k, c

\* So is the bucket of a rule that limits.
LEMMA RuleKeyFacts ==
  ASSUME ConnInv, NEW w \in Workers, Runs(w, "waf"),
         NEW policy, policy = PolicyFor(env, conn[w]),
         NEW i, i = evaluate(policy, conn[w].req), i # 0,
         Action(policy[i]) = "ratelimit"
  PROVE  LET k == <<"waf", policy[i].id, clientIP(conn[w].req)>> IN
         k \in Keys /\ [rate |-> policy[i].rps, burst |-> policy[i].burst] \in Params[k]
<1> DEFINE c == conn[w]
           k == <<"waf", policy[i].id, clientIP(c.req)>>
<1>1. c.pc = "hook" /\ c.hook \in DOMAIN env.hooks /\ env.hooks[c.hook] = "waf"
  BY Zenon DEF Runs
<1>2. IsEnvironment(env) /\ IsSite(env.site) /\ c.req \in env.requests
  BY <1>1, ServingFacts, Zenon
<1> DEFINE name == env.site.targets[c.place[1]].name
           path == env.site.targets[c.place[1]].locations[c.place[2]].path
<1>3. policy = Policy(env.site, name, path)
  BY Zenon DEF PolicyFor
<1> HIDE DEF name, path
<1>4. IsSeq(policy)
  BY <1>2, <1>3, PolicyType, Zenon
<1>5. i \in DOMAIN policy
  BY <1>4, EvaluateFacts, Zenon
<1>6. policy # <<>>
  BY <1>5
<1>7. PICK p \in Locations(env.site) : policy = env.site.targets[p[1]].locations[p[2]].waf.rules
  BY <1>2, <1>3, <1>6, PolicyType, Zenon
<1> HIDE DEF c
<1>8. /\ k \in Keys
      /\ [rate |-> policy[i].rps, burst |-> policy[i].burst] \in Params[k]
  BY <1>1, <1>2, <1>5, <1>7 DEF IsEnvironment, IsMetered
<1> QED
  BY <1>8, Zenon DEF c

\* What the firewall's hook does to its worker: it passes, is refused, or is charged.
LEMMA FirewallFacts ==
  ASSUME ConnInv, NEW w \in Workers, FirewallHook(w)
  PROVE  \E c : \E code :
           /\ Sound(env, c) /\ c.pc = "hook" /\ c.req = conn[w].req
           /\ c.hook = conn[w].hook /\ c.place = conn[w].place
           /\ Runs(w, "waf")
           /\ Final(code) \/ conn' = [conn EXCEPT ![w] = Passed(c)]
           /\ \/ UNCHANGED limitVars /\ conn' = [conn EXCEPT ![w] = Passed(c)]
              \/ UNCHANGED limitVars /\ conn' = [conn EXCEPT ![w] = Refused(c, code)]
              \/ \E k \in Keys : \E p \in Params[k] :
                   k[1] = "waf" /\ Charge(w, c, k, p, code)
<1> DEFINE policy == Policy(env.site, TargetOf(conn[w]).name, Location(conn[w]).path)
           i == evaluate(policy, conn[w].req)
           c == [conn[w] EXCEPT !.ruled = <<i>>, !.drained = ReadsBody(policy)]
           action == IF i = 0 THEN "allow" ELSE Action(policy[i])
           code == BlockStatus(policy[i])
           k == <<"waf", policy[i].id, clientIP(c.req)>>
           p == [rate |-> policy[i].rps, burst |-> policy[i].burst]
<1>1. Runs(w, "waf")
  BY Zenon DEF FirewallHook
<1>2. \/ action = "allow" /\ conn' = [conn EXCEPT ![w] = Passed(c)] /\ UNCHANGED limitVars
      \/ action = "deny" /\ conn' = [conn EXCEPT ![w] = Refused(c, code)] /\ UNCHANGED limitVars
      \/ action = "ratelimit" /\ Charge(w, c, k, p, code)
  BY Zenon DEF FirewallHook
<1>3. policy = PolicyFor(env, conn[w])
  BY Zenon DEF PolicyFor, TargetOf, Location
<1>4. Sound(env, conn[w]) /\ conn[w].pc = "hook"
  BY <1>1, Zenon DEF ConnInv, Runs
<1>5. c = Inspected(conn[w], i, ReadsBody(policy))
  <2>1. Conn(conn[w])
    BY <1>4, Zenon DEF Sound
  <2>2. \A j, read : [conn[w] EXCEPT !.ruled = <<j>>, !.drained = read] = Inspected(conn[w], j, read)
    BY <2>1, InspectedFields, Zenon
  <2> QED
    BY <2>2, Zenon
<1>6. /\ Sound(env, c) /\ c.pc = "hook" /\ c.req = conn[w].req
      /\ c.hook = conn[w].hook /\ c.place = conn[w].place
  BY <1>3, <1>4, <1>5, InspectedSound, SMTT(30)
<1>7. action = "ratelimit" => i # 0 /\ Action(policy[i]) = "ratelimit"
  BY Zenon
<1>10. action # "allow" => i # 0
  BY Zenon
<1>11. IsSeq(policy) /\ \A j \in DOMAIN policy : IsRule(policy[j])
  <2>1. IsSite(env.site)
    BY RequestPathAssumption, Zenon DEF ConnInv, IsEnvironment
  <2> QED
    BY <2>1, PolicyType, Zenon
<1> HIDE DEF policy, i, c, action
<1>12. action # "allow" => Final(code)
  <2>1. action # "allow" => policy[i].code = 0 \/ Final(policy[i].code)
    BY <1>10, <1>11, EvaluateFacts, Zenon DEF i, IsRule
  <2> QED
    BY <2>1 DEF BlockStatus, Final
<1>13. Final(code) \/ conn' = [conn EXCEPT ![w] = Passed(c)]
  <2>1. action = "deny" \/ action = "ratelimit" => action # "allow"
    BY Zenon
  <2> QED
    BY <1>2, <1>12, <2>1, Zenon
<1>8. action = "ratelimit" => k \in Keys /\ p \in Params[k]
  BY <1>1, <1>3, <1>6, <1>7, RuleKeyFacts, Zenon DEF i
<1>9. k[1] = "waf"
  BY Zenon
<1> HIDE DEF k, p, code
<1> QED
  BY <1>1, <1>2, <1>6, <1>8, <1>9, <1>13, SMTT(30)

\* What a charge does to its worker.
LEMMA ChargeFacts ==
  ASSUME NEW w, NEW c, NEW k, NEW p, NEW code, Charge(w, c, k, p, code)
  PROVE  /\ Allow(k, p)
         /\ conn' = [conn EXCEPT ![w] = Passed(c)] \/ conn' = [conn EXCEPT ![w] = Refused(c, code)]
BY Zenon DEF Charge

\* The invariant of the workers is inductive.
LEMMA ConnInductive ==
  ASSUME ConnInv, Next PROVE ConnInv'
<1>0. \A v \in Workers : Sound(env, conn[v])
  BY Zenon DEF ConnInv
<1>1. ASSUME NEW w \in Workers, NEW q \in env.requests, Arrive(w, q) PROVE ConnInv'
  <2> DEFINE p == route(env.site, q.host, q.path)
             a == Arrived(env, q)
  <2>1. env.logging \in BOOLEAN
    BY RequestPathAssumption, Zenon DEF ConnInv, IsEnvironment
  <2> DEFINE b == [Blank EXCEPT !.pc = "hook", !.req = q, !.place = p,
                     !.out = NoOutput(env.statuses, env.logging /\ p[2] # 0, q.method = "HEAD"),
                     !.ids = RequestIDs(q, env.statuses # {})]
  <2>5. b = a
    BY ArrivedFields, Zenon
  <2>6. /\ env' = env
        /\ conn' = [conn EXCEPT ![w] = IF p[2] # 0 THEN b ELSE Done(b, Reply(b.out, 404), Status(404))]
    BY <1>1, Zenon DEF Arrive
  <2> HIDE DEF b
  <2>2. /\ env' = env
        /\ conn' = [conn EXCEPT ![w] = IF p[2] # 0 THEN a ELSE Done(a, Reply(a.out, 404), Status(404))]
    BY <2>5, <2>6
  <2>3. a.place = p
    BY Zenon DEF Arrived
  <2>4. /\ a.place[2] # 0 => Sound(env, a)
        /\ \A o, r : Sound(env, Done(a, o, r))
    BY <2>1, ArrivedSound, Zenon
  <2> HIDE DEF p, a
  <2> DEFINE d == IF p[2] # 0 THEN a ELSE Done(a, Reply(a.out, 404), Status(404))
  <2>7. Sound(env, d)
    BY <2>3, <2>4
  <2>8. env' = env /\ conn' = [conn EXCEPT ![w] = d]
    BY <2>2, Zenon
  <2> HIDE DEF d
  <2> QED
    BY <2>7, <2>8, OneWorker, Zenon
<1>2. ASSUME NEW w \in Workers, NEW c, Sound(env, c), c.pc = "hook", env' = env, NEW code,
             \/ conn' = [conn EXCEPT ![w] = Passed(c)]
             \/ conn' = [conn EXCEPT ![w] = Refused(c, code)]
      PROVE  ConnInv'
  <2>1. Sound(env, Passed(c)) /\ Sound(env, Refused(c, code))
    BY <1>2, PassedSound, DoneSound, Zenon DEF Refused
  <2> QED
    BY <1>2, <2>1, OneWorker, Zenon
<1>3. ASSUME NEW w \in Workers, RateLimitHook(w) PROVE ConnInv'
  <2>1. conn[w].pc = "hook" /\ env' = env
    BY <1>3 DEF RateLimitHook, Runs
  <2>2. \/ conn' = [conn EXCEPT ![w] = Passed(conn[w])]
        \/ conn' = [conn EXCEPT ![w] = Refused(conn[w], 429)]
    BY <1>3, ChargeFacts DEF RateLimitHook
  <2> QED
    BY <1>0, <1>2, <2>1, <2>2, SMTT(30)
<1>4. ASSUME NEW w \in Workers, CORSHook(w) PROVE ConnInv'
  <2>1. conn[w].pc = "hook" /\ env' = env
    BY <1>4, Zenon DEF CORSHook, Runs
  <2>2. \/ conn' = [conn EXCEPT ![w] = Passed(conn[w])]
        \/ conn' = [conn EXCEPT ![w] = Done(conn[w], WriteHeader(conn[w].out, 204), Status(204))]
    BY <1>4, Zenon DEF CORSHook
  <2>3. /\ Sound(env, Passed(conn[w]))
        /\ Sound(env, Done(conn[w], WriteHeader(conn[w].out, 204), Status(204)))
    BY <1>0, <2>1, PassedSound, DoneSound, SMTT(30)
  <2> QED
    BY <2>1, <2>2, <2>3, OneWorker, SMTT(30)
<1>5. ASSUME NEW w \in Workers, FirewallHook(w) PROVE ConnInv'
  <2>1. env' = env
    BY <1>5, Zenon DEF FirewallHook
  <2>2. PICK c, code :
           /\ Sound(env, c) /\ c.pc = "hook"
           /\ \/ conn' = [conn EXCEPT ![w] = Passed(c)]
              \/ conn' = [conn EXCEPT ![w] = Refused(c, code)]
    BY <1>5, FirewallFacts, ChargeFacts, SMTT(30)
  <2> QED
    BY <1>2, <2>1, <2>2, Zenon
<1>6. ASSUME NEW w \in Workers, HooksDone(w) PROVE ConnInv'
  <2> DEFINE c == conn[w]
             d == [c EXCEPT !.pc = "serve"]
  <2>1. env' = env /\ c.pc = "hook" /\ conn' = [conn EXCEPT ![w] = d]
    BY <1>6, Zenon DEF HooksDone
  <2>2. d = [pc |-> "serve", req |-> c.req, place |-> c.place, hook |-> c.hook,
             ruled |-> c.ruled, drained |-> c.drained, out |-> c.out, wanted |-> c.wanted,
             ids |-> c.ids]
    <3>1. Conn(c)
      BY <1>0, Zenon DEF Sound
    <3> HIDE DEF c
    <3> QED
      BY <3>1, SMTT(30) DEF Conn
  <2>3. Sound(env, c)
    BY <1>0, Zenon
  <2> HIDE DEF c, d
  <2>4. /\ d.pc = "serve" /\ d.hook = c.hook /\ d.req = c.req /\ d.place = c.place
        /\ d.ids = c.ids /\ d.ruled = c.ruled /\ d.out = c.out
    BY <2>2, Zenon
  <2>5. Conn(d) /\ PolicyFor(env, d) = PolicyFor(env, c)
    BY <2>2, Zenon DEF Conn, PolicyFor
  <2>6. Sound(env, d)
    BY <2>1, <2>3, <2>4, <2>5, Zenon DEF Sound
  <2> QED
    BY <2>1, <2>6, OneWorker, Zenon
<1>7. ASSUME NEW w \in Workers, NEW o, NEW r, Answer(w, o, r) PROVE ConnInv'
  <2>1. env' = env /\ conn[w].pc = "serve" /\ conn' = [conn EXCEPT ![w] = Done(conn[w], o, r)]
    BY <1>7, Zenon DEF Answer
  <2>2. Sound(env, Done(conn[w], o, r))
    BY <1>0, <2>1, DoneSound, Zenon
  <2> QED
    BY <2>1, <2>2, OneWorker, Zenon
<1>8. ASSUME NEW w \in Workers, Leave(w) PROVE ConnInv'
  BY <1>8, BlankSound, OneWorker, Zenon DEF Leave
<1>9. CASE Wait
  BY <1>9 DEF Wait, ConnInv
<1> QED
  BY <1>1, <1>3, <1>4, <1>5, <1>6, <1>7, <1>8, <1>9, SMTT(30) DEF Next, ServePreflight,
    ServeRedirect, ServeUpstream, ServeFails, Forward

\* What a step does to the buckets is a step of the registry.
LEMMA LimitSteps ==
  ASSUME ConnInv, Next PROVE [LimitNext]_limitVars
<1>1. ASSUME NEW w \in Workers, RateLimitHook(w) PROVE LimitNext
  <2>1. conn[w].pc = "hook" /\ Limited /\ Allow(RateLimitKey(conn[w]), PluginParams)
    BY <1>1, ChargeFacts DEF RateLimitHook, Runs, Limited
  <2>2. RateLimitKey(conn[w]) \in Keys /\ PluginParams \in Params[RateLimitKey(conn[w])]
    BY <2>1, RateLimitKeyFacts, Zenon
  <2> QED
    BY <2>1, <2>2, Zenon DEF LimitNext
<1>2. ASSUME NEW w \in Workers, FirewallHook(w) PROVE [LimitNext]_limitVars
  BY <1>2, FirewallFacts, ChargeFacts, SMTT(30) DEF LimitNext
<1>3. CASE Wait
  BY <1>3 DEF Wait, LimitNext
<1>4. ASSUME NEW w \in Workers,
             \/ \E q \in env.requests : Arrive(w, q)
             \/ CORSHook(w) \/ HooksDone(w)
             \/ ServePreflight(w) \/ ServeRedirect(w) \/ ServeUpstream(w) \/ ServeFails(w)
             \/ Leave(w)
      PROVE  UNCHANGED limitVars
  BY <1>4, Zenon DEF Arrive, CORSHook, HooksDone, ServePreflight, ServeRedirect, ServeUpstream,
    ServeFails, Forward, Answer, Leave
<1> QED
  BY <1>1, <1>2, <1>3, <1>4, Zenon DEF Next

\* ConnInv is an invariant: no step of a worker, of the clock or of the sweeper breaks it.
LEMMA ConnAlways == Spec => []ConnInv
<1>1. Init => ConnInv
  <2> SUFFICES ASSUME Init PROVE ConnInv
    BY Zenon
  <2>1. /\ env \in Environments
        /\ conn = [w \in Workers |-> Blank]
    BY Zenon DEF Init
  <2>2. \A w \in Workers : conn[w] = Blank
    BY <2>1
  <2>3. conn = [w \in Workers |-> conn[w]]
    BY <2>1
  <2> QED
    BY <2>1, <2>2, <2>3, BlankSound, Zenon DEF ConnInv
<1>2. ConnInv /\ [Next]_vars => ConnInv'
  <2>1. ConnInv /\ UNCHANGED vars => ConnInv'
    BY Zenon DEF vars, ConnInv
  <2> QED
    BY <2>1, ConnInductive, Zenon
<1> QED
  BY <1>1, <1>2, PTL DEF Spec

\* Requests use the registry only with known buckets and their parameters: what a run
\* of the request path does to the buckets is a run of the registry.
THEOREM RequestsUseRegistry == Spec => LimitSpec
<1>1. Init => LimitInit
  BY DEF Init
<1>2. ConnInv /\ [Next]_vars => [LimitNext]_limitVars
  <2>1. UNCHANGED vars => UNCHANGED limitVars
    BY Zenon DEF vars
  <2> QED
    BY <2>1, LimitSteps, Zenon
<1> QED
  BY <1>1, <1>2, ConnAlways, PTL DEF Spec, LimitSpec

\* So the buckets of the two plugins keep the promise of a token bucket, with the
\* requests, the hooks and the firewall's rules that use them.
THEOREM RequestBuckets == Spec => BucketsImplemented
BY RequestsUseRegistry, RegistryIsTokenBucket, PTL
=============================================================================
