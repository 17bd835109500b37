------------------------ MODULE RequestDecisionProofs -----------------------
(***************************************************************************)
(* What is decided about a request, with any number of workers, in any     *)
(* environment: peers stay within their budgets, the location is the most  *)
(* specific one, and the firewall's index decides as its rules do one by   *)
(* one.                                                                    *)
(***************************************************************************)
EXTENDS RequestPathProofs

-----------------------------------------------------------------------------
(* The budget of a peer *)

\* The worker has passed the ratelimit hook with a token of k and is still in the hooks.
Owes(e, c, k) ==
  /\ c.pc = "hook"
  /\ \E i \in DOMAIN e.hooks : i < c.hook /\ e.hooks[i] = "ratelimit"
  /\ k = <<"ratelimit", e.site.targets[c.place[1]].name, c.req.remote>>

\* The workers that have taken a token of k and are not counted yet.
Pending(k) == {w \in Workers : Owes(env, conn[w], k)}

\* What a bucket of the plugin can have given out by now.
Budget == Effective(PluginParams).burst + clock * Effective(PluginParams).rate

\* Tokens are in the bucket, with a request on its way through the hooks, or spent.
BudgetInv ==
  /\ admitted = [k \in Keys |-> admitted[k]]
  /\ \A k \in Keys :
       /\ admitted[k] \in Nat
       /\ k[1] = "ratelimit" => admitted[k] + Cardinality(Pending(k)) + Level[k] <= Budget
       /\ k[1] # "ratelimit" => admitted[k] = 0

\* The keys of the ratelimit plugin are steady, with the parameters of the plugin.
LEMMA PluginKey ==
  ASSUME NEW k \in Keys, k[1] = "ratelimit"
  PROVE  /\ k \in Steady
         /\ ParamsOf(k) = Effective(PluginParams)
<1>1. Params[k] = {PluginParams}
  BY RequestPathAssumption
<1>2. k \in Steady
  BY <1>1, Zenon DEF Steady
<1> QED
  BY <1>1, <1>2, Zenon DEF ParamsOf

\* The budget is a number.
LEMMA BudgetType ==
  ASSUME clock \in Nat
  PROVE  /\ Effective(PluginParams).burst \in Nat
         /\ Effective(PluginParams).rate \in Nat
         /\ clock * Effective(PluginParams).rate \in Nat
         /\ Budget \in Nat
<1>1. Effective(PluginParams).burst \in Nat /\ Effective(PluginParams).rate \in Nat
  BY RateLimitAssumption, RequestPathAssumption, Zenon DEF Effective, IsParams
<1>2. clock * Effective(PluginParams).rate \in Nat
  BY <1>1, OneMore, Zenon
<1> QED
  BY <1>1, <1>2 DEF Budget

\* The pending workers are finitely many.
LEMMA PendingType ==
  ASSUME NEW k
  PROVE  IsFiniteSet(Pending(k)) /\ Cardinality(Pending(k)) \in Nat
<1>1. Pending(k) \subseteq Workers
  BY Zenon DEF Pending
<1>2. IsFiniteSet(Workers)
  BY RequestPathAssumption
<1>3. IsFiniteSet(Pending(k))
  BY <1>1, <1>2, FS_Subset, Zenon
<1> QED
  BY <1>3, FS_CardinalityType, Zenon

\* A step of one worker moves that worker only.
LEMMA PendingStep ==
  ASSUME ConnInv, env' = env, NEW w \in Workers, NEW d, conn' = [conn EXCEPT ![w] = d], NEW k
  PROVE  /\ IsFiniteSet(Pending(k)') /\ Cardinality(Pending(k)') \in Nat
         /\ Cardinality(Pending(k)') <= Cardinality(Pending(k)) + 1
         /\ (Owes(env, d, k) => Owes(env, conn[w], k)) =>
               Cardinality(Pending(k)') <= Cardinality(Pending(k))
         /\ ~ Owes(env, d, k) /\ Owes(env, conn[w], k) =>
               Cardinality(Pending(k)') = Cardinality(Pending(k)) - 1
<1> DEFINE P == Pending(k)
           Q == Pending(k)'
<1>1. \A v \in Workers : conn'[v] = IF v = w THEN d ELSE conn[v]
  BY Zenon DEF ConnInv
<1>2. Q = {v \in Workers : Owes(env, conn'[v], k)}
  BY Zenon DEF Pending, Owes
<1>3. P = {v \in Workers : Owes(env, conn[v], k)}
  BY Zenon DEF Pending
<1>4. IsFiniteSet(P) /\ Cardinality(P) \in Nat
  BY PendingType
<1> HIDE DEF P, Q
<1>5. Q \subseteq P \cup {w}
  BY <1>1, <1>2, <1>3, Zenon
<1>6. IsFiniteSet(P \cup {w})
  BY <1>4, FS_AddElement, Zenon
<1>7. IsFiniteSet(Q) /\ Cardinality(Q) <= Cardinality(P \cup {w})
  BY <1>5, <1>6, FS_Subset, Zenon
<1>8. Cardinality(P \cup {w}) = IF w \in P THEN Cardinality(P) ELSE Cardinality(P) + 1
  BY <1>4, FS_AddElement, Zenon
<1>9. Cardinality(Q) \in Nat
  BY <1>7, FS_CardinalityType, Zenon
<1>10. Cardinality(Q) <= Cardinality(P) + 1
  BY <1>4, <1>7, <1>8, <1>9, SMTT(30)
<1>11. ASSUME Owes(env, d, k) => Owes(env, conn[w], k)
       PROVE  Cardinality(Q) <= Cardinality(P)
  <2>1. Q \subseteq P
    BY <1>1, <1>2, <1>3, <1>11, Zenon
  <2> QED
    BY <1>4, <2>1, FS_Subset, Zenon
<1>12. ASSUME ~ Owes(env, d, k), Owes(env, conn[w], k)
       PROVE  Cardinality(Q) = Cardinality(P) - 1
  <2>1. Q = P \ {w} /\ w \in P
    BY <1>1, <1>2, <1>3, <1>12, Zenon
  <2> QED
    BY <1>4, <2>1, FS_RemoveElement, Zenon
<1> QED
  BY <1>7, <1>9, <1>10, <1>11, <1>12, Zenon DEF P, Q

\* A step that leaves the buckets and what was admitted, and charges nobody.
LEMMA BudgetKept ==
  ASSUME ConnInv, LimitTypeOK, BudgetInv, env' = env, NEW w \in Workers, NEW d,
         conn' = [conn EXCEPT ![w] = d], admitted' = admitted, clock' = clock,
         \A k \in Keys : k[1] = "ratelimit" =>
           /\ Level'[k] = Level[k]
           /\ Owes(env, d, k) => Owes(env, conn[w], k)
  PROVE  BudgetInv'
<1>1. clock \in Nat
  BY Zenon DEF LimitTypeOK
<1>2. ASSUME NEW k \in Keys, k[1] = "ratelimit"
      PROVE  admitted'[k] + Cardinality(Pending(k)') + Level'[k] <= Budget'
  <2>1. /\ Cardinality(Pending(k)') \in Nat
        /\ Cardinality(Pending(k)') <= Cardinality(Pending(k))
    BY <1>2, PendingStep, Zenon
  <2>2. Cardinality(Pending(k)) \in Nat
    BY PendingType, Zenon
  <2>3. Level[k] \in Nat /\ Level'[k] = Level[k]
    BY <1>2, PluginKey, LevelIsBucket, Zenon
  <2>4. admitted[k] \in Nat /\ admitted[k] + Cardinality(Pending(k)) + Level[k] <= Budget
    BY <1>2, Zenon DEF BudgetInv
  <2>5. Budget' = Budget /\ Budget \in Nat
    BY <1>1, BudgetType, Zenon DEF Budget
  <2> QED
    BY <2>1, <2>2, <2>3, <2>4, <2>5, SMTT(30)
<1> QED
  BY <1>2, Zenon DEF BudgetInv

\* A step that leaves the limiters alone leaves the levels alone.
LEMMA LevelKept ==
  ASSUME UNCHANGED limitVars PROVE Level' = Level /\ clock' = clock
BY DEF limitVars, Level, TokensAt, Fewer

\* Who answers, leaves or has just come owes nothing.
LEMMA OwesNothing ==
  ASSUME NEW e, IsSeq(e.hooks), NEW c, c.pc # "hook" \/ c.hook = 1, NEW k
  PROVE  ~ Owes(e, c, k)
BY DEF Owes, IsSeq

\* A worker that has answered owes nothing.
LEMMA DoneOwesNothing ==
  ASSUME NEW e, NEW c, Conn(c), NEW o, NEW r, NEW k
  PROVE  ~ Owes(e, Done(c, o, r), k)
<1>1. Done(c, o, r).pc = "done"
  BY DoneFields
<1> QED
  BY <1>1 DEF Owes

\* A hook that is not the rate limit passes its debts on.
LEMMA PassedOwes ==
  ASSUME NEW e, IsSeq(e.hooks), NEW c, Conn(c), c.hook \in Nat \ {0},
         c.hook \in DOMAIN e.hooks, e.hooks[c.hook] # "ratelimit", NEW k
  PROVE  Owes(e, Passed(c), k) => Owes(e, c, k)
<1> DEFINE d == Passed(c)
<1>1. /\ d.pc = c.pc /\ d.hook = c.hook + 1 /\ d.req = c.req /\ d.place = c.place
  BY PassedFields
<1> HIDE DEF d
<1>2. ASSUME NEW i \in DOMAIN e.hooks, i < c.hook + 1, e.hooks[i] = "ratelimit"
      PROVE  i < c.hook
  <2>1. i \in Int /\ i # c.hook
    BY <1>2 DEF IsSeq
  <2> QED
    BY <1>2, <2>1
<1>3. Owes(e, d, k) => Owes(e, c, k)
  BY <1>1, <1>2, Zenon DEF Owes
<1> QED
  BY <1>3, Zenon DEF d

\* The hooks of the environment.
LEMMA HookFacts ==
  ASSUME ConnInv
  PROVE  /\ IsSeq(env.hooks)
         /\ \A i, j \in DOMAIN env.hooks : env.hooks[i] = env.hooks[j] => i = j
         /\ \A w \in Workers : Conn(conn[w]) /\ conn[w].hook \in Nat \ {0}
<1>1. IsEnvironment(env)
  BY RequestPathAssumption, Zenon DEF ConnInv
<1> QED
  BY <1>1, Zenon DEF IsEnvironment, ConnInv, Sound

\* A worker that spends a token of its bucket owes it to the budget, and had no debt.
LEMMA ChargedOwes ==
  ASSUME ConnInv, NEW w \in Workers, Runs(w, "ratelimit"), NEW k
  PROVE  /\ ~ Owes(env, conn[w], k)
         /\ Owes(env, Passed(conn[w]), k) => k = RateLimitKey(conn[w])
<1> DEFINE c == conn[w]
           d == Passed(c)
<1>1. /\ IsSeq(env.hooks) /\ Conn(c) /\ c.hook \in Nat \ {0}
      /\ \A i, j \in DOMAIN env.hooks : env.hooks[i] = env.hooks[j] => i = j
  BY HookFacts, Zenon
<1>2. c.hook \in DOMAIN env.hooks /\ env.hooks[c.hook] = "ratelimit"
  BY Zenon DEF Runs
<1>3. /\ d.pc = c.pc /\ d.hook = c.hook + 1 /\ d.req = c.req /\ d.place = c.place
  BY <1>1, PassedFields
<1> HIDE DEF c, d
<1>4. ~ (c.hook < c.hook)
  BY <1>1
<1>5. ~ Owes(env, c, k)
  BY <1>1, <1>2, <1>4, Zenon DEF Owes
<1>6. Owes(env, d, k) => k = RateLimitKey(c)
  BY <1>3, Zenon DEF Owes, RateLimitKey, TargetOf
<1> QED
  BY <1>5, <1>6, Zenon DEF c, d

\* The plugin's hook takes a token for the debt it makes.
LEMMA BudgetCharge ==
  ASSUME ConnInv, LimitTypeOK, LimitTypeOK', BudgetInv, NEW w \in Workers, RateLimitHook(w)
  PROVE  BudgetInv'
<1> DEFINE c == conn[w]
           h == RateLimitKey(c)
<1>1. /\ Runs(w, "ratelimit") /\ Limited /\ c.pc = "hook"
      /\ env' = env /\ admitted' = admitted
      /\ Allow(h, PluginParams)
      /\ conn' = [conn EXCEPT ![w] = IF answer'[h] = "yes" THEN Passed(c) ELSE Refused(c, 429)]
  BY Zenon DEF RateLimitHook, Charge, Runs, Limited
<1>2. h \in Keys /\ h[1] = "ratelimit" /\ PluginParams \in Params[h]
  BY <1>1, RateLimitKeyFacts, Zenon
<1>3. h \in Steady /\ ParamsOf(h) = Effective(PluginParams)
  BY <1>2, PluginKey, Zenon
<1>4. Conn(c)
  BY HookFacts, Zenon
<1> HIDE DEF c, h
<1>5. clock' = clock /\ clock \in Nat
  BY <1>1, Zenon DEF Allow, LimitTypeOK
<1>6. answer'[h] = IF Level[h] >= 1 THEN "yes" ELSE "no"
  <2>1. answer' = [answer EXCEPT ![h] = IF TokensAt(Bucket(h, Effective(PluginParams)), clock) >= 1
                                        THEN "yes" ELSE "no"]
    BY <1>1, Zenon DEF Allow
  <2>2. DOMAIN answer = Keys
    BY Zenon DEF LimitTypeOK
  <2>3. Level[h] = TokensAt(Bucket(h, Effective(PluginParams)), clock)
    BY <1>3, LevelIsBucket, Zenon
  <2> QED
    BY <1>2, <2>1, <2>2, <2>3, Zenon
<1>7. \A j \in Steady : Level'[j] = IF j = h /\ Level[j] >= 1 THEN Level[j] - 1 ELSE Level[j]
  BY <1>1, <1>2, LevelAllow, Zenon
<1> DEFINE d == IF answer'[h] = "yes" THEN Passed(c) ELSE Refused(c, 429)
<1>8. ASSUME NEW k
      PROVE  Owes(env, d, k) => k = h /\ answer'[h] = "yes"
  <2>1. ~ Owes(env, Refused(c, 429), k)
    <3>1. \A o, r : ~ Owes(env, Done(c, o, r), k)
      BY <1>4, DoneOwesNothing, Zenon
    <3> QED
      BY <3>1 DEF Refused
  <2>2. Owes(env, Passed(c), k) => k = h
    BY <1>1, ChargedOwes, Zenon DEF c, h
  <2> QED
    BY <2>1, <2>2
<1>9. conn' = [conn EXCEPT ![w] = d]
  BY <1>1, Zenon
<1> HIDE DEF d
<1>10. ASSUME NEW k \in Keys, k[1] = "ratelimit"
       PROVE  admitted'[k] + Cardinality(Pending(k)') + Level'[k] <= Budget'
  <2>1. k \in Steady
    BY <1>10, PluginKey, Zenon
  <2>2. Level[k] \in Nat
    BY <2>1, LevelIsBucket, Zenon
  <2>3. Cardinality(Pending(k)) \in Nat
    BY PendingType, Zenon
  <2>4. /\ Cardinality(Pending(k)') \in Nat
        /\ Cardinality(Pending(k)') <= Cardinality(Pending(k)) + 1
        /\ (Owes(env, d, k) => Owes(env, conn[w], k)) =>
              Cardinality(Pending(k)') <= Cardinality(Pending(k))
    BY <1>1, <1>9, PendingStep, ZenonT(40)
  <2>5. admitted[k] \in Nat /\ admitted[k] + Cardinality(Pending(k)) + Level[k] <= Budget
    BY <1>10, Zenon DEF BudgetInv
  <2>6. Budget' = Budget /\ Budget \in Nat
    BY <1>5, BudgetType DEF Budget
  <2>7. admitted'[k] = admitted[k]
    BY <1>1, Zenon
  <2>8. CASE k = h /\ Level[k] >= 1
    <3>1. Level'[k] = Level[k] - 1
      BY <1>7, <2>1, <2>8, Zenon
    <3> QED
      BY <2>2, <2>3, <2>4, <2>5, <2>6, <2>7, <2>8, <3>1, SMTT(30)
  <2>9. CASE ~ (k = h /\ Level[k] >= 1)
    <3>1. Level'[k] = Level[k]
      BY <1>7, <2>1, <2>9, Zenon
    <3>2. ~ Owes(env, d, k)
      BY <1>6, <1>8, <2>9, Zenon
    <3>3. Cardinality(Pending(k)') <= Cardinality(Pending(k))
      BY <2>4, <3>2, Zenon
    <3> QED
      BY <2>2, <2>3, <2>4, <2>5, <2>6, <2>7, <3>1, <3>3, SMTT(30)
  <2> QED
    BY <2>8, <2>9, Zenon
<1> QED
  BY <1>1, <1>10, Zenon DEF BudgetInv

\* The request is let through: its debt is paid.
LEMMA BudgetSpent ==
  ASSUME ConnInv, LimitTypeOK, BudgetInv, NEW w \in Workers, HooksDone(w)
  PROVE  BudgetInv'
<1> DEFINE c == conn[w]
           d == [c EXCEPT !.pc = "serve"]
           h == <<"ratelimit", TargetOf(c).name, c.req.remote>>
<1>1. /\ env' = env /\ c.pc = "hook" /\ c.hook > Len(env.hooks)
      /\ conn' = [conn EXCEPT ![w] = d] /\ UNCHANGED limitVars
      /\ admitted' = IF Limited THEN [admitted EXCEPT ![h] = @ + 1] ELSE admitted
  BY Zenon DEF HooksDone
<1>2. Level' = Level /\ clock' = clock /\ clock \in Nat
  BY <1>1, LevelKept, Zenon DEF LimitTypeOK
<1>3. IsSeq(env.hooks) /\ Conn(c) /\ c.hook \in Nat
  BY HookFacts, Zenon
<1>4. d.pc = "serve"
  <2> HIDE DEF c
  <2> QED
    BY <1>3, Zenon DEF Conn
<1>5. ASSUME NEW k PROVE ~ Owes(env, d, k)
  BY <1>4, Zenon DEF Owes
<1>6. ASSUME Limited PROVE Owes(env, c, h) /\ h \in Keys /\ h[1] = "ratelimit"
  <2>1. PICK i \in DOMAIN env.hooks : env.hooks[i] = "ratelimit"
    BY <1>6, Zenon DEF Limited
  <2>2. i < c.hook
    BY <1>1, <1>3, <2>1, SMTT(30) DEF IsSeq
  <2>3. h = <<"ratelimit", env.site.targets[c.place[1]].name, c.req.remote>>
    BY Zenon DEF TargetOf
  <2>4. h = RateLimitKey(c)
    BY Zenon DEF RateLimitKey
  <2>5. h \in Keys /\ h[1] = "ratelimit"
    BY <1>1, <1>6, <2>4, RateLimitKeyFacts, Zenon
  <2> QED
    BY <1>1, <2>1, <2>2, <2>3, <2>5, Zenon DEF Owes
<1> HIDE DEF d, h
<1>7. ASSUME NEW k \in Keys
      PROVE  admitted'[k] = IF Limited /\ k = h THEN admitted[k] + 1 ELSE admitted[k]
  BY <1>1, <1>7, Zenon DEF BudgetInv
<1>8. ASSUME NEW k \in Keys, k[1] = "ratelimit"
      PROVE  admitted'[k] + Cardinality(Pending(k)') + Level'[k] <= Budget'
  <2>1. Level[k] \in Nat
    BY <1>8, PluginKey, LevelIsBucket, Zenon
  <2>2. Cardinality(Pending(k)) \in Nat
    BY PendingType, Zenon
  <2>3. /\ Cardinality(Pending(k)') \in Nat
        /\ Cardinality(Pending(k)') <= Cardinality(Pending(k))
        /\ Owes(env, c, k) => Cardinality(Pending(k)') = Cardinality(Pending(k)) - 1
    BY <1>1, <1>5, PendingStep, Zenon
  <2>4. admitted[k] \in Nat /\ admitted[k] + Cardinality(Pending(k)) + Level[k] <= Budget
    BY <1>8, Zenon DEF BudgetInv
  <2>5. Budget' = Budget /\ Budget \in Nat
    BY <1>2, BudgetType, Zenon DEF Budget
  <2>6. CASE Limited /\ k = h
    <3>1. admitted'[k] = admitted[k] + 1 /\ Cardinality(Pending(k)') = Cardinality(Pending(k)) - 1
      BY <1>6, <1>7, <2>3, <2>6, Zenon
    <3> QED
      BY <1>2, <2>1, <2>2, <2>4, <2>5, <3>1, SMTT(30)
  <2>7. CASE ~ (Limited /\ k = h)
    <3>1. admitted'[k] = admitted[k]
      BY <1>7, <2>7, Zenon
    <3> QED
      BY <1>2, <2>1, <2>2, <2>3, <2>4, <2>5, <3>1, SMTT(30)
  <2> QED
    BY <2>6, <2>7, Zenon
<1>9. ASSUME NEW k \in Keys
      PROVE  admitted'[k] \in Nat /\ (k[1] # "ratelimit" => admitted'[k] = 0)
  <2>1. admitted[k] \in Nat /\ (k[1] # "ratelimit" => admitted[k] = 0)
    BY DEF BudgetInv
  <2>2. k[1] # "ratelimit" => ~ (Limited /\ k = h)
    BY <1>6, Zenon
  <2> QED
    BY <1>7, <2>1, <2>2, SMTT(30)
<1>10. admitted' = [k \in Keys |-> admitted'[k]]
  BY <1>1, Zenon DEF BudgetInv
<1> QED
  BY <1>8, <1>9, <1>10, Zenon DEF BudgetInv

\* A tick adds no more to a bucket than to the budget.
LEMMA BudgetWait ==
  ASSUME LimitTypeOK, BudgetInv, Wait
  PROVE  BudgetInv'
<1>1. UNCHANGED <<env, conn, admitted>> /\ Tick /\ clock' = clock + 1 /\ clock \in Nat
  BY Zenon DEF Wait, Tick, LimitTypeOK
<1> DEFINE rate == Effective(PluginParams).rate
           burst == Effective(PluginParams).burst
<1>2. rate \in Nat /\ burst \in Nat /\ Budget \in Nat
  BY <1>1, BudgetType, Zenon
<1>3. Budget' = Budget + rate
  <2>1. (clock + 1) * rate = clock * rate + rate /\ clock * rate \in Nat
    BY <1>1, <1>2, OneMore, Zenon
  <2>2. Budget = burst + clock * rate /\ Budget' = burst + (clock + 1) * rate
    BY <1>1, Zenon DEF Budget
  <2> QED
    BY <1>2, <2>1, <2>2, SMTT(30)
<1>4. ASSUME NEW k \in Keys, k[1] = "ratelimit"
      PROVE  admitted'[k] + Cardinality(Pending(k)') + Level'[k] <= Budget'
  <2>1. k \in Steady /\ ParamsOf(k) = Effective(PluginParams)
    BY <1>4, PluginKey, Zenon
  <2>2. Level[k] \in Nat
    BY <2>1, LevelIsBucket
  <2>3. Level'[k] = Fewer(burst, Level[k] + rate)
    BY <1>1, <2>1, LevelTick, SMTT(30)
  <2>4. Level'[k] \in Nat /\ Level'[k] <= Level[k] + rate
    BY <1>2, <2>2, <2>3, SMTT(30) DEF Fewer
  <2>5. Pending(k)' = Pending(k)
    BY <1>1, Zenon DEF Pending
  <2>6. Cardinality(Pending(k)) \in Nat
    BY PendingType, Zenon
  <2>7. admitted[k] \in Nat /\ admitted[k] + Cardinality(Pending(k)) + Level[k] <= Budget
    BY <1>4, Zenon DEF BudgetInv
  <2>8. admitted'[k] = admitted[k]
    BY <1>1, Zenon
  <2> HIDE DEF rate, burst
  <2> QED
    BY <1>2, <1>3, <2>2, <2>4, <2>5, <2>6, <2>7, <2>8, SMTT(30)
<1> QED
  BY <1>1, <1>4, Zenon DEF BudgetInv

\* A hook of another kind makes no debt, whether it passes or answers.
LEMMA OtherHook ==
  ASSUME ConnInv, NEW w \in Workers, NEW c, Conn(c), NEW name, name # "ratelimit",
         Runs(w, name), c.pc = "hook", c.req = conn[w].req, c.hook = conn[w].hook,
         c.place = conn[w].place, NEW k
  PROVE  /\ Owes(env, Passed(c), k) => Owes(env, conn[w], k)
         /\ \A o, r : ~ Owes(env, Done(c, o, r), k)
<1>1. /\ IsSeq(env.hooks) /\ conn[w].hook \in Nat \ {0}
  BY HookFacts, Zenon
<1>2. /\ conn[w].pc = "hook" /\ c.hook \in DOMAIN env.hooks /\ env.hooks[c.hook] # "ratelimit"
  BY Zenon DEF Runs
<1>3. Owes(env, Passed(c), k) => Owes(env, c, k)
  BY <1>1, <1>2, PassedOwes, Zenon
<1>4. Owes(env, c, k) => Owes(env, conn[w], k)
  BY <1>2, Zenon DEF Owes
<1>5. \A o, r : ~ Owes(env, Done(c, o, r), k)
  BY DoneOwesNothing, Zenon
<1> QED
  BY <1>3, <1>4, <1>5, Zenon

\* A step of a worker that is not a charge and lets nothing through.
LEMMA BudgetQuiet ==
  ASSUME ConnInv, LimitTypeOK, BudgetInv, UNCHANGED <<env, admitted, limitVars>>,
         NEW w \in Workers, NEW d, conn' = [conn EXCEPT ![w] = d],
         \A k : Owes(env, d, k) => Owes(env, conn[w], k)
  PROVE  BudgetInv'
<1>1. env' = env /\ admitted' = admitted /\ UNCHANGED limitVars
  BY Zenon
<1>2. Level' = Level /\ clock' = clock
  BY <1>1, LevelKept, Zenon
<1> QED
  BY <1>1, <1>2, BudgetKept, Zenon

\* An arrival keeps the budget.
LEMMA BudgetArrive ==
  ASSUME ConnInv, LimitTypeOK, BudgetInv, NEW w \in Workers, NEW q \in env.requests, Arrive(w, q)
  PROVE  BudgetInv'
<1> DEFINE p == route(env.site, q.host, q.path)
           a == Arrived(env, q)
           b == [Blank EXCEPT !.pc = "hook", !.req = q, !.place = p,
                   !.out = NoOutput(env.statuses, env.logging /\ p[2] # 0, q.method = "HEAD"),
                   !.ids = RequestIDs(q, env.statuses # {})]
           d == IF p[2] # 0 THEN a ELSE Done(a, Reply(a.out, 404), Status(404))
<1>1. b = a
  BY ArrivedFields, Zenon
<1>2. /\ UNCHANGED <<env, admitted, limitVars>>
      /\ conn' = [conn EXCEPT ![w] = IF p[2] # 0 THEN b ELSE Done(b, Reply(b.out, 404), Status(404))]
  BY Zenon DEF Arrive
<1> HIDE DEF b
<1>3. conn' = [conn EXCEPT ![w] = d]
  BY <1>1, <1>2, Zenon
<1>4. Conn(a) /\ a.hook = 1
  <2>1. env.logging \in BOOLEAN
    BY RequestPathAssumption, Zenon DEF ConnInv, IsEnvironment
  <2> QED
    BY <2>1, ArrivedSound, Zenon
<1>5. IsSeq(env.hooks)
  BY HookFacts
<1> HIDE DEF p, a
<1>6. \A k : ~ Owes(env, a, k)
  BY <1>4, <1>5, OwesNothing, Zenon
<1>7. \A k, o, r : ~ Owes(env, Done(a, o, r), k)
  BY <1>4, DoneOwesNothing, Zenon
<1>8. \A k : ~ Owes(env, d, k)
  BY <1>6, <1>7, Zenon
<1> HIDE DEF d
<1> QED
  BY <1>2, <1>3, <1>8, BudgetQuiet, Zenon

\* The cors hook keeps the budget.
LEMMA BudgetCORS ==
  ASSUME ConnInv, LimitTypeOK, BudgetInv, NEW w \in Workers, CORSHook(w)
  PROVE  BudgetInv'
<1> DEFINE c == conn[w]
           end == Done(c, WriteHeader(c.out, 204), Status(204))
<1>1. /\ Runs(w, "cors") /\ UNCHANGED <<env, admitted, limitVars>> /\ c.pc = "hook"
      /\ conn' = [conn EXCEPT ![w] = Passed(c)] \/ conn' = [conn EXCEPT ![w] = end]
  BY Zenon DEF CORSHook, Runs
<1>2. Conn(c)
  BY HookFacts, Zenon
<1>3. \A k : Owes(env, Passed(c), k) => Owes(env, c, k)
  BY <1>1, <1>2, OtherHook, Zenon
<1>4. \A k : ~ Owes(env, end, k)
  BY <1>1, <1>2, OtherHook, SMTT(30)
<1> HIDE DEF end
<1> QED
  BY <1>1, <1>3, <1>4, BudgetQuiet, Zenon

\* The firewall charges its own buckets.
LEMMA BudgetFirewall ==
  ASSUME ConnInv, LimitTypeOK, LimitTypeOK', BudgetInv, NEW w \in Workers, FirewallHook(w)
  PROVE  BudgetInv'
<1>1. PICK c, code :
         /\ Sound(env, c) /\ c.pc = "hook" /\ c.req = conn[w].req
         /\ c.hook = conn[w].hook /\ c.place = conn[w].place
         /\ Runs(w, "waf")
         /\ Final(code) \/ conn' = [conn EXCEPT ![w] = Passed(c)]
         /\ \/ UNCHANGED limitVars /\ conn' = [conn EXCEPT ![w] = Passed(c)]
            \/ UNCHANGED limitVars /\ conn' = [conn EXCEPT ![w] = Refused(c, code)]
            \/ \E k \in Keys : \E p \in Params[k] :
                 k[1] = "waf" /\ Charge(w, c, k, p, code)
  BY FirewallFacts, Zenon
<1>2. env' = env /\ admitted' = admitted
  BY Zenon DEF FirewallHook
<1>3. Conn(c)
  BY <1>1, Zenon DEF Sound
<1>4. /\ \A k : Owes(env, Passed(c), k) => Owes(env, conn[w], k)
      /\ \A k, o, r : ~ Owes(env, Done(c, o, r), k)
  <2>1. "waf" # "ratelimit"
    BY Zenon
  <2> QED
    BY <1>1, <1>3, <2>1, OtherHook, Zenon
<1>5. PICK d : /\ conn' = [conn EXCEPT ![w] = d]
               /\ d = Passed(c) \/ d = Refused(c, code)
  <2>1. \/ conn' = [conn EXCEPT ![w] = Passed(c)]
        \/ conn' = [conn EXCEPT ![w] = Refused(c, code)]
    BY <1>1, ChargeFacts, SMTT(30)
  <2> QED
    BY <2>1, Zenon
<1>6. \A k : Owes(env, d, k) => Owes(env, conn[w], k)
  BY <1>4, <1>5, Zenon DEF Refused
<1>7. CASE UNCHANGED limitVars
  BY <1>2, <1>5, <1>6, <1>7, BudgetQuiet, Zenon
<1>8. ASSUME NEW h \in Keys, NEW p \in Params[h], h[1] = "waf", Charge(w, c, h, p, code)
      PROVE  BudgetInv'
  <2>1. Allow(h, p)
    BY <1>8, ChargeFacts, Zenon
  <2>0. clock' = clock
    BY <2>1, Zenon DEF Allow
  <2>2. \A j \in Steady : Level'[j] = IF j = h /\ Level[j] >= 1 THEN Level[j] - 1 ELSE Level[j]
    BY <1>8, <2>1, LevelAllow, Zenon
  <2>3. ASSUME NEW k \in Keys, k[1] = "ratelimit"
        PROVE  Level'[k] = Level[k]
    <3>1. k \in Steady
      BY <2>3, PluginKey, Zenon
    <3>2. k # h
      BY <1>8, <2>3, Zenon
    <3> QED
      BY <2>2, <3>1, <3>2, Zenon
  <2>4. \A k \in Keys : k[1] = "ratelimit" =>
          /\ Level'[k] = Level[k]
          /\ Owes(env, d, k) => Owes(env, conn[w], k)
    BY <1>6, <2>3, Zenon
  <2>5. conn' = [conn EXCEPT ![w] = d]
    BY <1>5, Zenon
  <2> QED
    BY <1>2, <2>0, <2>4, <2>5, BudgetKept, Zenon
<1> QED
  BY <1>1, <1>7, <1>8, Zenon

\* Serving and finishing a request keep the budget.
LEMMA BudgetAnswer ==
  ASSUME ConnInv, LimitTypeOK, BudgetInv, NEW w \in Workers,
         Leave(w) \/ \E o, r : Answer(w, o, r)
  PROVE  BudgetInv'
<1>1. CASE Leave(w)
  <2>1. UNCHANGED <<env, admitted, limitVars>> /\ conn' = [conn EXCEPT ![w] = Blank]
    BY <1>1, Zenon DEF Leave
  <2>2. Blank.pc # "hook"
    BY Zenon DEF Blank
  <2>3. \A k : ~ Owes(env, Blank, k)
    BY <2>2, Zenon DEF Owes
  <2> QED
    BY <2>1, <2>3, BudgetQuiet, Zenon
<1>2. ASSUME NEW o, NEW r, Answer(w, o, r) PROVE BudgetInv'
  <2>1. /\ UNCHANGED <<env, admitted, limitVars>>
        /\ conn' = [conn EXCEPT ![w] = Done(conn[w], o, r)]
    BY <1>2, Zenon DEF Answer
  <2>2. Conn(conn[w])
    BY HookFacts, Zenon
  <2>3. \A k : ~ Owes(env, Done(conn[w], o, r), k)
    BY <2>2, DoneOwesNothing, Zenon
  <2> QED
    BY <2>1, <2>3, BudgetQuiet, Zenon
<1> QED
  BY <1>1, <1>2, Zenon

\* Every step keeps the budget.
LEMMA BudgetStep ==
  ASSUME ConnInv, LimitTypeOK, LimitTypeOK', BudgetInv, Next
  PROVE  BudgetInv'
<1>1. ASSUME NEW w \in Workers,
             ServePreflight(w) \/ ServeRedirect(w) \/ ServeUpstream(w) \/ ServeFails(w)
      PROVE  \E o, r : Answer(w, o, r)
  BY <1>1, ZenonT(40) DEF ServePreflight, ServeRedirect, ServeUpstream, ServeFails, Forward
<1> QED
  BY <1>1, BudgetArrive, BudgetCharge, BudgetCORS, BudgetFirewall, BudgetSpent, BudgetAnswer,
    BudgetWait, Zenon DEF Next

\* BudgetInv is an invariant.
LEMMA BudgetAlways == Spec => []BudgetInv
<1>1. Init => BudgetInv
  <2> SUFFICES ASSUME Init PROVE BudgetInv
    BY Zenon
  <2>1. /\ clock = 0 /\ limiters = [k \in {} |-> 0]
        /\ admitted = [k \in Keys |-> 0] /\ conn = [w \in Workers |-> Blank]
    BY DEF Init, LimitInit
  <2>2. ASSUME NEW k PROVE Cardinality(Pending(k)) = 0
    <3>1. Blank.pc # "hook"
      BY Zenon DEF Blank
    <3>2. \A w \in Workers : conn[w] = Blank
      BY <2>1, Zenon
    <3>3. Pending(k) = {}
      BY <3>1, <3>2, Zenon DEF Pending, Owes
    <3> QED
      BY <3>3, FS_EmptySet, Zenon
  <2>3. ASSUME NEW k \in Keys, k[1] = "ratelimit"
        PROVE  admitted[k] + Cardinality(Pending(k)) + Level[k] <= Budget
    <3>1. k \in Steady /\ ParamsOf(k) = Effective(PluginParams)
      BY <2>3, PluginKey, Zenon
    <3>2. Level[k] = Effective(PluginParams).burst
      BY <2>1, <3>1, Zenon DEF Level
    <3>3. Effective(PluginParams).burst \in Nat /\ Effective(PluginParams).rate \in Nat
      BY <2>1, BudgetType, Zenon
    <3>4. Budget = Effective(PluginParams).burst
      BY <2>1, <3>3, SMTT(30) DEF Budget
    <3>5. admitted[k] = 0
      BY <2>1, SMTT(30)
    <3> QED
      BY <2>2, <3>2, <3>3, <3>4, <3>5, SMTT(30)
  <2>4. \A k \in Keys : admitted[k] = 0
    BY <2>1, Zenon
  <2>5. admitted = [k \in Keys |-> admitted[k]]
    BY <2>1, Zenon
  <2> QED
    BY <2>3, <2>4, <2>5, SMTT(30) DEF BudgetInv
<1>2. ConnInv /\ LimitTypeOK /\ LimitTypeOK' /\ BudgetInv /\ [Next]_vars => BudgetInv'
  <2>1. ASSUME BudgetInv, UNCHANGED vars PROVE BudgetInv'
    <3>1. UNCHANGED <<env, conn, admitted, limitVars>>
      BY <2>1, Zenon DEF vars
    <3>2. Level' = Level /\ clock' = clock
      BY <3>1, LevelKept, Zenon
    <3>3. Budget' = Budget /\ \A k : Pending(k)' = Pending(k)
      BY <3>1, <3>2, Zenon DEF Budget, Pending
    <3> QED
      BY <2>1, <3>1, <3>2, <3>3, SMTT(30) DEF BudgetInv
  <2> QED
    BY <2>1, BudgetStep, Zenon
<1> QED
  BY <1>1, <1>2, ConnAlways, RequestsUseRegistry, LimitTypes, PTL DEF Spec

\* Since the start a peer had at most its burst and its rate of requests let through to
\* a target, for any site, any order of the hooks, any number of workers and whatever
\* the firewall and the clock do between the hooks.
THEOREM PeersWithinBudget == Spec => []AdmittedWithinBudget
<1>1. LimitTypeOK /\ BudgetInv => AdmittedWithinBudget
  <2> SUFFICES ASSUME LimitTypeOK, BudgetInv, NEW k \in Keys PROVE admitted[k] <= Budget
    BY DEF AdmittedWithinBudget, Budget
  <2>1. clock \in Nat
    BY Zenon DEF LimitTypeOK
  <2>2. Budget \in Nat
    BY <2>1, BudgetType, Zenon
  <2>3. admitted[k] \in Nat /\ Cardinality(Pending(k)) \in Nat
    BY PendingType, Zenon DEF BudgetInv
  <2>4. CASE k[1] = "ratelimit"
    <3>1. Level[k] \in Nat
      BY <2>4, PluginKey, LevelIsBucket, Zenon
    <3>2. admitted[k] + Cardinality(Pending(k)) + Level[k] <= Budget
      BY <2>4, Zenon DEF BudgetInv
    <3> QED
      BY <2>2, <2>3, <3>1, <3>2, SMTT(30)
  <2>5. CASE k[1] # "ratelimit"
    <3>1. admitted[k] = 0
      BY <2>5 DEF BudgetInv
    <3> QED
      BY <2>2, <3>1, SMTT(30)
  <2> QED
    BY <2>4, <2>5, Zenon
<1> QED
  BY <1>1, BudgetAlways, RequestsUseRegistry, LimitTypes, PTL

-----------------------------------------------------------------------------
(* The spellings of a host *)

\* The Host header h, trimmed and in small letters, spells name: the name of a host or
\* an address in brackets, with or without a port, the name also with the dot of its
\* absolute form; or a bare address.
Spells(h, name) ==
  LET Last == name[Len(name)]
      Ported(s) == \E port \in Seq(STRING) : Places(port, ":") = {} /\ h = s \o (<<":">> \o port)
  IN /\ name \in Seq(STRING)
     /\ \/ name = <<>> /\ h = <<>>
        \/ /\ name # <<>> /\ name[1] # "[" /\ Last # "." /\ Places(name, ":") = {}
           /\ \E s \in {name, name \o <<".">>} : h = s \/ Ported(s)
        \/ /\ name # <<>> /\ name[1] = "[" /\ Places(name, "]") = {Len(name)}
           /\ h = name \/ Ported(name)
        \/ /\ name # <<>> /\ name[1] # "[" /\ Last # "."
           /\ \E i, j \in Places(name, ":") : i # j
           /\ h = name

\* The order of the numbers is antisymmetric.
LEMMA Antisymmetric ==
  ASSUME NEW a \in Nat, NEW b \in Nat, a <= b, b <= a
  PROVE  a = b
OBVIOUS

\* Strings, known to hold the two that are cut.
Characters == STRING \cup {":", "."}

\* u is s followed by t.
Joins(u, s, t) ==
  /\ Len(u) = Len(s) + Len(t)
  /\ \A i \in DOMAIN s : u[i] = s[i]
  /\ \A i \in 1 .. Len(t) : u[Len(s) + i] = t[i]
  /\ SubSeq(u, 1, Len(s)) = s

\* Concatenation joins.
LEMMA JoinFacts ==
  ASSUME NEW s \in Seq(Characters), NEW t \in Seq(Characters)
  PROVE  s \o t \in Seq(Characters) /\ Joins(s \o t, s, t)
<1> DEFINE u == s \o t
<1>1. /\ u \in Seq(Characters) /\ Len(u) = Len(s) + Len(t)
      /\ \A i \in DOMAIN s : u[i] = s[i]
  OBVIOUS
<1>2. SubSeq(u, 1, Len(s)) = s
  OBVIOUS
<1>3. \A i \in 1 .. Len(t) : u[Len(s) + i] = t[i]
  OBVIOUS
<1> QED
  BY <1>1, <1>2, <1>3, Zenon DEF Joins

\* A sequence of one.
LEMMA UnitFacts ==
  ASSUME NEW S, NEW x \in S
  PROVE  <<x>> \in Seq(S) /\ Len(<<x>>) = 1 /\ <<x>>[1] = x
OBVIOUS

\* A sequence of strings is one of characters.
LEMMA CharacterFacts ==
  ASSUME NEW s \in Seq(STRING)
  PROVE  s \in Seq(Characters) /\ Len(s) \in Nat /\ DOMAIN s = 1 .. Len(s)
BY DEF Characters

\* A name with or without the final dot, and what TrimSuffix leaves of it.
LEMMA DotFacts ==
  ASSUME NEW name \in Seq(Characters), name # <<>>, name[Len(name)] # ".",
         NEW s, s = name \/ s = name \o <<".">>
  PROVE  /\ s \in Seq(Characters) /\ s # <<>> /\ s[1] = name[1]
         /\ Places(name, ":") = {} => Places(s, ":") = {}
         /\ TrimSuffix(s, ".") = name
<1>0. Len(name) \in Nat /\ Len(name) >= 1 /\ DOMAIN name = 1 .. Len(name)
  OBVIOUS
<1>1. CASE s = name
  BY <1>1, Zenon DEF TrimSuffix
<1>2. CASE s = name \o <<".">>
  <2> DEFINE t == <<".">>
  <2>1. t \in Seq(Characters) /\ Len(t) = 1 /\ t[1] = "."
    BY UnitFacts, Zenon DEF Characters
  <2>2. s = name \o t
    BY <1>2, Zenon
  <2> HIDE DEF t
  <2>3. /\ s \in Seq(Characters) /\ Len(s) = Len(name) + Len(t)
        /\ \A i \in DOMAIN name : s[i] = name[i]
        /\ \A i \in 1 .. Len(t) : s[Len(name) + i] = t[i]
        /\ SubSeq(s, 1, Len(name)) = name
    BY <2>1, <2>2, JoinFacts DEF Joins
  <2>4. /\ Len(s) = Len(name) + 1 /\ s[Len(name) + 1] = "." /\ s # <<>>
        /\ DOMAIN s = 1 .. Len(name) + 1 /\ s[1] = name[1]
    BY <1>0, <2>1, <2>3
  <2>5. (Len(name) + 1) - 1 = Len(name)
    BY <1>0
  <2>6. TrimSuffix(s, ".") = name
    BY <2>3, <2>4, <2>5, Zenon DEF TrimSuffix
  <2>7. ASSUME Places(name, ":") = {}, NEW i \in DOMAIN s PROVE s[i] # ":"
    <3>1. i \in DOMAIN name \/ i = Len(name) + 1
      BY <1>0, <2>4
    <3> QED
      BY <2>3, <2>4, <2>7, <3>1, Zenon DEF Places
  <2>8. Places(name, ":") = {} => Places(s, ":") = {}
    BY <2>7, Zenon DEF Places
  <2> QED
    BY <2>3, <2>4, <2>6, <2>8, Zenon
<1> QED
  BY <1>1, <1>2, Zenon

\* A host with a port.
LEMMA PortFacts ==
  ASSUME NEW s \in Seq(Characters), s # <<>>, NEW port \in Seq(Characters), Places(port, ":") = {},
         NEW h, h = s \o (<<":">> \o port)
  PROVE  /\ h \in Seq(Characters) /\ h # <<>> /\ h[1] = s[1]
         /\ \A i \in DOMAIN s : i \in DOMAIN h /\ h[i] = s[i]
         /\ SubSeq(h, 1, Len(s)) = s
         /\ Places(s, ":") = {} => Places(h, ":") = {Len(s) + 1}
<1> DEFINE colon == <<":">>
           t == colon \o port
<1>2. colon \in Seq(Characters) /\ Len(colon) = 1 /\ colon[1] = ":" /\ DOMAIN colon = 1 .. 1
  BY UnitFacts DEF Characters
<1>3. port \in Seq(Characters) /\ Len(port) \in Nat /\ DOMAIN port = 1 .. Len(port)
  OBVIOUS
<1>4. h = s \o t
  BY Zenon
<1> HIDE DEF colon
<1>5. /\ t \in Seq(Characters) /\ Len(t) = Len(colon) + Len(port)
      /\ \A i \in DOMAIN colon : t[i] = colon[i]
      /\ \A i \in 1 .. Len(port) : t[Len(colon) + i] = port[i]
  BY <1>2, <1>3, JoinFacts, Zenon DEF Joins
<1> HIDE DEF t
<1>6. \A i \in 1 .. Len(t) : t[i] = ":" <=> i = 1
  <2> SUFFICES ASSUME NEW i \in 1 .. Len(t), i # 1 PROVE t[i] # ":"
    BY <1>2, <1>5
  <2>1. i - 1 \in DOMAIN port /\ 1 + (i - 1) = i
    BY <1>2, <1>3, <1>5
  <2>2. t[i] = port[i - 1]
    BY <1>2, <1>3, <1>5, <2>1
  <2> QED
    BY <2>1, <2>2, Zenon DEF Places
<1>7. /\ h \in Seq(Characters) /\ Len(h) = Len(s) + Len(t)
      /\ \A i \in DOMAIN s : h[i] = s[i]
      /\ \A i \in 1 .. Len(t) : h[Len(s) + i] = t[i]
      /\ SubSeq(h, 1, Len(s)) = s
  <2>1. s \o t \in Seq(Characters) /\ Joins(s \o t, s, t)
    BY <1>5, JoinFacts, Zenon
  <2>2. h \in Seq(Characters) /\ Joins(h, s, t)
    BY <1>4, <2>1, Zenon
  <2> QED
    BY <2>2, Zenon DEF Joins
<1>8. /\ Len(s) \in Nat /\ Len(s) >= 1 /\ DOMAIN s = 1 .. Len(s)
      /\ Len(t) \in Nat /\ Len(t) >= 1
  BY <1>2, <1>3, <1>5
<1>9. DOMAIN h = 1 .. Len(s) + Len(t) /\ h # <<>>
  BY <1>7, <1>8
<1>10. ASSUME Places(s, ":") = {}, NEW i \in DOMAIN h
       PROVE  h[i] = ":" <=> i = Len(s) + 1
  <2>1. CASE i <= Len(s)
    <3>1. i \in DOMAIN s /\ i # Len(s) + 1
      BY <1>8, <1>9, <2>1
    <3> QED
      BY <1>7, <1>10, <3>1, Zenon DEF Places
  <2>2. CASE i > Len(s)
    <3>0. i \in Nat /\ Len(s) \in Nat /\ i > Len(s) /\ i <= Len(s) + Len(t)
      BY <1>8, <1>9, <2>2
    <3>1. i - Len(s) \in 1 .. Len(t)
      BY <1>8, <3>0
    <3>3. Len(s) + (i - Len(s)) = i /\ (i - Len(s) = 1 <=> i = Len(s) + 1)
      BY <3>0
    <3>2. h[i] = t[i - Len(s)]
      BY <1>7, <3>1, <3>3, Zenon
    <3> QED
      BY <1>6, <3>1, <3>2, <3>3, Zenon
  <2> QED
    BY <1>8, <1>9, <2>1, <2>2
<1>11. Len(s) + 1 \in DOMAIN h
  BY <1>8, <1>9
<1>12. Places(s, ":") = {} => Places(h, ":") = {Len(s) + 1}
  BY <1>10, <1>11, Zenon DEF Places
<1>13. \A i \in DOMAIN s : i \in DOMAIN h
  BY <1>8, <1>9
<1>14. h[1] = s[1]
  BY <1>7, <1>8
<1> QED
  BY <1>7, <1>9, <1>12, <1>13, <1>14, Zenon

\* NormalizeHost recovers the name from any of its spellings.
LEMMA SpellingFacts ==
  ASSUME NEW host, NEW name, Spells(ToLower(TrimSpace(host)), name)
  PROVE  NormalizeHost(host) = name
<1> DEFINE h == ToLower(TrimSpace(host))
           ends == Places(h, "]")
           colons == Places(h, ":")
           bare == IF \E i \in colons : colons = {i}
                   THEN SubSeq(h, 1, (CHOOSE i \in colons : TRUE) - 1) ELSE h
           upto == IF ends = {} THEN h ELSE SubSeq(h, 1, CHOOSE i \in ends : \A j \in ends : i <= j)
           Ported(s) == \E port \in Seq(STRING) : Places(port, ":") = {} /\ h = s \o (<<":">> \o port)
<1>1. /\ h = <<>> => NormalizeHost(host) = <<>>
      /\ h # <<>> /\ h[1] = "[" => NormalizeHost(host) = upto
      /\ h # <<>> /\ h[1] # "[" => NormalizeHost(host) = TrimSuffix(bare, ".")
  BY Zenon DEF NormalizeHost
<1>2. name \in Seq(Characters)
  BY CharacterFacts, Zenon DEF Spells
<1>3. \/ name = <<>> /\ h = <<>>
      \/ /\ name # <<>> /\ name[1] # "[" /\ name[Len(name)] # "." /\ Places(name, ":") = {}
         /\ \E s \in {name, name \o <<".">>} : h = s \/ Ported(s)
      \/ /\ name # <<>> /\ name[1] = "[" /\ Places(name, "]") = {Len(name)}
         /\ h = name \/ Ported(name)
      \/ /\ name # <<>> /\ name[1] # "[" /\ name[Len(name)] # "."
         /\ \E i, j \in Places(name, ":") : i # j
         /\ h = name
  BY Zenon DEF Spells
<1> HIDE DEF h
<1>4. ASSUME NEW s \in Seq(Characters), s # <<>>, Ported(s)
      PROVE  /\ h \in Seq(Characters) /\ h # <<>> /\ h[1] = s[1]
             /\ \A i \in DOMAIN s : i \in DOMAIN h /\ h[i] = s[i]
             /\ SubSeq(h, 1, Len(s)) = s
             /\ Places(s, ":") = {} => colons = {Len(s) + 1}
  BY <1>4, CharacterFacts, PortFacts, Zenon
<1>5. CASE name = <<>> /\ h = <<>>
  BY <1>1, <1>5, Zenon
<1>6. ASSUME name # <<>>, name[1] # "[", name[Len(name)] # ".", Places(name, ":") = {},
             NEW s \in {name, name \o <<".">>}, h = s \/ Ported(s)
      PROVE  NormalizeHost(host) = name
  <2>1. /\ s \in Seq(Characters) /\ s # <<>> /\ s[1] = name[1] /\ Places(s, ":") = {}
        /\ TrimSuffix(s, ".") = name
    BY <1>2, <1>6, DotFacts, Zenon
  <2>2. bare = s /\ h # <<>> /\ h[1] # "["
    <3>1. CASE h = s
      BY <1>6, <2>1, <3>1, Zenon
    <3>2. CASE Ported(s)
      <4>1. /\ h # <<>> /\ h[1] = s[1] /\ SubSeq(h, 1, Len(s)) = s /\ colons = {Len(s) + 1}
        BY <1>4, <2>1, <3>2, Zenon
      <4>2. bare = SubSeq(h, 1, (Len(s) + 1) - 1)
        BY <4>1, Zenon
      <4>3. (Len(s) + 1) - 1 = Len(s)
        BY <2>1
      <4> QED
        BY <1>6, <2>1, <4>1, <4>2, <4>3, Zenon
    <3> QED
      BY <1>6, <3>1, <3>2, Zenon
  <2> QED
    BY <1>1, <2>1, <2>2, Zenon
<1>7. ASSUME name # <<>>, name[1] = "[", Places(name, "]") = {Len(name)}, h = name \/ Ported(name)
      PROVE  NormalizeHost(host) = name
  <2>1. /\ h # <<>> /\ h[1] = "["
        /\ \A i \in DOMAIN name : i \in DOMAIN h /\ h[i] = name[i]
        /\ SubSeq(h, 1, Len(name)) = name
    <3>1. CASE h = name
      BY <1>2, <1>7, <3>1
    <3>2. CASE Ported(name)
      BY <1>2, <1>4, <1>7, <3>2, Zenon
    <3> QED
      BY <1>7, <3>1, <3>2, Zenon
  <2>2. Len(name) \in DOMAIN name /\ DOMAIN name = 1 .. Len(name) /\ Len(name) \in Nat
    BY <1>2, <1>7
  <2>3. name[Len(name)] = "]" /\ \A i \in DOMAIN name : name[i] = "]" => i = Len(name)
    BY <1>7, <2>2, Zenon DEF Places
  <2>4. Len(name) \in ends
    BY <2>1, <2>2, <2>3, Zenon DEF Places
  <2>5. DOMAIN h \subseteq Nat \ {0}
    <3>1. CASE h = name
      BY <1>2, <3>1
    <3>2. CASE Ported(name)
      <4>1. h \in Seq(Characters)
        BY <1>2, <1>4, <1>7, <3>2, Zenon
      <4> QED
        BY <4>1
    <3> QED
      BY <1>7, <3>1, <3>2, Zenon
  <2>6. \A j \in ends : Len(name) <= j
    <3> SUFFICES ASSUME NEW j \in ends, j < Len(name) PROVE FALSE
      BY <2>2, <2>5 DEF Places
    <3>1. j \in DOMAIN name /\ name[j] = "]"
      BY <2>1, <2>2, <2>5 DEF Places
    <3> QED
      BY <2>2, <2>3, <3>1
  <2>7. ends \subseteq Nat
    BY <2>5, Zenon DEF Places
  <2> HIDE DEF ends
  <2> DEFINE c == CHOOSE i \in ends : \A j \in ends : i <= j
  <2>9. c \in ends /\ \A j \in ends : c <= j
    BY <2>4, <2>6, Zenon
  <2> HIDE DEF c
  <2>8. c = Len(name)
    <3>1. c <= Len(name) /\ Len(name) <= c /\ c \in Nat
      BY <2>4, <2>6, <2>7, <2>9, Zenon
    <3> QED
      BY <2>2, <3>1, Antisymmetric, Zenon
  <2> QED
    BY <1>1, <2>1, <2>4, <2>8, Zenon DEF c
<1>8. ASSUME name # <<>>, name[1] # "[", name[Len(name)] # ".", h = name,
             NEW i \in Places(name, ":"), NEW j \in Places(name, ":"), i # j
      PROVE  NormalizeHost(host) = name
  <2>3. \A k : colons # {k}
    BY <1>8
  <2>1. bare = h
    BY <2>3, Zenon
  <2>2. TrimSuffix(h, ".") = h
    BY <1>8, Zenon DEF TrimSuffix
  <2> QED
    BY <1>1, <1>8, <2>1, <2>2, Zenon
<1> QED
  BY <1>3, <1>5, <1>6, <1>7, <1>8, Zenon

-----------------------------------------------------------------------------
(* The choice of a location *)

\* The rank and the priority of an exact location.
LEMMA ExactLocation ==
  ASSUME NEW loc, loc.match = "exact"
  PROVE  Priority(loc) = 1000 /\ Rank(loc) = 2
<1>1. Rank(loc) = 2
  BY DEF Rank
<1>2. Priority(loc) = 1000
  BY DEF Priority
<1> QED
  BY <1>1, <1>2

\* The rank and the priority of a regular expression.
LEMMA RegexLocation ==
  ASSUME NEW loc, loc.match = "regex"
  PROVE  Priority(loc) = 500 /\ Rank(loc) = 1
<1>0. "regex" # "exact"
  BY Zenon
<1>1. Rank(loc) = 1
  BY <1>0 DEF Rank
<1>2. Priority(loc) = 500
  BY <1>0 DEF Priority
<1> QED
  BY <1>1, <1>2

\* The rank and the priority of a prefix.
LEMMA PrefixLocation ==
  ASSUME NEW loc, loc.match = "prefix"
  PROVE  /\ Priority(loc) = Len(TrimSuffix(loc.path, "/")) /\ Rank(loc) = 0
         /\ loc.path = <<"/">> => \A path : Matches(loc, path)
<1>0. "prefix" # "exact" /\ "prefix" # "regex"
  OBVIOUS
<1>1. Rank(loc) = 0
  BY <1>0 DEF Rank
<1>2. Priority(loc) = Len(TrimSuffix(loc.path, "/"))
  BY <1>0 DEF Priority
<1>3. loc.path = <<"/">> => \A path : Matches(loc, path)
  BY <1>0, Zenon DEF Matches
<1> QED
  BY <1>1, <1>2, <1>3, Zenon

\* How rank and priority of a location relate.
Graded(l) ==
  LET n == Len(TrimSuffix(l.path, "/")) IN
  /\ \/ Rank(l) = 2 /\ Priority(l) = 1000
     \/ Rank(l) = 1 /\ Priority(l) = 500
     \/ Rank(l) = 0 /\ Priority(l) = n
  /\ n \in Nat /\ n <= 499
  /\ Priority(l) = 0 <=> l.path = <<"/">>

\* The locations of a clear list have graded priorities.
LEMMA ClearLocation ==
  ASSUME NEW ls, Clear(ls), NEW i \in DOMAIN ls, IsLocation(ls[i])
  PROVE  /\ Graded(ls[i])
         /\ ls[i].path = <<"/">> => \A path : Matches(ls[i], path)
<1> DEFINE l == ls[i]
           n == Len(TrimSuffix(l.path, "/"))
<1>1. /\ l.match \in {"exact", "regex", "prefix"}
      /\ Len(l.path) \in 1 .. 499
      /\ l.path = <<"/">> => l.match = "prefix"
  BY Zenon DEF Clear
<1>2. l.path \in Seq(STRING)
  BY Zenon DEF IsLocation
<1> HIDE DEF l
<1>3. /\ n \in Nat /\ n <= Len(l.path)
      /\ Len(l.path) >= 1 /\ l.path # <<"/">> => n >= 1
      /\ l.path = <<"/">> => n = 0
  BY <1>2, TrimFacts, Zenon
<1> HIDE DEF n
<1>4. n \in Nat /\ n <= 499 /\ (n = 0 <=> l.path = <<"/">>)
  <2>1. \A k \in 1 .. 499 : k \in Nat /\ k >= 1 /\ k <= 499
    OBVIOUS
  <2>2. Len(l.path) \in Nat /\ Len(l.path) >= 1 /\ Len(l.path) <= 499
    BY <1>1, <2>1, Zenon
  <2> QED
    BY <1>3, <2>2
<1>5. /\ \/ Rank(l) = 2 /\ Priority(l) = 1000
         \/ Rank(l) = 1 /\ Priority(l) = 500
         \/ Rank(l) = 0 /\ Priority(l) = n
      /\ Priority(l) = 0 <=> l.path = <<"/">>
      /\ l.path = <<"/">> => \A path : Matches(l, path)
  <2>1. CASE l.match = "exact"
    <3>1. Rank(l) = 2 /\ Priority(l) = 1000
      BY <2>1, ExactLocation
    <3>2. l.path # <<"/">>
      BY <1>1, <2>1, Zenon
    <3> QED
      BY <3>1, <3>2
  <2>2. CASE l.match = "regex"
    <3>1. Rank(l) = 1 /\ Priority(l) = 500
      BY <2>2, RegexLocation
    <3>2. l.path # <<"/">>
      BY <1>1, <2>2, Zenon
    <3> QED
      BY <3>1, <3>2
  <2>3. CASE l.match = "prefix"
    <3>1. Priority(l) = n /\ Rank(l) = 0 /\ (l.path = <<"/">> => \A path : Matches(l, path))
      BY <2>3, PrefixLocation, Zenon DEF n
    <3> QED
      BY <1>4, <3>1
  <2> QED
    BY <1>1, <2>1, <2>2, <2>3, Zenon
<1>6. Graded(l)
  BY <1>4, <1>5 DEF Graded, n
<1> QED
  BY <1>5, <1>6 DEF l

\* A more specific location has the higher priority, and a higher one is more specific.
LEMMA SpecificIsPriority ==
  ASSUME NEW ls, Clear(ls), NEW i \in DOMAIN ls, NEW j \in DOMAIN ls,
         IsLocation(ls[i]), IsLocation(ls[j])
  PROVE  /\ Priority(ls[i]) \in Nat /\ Priority(ls[j]) \in Nat
         /\ MoreSpecific(ls[i], ls[j]) <=> Priority(ls[i]) > Priority(ls[j])
<1> DEFINE a == ls[i]
           b == ls[j]
           m == Len(TrimSuffix(a.path, "/"))
           n == Len(TrimSuffix(b.path, "/"))
<1>0. Graded(a) /\ Graded(b)
  BY ClearLocation, Zenon
<1> HIDE DEF a, b
<1>1. /\ \/ Rank(a) = 2 /\ Priority(a) = 1000
         \/ Rank(a) = 1 /\ Priority(a) = 500
         \/ Rank(a) = 0 /\ Priority(a) = m
      /\ m \in Nat /\ m <= 499
  BY <1>0 DEF Graded
<1>2. /\ \/ Rank(b) = 2 /\ Priority(b) = 1000
         \/ Rank(b) = 1 /\ Priority(b) = 500
         \/ Rank(b) = 0 /\ Priority(b) = n
      /\ n \in Nat /\ n <= 499
  BY <1>0 DEF Graded
<1>3. MoreSpecific(a, b) <=> Rank(a) > Rank(b) \/ (Rank(a) = 0 /\ Rank(b) = 0 /\ m > n)
  BY DEF MoreSpecific
<1> HIDE DEF m, n
<1>4. /\ Priority(a) \in Nat /\ Priority(b) \in Nat
      /\ MoreSpecific(a, b) <=> Priority(a) > Priority(b)
  BY <1>1, <1>2, <1>3, SMTT(30)
<1> QED
  BY <1>4, Zenon DEF a, b

\* In a clear list, locate finds the first of the most specific locations that match.
LEMMA LocateMostSpecific ==
  ASSUME NEW ls, IsSeq(ls), Clear(ls), \A i \in DOMAIN ls : IsLocation(ls[i]), NEW path
  PROVE  LET M == {i \in DOMAIN ls : Matches(ls[i], path)}
             l == locate(ls, path)
         IN IF M = {} THEN l = 0
            ELSE /\ l \in M
                 /\ \A i \in M : ~ MoreSpecific(ls[i], ls[l])
                 /\ \A i \in M : i < l => MoreSpecific(ls[l], ls[i])
<1> DEFINE M == {i \in DOMAIN ls : Matches(ls[i], path)}
           D == {i \in DOMAIN ls : ls[i].path = <<"/">>}
           B == {i \in DOMAIN ls :
                   /\ Matches(ls[i], path)
                   /\ Priority(ls[i]) > 0
                   /\ \A j \in DOMAIN ls :
                        Matches(ls[j], path) => Priority(ls[j]) <= Priority(ls[i])}
           l == locate(ls, path)
           P(i) == Priority(ls[i])
<1>1. /\ l \in DOMAIN ls \cup {0}
      /\ B # {} => l \in B /\ \A i \in B : l <= i
      /\ B = {} /\ D # {} => l \in D /\ \A i \in D : l <= i
      /\ B = {} /\ D = {} => l = 0
  BY LocateFacts, Zenon
<1>2. \A i, j \in DOMAIN ls : /\ P(i) \in Nat /\ P(j) \in Nat
                              /\ MoreSpecific(ls[i], ls[j]) <=> P(i) > P(j)
  BY SpecificIsPriority, Zenon
<1>0. \A i \in DOMAIN ls : Graded(ls[i])
  BY ClearLocation, Zenon
<1>3. \A i \in DOMAIN ls : P(i) = 0 <=> i \in D
  BY <1>0 DEF Graded
<1>4. \A i \in D : i \in M
  BY ClearLocation, Zenon
<1>5. Len(ls) \in Nat /\ DOMAIN ls = 1 .. Len(ls)
  BY Zenon DEF IsSeq
<1>6. \A i : i \in M <=> i \in DOMAIN ls /\ Matches(ls[i], path)
  BY Zenon
<1>7. \A i : i \in B <=> i \in M /\ P(i) > 0 /\ \A j \in M : P(j) <= P(i)
  BY Zenon
<1>8. \A i : i \in D => i \in DOMAIN ls
  BY Zenon
<1> HIDE DEF M, D, B, l, P
\* Some location that matches has the greatest priority.
<1>9. M # {} => \E i \in M : \A j \in M : P(j) <= P(i)
  <2> SUFFICES ASSUME M # {} PROVE \E i \in M : \A j \in M : P(j) <= P(i)
    OBVIOUS
  <2> DEFINE Q == {1000 - P(i) : i \in M}
  <2>1. \A i \in M : P(i) \in Nat /\ P(i) <= 1000
    <3>1. \A i \in DOMAIN ls : P(i) <= 1000
      <4> SUFFICES ASSUME NEW i \in DOMAIN ls PROVE P(i) <= 1000
        BY Zenon
      <4> DEFINE n == Len(TrimSuffix(ls[i].path, "/"))
      <4>1. /\ P(i) = 1000 \/ P(i) = 500 \/ P(i) = n
            /\ n \in Nat /\ n <= 499
        BY <1>0 DEF P, Graded
      <4> HIDE DEF n
      <4> QED
        BY <4>1
    <3> QED
      BY <1>2, <1>6, <3>1, SMTT(30)
  <2>2. Q \subseteq Nat /\ Q # {}
    BY <2>1
  <2> HIDE DEF Q
  <2>3. PICK x \in Q : \A y \in Q : x <= y
    BY <2>2, LeastExists, Zenon
  <2>4. PICK i \in M : x = 1000 - P(i)
    BY DEF Q
  <2>5. ASSUME NEW j \in M PROVE P(j) <= P(i)
    <3>1. 1000 - P(j) \in Q
      BY DEF Q
    <3>2. x <= 1000 - P(j)
      BY <2>3, <3>1
    <3>3. 1000 - P(i) <= 1000 - P(j)
      BY <2>4, <3>2
    <3> QED
      BY <2>1, <3>3
  <2> QED
    BY <2>5, Zenon
<1>10. CASE B # {}
  <2>1. l \in M /\ l \in DOMAIN ls /\ \A j \in M : P(j) <= P(l)
    BY <1>1, <1>6, <1>7, <1>10, Zenon
  <2>2. ASSUME NEW i \in M PROVE ~ MoreSpecific(ls[i], ls[l])
    <3>1. P(i) <= P(l) /\ P(i) \in Nat /\ P(l) \in Nat /\ (MoreSpecific(ls[i], ls[l]) <=> P(i) > P(l))
      BY <1>2, <1>6, <2>1, Zenon
    <3> QED
      BY <3>1
  <2>3. ASSUME NEW i \in M, i < l PROVE MoreSpecific(ls[l], ls[i])
    <3>1. /\ i \in DOMAIN ls /\ P(i) <= P(l) /\ P(i) \in Nat /\ P(l) \in Nat
          /\ MoreSpecific(ls[l], ls[i]) <=> P(l) > P(i)
      BY <1>2, <1>6, <2>1, Zenon
    <3>2. i \notin B
      BY <1>1, <1>5, <1>10, <2>1, <2>3, <3>1, SMTT(30)
    <3>3. P(l) > 0
      BY <1>1, <1>7, <1>10, Zenon
    <3>4. P(i) # P(l)
      BY <1>7, <2>1, <3>2, <3>3, SMTT(30)
    <3> QED
      BY <3>1, <3>4
  <2> QED
    BY <2>1, <2>2, <2>3, Zenon DEF M, l
<1>11. CASE B = {} /\ M # {}
  <2>1. PICK m \in M : \A j \in M : P(j) <= P(m)
    BY <1>9, <1>11, Zenon
  <2>2. m \in DOMAIN ls /\ P(m) \in Nat
    BY <1>2, <1>6, Zenon
  <2>3. P(m) = 0
    BY <1>7, <1>11, <2>1, <2>2, SMTT(30)
  <2>4. D # {}
    BY <1>3, <2>2, <2>3, Zenon
  <2>5. l \in D /\ l \in M /\ \A i \in D : l <= i
    BY <1>1, <1>4, <1>11, <2>4, Zenon
  <2>6. \A i \in M : i \in D /\ P(i) = 0
    BY <1>2, <1>3, <1>6, <2>1, <2>3, SMTT(30)
  <2>7. ASSUME NEW i \in M PROVE ~ MoreSpecific(ls[i], ls[l])
    <3>1. P(i) = 0 /\ P(l) = 0 /\ (MoreSpecific(ls[i], ls[l]) <=> P(i) > P(l))
      BY <1>2, <1>6, <2>5, <2>6, Zenon
    <3> QED
      BY <3>1
  <2>8. ASSUME NEW i \in M, i < l PROVE FALSE
    <3>1. l <= i /\ i \in Int /\ l \in Int
      BY <1>5, <1>8, <2>5, <2>6, SMTT(30)
    <3> QED
      BY <2>8, <3>1, SMTT(30)
  <2> QED
    BY <1>11, <2>5, <2>7, <2>8, Zenon DEF M, l
<1>12. CASE M = {}
  <2>1. B = {} /\ D = {}
    BY <1>4, <1>7, <1>12, Zenon
  <2>2. l = 0
    BY <1>1, <2>1, Zenon
  <2> QED
    BY <1>12, <2>2, Zenon DEF M, l
<1> QED
  BY <1>10, <1>11, <1>12, Zenon

\* The name of a request is the host that its Host header spells.
WellNamed ==
  \A e \in Environments : \A q \in e.requests : Spells(ToLower(TrimSpace(q.host)), q.name)

\* A request reaches the target that its host names, however the host is spelled, or
\* else the default target, and there the first of the most specific locations that
\* match (HostRouter and TargetConfigHandler ServeHTTP), for sites of any size with
\* locations of any path.
THEOREM RoutesMostSpecific == ASSUME WellNamed PROVE Spec => []RouteMostSpecific
<1>1. ConnInv => RouteMostSpecific
  <2> SUFFICES ASSUME ConnInv, NEW w \in Workers, conn[w].pc # "idle"
               PROVE  LET c == conn[w]
                          site == env.site
                          named == lookup(site, c.req.name)
                          t == IF named # 0 THEN named ELSE lookup(site, DefaultHostname)
                          ls == site.targets[t].locations
                          l == c.place[2]
                          M == {i \in DOMAIN ls : Matches(ls[i], c.req.path)}
                      IN /\ t # 0 => c.place[1] = t
                         /\ (IF t = 0 THEN FALSE ELSE Clear(ls)) =>
                              IF M = {} THEN l = 0
                              ELSE /\ l \in M
                                   /\ \A i \in M : ~ MoreSpecific(ls[i], ls[l])
                                   /\ \A i \in M : i < l => MoreSpecific(ls[l], ls[i])
    BY ZenonT(40) DEF RouteMostSpecific, Serving
  <2> DEFINE c == conn[w]
             site == env.site
             named == lookup(site, c.req.name)
             d == lookup(site, DefaultHostname)
             t == IF named # 0 THEN named ELSE d
             ls == site.targets[t].locations
             f == defaultHandler(site)
  <2>1. /\ env \in Environments /\ c.req \in env.requests
        /\ c.place = route(site, c.req.host, c.req.path)
    BY Zenon DEF ConnInv, Sound
  <2>2. IsSite(site)
    BY <2>1, RequestPathAssumption, Zenon DEF IsEnvironment
  <2>3. NormalizeHost(c.req.host) = c.req.name
    BY <2>1, SpellingFacts, Zenon DEF WellNamed
  <2>4. c.place = IF t # 0 THEN <<t, locate(ls, c.req.path)>>
                  ELSE <<f, IF f = 0 THEN 0 ELSE DefaultLoc(site.targets[f].locations)>>
    BY <2>1, <2>3, Zenon DEF route
  <2>5. t # 0 => t \in DOMAIN site.targets
    BY <2>2, LookupFacts, Zenon
  <2> HIDE DEF t
  <2>6. CASE t = 0
    BY <2>6, Zenon DEF t
  <2>7. CASE t # 0
    <3>1. c.place = <<t, locate(ls, c.req.path)>>
      BY <2>4, <2>7, Zenon
    <3>2. c.place[1] = t /\ c.place[2] = locate(ls, c.req.path)
      BY <3>1
    <3>3. IsSeq(ls) /\ \A i \in DOMAIN ls : IsLocation(ls[i])
      BY <2>2, <2>5, <2>7, Zenon DEF IsSite
    <3> DEFINE M == {i \in DOMAIN ls : Matches(ls[i], c.req.path)}
               l == locate(ls, c.req.path)
    <3>4. Clear(ls) => IF M = {} THEN l = 0
                       ELSE /\ l \in M
                            /\ \A i \in M : ~ MoreSpecific(ls[i], ls[l])
                            /\ \A i \in M : i < l => MoreSpecific(ls[l], ls[i])
      BY <3>3, LocateMostSpecific, Zenon
    <3> QED
      BY <2>7, <3>2, <3>4, Zenon DEF t
  <2> QED
    BY <2>6, <2>7, Zenon
<1> QED
  BY <1>1, ConnAlways, PTL

-----------------------------------------------------------------------------
(* The firewall's index *)

\* A sequence of rules.
IsPolicy(policy) == IsSeq(policy) /\ \A i \in DOMAIN policy : IsRule(policy[i])

\* The places of a condition.
LEMMA UsedPlaces ==
  ASSUME NEW policy, NEW c \in Used(policy)
  PROVE  /\ c = <<c[1], c[2], c[3]>>
         /\ c[1] \in DOMAIN policy
         /\ c[2] \in DOMAIN policy[c[1]].groups
         /\ c[3] \in DOMAIN policy[c[1]].groups[c[2]]
         /\ Cond(policy, c).param # ""
<1>1. PICK i \in DOMAIN policy :
        c \in UNION {{<<i, j, k>> : k \in {k \in DOMAIN policy[i].groups[j] :
                                           policy[i].groups[j][k].param # ""}}
                     : j \in DOMAIN policy[i].groups}
  BY Zenon DEF Used
<1>2. PICK j \in DOMAIN policy[i].groups :
        c \in {<<i, j, k>> : k \in {k \in DOMAIN policy[i].groups[j] :
                                     policy[i].groups[j][k].param # ""}}
  BY <1>1, Zenon
<1>3. PICK k \in DOMAIN policy[i].groups[j] :
        c = <<i, j, k>> /\ policy[i].groups[j][k].param # ""
  BY <1>2, Zenon
<1>4. c[1] = i /\ c[2] = j /\ c[3] = k
  BY <1>3, Zenon
<1> QED
  BY <1>3, <1>4, Zenon DEF Cond

\* A condition that a group uses is used by the policy.
LEMMA UsedIntro ==
  ASSUME NEW policy, NEW i \in DOMAIN policy, NEW j \in DOMAIN policy[i].groups,
         NEW k \in DOMAIN policy[i].groups[j], policy[i].groups[j][k].param # ""
  PROVE  <<i, j, k>> \in Used(policy)
<1>1. <<i, j, k>> \in {<<i, j, x>> : x \in {x \in DOMAIN policy[i].groups[j] :
                                            policy[i].groups[j][x].param # ""}}
  BY Zenon
<1>2. <<i, j, k>> \in UNION {{<<i, y, x>> : x \in {x \in DOMAIN policy[i].groups[y] :
                                                  policy[i].groups[y][x].param # ""}}
                            : y \in DOMAIN policy[i].groups}
  BY <1>1, Zenon
<1> DEFINE U(x) == UNION {{<<x, y, z>> : z \in {z \in DOMAIN policy[x].groups[y] :
                                              policy[x].groups[y][z].param # ""}}
                         : y \in DOMAIN policy[x].groups}
<1>3. Used(policy) = UNION {U(x) : x \in DOMAIN policy}
  BY Zenon DEF Used
<1>4. <<i, j, k>> \in U(i)
  BY <1>2, Zenon
<1> HIDE DEF U
<1> QED
  BY <1>3, <1>4, Zenon

\* Of some conditions of a policy one is the latest.
LEMMA LatestExists ==
  ASSUME NEW policy, IsPolicy(policy), NEW C, C \subseteq Used(policy), C # {}
  PROVE  Latest(C) \in C
<1> DEFINE I == {c[1] : c \in C}
           n == Len(policy)
<1>1. n \in Nat /\ DOMAIN policy = 1 .. n
  BY Zenon DEF IsPolicy, IsSeq
<1>2. \A c \in C : c[1] \in DOMAIN policy
  BY UsedPlaces, Zenon
<1>3. I \subseteq 1 .. n /\ I # {}
  BY <1>1, <1>2
<1>4. \A c \in C : c[1] \in I
  OBVIOUS
<1> HIDE DEF I, n
<1>5. PICK i \in I : \A x \in I : x <= i
  BY <1>1, <1>3, GreatestExists, Zenon
<1> DEFINE D == {c \in C : c[1] = i}
           J == {c[2] : c \in D}
           m == Len(policy[i].groups)
<1>6. i \in DOMAIN policy /\ i \in 1 .. n
  BY <1>1, <1>3, Zenon
<1>7. D # {}
  BY Zenon DEF I
<1>8. m \in Nat /\ DOMAIN policy[i].groups = 1 .. m
  BY <1>6, Zenon DEF IsPolicy, IsRule, IsSeq
<1>9. \A c \in D : c[2] \in DOMAIN policy[i].groups
  BY UsedPlaces, Zenon
<1>10. J \subseteq 1 .. m /\ J # {}
  BY <1>7, <1>8, <1>9, Zenon
<1>11. \A c \in C : c[1] = i => c[2] \in J
  BY Zenon
<1> HIDE DEF J, m
<1>12. PICK j \in J : \A x \in J : x <= j
  BY <1>8, <1>10, GreatestExists, Zenon
<1> DEFINE E == {c \in D : c[2] = j}
           K == {c[3] : c \in E}
           l == Len(policy[i].groups[j])
<1>13. j \in DOMAIN policy[i].groups /\ j \in 1 .. m
  BY <1>8, <1>10, Zenon
<1>14. E # {}
  BY DEF J
<1>15. l \in Nat /\ DOMAIN policy[i].groups[j] = 1 .. l
  BY <1>6, <1>13, Zenon DEF IsPolicy, IsRule, IsSeq
<1>16. \A c \in E : c[3] \in DOMAIN policy[i].groups[j]
  BY UsedPlaces, Zenon
<1>17. K \subseteq 1 .. l /\ K # {}
  BY <1>14, <1>15, <1>16, Zenon
<1>18. \A c \in C : c[1] = i /\ c[2] = j => c[3] \in K
  BY Zenon
<1> HIDE DEF K, l
<1>19. PICK k \in K : \A x \in K : x <= k
  BY <1>15, <1>17, GreatestExists, Zenon
<1>20. PICK c \in E : c[3] = k
  BY Zenon DEF K
<1>21. c \in C /\ c[1] = i /\ c[2] = j
  BY Zenon
<1> HIDE DEF D, E
<1>22. ASSUME NEW d \in C \ {c} PROVE Earlier(d, c)
  <2>1. c = <<i, j, k>> /\ d = <<d[1], d[2], d[3]>>
    BY <1>20, <1>21, UsedPlaces, Zenon
  <2>2. d[1] # i \/ d[2] # j \/ d[3] # k
    BY <1>22, <2>1
  <2>3. d[1] \in Int /\ i \in Int /\ d[1] <= i
    BY <1>1, <1>2, <1>4, <1>5, <1>6, SMTT(30)
  <2>7. J \subseteq Int /\ K \subseteq Int
    BY <1>8, <1>10, <1>15, <1>17, SMTT(30)
  <2>4. d[1] = i => d[2] \in Int /\ j \in Int /\ d[2] <= j
    BY <1>11, <1>12, <2>7, Zenon
  <2>5. d[1] = i /\ d[2] = j => d[3] \in Int /\ k \in Int /\ d[3] <= k
    BY <1>18, <1>19, <2>7, Zenon
  <2>6. d[1] < i \/ (d[1] = i /\ d[2] < j) \/ (d[1] = i /\ d[2] = j /\ d[3] < k)
    BY <2>2, <2>3, <2>4, <2>5, SMTT(30)
  <2> QED
    BY <1>20, <1>21, <2>6, Zenon DEF Earlier
<1> QED
  BY <1>21, <1>22 DEF Latest

\* In an indexable policy the index knows a parameter under the name of each of its
\* conditions.
LEMMA IndexNameFacts ==
  ASSUME NEW policy, IsPolicy(policy), Indexable(policy), NEW c \in Used(policy)
  PROVE  IndexName(policy, Cond(policy, c).param) = Cond(policy, c).name
<1> DEFINE d == Cond(policy, c)
           C == {x \in Index(policy, d.param) : Cond(policy, x).name # ""}
<1>1. \A x \in Index(policy, d.param) : Cond(policy, x).name = d.name
  BY Zenon DEF Indexable, Index
<1>2. c \in Index(policy, d.param)
  BY DEF Index
<1>3. C \subseteq Used(policy)
  BY Zenon DEF Index
<1>4. IndexName(policy, d.param) = IF C = {} THEN "" ELSE Cond(policy, Latest(C)).name
  BY Zenon DEF IndexName
<1>5. CASE d.name = ""
  <2>1. C = {}
    BY <1>1, <1>5, Zenon
  <2> QED
    BY <1>4, <1>5, <2>1, Zenon
<1>6. CASE d.name # ""
  <2>1. C # {}
    BY <1>2, <1>6, Zenon
  <2>2. Latest(C) \in C
    BY <1>3, <2>1, LatestExists, Zenon
  <2>3. Latest(C) \in Index(policy, d.param)
    BY <2>2, Zenon
  <2> QED
    BY <1>1, <1>4, <2>1, <2>3, Zenon
<1> QED
  BY <1>5, <1>6, Zenon

\* And it has each of the equals conditions on a value.
LEMMA EqualsFacts ==
  ASSUME NEW policy, Indexable(policy), NEW c \in Used(policy), NEW v,
         Cond(policy, c).op = "equals", ~ OverIP(Cond(policy, c)), v \in Cond(policy, c).arg
  PROVE  c = EqualsAt(policy, Cond(policy, c).param, v)
<1> DEFINE d == Cond(policy, c)
           E == {x \in Index(policy, d.param) :
                   Cond(policy, x).op = "equals" /\ v \in Cond(policy, x).arg}
<1>1. c \in E
  BY Zenon DEF Index
<1>2. ASSUME NEW x \in E, x # c PROVE FALSE
  <2>1. /\ x \in Used(policy) /\ Cond(policy, x).param = d.param
        /\ Cond(policy, x).op = "equals" /\ v \in Cond(policy, x).arg
    BY <1>2, Zenon DEF Index
  <2>2. v \in d.arg \cap Cond(policy, x).arg
    BY <2>1, Zenon
  <2> QED
    BY <1>2, <2>1, <2>2, Zenon DEF Indexable
<1> HIDE DEF E
<1>3. E = {c}
  BY <1>1, <1>2, Zenon
<1>4. Latest({c}) = c
  BY Zenon DEF Latest
<1>5. EqualsAt(policy, d.param, v) = Latest(E)
  BY Zenon DEF EqualsAt, E
<1> QED
  BY <1>3, <1>4, <1>5, Zenon

\* So a condition is hit in the index exactly if it holds by itself.
LEMMA HitIsHolds ==
  ASSUME NEW policy, IsPolicy(policy), Indexable(policy), NEW c \in Used(policy), NEW req
  PROVE  Hit(policy, c, req) <=> Holds(Cond(policy, c), req)
<1> DEFINE d == Cond(policy, c)
           v == get(req, d.param, d.name)
<1>1. IndexName(policy, d.param) = d.name
  BY IndexNameFacts, Zenon
<1>2. d.op = "equals" /\ ~ OverIP(d) /\ v \in d.arg => c = EqualsAt(policy, d.param, v)
  BY EqualsFacts, Zenon
<1>3. Hit(policy, c, req) <=>
        \/ d.op = "exists" /\ v # Absent
        \/ d.op = "not_exists" /\ v = Absent
        \/ v # Absent /\ Passes(d, v)
        \/ /\ v # Absent /\ d.op = "equals" /\ ~ OverIP(d)
           /\ v \in d.arg /\ c = EqualsAt(policy, d.param, v)
  BY <1>1, Zenon DEF Hit
<1>4. Holds(d, req) <=>
        \/ d.op = "exists" /\ v # Absent
        \/ d.op = "not_exists" /\ v = Absent
        \/ v # Absent /\ Passes(d, v)
        \/ v # Absent /\ d.op = "equals" /\ ~ OverIP(d) /\ v \in d.arg
  BY Zenon DEF Holds
<1> QED
  BY <1>2, <1>3, <1>4, Zenon

\* All conditions of some group hold.
Fires(rule, req) ==
  \E g \in {rule.groups[j] : j \in DOMAIN rule.groups} :
    /\ \E k \in DOMAIN g : g[k].param # ""
    /\ \A k \in DOMAIN g : g[k].param # "" => Holds(g[k], req)

\* A rule matches in the index exactly if all conditions of some group hold.
LEMMA RuleMatchesFacts ==
  ASSUME NEW policy, IsPolicy(policy), Indexable(policy), NEW i \in DOMAIN policy, NEW req
  PROVE  ruleMatches(policy, i, req) <=> Fires(policy[i], req)
<1> DEFINE g(j) == policy[i].groups[j]
<1>1. ASSUME NEW j \in DOMAIN policy[i].groups
      PROVE  /\ Group(policy, i, j) # {} <=> \E k \in DOMAIN g(j) : g(j)[k].param # ""
             /\ (\A c \in Group(policy, i, j) : Hit(policy, c, req)) <=>
                  \A k \in DOMAIN g(j) : g(j)[k].param # "" => Holds(g(j)[k], req)
  <2>1. ASSUME NEW c \in Group(policy, i, j)
        PROVE  /\ c \in Used(policy) /\ c[3] \in DOMAIN g(j) /\ Cond(policy, c) = g(j)[c[3]]
               /\ g(j)[c[3]].param # ""
    <3>1. c \in Used(policy) /\ c[1] = i /\ c[2] = j
      BY Zenon DEF Group
    <3> QED
      BY <3>1, UsedPlaces, Zenon DEF Cond
  <2>2. ASSUME NEW k \in DOMAIN g(j), g(j)[k].param # ""
        PROVE  <<i, j, k>> \in Group(policy, i, j) /\ Cond(policy, <<i, j, k>>) = g(j)[k]
    <3>1. <<i, j, k>> \in Used(policy)
      BY <2>2, UsedIntro, Zenon
    <3>2. <<i, j, k>>[1] = i /\ <<i, j, k>>[2] = j /\ <<i, j, k>>[3] = k
      BY Zenon
    <3> QED
      BY <3>1, <3>2, Zenon DEF Group, Cond
  <2>3. \A c \in Group(policy, i, j) : Hit(policy, c, req) <=> Holds(g(j)[c[3]], req)
    BY <2>1, HitIsHolds, Zenon
  <2>4. <<i, j, 0>>[1] = i
    BY Zenon
  <2>5. Group(policy, i, j) # {} <=> \E k \in DOMAIN g(j) : g(j)[k].param # ""
    BY <2>1, <2>2, Zenon
  <2>6. ASSUME \A c \in Group(policy, i, j) : Hit(policy, c, req),
               NEW k \in DOMAIN g(j), g(j)[k].param # ""
        PROVE  Holds(g(j)[k], req)
    <3>1. <<i, j, k>> \in Group(policy, i, j) /\ <<i, j, k>>[3] = k
      BY <2>2, <2>6, Zenon
    <3> QED
      BY <2>3, <2>6, <3>1, Zenon
  <2>7. ASSUME \A k \in DOMAIN g(j) : g(j)[k].param # "" => Holds(g(j)[k], req),
               NEW c \in Group(policy, i, j)
        PROVE  Hit(policy, c, req)
    BY <2>1, <2>3, <2>7, Zenon
  <2> QED
    BY <2>5, <2>6, <2>7, Zenon
<1>2. ruleMatches(policy, i, req) <=>
        \E j \in DOMAIN policy[i].groups :
          /\ Group(policy, i, j) # {}
          /\ \A c \in Group(policy, i, j) : Hit(policy, c, req)
  BY Zenon DEF ruleMatches
<1>3. ruleMatches(policy, i, req) <=>
        \E j \in DOMAIN policy[i].groups :
          /\ \E k \in DOMAIN g(j) : g(j)[k].param # ""
          /\ \A k \in DOMAIN g(j) : g(j)[k].param # "" => Holds(g(j)[k], req)
  BY <1>1, <1>2, Zenon
<1> QED
  BY <1>3, Zenon DEF Fires

\* The index decides what the policy says: for policies of any size that it has room for,
\* and any request.
THEOREM IndexDecides ==
  ASSUME NEW policy, IsPolicy(policy), Indexable(policy), NEW req
  PROVE  evaluate(policy, req) = Meaning(policy, req)
<1>1. \A i \in DOMAIN policy : ruleMatches(policy, i, req) <=> Fires(policy[i], req)
  BY RuleMatchesFacts, Zenon
<1>2. {i \in DOMAIN policy : Decisive(policy[i]) /\ ruleMatches(policy, i, req)} =
        {i \in DOMAIN policy : Decisive(policy[i]) /\ Fires(policy[i], req)}
  BY <1>1
<1>3. Meaning(policy, req) =
        First({i \in DOMAIN policy : Decisive(policy[i]) /\ Fires(policy[i], req)})
  BY Zenon DEF Meaning, Fires
<1> QED
  BY <1>2, <1>3, Zenon DEF evaluate

\* The firewall decides a request by the policy of the location that it was routed to,
\* rule by rule and condition by condition: for sites, policies and requests of any size,
\* where the location has its policy for itself and the index has room for it.
THEOREM FirewallDecides == Spec => []PolicyDecides
<1>1. ConnInv => PolicyDecides
  <2> SUFFICES ASSUME ConnInv, NEW w \in Workers, conn[w].pc # "idle",
                      conn[w].ruled # <<>>, OwnPolicy(conn[w])
               PROVE  LET c == conn[w]
                          waf == Location(c).waf
                          rules == IF waf.enabled /\ ~ env.site.lazy THEN waf.rules ELSE <<>>
                      IN Indexable(rules) => c.ruled = <<Meaning(rules, c.req)>>
    BY Zenon DEF PolicyDecides, Serving
  <2> DEFINE c == conn[w]
             site == env.site
             waf == Location(c).waf
             rules == IF waf.enabled /\ ~ site.lazy THEN waf.rules ELSE <<>>
             name == TargetOf(c).name
             path == Location(c).path
             P == {p \in Locations(site) :
                     LET l == site.targets[p[1]].locations[p[2]] IN
                     /\ ~ site.lazy /\ site.targets[p[1]].name = name
                     /\ l.path = path /\ l.waf.enabled}
  <2>1. /\ env \in Environments /\ c.place = route(site, c.req.host, c.req.path)
        /\ c.place[2] # 0 /\ c.ruled = <<evaluate(PolicyFor(env, c), c.req)>>
    BY Zenon DEF ConnInv, Sound
  <2>2. IsSite(site)
    BY <2>1, RequestPathAssumption, Zenon DEF IsEnvironment
  <2>3. c.place \in Locations(site)
    BY <2>1, <2>2, RouteFacts, SMTT(30)
  <2>4. PolicyFor(env, c) = Policy(site, name, path)
    BY Zenon DEF PolicyFor, TargetOf, Location
  <2>5. /\ P = {} => Policy(site, name, path) = <<>>
        /\ P # {} => \E p \in P : Policy(site, name, path) =
                       site.targets[p[1]].locations[p[2]].waf.rules
    BY <2>2, PolicyFacts, Zenon
  <2>6. \A p \in P : p = c.place
    BY Zenon DEF OwnPolicy
  <2>7. waf.enabled /\ ~ site.lazy => c.place \in P
    BY <2>3, Zenon DEF TargetOf, Location
  <2>8. P # {} => waf.enabled /\ ~ site.lazy
    BY <2>6, Zenon DEF TargetOf, Location
  <2>9. Location(c) = site.targets[c.place[1]].locations[c.place[2]]
    BY Zenon DEF TargetOf, Location
  <2> HIDE DEF P, name, path
  <2>10. Policy(site, name, path) = rules
    <3>1. CASE P = {}
      <4>1. ~ (waf.enabled /\ ~ site.lazy)
        BY <2>7, <3>1, Zenon
      <4> QED
        BY <2>5, <3>1, <4>1, Zenon
    <3>2. CASE P # {}
      <4>1. Policy(site, name, path) = waf.rules
        BY <2>5, <2>6, <2>9, <3>2, Zenon
      <4> QED
        BY <2>8, <3>2, <4>1, Zenon
    <3> QED
      BY <3>1, <3>2, Zenon
  <2>11. IsPolicy(rules)
    BY <2>2, <2>10, PolicyType, SMTT(60) DEF IsPolicy
  <2>12. Indexable(rules) => evaluate(rules, c.req) = Meaning(rules, c.req)
    BY <2>11, IndexDecides, Zenon
  <2> QED
    BY <2>1, <2>4, <2>10, <2>12, Zenon
<1> QED
  BY <1>1, ConnAlways, PTL
=============================================================================
