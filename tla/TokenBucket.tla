---------------------------- MODULE TokenBucket -----------------------------
(***************************************************************************)
(* What a rate limiter promises: every key has a bucket of Burst[k] tokens *)
(* that regains Rate[k] tokens per tick, and an event of the key is        *)
(* allowed exactly if it finds a token, which it takes.                    *)
(***************************************************************************)
EXTENDS Naturals

CONSTANTS Keys, Rate, Burst

VARIABLES
  level,    \* the tokens of a key
  answer    \* the last answer to a key: "none", "yes" or "no"

vars == <<level, answer>>

Smaller(a, b) == IF a <= b THEN a ELSE b

Init ==
  /\ level = Burst
  /\ answer = [k \in Keys |-> "none"]

Take(k) ==
  /\ level[k] >= 1
  /\ level' = [level EXCEPT ![k] = @ - 1]
  /\ answer' = [answer EXCEPT ![k] = "yes"]

Refuse(k) ==
  /\ level[k] = 0
  /\ answer' = [answer EXCEPT ![k] = "no"]
  /\ UNCHANGED level

Refill ==
  /\ level' = [k \in Keys |-> Smaller(Burst[k], level[k] + Rate[k])]
  /\ UNCHANGED answer

Next == Refill \/ \E k \in Keys : Take(k) \/ Refuse(k)

Spec == Init /\ [][Next]_vars
=============================================================================
