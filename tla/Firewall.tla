------------------------------ MODULE Firewall ------------------------------
(***************************************************************************)
(* A firewall policy: how buildRuleSet compiles the conditions of a        *)
(* location's rules into one index per request parameter, and how evaluate *)
(* decides a request with it.                                              *)
(*                                                                         *)
(* A policy is a sequence of rules [id, enabled, action, code, rps, burst, *)
(* groups], groups a sequence of sequences of conditions [param, name, op, *)
(* arg].  The strings of a condition are abstracted to the set arg of the  *)
(* values it is about: the value of equals, the list of in and not_in, the *)
(* addresses of the IP operators, and for op "test" (contains, startswith, *)
(* endswith, matches, gt, lt) the values that pass; a pattern or a number  *)
(* that does not parse passes none.                                        *)
(***************************************************************************)
EXTENDS Naturals, Sequences

CONSTANTS
  Addresses,   \* the values that parse as an IP address
  Country,     \* the geo database: a function on some of the addresses
  Absent,      \* get's second result is false
  TooLarge     \* a body over max_body_size

Always == {"url", "path", "query", "method"}   \* present even if empty

\* clientIP: X-Real-IP, the first hop of X-Forwarded-For, the peer.
clientIP(req) ==
  CASE req.realIP # ""      -> req.realIP
    [] req.realIP = "" /\ req.forwarded # <<>> -> req.forwarded[1]
    [] OTHER                -> req.remote

\* requestCtx.get; name is used by the parameters arg and header only.
get(req, param, name) ==
  LET field == <<param, IF param \in {"arg", "header"} THEN name ELSE "">>
      v == CASE param = "ip"      -> clientIP(req)
             [] param = "country" -> IF clientIP(req) \in DOMAIN Country
                                     THEN Country[clientIP(req)] ELSE ""
             [] field \in DOMAIN req.fields -> req.fields[field]
             [] OTHER             -> ""
  IN IF (v = "" /\ param \notin Always) \/ v = TooLarge THEN Absent ELSE v

-----------------------------------------------------------------------------
(* Compilation.  A condition is identified by rule, group and place.        *)

\* The conditions that get an id: the ones that name a parameter.
Used(policy) ==
  UNION {UNION {{<<i, j, k>> : k \in {k \in DOMAIN policy[i].groups[j] :
                                        policy[i].groups[j][k].param # ""}}
                : j \in DOMAIN policy[i].groups} : i \in DOMAIN policy}

Cond(policy, c) == policy[c[1]].groups[c[2]][c[3]]

Earlier(c, d) ==
  \/ c[1] < d[1]
  \/ c[1] = d[1] /\ c[2] < d[2]
  \/ c[1] = d[1] /\ c[2] = d[2] /\ c[3] < d[3]

Latest(C) == CHOOSE c \in C : \A d \in C \ {c} : Earlier(d, c)

\* The conditions of the paramIndex of a parameter.
Index(policy, param) == {c \in Used(policy) : Cond(policy, c).param = param}

\* idx.name: set by every condition with a param_name.
IndexName(policy, param) ==
  LET C == {c \in Index(policy, param) : Cond(policy, c).name # ""}
  IN IF C = {} THEN "" ELSE Cond(policy, Latest(C)).name

isIPOperator(op) == op \in {"equals", "in", "not_in", "in_ip", "not_in_ip"}

OverIP(d) == d.param = "ip" /\ isIPOperator(d.op)

\* idx.equals: a map from the value to one condition.
EqualsAt(policy, param, v) ==
  Latest({c \in Index(policy, param) :
            Cond(policy, c).op = "equals" /\ v \in Cond(policy, c).arg})

\* What a condition says of a present value, equals apart.
Passes(d, v) ==
  IF OverIP(d)
  THEN /\ d.arg \cap Addresses # {}
       /\ v \in Addresses
       /\ (v \in d.arg) = (d.op \notin {"not_in", "not_in_ip"})
  ELSE \/ d.op \in {"in", "test"} /\ v \in d.arg
       \/ d.op = "not_in" /\ v \notin d.arg

\* applyIndex, for one condition of the index.
Hit(policy, c, req) ==
  LET d == Cond(policy, c)
      v == get(req, d.param, IndexName(policy, d.param))
  IN \/ d.op = "exists" /\ v # Absent
     \/ d.op = "not_exists" /\ v = Absent
     \/ v # Absent /\ Passes(d, v)
     \/ /\ v # Absent /\ d.op = "equals" /\ ~ OverIP(d)
        /\ v \in d.arg /\ c = EqualsAt(policy, d.param, v)

-----------------------------------------------------------------------------
(* Evaluation *)

Group(policy, i, j) == {c \in Used(policy) : c[1] = i /\ c[2] = j}

\* Mutant: one condition of a group is enough.
ruleMatchesAny(policy, i, req) == \E c \in Used(policy) : c[1] = i /\ Hit(policy, c, req)

\* ruleMatches: all conditions of some group; a group without any is dropped.
ruleMatches(policy, i, req) ==
  \E j \in DOMAIN policy[i].groups :
    /\ Group(policy, i, j) # {}
    /\ \A c \in Group(policy, i, j) : Hit(policy, c, req)

\* The normalised action of a rule.
Action(rule) ==
  CASE rule.action = "" -> "deny"
    [] rule.action \in {"rate_limit", "rate-limit"} -> "ratelimit"
    [] OTHER -> rule.action

Decisive(rule) == rule.enabled /\ Action(rule) \in {"allow", "deny", "ratelimit"}

First(I) == IF I = {} THEN 0 ELSE CHOOSE i \in I : \A j \in I : i <= j

\* evaluate: the rule that decides, 0 if there is none; log and unknown actions
\* do not decide.
evaluate(policy, req) ==
  First({i \in DOMAIN policy : Decisive(policy[i]) /\ ruleMatches(policy, i, req)})

\* ensureBody has been called: the body is read and not put back.
ReadsBody(policy) == Index(policy, "body") # {}

\* blockConfig, and the status of a refused rate_limit rule.
BlockStatus(rule) ==
  LET status == IF rule.code = 0 THEN 403 ELSE rule.code
  IN IF Action(rule) = "ratelimit" /\ status = 403 THEN 429 ELSE status

-----------------------------------------------------------------------------
(* The documented meaning: the first rule, in order, of which all          *)
(* conditions of some group hold, each taken by itself.                    *)

Holds(d, req) ==
  LET v == get(req, d.param, d.name)
  IN \/ d.op = "exists" /\ v # Absent
     \/ d.op = "not_exists" /\ v = Absent
     \/ v # Absent /\ Passes(d, v)
     \/ v # Absent /\ d.op = "equals" /\ ~ OverIP(d) /\ v \in d.arg

Meaning(policy, req) ==
  First({i \in DOMAIN policy :
           /\ Decisive(policy[i])
           /\ \E g \in {policy[i].groups[j] : j \in DOMAIN policy[i].groups} :
                /\ \E k \in DOMAIN g : g[k].param # ""
                /\ \A k \in DOMAIN g : g[k].param # "" => Holds(g[k], req)})

\* The index has room for one equals condition per value and for one name per
\* parameter.
Indexable(policy) ==
  \A c, d \in Used(policy) :
    LET a == Cond(policy, c)
        b == Cond(policy, d)
    IN c # d /\ a.param = b.param =>
         /\ a.name = b.name
         /\ ~ (/\ a.op = "equals" /\ b.op = "equals" /\ ~ OverIP(a)
               /\ a.arg \cap b.arg # {})
=============================================================================
