----------------------------- MODULE RequestPath ----------------------------
(***************************************************************************)
(* A request from its arrival at the router to its access line: the choice *)
(* of the location, the BeforeProxy hooks of the plugins in the order in   *)
(* which they were loaded, the upstream, and the writers the response goes *)
(* through.  Requests meet in the stores of token buckets (see RateLimit), *)
(* and time passes between any two steps.                                  *)
(*                                                                         *)
(* The site and the plugins' configuration are fixed in a behavior: they   *)
(* are read at startup.  The cache is left to Coalescing, the choice of an *)
(* upstream to LoadBalancer.                                               *)
(***************************************************************************)
EXTENDS RateLimit, Firewall, Routing, Responses

CONSTANTS
  Workers,        \* the goroutines serving requests
  PluginParams,   \* rps and burst of the ratelimit plugin
  NoRequest,
  Environments    \* see IsEnvironment

\* The locations of a site.
Locations(site) ==
  UNION {{<<t, l>> : l \in DOMAIN site.targets[t].locations} : t \in DOMAIN site.targets}

\* A status that ends a response.
Final(code) == code \in Nat /\ code >= 200

IsSeq(s) == Len(s) \in Nat /\ DOMAIN s = 1 .. Len(s)

IsRule(r) ==
  /\ IsSeq(r.groups)
  /\ \A j \in DOMAIN r.groups : IsSeq(r.groups[j])
  /\ r.code = 0 \/ Final(r.code)

IsLocation(l) ==
  /\ l.path \in Seq(STRING)
  /\ l.redirect = 0 \/ Final(l.redirect)
  /\ IsSeq(l.waf.rules)
  /\ \A i \in DOMAIN l.waf.rules : IsRule(l.waf.rules[i])

IsSite(site) ==
  /\ IsSeq(site.targets)
  /\ \A t \in DOMAIN site.targets :
       /\ IsSeq(site.targets[t].locations)
       /\ \A l \in DOMAIN site.targets[t].locations : IsLocation(site.targets[t].locations[l])

\* The buckets that requests can use are known, with the parameters they are used with.
IsMetered(e) ==
  \A p \in Locations(e.site), q \in e.requests, i \in DOMAIN e.hooks :
    LET target == e.site.targets[p[1]]
        rules == target.locations[p[2]].waf.rules
    IN /\ e.hooks[i] = "ratelimit" => <<"ratelimit", target.name, q.remote>> \in Keys
       /\ e.hooks[i] = "waf" =>
            \A r \in DOMAIN rules : Action(rules[r]) = "ratelimit" =>
              LET key == <<"waf", rules[r].id, clientIP(q)>> IN
              /\ key \in Keys
              /\ [rate |-> rules[r].rps, burst |-> rules[r].burst] \in Params[key]

\* The site, the hooks in the random order of LoadPlugins, the origins of the cors
\* plugin, error_page's statuses, jsonlog, compression, what clients send and what
\* upstreams answer, whether they may fail to, the workers in use, and a bound on the time.
IsEnvironment(e) ==
  /\ IsSite(e.site)
  /\ IsSeq(e.hooks)
  /\ \A i, j \in DOMAIN e.hooks :
       e.hooks[i] \in {"cors", "waf", "ratelimit"} /\ (e.hooks[i] = e.hooks[j] => i = j)
  /\ IsMetered(e)
  /\ e.logging \in BOOLEAN /\ e.compresses \in BOOLEAN /\ e.fails \in BOOLEAN
  /\ \A s \in e.statuses : Final(s) /\ s # 200
  /\ e.workers \subseteq Workers
  /\ e.requests # {} /\ e.replies # {}
  /\ \A r \in e.replies : Final(r.status) /\ {r.worth, r.empty, r.hints, r.stream} \subseteq BOOLEAN
  /\ e.until \in Nat

ASSUME RequestPathAssumption ==
  /\ \A e \in Environments : IsEnvironment(e)
  /\ IsFiniteSet(Workers)
  /\ IsParams(PluginParams)
  /\ \A k \in Keys : k[1] = "ratelimit" => Params[k] = {PluginParams}

VARIABLES
  env,
  conn,      \* what a worker is doing, see Blank
  admitted   \* the requests of a peer to a target that passed the hooks

vars == <<env, conn, admitted, limitVars>>

NoReply == [status |-> 0, coding |-> "", worth |-> FALSE, empty |-> TRUE,
            hints |-> FALSE, stream |-> FALSE]

Blank ==
  [pc      |-> "idle",       \* or "hook", "serve", "done"
   req     |-> NoRequest,
   place   |-> <<0, 0>>,     \* target and location
   hook    |-> 1,            \* the hook that runs next
   ruled   |-> <<>>,         \* the rule the firewall decided by, once it was asked
   drained |-> FALSE,        \* the firewall has read the body
   out     |-> NoOutput({}, FALSE, FALSE),
   wanted  |-> NoReply,      \* the answer that was decided on
   ids     |-> [page |-> "", line |-> ""]]   \* of the error page and the access line

Init ==
  /\ LimitInit
  /\ env \in Environments
  /\ conn = [w \in Workers |-> Blank]
  /\ admitted = [k \in Keys |-> 0]

TargetOf(c) == env.site.targets[c.place[1]]
Location(c) == TargetOf(c).locations[c.place[2]]

\* The handler returns: error_page and the server finish the response.
Done(c, o, resp) == [c EXCEPT !.pc = "done", !.out = finish(o), !.wanted = resp]

Status(code) == [NoReply EXCEPT !.status = code]

-----------------------------------------------------------------------------
(* Arrival *)

\* Mutant: the id of the error page stays in the context.
RequestIDsApart(q, pages) ==
  [page |-> IF q.id = "" THEN "made for the page" ELSE q.id,
   line |-> IF q.id = "" THEN "made by the handler" ELSE q.id]

\* ensureRequestID of error_page makes an id for a request without one and puts it
\* in the header, where EnsureRequestID of the handler finds it.
RequestIDs(q, pages) ==
  LET page == IF q.id = "" THEN "made for the page" ELSE q.id
      line == IF q.id = "" THEN "made by the handler" ELSE q.id
  IN [page |-> page, line |-> IF pages THEN page ELSE line]

\* The frontend handler, the two routers, and the start of TargetHandler.ServeHTTP;
\* a request without location is answered by the router and not logged.
Arrive(w, q) ==
  LET p == route(env.site, q.host, q.path)
      found == p[2] # 0
      c == [Blank EXCEPT !.pc = "hook", !.req = q, !.place = p,
              !.out = NoOutput(env.statuses, env.logging /\ found, q.method = "HEAD"),
              !.ids = RequestIDs(q, env.statuses # {})]
  IN /\ w \in env.workers /\ conn[w].pc = "idle"
     /\ conn' = [conn EXCEPT ![w] = IF found THEN c ELSE Done(c, Reply(c.out, 404), Status(404))]
     /\ UNCHANGED <<env, admitted, limitVars>>

-----------------------------------------------------------------------------
(* The hooks *)

Passed(c) == [c EXCEPT !.hook = @ + 1]

\* The hook answers and returns an error: RunBeforeProxy stops and the handler returns.
Refused(c, code) == Done(c, Reply(c.out, code), Status(code))

Runs(w, name) ==
  LET c == conn[w] IN
  /\ c.pc = "hook"
  /\ c.hook \in DOMAIN env.hooks
  /\ env.hooks[c.hook] = name

\* Store.Allow for a request, and its consequence.
Charge(w, c, key, p, code) ==
  /\ Allow(key, p)
  /\ conn' = [conn EXCEPT ![w] = IF answer'[key] = "yes" THEN Passed(c) ELSE Refused(c, code)]

\* Mutant: the bucket is that of the address the client claims.
RateLimitKeyClaimed(c) == <<"ratelimit", TargetOf(c).name, clientIP(c.req)>>

\* RateLimitPlugin.key: one bucket per target and peer.
RateLimitKey(c) == <<"ratelimit", TargetOf(c).name, c.req.remote>>

\* RateLimitPlugin.BeforeProxy.
RateLimitHook(w) ==
  /\ Runs(w, "ratelimit")
  /\ Charge(w, conn[w], RateLimitKey(conn[w]), PluginParams, 429)
  /\ UNCHANGED <<env, admitted>>

\* CORSPlugin.BeforeProxy: a preflight request of an allowed origin is answered.
CORSHook(w) ==
  LET c == conn[w]
      allowed == c.req.origin # "" /\ env.origins \cap {"*", c.req.origin} # {}
  IN /\ Runs(w, "cors")
     /\ conn' = [conn EXCEPT ![w] =
                   IF allowed /\ c.req.method = "OPTIONS"
                   THEN Done(c, WriteHeader(c.out, 204), Status(204)) ELSE Passed(c)]
     /\ UNCHANGED <<env, admitted, limitVars>>

\* WAFPlugin.Init: the enabled policies by target and path, the last of a key.  The
\* targets of a lazy site are not known to it.
Policy(site, target, path) ==
  LET P == {p \in Locations(site) :
              LET l == site.targets[p[1]].locations[p[2]] IN
              ~ site.lazy /\ site.targets[p[1]].name = target /\ l.path = path /\ l.waf.enabled}
      last == CHOOSE p \in P : \A q \in P : q[1] < p[1] \/ (q[1] = p[1] /\ q[2] <= p[2])
  IN IF P = {} THEN <<>> ELSE site.targets[last[1]].locations[last[2]].waf.rules

\* WAFPlugin.BeforeProxy: a rate_limit rule passes what is under its limit, and the
\* rules after it are not consulted.
FirewallHook(w) ==
  LET policy == Policy(env.site, TargetOf(conn[w]).name, Location(conn[w]).path)
      i == evaluate(policy, conn[w].req)
      c == [conn[w] EXCEPT !.ruled = <<i>>, !.drained = ReadsBody(policy)]
      action == IF i = 0 THEN "allow" ELSE Action(policy[i])
  IN /\ Runs(w, "waf")
     /\ \/ /\ action = "allow"
           /\ conn' = [conn EXCEPT ![w] = Passed(c)]
           /\ UNCHANGED limitVars
        \/ /\ action = "deny"
           /\ conn' = [conn EXCEPT ![w] = Refused(c, BlockStatus(policy[i]))]
           /\ UNCHANGED limitVars
        \/ /\ action = "ratelimit"
           /\ Charge(w, c, <<"waf", policy[i].id, clientIP(c.req)>>,
                     [rate |-> policy[i].rps, burst |-> policy[i].burst],
                     BlockStatus(policy[i]))
     /\ UNCHANGED <<env, admitted>>

Limited == \E i \in DOMAIN env.hooks : env.hooks[i] = "ratelimit"

\* The last hook has passed.
HooksDone(w) ==
  LET c == conn[w] IN
  /\ c.pc = "hook" /\ c.hook > Len(env.hooks)
  /\ conn' = [conn EXCEPT ![w].pc = "serve"]
  /\ admitted' = IF Limited
                 THEN [admitted EXCEPT ![<<"ratelimit", TargetOf(c).name, c.req.remote>>] = @ + 1]
                 ELSE admitted
  /\ UNCHANGED <<env, limitVars>>

-----------------------------------------------------------------------------
(* The answer *)

\* handleCORS of a location: any OPTIONS request ends without a word.
Preflight(c) == Location(c).cors /\ c.req.method = "OPTIONS" /\ ~ c.req.grpc

Redirects(c) == Location(c).redirect # 0 /\ ~ Preflight(c) /\ ~ c.req.grpc

Answer(w, o, resp) ==
  /\ conn[w].pc = "serve"
  /\ conn' = [conn EXCEPT ![w] = Done(@, o, resp)]
  /\ UNCHANGED <<env, admitted, limitVars>>

ServePreflight(w) ==
  conn[w].pc = "serve" /\ Preflight(conn[w]) /\ Answer(w, conn[w].out, Status(200))

\* The redirect of a rewrite rule, 301 or 302; http.Redirect has a text for GET only.
ServeRedirect(w) ==
  LET c == conn[w]
      code == Location(c).redirect
  IN /\ c.pc = "serve" /\ Redirects(c)
     /\ Answer(w, IF c.req.method = "GET" THEN Reply(c.out, code) ELSE WriteHeader(c.out, code),
               Status(code))

\* The compression plugin wraps the reverse proxy, and not that of gRPC.
Forward(w, resp) ==
  LET c == conn[w] IN
  /\ ~ Preflight(c) /\ ~ Redirects(c)
  /\ Answer(w, IF env.compresses /\ c.req.gzip /\ ~ c.req.grpc
               THEN Compressed(c.out, resp) ELSE Proxied(c.out, resp), resp)

\* A request whose body was read announces a length it no longer has, and the
\* transport fails; without an announced length it is forwarded empty.
Spoiled(c) == c.drained /\ c.req.fields[<<"body", "">>] # "" /\ ~ c.req.chunked

ServeUpstream(w) ==
  /\ conn[w].pc = "serve" /\ ~ Spoiled(conn[w])
  /\ \E resp \in env.replies :
       /\ conn[w].req.method = "HEAD" => resp.empty
       /\ Forward(w, resp)

\* The reverse proxy's error handler.
ServeFails(w) ==
  /\ conn[w].pc = "serve" /\ (env.fails \/ Spoiled(conn[w]))
  /\ Forward(w, [NoReply EXCEPT !.status = 502, !.empty = FALSE])

\* FinishRequest writes the access line, and the worker is free.
Leave(w) ==
  /\ conn[w].pc = "done"
  /\ conn' = [conn EXCEPT ![w] = Blank]
  /\ UNCHANGED <<env, admitted, limitVars>>

Wait ==
  /\ clock < env.until
  /\ Tick
  /\ UNCHANGED <<env, conn, admitted>>

Next ==
  \/ \E w \in Workers :
       \/ \E q \in env.requests : Arrive(w, q)
       \/ RateLimitHook(w) \/ CORSHook(w) \/ FirewallHook(w) \/ HooksDone(w)
       \/ ServePreflight(w) \/ ServeRedirect(w) \/ ServeUpstream(w) \/ ServeFails(w)
       \/ Leave(w)
  \/ Wait

Spec == Init /\ [][Next]_vars

-----------------------------------------------------------------------------
(* Properties *)

Serving == {conn[w] : w \in {w \in Workers : conn[w].pc # "idle"}}

\* Every location says how it matches, "/" is only used as a prefix, and no path is
\* empty or so long that its length exceeds the priority of a regex.
Clear(locations) ==
  \A i \in DOMAIN locations :
    /\ locations[i].match \in {"exact", "regex", "prefix"}
    /\ Len(locations[i].path) \in 1 .. 499
    /\ locations[i].path = <<"/">> => locations[i].match = "prefix"

Rank(l) == CASE l.match = "exact" -> 2 [] l.match = "regex" -> 1 [] OTHER -> 0

\* Location a is to be preferred to location b.
MoreSpecific(a, b) ==
  \/ Rank(a) > Rank(b)
  \/ Rank(a) = 0 /\ Rank(b) = 0 /\ Len(TrimSuffix(a.path, "/")) > Len(TrimSuffix(b.path, "/"))

\* A request reaches the target that its host names, however the host is spelled, or
\* else the default target, and there a location that matches and is not less specific
\* than any other that does; it is refused only if none does.  (HostRouter and
\* TargetConfigHandler ServeHTTP, for targets whose locations are Clear.)
RouteMostSpecific ==
  \A c \in Serving :
    LET site == env.site
        named == lookup(site, c.req.name)
        t == IF named # 0 THEN named ELSE lookup(site, DefaultHostname)
        ls == site.targets[t].locations
        l == c.place[2]
        M == {i \in DOMAIN ls : Matches(ls[i], c.req.path)}
    IN /\ t # 0 => c.place[1] = t
       /\ (IF t = 0 THEN FALSE ELSE Clear(ls)) =>
            IF M = {} THEN l = 0
            ELSE /\ l \in M
                 /\ \A i \in M : ~ MoreSpecific(ls[i], ls[l])
                 /\ \A i \in M : i < l => MoreSpecific(ls[l], ls[i])

\* The locations of a target that have a policy have different paths.
OwnPolicy(c) ==
  \A p \in Locations(env.site) :
    LET l == env.site.targets[p[1]].locations[p[2]] IN
    /\ l.path = Location(c).path /\ env.site.targets[p[1]].name = TargetOf(c).name
    => p = c.place

\* What the firewall decides with its index is what the policy of the location says,
\* rule by rule and condition by condition.  (evaluate and applyIndex, for policies
\* the index has room for: Indexable.)
PolicyDecides ==
  \A c \in Serving :
    (c.ruled # <<>> /\ OwnPolicy(c)) =>
      LET waf == Location(c).waf
          rules == IF waf.enabled /\ ~ env.site.lazy THEN waf.rules ELSE <<>>
      IN Indexable(rules) => c.ruled = <<Meaning(rules, c.req)>>

\* What the writers are known to lose: an informational response closes the recorder
\* and the error page, and an event stream is flushed past the gzip writer.
Lossy(c) ==
  LET gzip == env.compresses /\ c.req.gzip /\ ~ c.req.grpc
  IN \/ c.wanted.hints /\ ~ gzip /\ (env.logging \/ env.statuses # {})
     \/ c.wanted.stream /\ gzip

\* The client gets the status that was decided on and the access line has the same;
\* the body is the upstream's, its gzip with a header that says so, or one error page
\* with the id of the access line.  (errorPageWriter, accessRecorder and
\* gzipResponseWriter.)
ClientSeesResponse ==
  \A c \in Serving :
    (c.pc = "done" /\ ~ Lossy(c)) =>
      LET o == c.out IN
      /\ o.sent = c.wanted.status
      /\ o.logging => statusCode(o) = c.wanted.status
      /\ Len(o.body) <= 1
      /\ o.paged <=> c.wanted.status \in env.statuses
      /\ o.paged => /\ o.sentCoding = ""
                    /\ \A i \in DOMAIN o.body : o.body[i] = "page"
                    /\ o.logging => c.ids.page = c.ids.line
      /\ \A i \in DOMAIN o.body :
           o.body[i] = "upstream" => o.sentCoding = c.wanted.coding
      /\ o.body = <<"gzip">> => o.sentCoding = "gzip" /\ c.wanted.coding = ""

\* Since the start a peer had at most its burst and its rate of requests let through
\* to a target, whatever the order of the hooks.  (RunBeforeProxy and
\* RateLimitPlugin.BeforeProxy.)
AdmittedWithinBudget ==
  \A k \in Keys :
    admitted[k] <= Effective(PluginParams).burst + clock * Effective(PluginParams).rate
=============================================================================
