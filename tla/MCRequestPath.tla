---------------------------- MODULE MCRequestPath ---------------------------
(***************************************************************************)
(* Instances of RequestPath in four families: every policy of a grammar    *)
(* against every kind of request, two workers and a clock on shared token  *)
(* buckets, lists of locations and spellings of hosts, and chains of       *)
(* response writers.                                                       *)
(***************************************************************************)
EXTENDS RequestPath, TLC

MCUpper == [c \in {"A", "B"} |-> IF c = "A" THEN "a" ELSE "b"]
MCCountry == [a \in {"ip1"} |-> "NL"]
MCAddresses == {"ip1", "ip2"}

A == <<"a">>
V6 == <<"[", ":", ":", "1", "]">>
Root == <<"/">>
PathA == <<"/", "a">>
PathAB == <<"/", "a", "b">>
PathB == <<"/", "b">>

MCKeys ==
  {<<"ratelimit", A, ip>> : ip \in {"ip1", "ip2"}}
    \cup {<<"waf", "r1", ip>> : ip \in {"ip1", "ip2", "proxied"}}
    \cup {<<"waf", "both", "ip1">>}

MCStoreOf == [k \in MCKeys |-> k[1]]

MCPluginParams == [rate |-> 1, burst |-> 2]

MCParams ==
  [k \in MCKeys |->
     CASE k[1] = "ratelimit" -> {MCPluginParams}
       [] k[2] = "both" -> {[rate |-> 1, burst |-> 1], [rate |-> 0, burst |-> 0]}
       [] OTHER -> {[rate |-> 1, burst |-> 1]}]

-----------------------------------------------------------------------------
NoFirewall == [enabled |-> FALSE, rules |-> <<>>]

Loc(path, match, accepts) ==
  [path |-> path, match |-> match, accepts |-> accepts, waf |-> NoFirewall,
   cors |-> FALSE, redirect |-> 0]

Prefix(path) == Loc(path, "prefix", {})

Guarded(path, rules) == [Prefix(path) EXCEPT !.waf = [enabled |-> TRUE, rules |-> rules]]

Target(name, locations) == [name |-> name, locations |-> locations]

Site(targets) == [lazy |-> FALSE, targets |-> targets]

Fields(path, method, header, body) ==
  (<<"path", "">> :> path @@ <<"method", "">> :> method @@
   <<"header", "X">> :> header @@ <<"body", "">> :> body)

Req ==
  [host |-> A, name |-> A, path |-> Root, method |-> "GET", id |-> "", remote |-> "ip1",
   realIP |-> "", forwarded |-> <<>>, origin |-> "", gzip |-> FALSE, grpc |-> FALSE,
   chunked |-> FALSE, fields |-> Fields("/", "GET", "", "")]

Ok == [status |-> 200, coding |-> "", worth |-> FALSE, empty |-> FALSE,
       hints |-> FALSE, stream |-> FALSE]

Env(site) ==
  [site |-> site, hooks |-> <<>>, origins |-> {"o"}, statuses |-> {404}, logging |-> TRUE,
   compresses |-> FALSE, requests |-> {Req}, replies |-> {Ok}, workers |-> {1}, fails |-> TRUE,
   until |-> 0]

-----------------------------------------------------------------------------
(* Policies *)

C(param, name, op, arg) == [param |-> param, name |-> name, op |-> op, arg |-> arg]

Conditions ==
  <<C("path", "", "equals", {"/a"}), C("path", "", "not_in", {"/a"}),
    C("header", "X", "test", {"x"}), C("header", "X", "not_exists", {}),
    C("ip", "", "not_in", {"ip1"}), C("ip", "", "equals", {"ip1"}),
    C("country", "", "in", {"NL"}), C("body", "", "exists", {}),
    C("path", "", "equals", {"/b"}), C("header", "Y", "exists", {})>>

Pairs == {p \in (DOMAIN Conditions) \X (DOMAIN Conditions) : p[1] < p[2]}

Forms ==
  {<< <<Conditions[i]>> >> : i \in DOMAIN Conditions}
    \cup {<< <<Conditions[p[1]], Conditions[p[2]]>> >> : p \in Pairs}
    \cup {<< <<Conditions[p[1]]>>, <<Conditions[p[2]]>> >> : p \in Pairs}

Rule(id, action, groups) ==
  [id |-> id, enabled |-> TRUE, action |-> action, code |-> 0, rps |-> 1, burst |-> 1,
   groups |-> groups]

Rules ==
  {<<Rule("r1", action, groups)>> : action \in {"deny", "log"}, groups \in Forms}
    \cup {<<Rule("r1", action, groups),
            Rule("r2", "", << <<Conditions[i], C("", "", "exists", {})>> >>)>>
          : action \in {"allow", "log"}, groups \in Forms, i \in {1, 3, 6}}
    \cup {<<[Rule("r2", "allow", << <<Conditions[1]>> >>) EXCEPT !.enabled = FALSE],
            Rule("r1", "rate-limit", << <<Conditions[i]>> >>)>> : i \in {1, 7}}

PolicyRequests ==
  {[Req EXCEPT !.fields = Fields("/a", "GET", "x", "")],
   [Req EXCEPT !.fields = Fields("/a", "POST", "", "text"), !.remote = "ip2"],
   [Req EXCEPT !.fields = Fields("/b", "POST", "y", "text"), !.chunked = TRUE],
   [Req EXCEPT !.fields = Fields("/b", "GET", "", "large"), !.remote = "ip2", !.realIP = "ip1"],
   [Req EXCEPT !.fields = Fields("/", "GET", "x", ""), !.forwarded = <<"proxied", "ip1">>]}

PolicyEnvironments ==
  {[Env(Site(<<Target(A, <<Guarded(Root, rules)>>)>>)) EXCEPT
      !.hooks = <<"waf">>, !.requests = PolicyRequests] : rules \in Rules}
    \cup {[Env([Site(<<Target(A, <<Guarded(Root, <<Rule("r1", "deny", << <<Conditions[4]>> >>)>>)>>)>>)
                  EXCEPT !.lazy = TRUE]) EXCEPT !.hooks = <<"waf">>, !.requests = PolicyRequests]}

-----------------------------------------------------------------------------
(* Limits: a rule id with one set of parameters, and one with two. *)

Everyone == << <<C("path", "", "exists", {})>> >>

LimitSite ==
  Site(<<Target(A, <<Guarded(Root, <<Rule("r1", "rate_limit", Everyone)>>),
                     Guarded(PathA, <<Rule("both", "rate_limit", Everyone)>>),
                     Guarded(PathB, <<[Rule("both", "rate_limit", Everyone) EXCEPT
                                         !.rps = 0, !.burst = 0]>>)>>)>>)

\* Two peers that name one client, and one that names two.
TwoPeers == {Req, [Req EXCEPT !.remote = "ip2", !.realIP = "ip1"]}
TwoNames == {Req, [Req EXCEPT !.realIP = "ip2"]}

LimitEnv(hooks, requests) ==
  [Env(LimitSite) EXCEPT !.hooks = hooks, !.statuses = {429}, !.requests = requests,
     !.workers = {1, 2}, !.fails = FALSE, !.until = 2]

LimitEnvironments ==
  {LimitEnv(<<"ratelimit", "waf">>, TwoPeers), LimitEnv(<<"waf", "ratelimit">>, TwoPeers),
   LimitEnv(<<"ratelimit">>, TwoNames),
   [LimitEnv(<<"waf">>, {[Req EXCEPT !.path = p] : p \in {Root, PathA, PathB}}) EXCEPT
      !.workers = {1}, !.until = 4]}

-----------------------------------------------------------------------------
(* Routes *)

LocationPool ==
  {Prefix(Root), Prefix(PathA), Prefix(PathA \o Root), Prefix(PathAB), Loc(PathA, "exact", {}),
   Loc(<<"^", "b">>, "regex", {PathAB, PathB}), Loc(PathA, "", {})}

LocationLists == UNION {[1 .. n -> LocationPool] : n \in 1 .. 3}

RouteRequests == {[Req EXCEPT !.path = p] : p \in {Root, PathA, PathAB, PathB}}

Spelled(host, name) == [Req EXCEPT !.host = host, !.name = name]

HostRequests ==
  {Spelled(A, A), Spelled(<<" ", "A", ":", "8">>, A), Spelled(<<"a", ".">>, A),
   Spelled(<<"A", ".", ":", "8">>, A), Spelled(V6 \o <<":", "8">>, V6), Spelled(V6, V6),
   Spelled(<<":", ":", "1">>, <<":", ":", "1">>), Spelled(<<"b">>, <<"b">>),
   Spelled(<<>>, <<>>)}

HostTargets ==
  {Target(n, <<Loc(l, "prefix", {})>>) : n \in {A, V6, <<":", ":", "1">>, DefaultHostname},
                                         l \in {Root, PathB}}

RouteEnvironments ==
  {[Env(Site(<<Target(A, ls)>>)) EXCEPT !.requests = RouteRequests] : ls \in LocationLists}
    \cup {[Env([Site(ts) EXCEPT !.lazy = lazy]) EXCEPT !.requests = HostRequests]
            : ts \in UNION {[1 .. n -> HostTargets] : n \in 1 .. 2}, lazy \in BOOLEAN}

-----------------------------------------------------------------------------
(* Responses *)

Replies ==
  {[status |-> s, coding |-> c, worth |-> b = "worth", empty |-> b = "empty",
    hints |-> h, stream |-> t]
     : s \in {200, 404, 503}, c \in {"", "br"}, b \in {"worth", "small", "empty"},
       h \in BOOLEAN, t \in BOOLEAN}

ResponseRequests ==
  {[Req EXCEPT !.method = m, !.gzip = z, !.origin = "o"] : m \in {"GET", "HEAD", "OPTIONS"},
                                                           z \in BOOLEAN}
    \cup {[Req EXCEPT !.id = "sent", !.method = m] : m \in {"GET", "OPTIONS"}}
    \cup {[Req EXCEPT !.grpc = TRUE, !.gzip = TRUE, !.method = "POST"],
          [Req EXCEPT !.path = PathB]}

ResponseLocations ==
  {[Prefix(Root) EXCEPT !.cors = c, !.redirect = r] : c \in BOOLEAN, r \in {0, 301, 302}}
    \cup {Prefix(PathA)}

ResponseEnvironments ==
  {[Env(Site(<<Target(A, <<l>>)>>)) EXCEPT
      !.hooks = h, !.statuses = s, !.logging = g, !.compresses = z,
      !.requests = ResponseRequests, !.replies = Replies]
     : l \in ResponseLocations, h \in {<<>>, <<"cors">>},
       s \in {{}, {404, 502}, {404, 301, 429}}, g \in BOOLEAN, z \in BOOLEAN}

MCEnvironments ==
  PolicyEnvironments \cup LimitEnvironments \cup RouteEnvironments \cup ResponseEnvironments
=============================================================================
