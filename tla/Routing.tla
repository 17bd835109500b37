------------------------------- MODULE Routing ------------------------------
(***************************************************************************)
(* How a request finds its location: the normalisation of the Host header, *)
(* the lookup of the target, and the choice among the target's locations.  *)
(*                                                                         *)
(* Hosts and paths are sequences of characters.  A site is [lazy, targets] *)
(* with targets a sequence of [name, locations] in the order of the        *)
(* configuration; a location is [path, match, accepts, ...], accepts being *)
(* the paths its regular expression matches.                               *)
(***************************************************************************)
EXTENDS Naturals, Sequences

CONSTANT Upper   \* a function from capital letters to small ones

DefaultHostname == <<"_default">>

Places(s, c) == {i \in DOMAIN s : s[i] = c}

HasPrefix(s, p) == Len(p) <= Len(s) /\ SubSeq(s, 1, Len(p)) = p

TrimSuffix(s, c) == IF s # <<>> /\ s[Len(s)] = c THEN SubSeq(s, 1, Len(s) - 1) ELSE s

ToLower(s) == [i \in DOMAIN s |-> IF s[i] \in DOMAIN Upper THEN Upper[s[i]] ELSE s[i]]

TrimSpace(s) ==
  LET I == DOMAIN s \ Places(s, " ")
  IN IF I = {} THEN <<>>
     ELSE SubSeq(s, CHOOSE i \in I : \A j \in I : i <= j, CHOOSE i \in I : \A j \in I : j <= i)

\* Mutant: everything after the first colon is cut, in any host.
NormalizeHostNaive(host) ==
  LET h == ToLower(TrimSpace(host))
      colons == Places(h, ":")
  IN IF colons = {} THEN TrimSuffix(h, ".")
     ELSE SubSeq(h, 1, (CHOOSE i \in colons : \A j \in colons : i <= j) - 1)

NormalizeHost(host) ==
  LET h == ToLower(TrimSpace(host))
      ends == Places(h, "]")
      colons == Places(h, ":")
      bare == IF \E i \in colons : colons = {i}
              THEN SubSeq(h, 1, (CHOOSE i \in colons : TRUE) - 1) ELSE h
  IN CASE h = <<>> -> <<>>
       [] h # <<>> /\ h[1] = "[" ->
            IF ends = {} THEN h ELSE SubSeq(h, 1, CHOOSE i \in ends : \A j \in ends : i <= j)
       [] OTHER -> TrimSuffix(bare, ".")

-----------------------------------------------------------------------------
(* The location of a target *)

Matches(loc, path) ==
  CASE loc.match = "exact" -> loc.path = path
    [] loc.match = "regex" -> path \in loc.accepts
    [] OTHER -> loc.path = <<"/">> \/ HasPrefix(path, TrimSuffix(loc.path, "/"))

\* The empty match type matches like a prefix and has no priority.
Priority(loc) ==
  CASE loc.match = "exact"  -> 1000
    [] loc.match = "regex"  -> 500
    [] loc.match = "prefix" -> Len(TrimSuffix(loc.path, "/"))
    [] OTHER                -> 0

FirstOf(I) == IF I = {} THEN 0 ELSE CHOOSE i \in I : \A j \in I : i <= j

\* buildTargetConfigHandler: the first location with the path "/".
DefaultLoc(locations) == FirstOf({i \in DOMAIN locations : locations[i].path = <<"/">>})

\* Mutant: the last of several locations of one priority wins.
BestLast(locations, path) ==
  LET I == {i \in DOMAIN locations : Matches(locations[i], path) /\ Priority(locations[i]) > 0}
  IN IF I = {} THEN 0
     ELSE CHOOSE i \in I : \A j \in I : \/ Priority(locations[j]) < Priority(locations[i])
                                        \/ Priority(locations[j]) = Priority(locations[i]) /\ j <= i

\* The loop of TargetConfigHandler.ServeHTTP: the first of the highest priority.
Best(locations, path) ==
  FirstOf({i \in DOMAIN locations :
             /\ Matches(locations[i], path)
             /\ Priority(locations[i]) > 0
             /\ \A j \in DOMAIN locations :
                  Matches(locations[j], path) => Priority(locations[j]) <= Priority(locations[i])})

\* The location that serves a path, 0 for "No matching location".
locate(locations, path) ==
  IF Best(locations, path) # 0 THEN Best(locations, path) ELSE DefaultLoc(locations)

-----------------------------------------------------------------------------
(* The target of a host *)

Named(site, host) == {t \in DOMAIN site.targets : site.targets[t].name = host}

\* The table of hosts, of which a later target of one name takes the entry, or in
\* lazy mode the resolver over the store.
lookup(site, host) ==
  LET T == Named(site, host)
  IN IF T = {} THEN 0 ELSE CHOOSE t \in T : \A u \in T : u <= t

\* buildHostRouter: the router-wide handler, absent in lazy mode.
defaultHandler(site) ==
  IF site.lazy THEN 0
  ELSE FirstOf({t \in DOMAIN site.targets : DefaultLoc(site.targets[t].locations) # 0})

\* HostRouter.ServeHTTP and TargetConfigHandler.ServeHTTP: <<target, location>>,
\* with location 0 if the answer is 404.
route(site, host, path) ==
  LET h == lookup(site, NormalizeHost(host))
      d == lookup(site, DefaultHostname)
      f == defaultHandler(site)
      t == IF h # 0 THEN h ELSE d
  IN IF t # 0 THEN <<t, locate(site.targets[t].locations, path)>>
     ELSE <<f, IF f = 0 THEN 0 ELSE DefaultLoc(site.targets[f].locations)>>
=============================================================================
