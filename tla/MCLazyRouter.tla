--------------------------- MODULE MCLazyRouter ----------------------------
(***************************************************************************)
(* TLC instances of LazyRouter.  Few narrows what the environment does, so *)
(* that two hosts compete for an LRU of one handler, two events follow     *)
(* each other, and liveness can be checked on the same instance: one of    *)
(* the requests only asks for the default host, the first event claims     *)
(* every host and the others one.  No step of a request or of the consumer *)
(* is narrowed.                                                            *)
(***************************************************************************)
EXTENDS LazyRouter

CONSTANT anyHost   \* the request that asks for every host

Few ==
  /\ \A r \in Requests \ {anyHost} : host'[r] = DefaultHostname
  /\ clock' # clock => todo' = IF clock = 0 THEN Hosts ELSE {DefaultHostname}

FewSpec ==
  /\ Init /\ [][Next /\ Few]_vars
  /\ \A r \in Requests : WF_vars(RequestStep(r))
  /\ WF_vars(ConsumerStep)
=============================================================================
