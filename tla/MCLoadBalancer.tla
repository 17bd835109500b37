--------------------------- MODULE MCLoadBalancer ---------------------------
(* LoadBalancer with two upstreams of different weights and a small table. *)
EXTENDS LoadBalancer

CONSTANTS r1, r2

Weights == [u \in Upstreams |-> IF u = 0 THEN 2 ELSE 0]
Offsets == [u \in Upstreams |-> 2 * u + 1]
Skips == [u \in Upstreams |-> u + 1]

Environment(algorithm, active, requests, max) ==
  [algorithm |-> algorithm, active |-> active, maxFlips |-> max, requests |-> requests,
   pinned |-> None, tooLarge |-> FALSE]

\* A table has only upstreams that were healthy, whichever these are.
ASSUME TablesOfHealthy ==
  /\ buildTable \in [SUBSET Upstreams -> [Slots -> Upstreams]]
  /\ \A H \in (SUBSET Upstreams) \ {{}}, s \in Slots : buildTable[H][s] \in H

\* Two requests at a time, or one, alone or beside the health checker.
Plain == {Environment(a, FALSE, {r1, r2}, 1) : a \in Algorithms}
Checked == {Environment(a, TRUE, {r1}, 2) : a \in Algorithms}
Alone == {Environment(a, FALSE, {r1}, 2) : a \in {"rr", "wrr"}}

\* Responses that are too large, and a location that pins an upstream.
Special ==
  {[Environment("maglev", TRUE, {r1}, 1) EXCEPT !.tooLarge = TRUE],
   [Environment("rr", TRUE, {r1}, 1) EXCEPT !.pinned = 1]}

AllEnvironments == Plain \cup Checked \cup Alone \cup Special

\* Maglev without health checks.
MaglevOnly == {Environment("maglev", FALSE, {r1}, 1)}
=============================================================================
