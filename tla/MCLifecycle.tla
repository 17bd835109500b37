---------------------------- MODULE MCLifecycle -----------------------------
(***************************************************************************)
(* Instances of Lifecycle: failing starts, reloads with their failures, a  *)
(* cluster edge, a serve loop that fails, an early cancellation.           *)
(***************************************************************************)
EXTENDS Lifecycle

CONSTANTS t1, t2, q1

MCTargets == {t1, t2}
MCRequests == {q1}

Tcp(a) == [kind |-> "tcp", addr |-> a]
Quic(a) == [kind |-> "quic", addr |-> a]

\* Nothing fails, the context is cancelled while serving, no SIGHUP.
Quiet ==
  [sockets |-> <<Tcp(1), Quic(1)>>, cluster |-> FALSE, startFails |-> FALSE,
   serveFails |-> FALSE, reloadFails |-> FALSE, cancels |-> TRUE,
   cancelsLate |-> TRUE, timeouts |-> FALSE, maxHups |-> 0]

AllEnvironments ==
  {[Quiet EXCEPT !.sockets = <<Tcp(1), Quic(1), Quic(2)>>, !.startFails = TRUE],
   [Quiet EXCEPT !.maxHups = 3],
   [Quiet EXCEPT !.maxHups = 2, !.reloadFails = TRUE],
   [Quiet EXCEPT !.maxHups = 1, !.cluster = TRUE, !.timeouts = TRUE],
   [Quiet EXCEPT !.maxHups = 1, !.serveFails = TRUE],
   [Quiet EXCEPT !.cancelsLate = FALSE, !.startFails = TRUE]}
=============================================================================
