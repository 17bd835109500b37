--------------------------- MODULE MCControlPlane ---------------------------
(* ControlPlane with two files and two names: a target of two names, one of *)
(* its names alone, and another target that claims the other name.          *)
EXTENDS ControlPlane, TLC

CONSTANTS a, b, both, onlyA, otherB

ClaimsOf == (both :> {a, b}) @@ (onlyA :> {a}) @@ (otherB :> {b})

OneFile == [f \in Files |-> IF f = 1 THEN both ELSE NoFile]

Undisturbed == [maxEdits |-> 4, maxStarts |-> 1, earlyEdits |-> FALSE,
                failures |-> FALSE]
Failing == [Undisturbed EXCEPT !.failures = TRUE]
Restarted == [Undisturbed EXCEPT !.maxEdits = 3, !.maxStarts = 3,
                                 !.earlyEdits = TRUE]

AllEnvironments == {Undisturbed, Failing, Restarted}
=============================================================================
