---------------------------- MODULE MCConfigSync ----------------------------
(* ConfigSync with two server names and a target for each. *)
EXTENDS ConfigSync, TLC

CONSTANTS a, b, cfgA, cfgB

OwnNames == [c \in Configs |-> {IF c = cfgA THEN a ELSE b}]

\* Redeliveries: attempts fail and acknowledgements are lost or late.
Redelivering ==
  [maxEvents |-> 3, maxCrashes |-> 0, maxErrors |-> 2, maxExpiries |-> 1,
   losesWrites |-> FALSE, deleteErrors |-> FALSE, outages |-> FALSE]

\* A crash as well.
Crashing == [Redelivering EXCEPT !.maxCrashes = 1, !.maxErrors = 1]

\* Everything that can go wrong.
Faulty == [Crashing EXCEPT !.losesWrites = TRUE, !.deleteErrors = TRUE,
                           !.outages = TRUE]

AllEnvironments == {Redelivering, Crashing, Faulty}

\* A crash is the only fault, and loses writes.
LosingWrites == {[Redelivering EXCEPT !.maxEvents = 2, !.maxCrashes = 1,
                    !.maxErrors = 0, !.maxExpiries = 0, !.losesWrites = TRUE]}
=============================================================================
