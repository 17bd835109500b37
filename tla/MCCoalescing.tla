---------------------------- MODULE MCCoalescing ----------------------------
(* Coalescing for three requests, in three environments. *)
EXTENDS Coalescing

CONSTANT k1

\* Requests for one key, and everything that can go wrong.
Faulty == [keys |-> {k1}, workers |-> 1, faults |-> AllFaults]

\* Two keys compete for one cache writer.
Spread == [keys |-> Keys, workers |-> 1, faults |-> {}]

\* Every response is cached and stays so.
Calm == [keys |-> {k1}, workers |-> Cardinality(Requests), faults |-> {}]

AllEnvironments == {Faulty, Spread, Calm}
=============================================================================
