--------------------------- MODULE MCRuntimeTurns ---------------------------
(* RuntimeTurns on small instances. *)
EXTENDS RuntimeTurns, TLC

Symmetry == Permutations(JobId) \cup Permutations(EventId) \cup Permutations(Socket)

(* Bound: two scenarios in one instance, a single turn with two of a       *)
(* reset, a fault and a restart of the bridge, or several turns with none. *)
Scenario ==
  LET mishaps == resetGen + faults + restarts
  IN mishaps <= IF Cardinality({j \in JobId : jobs[j].status # "absent"}) <= 1 THEN 2 ELSE 0

=============================================================================
