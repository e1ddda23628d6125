------------------------- MODULE MCTurnCoordinator -------------------------
(* TurnCoordinator on small instances: model values for ids, and the       *)
(* symmetry of the ids that no definition tells apart.                     *)
EXTENDS TurnCoordinator, TLC

Symmetry == Permutations(JobId) \cup Permutations(EventId) \cup Permutations(Socket)

=============================================================================
