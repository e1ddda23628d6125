------------------------- MODULE MCFleetReconciler -------------------------
(* FleetReconciler on small instances: model values for claws, slugs and   *)
(* policies, and the symmetry of the ones no definition tells apart.       *)
EXTENDS FleetReconciler, TLC

Symmetry == Permutations(Claws) \cup Permutations(Slugs) \cup Permutations(Policies)

=============================================================================
