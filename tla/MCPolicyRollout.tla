-------------------------- MODULE MCPolicyRollout --------------------------
(* PolicyRollout on small instances, with the symmetry of its model values. *)
EXTENDS PolicyRollout, TLC

Symmetry == Permutations(Claws) \cup Permutations(Slugs) \cup Permutations(Policies)

(* Bound: two scenarios in one instance, others edit claws during the      *)
(* rollout, or providers fail and lose answers.                            *)
Scenario == changes = 0 \/ (faults = 0 /\ losses = 0)

=============================================================================
