------------------------- MODULE MCEdgeCoordinator -------------------------
(* EdgeCoordinator on small instances. *)
EXTENDS EdgeCoordinator

InUse    == Cardinality({s \in Socket : sockets[s] # "free"})
Failures == crashes + Cardinality({j \in JobId : lost[j] > 0})

(* One thing goes wrong in a behaviour: a reset (with another request      *)
(* suspended at the same time) or a removal, an eviction, or a lost answer *)
(* of Slack; or else a socket replaces another.                            *)
Scenario ==
  /\ resetGen + Failures + (IF InUse > 1 THEN 1 ELSE 0) <= 1
  /\ Requests <= 1 \/ \E task \in tasks : task.kind = "reset"

ScenarioSpec == Init /\ [][Next /\ Scenario']_vars /\ Fairness

=============================================================================
