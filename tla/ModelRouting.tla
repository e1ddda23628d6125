----------------------------- MODULE ModelRouting -----------------------------
(***************************************************************************)
(* The routing of a claw's inference: ClawRouterControl.reconcile of       *)
(* src/clawrouter.ts puts the claw's policy and credential to ClawRouter,  *)
(* reads them back and keeps the observation for 30 s.  Reconciliations of *)
(* a claw run one after another; a request that times out fails the one it *)
(* is of, and may still reach ClawRouter later.  A credential is the       *)
(* generation its secret is derived from.                                  *)
(***************************************************************************)
EXTENDS Integers, FiniteSets

CONSTANTS Scope,       \* the providers of a claw's models; the budget is left out
          None,
          MaxGeneration, \* bound: rotations of the credentials
          MaxWishes,     \* bound: changes of the desired state
          MaxLost        \* bound: requests that time out or are rejected

ASSUME RoutingAssumption ==
  None \notin Scope /\ MaxGeneration \in Nat \ {0} /\ {MaxWishes, MaxLost} \subseteq Nat

VARIABLES
  wanted,      \* the claw: enabled, scope, credentials generation
  policy, credential, \* what ClawRouter holds
  reconcile,   \* the reconciliation under way
  cache,       \* #cache of the claw: fingerprint, recent
  lost,        \* PUTs that timed out
  observation, \* ghost: the desired state the last reconciliation observed as converged
  disturbed,   \* ghost: ClawRouter was changed since it was last read back
  wishes

routingVars == <<wanted, policy, credential, reconcile, cache, lost, observation, disturbed, wishes>>

Wanted == [enabled : BOOLEAN, scope : Scope, generation : 1..MaxGeneration]
Quiet == [at |-> "idle", claw |-> None]

RoutingInit ==
  /\ wanted \in {w \in Wanted : w.enabled /\ w.generation = 1}
  /\ policy = [enabled |-> FALSE, scope |-> None]
  /\ credential = [enabled |-> FALSE, generation |-> 0]
  /\ reconcile = Quiet /\ cache = None /\ lost = {}
  /\ observation = None /\ disturbed = FALSE /\ wishes = 0

(* Mutant: the generation is left out of the fingerprint. *)
Identity(claw) == [claw EXCEPT !.generation = 1]

Fingerprint(claw) == claw

Observe(claw) == reconcile' = Quiet /\ observation' = claw

(* The cache answers for the same desired state, for 30 s. *)
Begin ==
  /\ reconcile = Quiet
  /\ IF cache # None /\ cache.fingerprint = Fingerprint(wanted) THEN Observe(wanted)
     ELSE reconcile' = [at |-> "policy", claw |-> wanted] /\ observation' = None
  /\ UNCHANGED <<wanted, policy, credential, cache, lost, disturbed, wishes>>

PolicyOf(claw) == [enabled |-> claw.enabled, scope |-> claw.scope]
CredentialOf(claw) == [enabled |-> claw.enabled, generation |-> claw.generation]

(* PUT of the policy, answered with the policy that is now held. *)
PutPolicy ==
  /\ reconcile.at = "policy" /\ policy' = PolicyOf(reconcile.claw)
  /\ reconcile' = [reconcile EXCEPT !.at = "credential"] /\ disturbed' = TRUE
  /\ UNCHANGED <<wanted, credential, cache, lost, observation, wishes>>

(* Converged: the answers say what is wanted; it is kept. *)
Converges ==
  /\ Observe(reconcile.claw) /\ cache' = [fingerprint |-> Fingerprint(reconcile.claw)]
  /\ disturbed' = FALSE

(* PUT of the credential, whose answer also tells whether the policy is     *)
(* enabled; a disabled claw's reconciliation ends here.                     *)
PutCredential ==
  /\ reconcile.at = "credential" /\ credential' = CredentialOf(reconcile.claw)
  /\ CASE policy.enabled # reconcile.claw.enabled -> reconcile' = Quiet /\ disturbed' = TRUE
                                                     /\ UNCHANGED <<observation, cache>>
       [] policy.enabled = reconcile.claw.enabled /\ reconcile.claw.enabled ->
            reconcile' = [reconcile EXCEPT !.at = "inspect"] /\ disturbed' = TRUE
            /\ UNCHANGED <<observation, cache>>
       [] OTHER -> Converges
  /\ UNCHANGED <<wanted, policy, lost, wishes>>

(* #client: the key's inspection, with the token of the claw's generation,  *)
(* and the catalog.                                                         *)
Verified(claw) == policy = PolicyOf(claw) /\ credential = CredentialOf(claw)

InspectKey ==
  /\ reconcile.at = "inspect"
  /\ \/ Verified(reconcile.claw) /\ Converges
     \/ reconcile' = Quiet /\ UNCHANGED <<observation, cache, disturbed>>
  /\ UNCHANGED <<wanted, policy, credential, lost, wishes>>

(* A request times out or is rejected: the reconciliation throws, and keeps *)
(* the cache as it is.                                                      *)
RequestFails ==
  /\ reconcile # Quiet /\ Cardinality(lost) < MaxLost
  /\ lost' = lost \cup {[id |-> Cardinality(lost) + 1, put |-> reconcile.at, claw |-> reconcile.claw,
                         landed |-> FALSE]}
  /\ reconcile' = Quiet
  /\ UNCHANGED <<wanted, policy, credential, cache, observation, disturbed, wishes>>

PutLandsLate(r) ==
  /\ ~r.landed /\ r.put \in {"policy", "credential"}
  /\ policy' = IF r.put = "policy" THEN PolicyOf(r.claw) ELSE policy
  /\ credential' = IF r.put = "credential" THEN CredentialOf(r.claw) ELSE credential
  /\ lost' = (lost \ {r}) \cup {[r EXCEPT !.landed = TRUE]} /\ disturbed' = TRUE
  /\ UNCHANGED <<wanted, reconcile, cache, observation, wishes>>

(* 30 s pass, or the control plane restarts. *)
CacheLapses ==
  /\ cache # None /\ cache' = None
  /\ UNCHANGED <<wanted, policy, credential, reconcile, lost, observation, disturbed, wishes>>

(* The claw is changed, enabled or disabled, or its credentials rotated. *)
WantedChanges ==
  /\ wishes < MaxWishes /\ wishes' = wishes + 1
  /\ \/ \E s \in Scope \ {wanted.scope} : wanted' = [wanted EXCEPT !.scope = s]
     \/ wanted' = [wanted EXCEPT !.enabled = ~@]
     \/ wanted.generation < MaxGeneration /\ wanted' = [wanted EXCEPT !.generation = @ + 1]
  /\ UNCHANGED <<policy, credential, reconcile, cache, lost, observation, disturbed>>

RoutingNext ==
  \/ Begin \/ PutPolicy \/ PutCredential \/ InspectKey \/ RequestFails
  \/ \E r \in lost : PutLandsLate(r)
  \/ CacheLapses \/ WantedChanges

RoutingSpec == RoutingInit /\ [][RoutingNext]_routingVars

----------------------------------------------------------------------------
(* What a reconciliation observes holds at ClawRouter as long as nothing    *)
(* was put there since it was read back, cached or not: a disabled claw's   *)
(* key is refused, an enabled one's is that of its generation, with its     *)
(* policy's scope (reconcile, #credential).                                 *)
RouterHonest ==
  observation # None /\ ~disturbed =>
    /\ credential = CredentialOf(observation) /\ policy.enabled = observation.enabled
    /\ observation.enabled => policy.scope = observation.scope

=============================================================================
