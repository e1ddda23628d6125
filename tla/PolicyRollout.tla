--------------------------- MODULE PolicyRollout ---------------------------
(***************************************************************************)
(* A policy rolled out to several claws (worker/control-plane-service.ts,  *)
(* POST /api/policies/:id/preview and /apply, with previewPolicy and       *)
(* applyPolicy of src/registry.ts), composed with FleetReconciler.         *)
(*                                                                         *)
(* An administrator previews a policy for some claws, which records their  *)
(* generations, and applies it: first to the canary, which is reconciled,  *)
(* then, if the canary is ready or disabled, to the rest in one            *)
(* transaction.  Each application is refused as a whole when one of its    *)
(* targets is no longer at the generation that was previewed.  Everything  *)
(* else the fleet does interleaves with it; the reconcile of the canary is *)
(* the rollout's own, and waits for those before it.                       *)
(*                                                                         *)
(* A policy for one claw needs no canary and is an Update here.            *)
(***************************************************************************)
EXTENDS FleetReconciler

CONSTANT MaxRollouts  \* bound: previews

VARIABLES
  rollout,   \* the rollout in progress
  rollouts,  \* previews so far
  edited     \* history: claws whose desired state others changed since the preview

rolloutVars == <<vars, rollout, rollouts, edited>>

NoRollout == [step |-> "idle", policy |-> None, canary |-> None, rest |-> {},
              expected |-> [c \in Claws |-> 0], applied |-> 0]

RolloutInit == Init /\ rollout = NoRollout /\ rollouts = 0 /\ edited = {}

Targets == {rollout.canary} \cup rollout.rest

(* assertPolicyTargetMutable for every target. *)
Preview ==
  /\ rollout.step = "idle"
  /\ rollouts < MaxRollouts /\ rollouts' = rollouts + 1
  /\ \E canary \in Claws, p \in Policies : \E rest \in SUBSET (Claws \ {canary}) :
       /\ rest # {} /\ \A c \in rest \cup {canary} : Mutable(c)
       /\ rollout' = [step |-> "previewed", policy |-> p, canary |-> canary,
                      rest |-> rest, applied |-> 0,
                      expected |-> [c \in Claws |->
                        IF c \in rest \cup {canary} THEN claws[c].desired.generation ELSE 0]]
  /\ edited' = {}
  /\ UNCHANGED vars

(* Mutant: the previewed generation is not compared. *)
CurrentUnfenced(c) == Mutable(c)

(* What applyPolicy checks of every target before it writes any. *)
Current(c) == Mutable(c) /\ claws[c].desired.generation = rollout.expected[c]

Refused(targets) ==
  /\ \E c \in targets : ~Current(c)
  /\ rollout' = NoRollout
  /\ UNCHANGED <<claws, jobs>>

(* A target that has the policy already is left as it is. *)
ApplyPolicy(targets) ==
  LET changed == {c \in targets : claws[c].desired.policy # rollout.policy} IN
    /\ \A c \in targets : Current(c)
    /\ claws' = [c \in Claws |->
         IF c \in changed THEN Updated(c, rollout.policy) ELSE claws[c]]
    /\ jobs' = [c \in Claws |->
         IF c \in changed /\ jobs[c] # None THEN [jobs[c] EXCEPT !.fresh = FALSE]
         ELSE jobs[c]]

ApplyToCanary ==
  /\ rollout.step = "previewed"
  /\ \/ Refused({rollout.canary})
     \/ /\ ApplyPolicy({rollout.canary})
        /\ rollout' = [rollout EXCEPT !.step = "waiting",
                         !.applied = claws'[rollout.canary].desired.generation]
  /\ UNCHANGED <<workspaces, requestVars, budgets, rollouts, edited>>

(* Mutant: a reconcile that is already running serves for the canary's. *)
ReconcileCanaryJoins ==
  /\ rollout.step = "waiting"
  /\ \/ /\ jobs[rollout.canary] # None /\ UNCHANGED vars
        /\ rollout' = [rollout EXCEPT !.step = "reconciling"]
     \/ Begin(rollout.canary) /\ rollout' = [rollout EXCEPT !.step = "reconciling"]
     \/ /\ Deleted(rollout.canary) /\ rollout' = NoRollout
        /\ UNCHANGED vars
  /\ UNCHANGED <<rollouts, edited>>

(* reconcileOne(canary), once the reconciles before it are done. *)
ReconcileCanary ==
  /\ rollout.step = "waiting"
  /\ \/ Begin(rollout.canary) /\ rollout' = [rollout EXCEPT !.step = "reconciling"]
     \/ /\ Deleted(rollout.canary) /\ rollout' = NoRollout
        /\ UNCHANGED vars
  /\ UNCHANGED <<rollouts, edited>>

(* The rest is applied when the record the reconcile returned says so: the *)
(* record it wrote, or the current one if its write met a conflict.        *)
CanaryOk == claws'[rollout.canary].observed.phase \in {"ready", "disabled"}

ReconcileReturns(c) == jobs[c] # None /\ jobs'[c] = None

FleetStep ==
  /\ Next
  /\ IF Crash THEN rollout' = NoRollout
     ELSE IF rollout.step = "reconciling" /\ ReconcileReturns(rollout.canary)
       THEN rollout' = IF CanaryOk THEN [rollout EXCEPT !.step = "passed"] ELSE NoRollout
     ELSE UNCHANGED rollout
  /\ edited' = edited \cup {c \in Claws : Exists(c) /\ claws'[c].desired # claws[c].desired}
  /\ UNCHANGED rollouts

ApplyToRest ==
  /\ rollout.step = "passed"
  /\ \/ Refused(rollout.rest)
     \/ ApplyPolicy(rollout.rest) /\ rollout' = NoRollout
  /\ UNCHANGED <<workspaces, requestVars, budgets, rollouts, edited>>

RolloutNext == FleetStep \/ Preview \/ ApplyToCanary \/ ReconcileCanary \/ ApplyToRest

RolloutSpec == RolloutInit /\ [][RolloutNext]_rolloutVars

-----------------------------------------------------------------------------
(* Properties. *)

(* A rollout overwrites no change it was not previewed against: a claw that *)
(* gets the policy is as it was at the preview, whoever else was updating, *)
(* enabling or removing claws meanwhile (applyPolicy, expectedGenerations). *)
RolloutKeepsEdits ==
  [][\A c \in Claws :
       /\ rollout.step \in {"previewed", "passed"} /\ rollout'.step # rollout.step
       /\ claws'[c] # claws[c] /\ claws'[c].desired.policy # claws[c].desired.policy
       => c \in Targets /\ c \notin edited]_rolloutVars

(* Undisturbed, a canary that lets the rollout go on has converged on the  *)
(* policy: the reconcile that is judged started after the application, and *)
(* an older observation does not count (apply route, reconcileOne).        *)
CanaryProven ==
  [][rollout.step = "reconciling" /\ rollout'.step = "passed"
       /\ rollout.canary \notin edited
     => claws'[rollout.canary].observed.generation = rollout.applied]_rolloutVars

(* docs/product.md:88: "an unconverged canary stops the remainder".  The   *)
(* code does not promise it: when another change of the canary commits     *)
(* during its reconcile, the write conflicts, reconcileOne returns the     *)
(* current record, and its phase is that of an observation older than the  *)
(* policy (reconciler.ts:332, control-plane-service.ts:421).               *)
UnconvergedCanaryStops ==
  [][rollout.step = "reconciling" /\ rollout'.step = "passed"
     => claws'[rollout.canary].observed.generation >= rollout.applied]_rolloutVars

=============================================================================
