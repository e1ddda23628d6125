-------------------------- MODULE FleetReconciler --------------------------
(***************************************************************************)
(* The fleet registry (src/registry.ts, src/domain.ts) and the reconciler  *)
(* (src/reconciler.ts), with what they meet: the administration routes and *)
(* the Slack routing of worker/control-plane-service.ts, the Crabbox       *)
(* provider (src/providers.ts), and the claw's turn queue.                 *)
(*                                                                         *)
(* A claw's record holds the state an administrator desires and the state  *)
(* the reconciler last observed.  Registry operations run one at a time,   *)
(* each in a transaction, so each is one action.  A reconcile is not: it   *)
(* reads the record, awaits the provider, and writes what it observed if   *)
(* the record's revision is still the one it read.  Reconciles of one claw *)
(* follow one another (#clawTails), whoever asks for them.                 *)
(*                                                                         *)
(* A revision is only ever compared with the one read by the reconcile in  *)
(* flight, and every write increments it, so the model keeps the answer:   *)
(* a job is fresh until another write commits.  The turn queue is what     *)
(* TurnCoordinator promises: it counts the turns not yet settled, and      *)
(* settles each of them.                                                   *)
(*                                                                         *)
(* The provider is the one both backends install: CrabboxChildCoreProvider *)
(* with CrabboxWorkspaceBootstrap, whose disable and revokeControl always  *)
(* succeed.  The Crabbox service behind it is external.                    *)
(***************************************************************************)
EXTENDS Naturals

CONSTANTS
  Claws,          \* claw ids (random UUIDs: an id is never used twice)
  Slugs,          \* slugs; the workspace of a claw is named after its slug
  Policies,       \* values of the managed fields that childPolicyHash covers
  None,           \* no record, no job, no workspace, no configuration
  MaxChanges,     \* bound: changes administrators make to desired states
  MaxTurns,       \* bound: unsettled turns of a claw
  MaxFaults,      \* bound: crashes, failed calls and failed installations
  MaxLosses       \* bound: workspaces that fail or expire

ASSUME ConstantsAssumption ==
  /\ None \notin Claws
  /\ MaxChanges \in Nat /\ MaxTurns \in Nat
  /\ MaxFaults \in Nat /\ MaxLosses \in Nat

VARIABLES
  claws,       \* the claws-v1 store
  jobs,        \* the reconcile in flight for each claw
  workspaces,  \* the workspaces of the Crabbox service, by the slug they are named after
  turns,       \* turns of each claw that are not settled
  removing,    \* the claw's coordinator was told of the removal (removed_at)
  routed,      \* a Slack event was routed to the claw, its turn is not enqueued yet
  deleting,    \* a DELETE request is between requestRemoval and prepareForRemoval
  elapsed,     \* the quiet period has passed since deletion.drainedAt
  changes, faults, losses

budgets == <<changes, faults, losses>>
vars == <<claws, jobs, workspaces, turns, removing, routed, deleting, elapsed, budgets>>

coordinatorVars == <<turns, removing, routed>>
requestVars == <<turns, removing, routed, deleting, elapsed>>

-----------------------------------------------------------------------------
Phase == {"requested", "provisioning", "enrolling", "ready", "attention",
          "disabled", "deleting", "deleted"}
Stage == {"none", "disable", "drain", "release", "confirm", "revoke"}
Desired == [generation: Nat, policy: Policies, credentials: Nat, enabled: BOOLEAN]

(* observed: stage "none" stands for no `deletion'; lifecycle and drained  *)
(* for whether `lifecycle' and `deletion.drainedAt' are set.               *)
Observed == [generation: Nat, phase: Phase, lifecycle: BOOLEAN, stage: Stage,
             drained: BOOLEAN]
Claw == [slug: Slugs, desired: Desired, observed: Observed]

Job == [step: {"announce", "call", "write"}, snap: Claw, fresh: BOOLEAN,
        result: Observed]

Config == [policy: Policies, credentials: Nat]
Workspace == [owner: Claws \cup {None}, config: Config \cup {None},
              state: {"gone", "provisioning", "ready", "failed", "stopping"}]

ASSUME NoneAssumption == None \notin Claw /\ None \notin Job /\ None \notin Config

NoWorkspace == [owner |-> None, config |-> None, state |-> "gone"]

childPolicyHash(claw) ==
  [policy |-> claw.desired.policy, credentials |-> claw.desired.credentials]

Exists(c) == claws[c] # None
Deleted(c) == Exists(c) /\ claws[c].observed.phase = "deleted"

(* Where updates, enabling and rotation are refused otherwise. *)
Mutable(c) ==
  /\ Exists(c)
  /\ claws[c].observed.phase \notin {"deleted", "deleting"}
  /\ claws[c].observed.stage = "none"

Init ==
  /\ claws = [c \in Claws |-> None]
  /\ jobs = [c \in Claws |-> None]
  /\ workspaces = [s \in Slugs |-> NoWorkspace]
  /\ turns = [c \in Claws |-> 0]
  /\ removing = [c \in Claws |-> FALSE]
  /\ routed = [c \in Claws |-> FALSE]
  /\ deleting = [c \in Claws |-> FALSE]
  /\ elapsed = [c \in Claws |-> FALSE]
  /\ changes = 0 /\ faults = 0 /\ losses = 0

-----------------------------------------------------------------------------
(* Registry operations.  Each commits the record under a new revision,     *)
(* which makes the snapshot of a reconcile in flight stale.                *)

Commit(c, claw) ==
  /\ claws' = [claws EXCEPT ![c] = claw]
  /\ jobs' = [jobs EXCEPT ![c] = IF @ = None THEN None ELSE [@ EXCEPT !.fresh = FALSE]]

Change(c, claw) ==
  /\ changes < MaxChanges /\ changes' = changes + 1
  /\ Commit(c, claw)

NewClaw(s, p) ==
  [slug |-> s,
   desired |-> [generation |-> 1, policy |-> p, credentials |-> 1, enabled |-> TRUE],
   observed |-> [generation |-> 0, phase |-> "requested", lifecycle |-> FALSE,
                 stage |-> "none", drained |-> FALSE]]

SlugTaken(s) == \E c \in Claws : Exists(c) /\ ~Deleted(c) /\ claws[c].slug = s

Create(c) ==
  /\ ~Exists(c)
  /\ \E s \in Slugs, p \in Policies :
       ~SlugTaken(s) /\ Commit(c, NewClaw(s, p))
  /\ UNCHANGED <<workspaces, requestVars, budgets>>

(* A change of the desired state: a new generation under a new revision. *)
NextDesired(c, desired) ==
  [claws[c] EXCEPT !.desired = [desired EXCEPT !.generation = @ + 1]]

Updated(c, p) == NextDesired(c, [claws[c].desired EXCEPT !.policy = p])

(* p = the current policy: a field that childPolicyHash leaves out, such   *)
(* as the name.  A patch that changes nothing writes nothing.              *)
Update(c) ==
  /\ Mutable(c)
  /\ \E p \in Policies : Change(c, Updated(c, p))
  /\ UNCHANGED <<workspaces, requestVars, faults, losses>>

(* Mutant: enabling is not a new generation. *)
setClawEnabledSilently(c, enabled) ==
  [claws[c] EXCEPT !.desired.enabled = enabled]

setClawEnabled(c, enabled) ==
  NextDesired(c, [claws[c].desired EXCEPT !.enabled = enabled])

(* Disabling also fails the turns that are pending, as TurnSettles may do. *)
SetEnabled(c) ==
  /\ Mutable(c)
  /\ Change(c, setClawEnabled(c, ~claws[c].desired.enabled))
  /\ UNCHANGED <<workspaces, requestVars, faults, losses>>

RotateCredentials(c) ==
  /\ Mutable(c)
  /\ Change(c, NextDesired(c, [claws[c].desired EXCEPT !.credentials = @ + 1]))
  /\ UNCHANGED <<workspaces, requestVars, faults, losses>>

RemovalRequested(c) ==
  [NextDesired(c, [claws[c].desired EXCEPT !.enabled = FALSE]) EXCEPT
     !.observed.phase = "deleting", !.observed.stage = "disable",
     !.observed.drained = FALSE]

(* DELETE /api/claws/:id, up to its first await after the registry. *)
RequestRemoval(c) ==
  /\ Exists(c)
  /\ IF Deleted(c) \/ claws[c].observed.stage # "none"
       THEN UNCHANGED <<claws, jobs, changes>>
       ELSE Change(c, RemovalRequested(c))
  /\ deleting' = [deleting EXCEPT ![c] = TRUE]
  /\ UNCHANGED <<workspaces, coordinatorVars, elapsed, faults, losses>>

(* ... and its call to the claw's coordinator, which fails every turn. *)
PrepareForRemoval(c) ==
  /\ deleting[c]
  /\ deleting' = [deleting EXCEPT ![c] = FALSE]
  /\ removing' = [removing EXCEPT ![c] = TRUE]
  /\ turns' = [turns EXCEPT ![c] = 0]
  /\ UNCHANGED <<claws, jobs, workspaces, routed, elapsed, budgets>>

-----------------------------------------------------------------------------
(* The reconcile of a claw: read, call the provider, write.                *)

Provisions(claw) ==
  /\ claw.observed.stage = "none" /\ claw.desired.enabled
  /\ ~claw.observed.lifecycle

Begin(c) ==
  /\ Exists(c) /\ ~Deleted(c) /\ jobs[c] = None
  /\ jobs' = [jobs EXCEPT ![c] =
       [step |-> IF Provisions(claws[c]) THEN "announce" ELSE "call",
        snap |-> claws[c], fresh |-> TRUE, result |-> claws[c].observed]]
  /\ UNCHANGED <<claws, workspaces, requestVars, budgets>>

(* Mutant: the write ignores the revision. *)
WriteObservedBlindly(c, observed) == claws' = [claws EXCEPT ![c].observed = observed]

(* The write that the revision guards. *)
WriteObserved(c, observed) ==
  claws' = [claws EXCEPT ![c].observed = IF jobs[c].fresh THEN observed ELSE @]

(* The record says "provisioning" before the provider is asked; a conflict *)
(* ends the reconcile.                                                     *)
Announce(c) ==
  /\ jobs[c] # None /\ jobs[c].step = "announce"
  /\ LET observed == [jobs[c].snap.observed EXCEPT !.phase = "provisioning"] IN
       /\ WriteObserved(c, observed)
       /\ jobs' = [jobs EXCEPT ![c] =
            IF @.fresh THEN [@ EXCEPT !.step = "call", !.snap.observed = observed]
            ELSE None]
  /\ UNCHANGED <<workspaces, requestVars, budgets>>

(* A call to the provider, made for the snapshot of the record. *)
Calls(c) == jobs[c] # None /\ jobs[c].step = "call"

Reply(c, observed) ==
  jobs' = [jobs EXCEPT ![c].step = "write", ![c].result = observed]

Attention(claw) == [claw.observed EXCEPT !.phase = "attention"]

(* The answer to a call, unless it is lost: the provider has acted then,   *)
(* and the reconcile records the error and leaves the rest as it was.      *)
ReplyOrFail(c, claw, observed) ==
  \/ Reply(c, observed) /\ UNCHANGED faults
  \/ /\ faults < MaxFaults /\ faults' = faults + 1
     /\ Reply(c, Attention(claw))

(* An error before the provider acts: ClawRouter cannot be configured, the *)
(* runtime has no bootstrap command, the provider refuses the call.        *)
CallFails(c) ==
  /\ jobs[c] # None /\ jobs[c].step \in {"announce", "call"}
  /\ faults < MaxFaults /\ faults' = faults + 1
  /\ Reply(c, Attention(jobs[c].snap))
  /\ UNCHANGED <<claws, workspaces, requestVars, changes, losses>>

MarkProviderAbsent(claw) ==
  [claw.observed EXCEPT !.phase = "deleting", !.stage = "revoke"]

InStage(claw, stage) == [claw.observed EXCEPT !.phase = "deleting", !.stage = stage]

(* Mutant: only the lifecycle names a workspace. *)
HasLifecycle(claw) == claw.observed.lifecycle

(* inspect and remove name the workspace by the slug when the removal of a *)
(* claw has no lifecycle to go by.                                         *)
HasWorkspaceId(claw) == claw.observed.lifecycle \/ claw.observed.stage # "none"

ProviderAbsent(claw) ==
  ~HasWorkspaceId(claw) \/ workspaces[claw.slug].state = "gone"

(* Ingress is closed by the record itself; a failed workspace goes on. *)
RemovalDisables(c) ==
  LET claw == jobs[c].snap IN
    /\ Calls(c) /\ claw.observed.stage = "disable"
    /\ ReplyOrFail(c, claw, IF ProviderAbsent(claw) THEN MarkProviderAbsent(claw)
                            ELSE InStage(claw, "drain"))
    /\ UNCHANGED <<claws, workspaces, requestVars, changes, losses>>

(* Mutant: a second idle drain releases, without a quiet period. *)
DrainedTwice(c, claw) ==
  IF ProviderAbsent(claw) THEN MarkProviderAbsent(claw)
  ELSE IF turns[c] > 0 THEN [InStage(claw, "drain") EXCEPT !.drained = FALSE]
  ELSE IF ~claw.observed.drained THEN [InStage(claw, "drain") EXCEPT !.drained = TRUE]
  ELSE InStage(claw, "release")

(* Mutant: every early drain starts the quiet period anew. *)
DrainedAnew(c, claw) ==
  IF ProviderAbsent(claw) THEN MarkProviderAbsent(claw)
  ELSE IF turns[c] > 0 \/ ~elapsed[c]
    THEN [InStage(claw, "drain") EXCEPT !.drained = ~claw.observed.drained]
  ELSE InStage(claw, "release")

(* What a drain observes: unsettled turns start the quiet period anew. *)
Drained(c, claw) ==
  IF ProviderAbsent(claw) THEN MarkProviderAbsent(claw)
  ELSE IF turns[c] > 0 THEN [InStage(claw, "drain") EXCEPT !.drained = FALSE]
  ELSE IF ~claw.observed.drained THEN [InStage(claw, "drain") EXCEPT !.drained = TRUE]
  ELSE IF ~elapsed[c] THEN InStage(claw, "drain")
  ELSE InStage(claw, "release")

RemovalDrains(c) ==
  LET claw == jobs[c].snap IN
    /\ Calls(c) /\ claw.observed.stage = "drain"
    /\ ReplyOrFail(c, claw, Drained(c, claw))
    /\ UNCHANGED <<claws, workspaces, requestVars, changes, losses>>

(* DELETE of the workspace and the inspect that follows it. *)
RemovalReleases(c) ==
  LET claw == jobs[c].snap IN
    /\ Calls(c) /\ claw.observed.stage \in {"release", "confirm"}
    /\ \E left \in {NoWorkspace, [workspaces[claw.slug] EXCEPT !.state = "stopping"]} :
         /\ workspaces[claw.slug].state = "gone" => left = NoWorkspace
         /\ workspaces' = [workspaces EXCEPT ![claw.slug] = left]
         /\ ReplyOrFail(c, claw, IF left = NoWorkspace THEN MarkProviderAbsent(claw)
                                 ELSE InStage(claw, "confirm"))
    /\ UNCHANGED <<claws, requestVars, changes, losses>>

MarkDeleted(claw) ==
  [claw.observed EXCEPT !.generation = claw.desired.generation, !.phase = "deleted",
     !.stage = "none", !.drained = FALSE]

RemovalRevokes(c) ==
  LET claw == jobs[c].snap IN
    /\ Calls(c) /\ claw.observed.stage = "revoke"
    /\ ReplyOrFail(c, claw, MarkDeleted(claw))
    /\ UNCHANGED <<claws, workspaces, requestVars, changes, losses>>

(* A disabled claw keeps its workspace; its generation counts as reached. *)
Disables(c) ==
  LET claw == jobs[c].snap IN
    /\ Calls(c) /\ claw.observed.stage = "none" /\ ~claw.desired.enabled
    /\ ReplyOrFail(c, claw, [claw.observed EXCEPT !.phase = "disabled",
                               !.generation = claw.desired.generation])
    /\ UNCHANGED <<claws, workspaces, requestVars, changes, losses>>

(* What the reconciler makes of the workspace it was given: it has not     *)
(* proved itself yet.                                                      *)
Provisioned(claw) ==
  [claw.observed EXCEPT !.generation = 0, !.phase = "enrolling", !.lifecycle = TRUE]

(* POST of the workspace, idempotent by its name: an active one is taken   *)
(* as it is, and one that is neither active nor gone is an error.          *)
Provision(c) ==
  LET claw == jobs[c].snap IN
    /\ Calls(c) /\ Provisions(claw)
    /\ IF workspaces[claw.slug].state \in {"failed", "stopping"}
         THEN Reply(c, Attention(claw)) /\ UNCHANGED <<workspaces, faults>>
         ELSE /\ ReplyOrFail(c, claw, Provisioned(claw))
              /\ workspaces' = [workspaces EXCEPT ![claw.slug] =
                   IF @.state # "gone" THEN @
                   ELSE [owner |-> c, config |-> None, state |-> "provisioning"]]
    /\ UNCHANGED <<claws, requestVars, changes, losses>>

Inspects(c, claw) ==
  /\ Calls(c) /\ claw.observed.stage = "none" /\ claw.desired.enabled
  /\ claw.observed.lifecycle

(* Mutant: the lifecycle of the workspace that has gone is kept. *)
InspectAbsentKeepsLifecycle(c) ==
  LET claw == jobs[c].snap IN
    /\ Inspects(c, claw) /\ ProviderAbsent(claw)
    /\ ReplyOrFail(c, claw, [claw.observed EXCEPT !.generation = 0,
                               !.phase = "provisioning"])
    /\ UNCHANGED <<claws, workspaces, requestVars, changes, losses>>

(* The workspace has gone: provision it again. *)
InspectAbsent(c) ==
  LET claw == jobs[c].snap IN
    /\ Inspects(c, claw) /\ ProviderAbsent(claw)
    /\ ReplyOrFail(c, claw, [claw.observed EXCEPT !.generation = 0,
                               !.phase = "provisioning", !.lifecycle = FALSE])
    /\ UNCHANGED <<claws, workspaces, requestVars, changes, losses>>

InspectNotReady(c) ==
  LET claw == jobs[c].snap IN
    /\ Inspects(c, claw)
    /\ \/ /\ workspaces[claw.slug].state \in {"provisioning", "stopping"}
          /\ ReplyOrFail(c, claw, [claw.observed EXCEPT !.generation = 0,
                                     !.phase = "enrolling"])
       \/ /\ workspaces[claw.slug].state = "failed"
          /\ Reply(c, Attention(claw)) /\ UNCHANGED faults
    /\ UNCHANGED <<claws, workspaces, requestVars, changes, losses>>

(* What the reconciler makes of an inspection that reached the workspace:  *)
(* the generation counts as reached when the policy was applied.           *)
Inspected(claw, phase, policyApplied) ==
  [claw.observed EXCEPT !.phase = phase,
     !.generation = IF policyApplied THEN claw.desired.generation ELSE @]

(* A ready workspace has the desired configuration written into it and     *)
(* runs a live turn; either can fail, and the route through ClawRouter can *)
(* still be unproven, which leaves a converged claw in need of attention.  *)
InspectReady(c) ==
  LET claw == jobs[c].snap IN
    /\ Inspects(c, claw) /\ workspaces[claw.slug].state = "ready"
    /\ \/ /\ workspaces' = [workspaces EXCEPT ![claw.slug].config = childPolicyHash(claw)]
          /\ \/ /\ UNCHANGED faults
                /\ Reply(c, Inspected(claw, "ready", TRUE))
             \/ /\ faults < MaxFaults /\ faults' = faults + 1
                /\ Reply(c, Inspected(claw, "attention", TRUE))
       \/ /\ faults < MaxFaults /\ faults' = faults + 1
          /\ \E config \in {workspaces[claw.slug].config, childPolicyHash(claw)} :
               workspaces' = [workspaces EXCEPT ![claw.slug].config = config]
          /\ \/ Reply(c, Inspected(claw, "enrolling", FALSE))
             \/ Reply(c, Attention(claw))
    /\ UNCHANGED <<claws, requestVars, changes, losses>>

(* The reconcile's last write; drainedAt, once written, starts the clock. *)
Write(c) ==
  /\ jobs[c] # None /\ jobs[c].step = "write"
  /\ WriteObserved(c, jobs[c].result)
  /\ elapsed' = [elapsed EXCEPT ![c] = @ /\ jobs[c].result.drained]
  /\ jobs' = [jobs EXCEPT ![c] = None]
  /\ UNCHANGED <<workspaces, coordinatorVars, deleting, budgets>>

Reconcile(c) ==
  \/ Begin(c) \/ Announce(c) \/ CallFails(c) \/ Write(c)
  \/ RemovalDisables(c) \/ RemovalDrains(c) \/ RemovalReleases(c) \/ RemovalRevokes(c)
  \/ Disables(c) \/ Provision(c)
  \/ InspectAbsent(c) \/ InspectNotReady(c) \/ InspectReady(c)

-----------------------------------------------------------------------------
(* Slack turns, and the time the removal of a claw has to wait.            *)

Routable(c) ==
  /\ Exists(c) /\ claws[c].desired.enabled
  /\ claws[c].observed.phase = "ready"

RouteTurn(c) ==
  /\ ~routed[c] /\ turns[c] < MaxTurns
  /\ Routable(c)
  /\ routed' = [routed EXCEPT ![c] = TRUE]
  /\ UNCHANGED <<claws, jobs, workspaces, turns, removing, deleting, elapsed,
                 budgets>>

EnqueueTurn(c) ==
  /\ routed[c]
  /\ routed' = [routed EXCEPT ![c] = FALSE]
  /\ turns' = [turns EXCEPT ![c] = IF removing[c] THEN @ ELSE @ + 1]
  /\ UNCHANGED <<claws, jobs, workspaces, removing, deleting, elapsed, budgets>>

TurnSettles(c) ==
  /\ turns[c] > 0
  /\ turns' = [turns EXCEPT ![c] = @ - 1]
  /\ UNCHANGED <<claws, jobs, workspaces, removing, routed, deleting, elapsed,
                 budgets>>

(* The quiet period outlasts the handler of a Slack event: one that routed *)
(* a turn before drainedAt has enqueued it, or given up, by the end.       *)
QuietPeriodEnds(c) ==
  /\ Exists(c) /\ claws[c].observed.drained /\ ~elapsed[c] /\ ~routed[c]
  /\ elapsed' = [elapsed EXCEPT ![c] = TRUE]
  /\ UNCHANGED <<claws, jobs, workspaces, turns, removing, routed, deleting,
                 budgets>>

-----------------------------------------------------------------------------
(* The process, and the Crabbox service.                                   *)

Crash ==
  /\ faults < MaxFaults /\ faults' = faults + 1
  /\ jobs' = [c \in Claws |-> None]
  /\ routed' = [c \in Claws |-> FALSE]
  /\ deleting' = [c \in Claws |-> FALSE]
  /\ UNCHANGED <<claws, workspaces, turns, removing, elapsed, changes, losses>>

WorkspaceBoots(s) ==
  /\ workspaces[s].state = "provisioning"
  /\ workspaces' = [workspaces EXCEPT ![s].state = "ready"]
  /\ UNCHANGED <<claws, jobs, requestVars, budgets>>

WorkspaceStops(s) ==
  /\ workspaces[s].state = "stopping"
  /\ workspaces' = [workspaces EXCEPT ![s] = NoWorkspace]
  /\ UNCHANGED <<claws, jobs, requestVars, budgets>>

WorkspaceLost(s) ==
  /\ losses < MaxLosses /\ losses' = losses + 1
  /\ workspaces[s].state \in {"provisioning", "ready"}
  /\ \E state \in {"failed", "stopping"} :
       workspaces' = [workspaces EXCEPT ![s].state = state]
  /\ UNCHANGED <<claws, jobs, requestVars, changes, faults>>

Next ==
  \/ \E c \in Claws :
       \/ Create(c) \/ Update(c) \/ SetEnabled(c) \/ RotateCredentials(c)
       \/ RequestRemoval(c) \/ PrepareForRemoval(c)
       \/ Reconcile(c)
       \/ RouteTurn(c) \/ EnqueueTurn(c) \/ TurnSettles(c) \/ QuietPeriodEnds(c)
  \/ \E s \in Slugs : WorkspaceBoots(s) \/ WorkspaceStops(s) \/ WorkspaceLost(s)
  \/ Crash

Spec == Init /\ [][Next]_vars

(* The alarm reconciles every claw that is not deleted, again and again;   *)
(* calls time out, turns settle (EveryTurnSettles of TurnCoordinator), a   *)
(* workspace asked to stop stops and one that was created boots or fails.  *)
Fairness ==
  /\ \A c \in Claws : /\ WF_vars(Reconcile(c))
                      /\ WF_vars(EnqueueTurn(c))
                      /\ WF_vars(TurnSettles(c))
                      /\ WF_vars(QuietPeriodEnds(c))
  /\ \A s \in Slugs : WF_vars(WorkspaceBoots(s)) /\ WF_vars(WorkspaceStops(s))

FairSpec == Spec /\ Fairness

-----------------------------------------------------------------------------
(* Properties. *)

TypeOK ==
  /\ claws \in [Claws -> Claw \cup {None}]
  /\ jobs \in [Claws -> Job \cup {None}]
  /\ workspaces \in [Slugs -> Workspace]
  /\ turns \in [Claws -> Nat]
  /\ removing \in [Claws -> BOOLEAN] /\ routed \in [Claws -> BOOLEAN]
  /\ deleting \in [Claws -> BOOLEAN] /\ elapsed \in [Claws -> BOOLEAN]
  /\ changes \in Nat /\ faults \in Nat /\ losses \in Nat

(* No workspace outlives its claw: one that exists belongs to a claw that  *)
(* is not deleted, whatever was lost or crashed on the way, so a claw that *)
(* reuses a slug never inherits the workspace of its predecessor           *)
(* (reconciler.ts markProviderAbsent and markDeleted, providers.ts         *)
(* crabboxWorkspaceId).                                                    *)
WorkspaceOwned ==
  \A s \in Slugs : workspaces[s].state # "gone" =>
    /\ workspaces[s].owner \in Claws
    /\ Exists(workspaces[s].owner) /\ ~Deleted(workspaces[s].owner)
    /\ claws[workspaces[s].owner].slug = s

(* The workspace of a claw being removed is released only when no turn of  *)
(* the claw is left, and none arrives afterwards (reconciler.ts, stages    *)
(* drain and release; the quiet period; routeSlackTurn).                   *)
ReleaseSparesTurns ==
  \A c \in Claws : Exists(c) /\ claws[c].observed.stage \in {"release", "confirm"} =>
    turns[c] = 0

(* A claw that counts as converged runs the desired configuration, if its  *)
(* workspace is still there: an observation of an older generation, of a   *)
(* workspace since replaced, or of the time when the claw was disabled     *)
(* never passes for the current one (reconciler.ts 301-330, fleetSummary). *)
HonestGeneration ==
  \A c \in Claws :
    /\ Exists(c) /\ claws[c].desired.enabled
    /\ claws[c].observed.generation = claws[c].desired.generation
    /\ workspaces[claws[c].slug].owner = c
    /\ workspaces[claws[c].slug].state \in {"provisioning", "ready"}
    => workspaces[claws[c].slug].config = childPolicyHash(claws[c])

(* A removal never goes back: once requested it stays requested, its       *)
(* stages only advance, and a deleted claw stays as it is; in particular   *)
(* no observation made before the request undoes it (registry.ts           *)
(* writeObserved, expectedRevision).                                       *)
Rank(claw) ==
  IF claw = None THEN 0
  ELSE IF claw.observed.phase = "deleted" THEN 7
  ELSE [none |-> 1, disable |-> 2, drain |-> 3, release |-> 4, confirm |-> 5,
        revoke |-> 6][claw.observed.stage]

RemovalAdvances == [][\A c \in Claws : Rank(claws[c]) <= Rank(claws'[c])]_vars

(* A removal that was requested completes, though turns are running, calls *)
(* fail, the process crashes, or DELETE stops before it reaches the        *)
(* coordinator (the alarm, reconciler.ts, every stage).                    *)
RemovalCompletes ==
  \A c \in Claws : Exists(c) /\ claws[c].observed.stage # "none" ~> Deleted(c)

(* A claw to be served reaches its desired generation, unless it is        *)
(* disabled or removed meanwhile, or its workspace has failed, which only  *)
(* its removal resolves.  It speaks of installations that succeed in the   *)
(* end: an installer that fails three times is not launched again          *)
(* (Installer).                                                            *)
Serving(c) == Exists(c) /\ claws[c].desired.enabled
Converged(c) == claws[c].observed.generation = claws[c].desired.generation

ServingConverges ==
  \A c \in Claws : Serving(c) ~>
    \/ ~Serving(c) \/ Converged(c)
    \/ workspaces[claws[c].slug].state = "failed"

=============================================================================
