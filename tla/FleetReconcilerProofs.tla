----------------------- MODULE FleetReconcilerProofs -----------------------
(***************************************************************************)
(* The safety theorems of FleetReconciler: types, and four properties that *)
(* follow from one inductive invariant; and those of PolicyRollout, which  *)
(* keeps that invariant and adds one of its own.                           *)
(*                                                                         *)
(* The invariant says of every record what makes it coherent by itself     *)
(* (RecordOK) and what it promises about the world (Promises), and of a    *)
(* reconcile in flight that the record it is about to write has both, if   *)
(* the revision still lets it write.  When it does not, the reconcile      *)
(* started before any removal, and whatever it still does to the workspace *)
(* is covered by the generation that made it stale.                        *)
(***************************************************************************)
EXTENDS PolicyRollout, TLAPS

RecordOK(claw) ==
  /\ claw.desired.generation >= 1
  /\ claw.observed.generation <= claw.desired.generation
  /\ claw.observed.stage # "none" =>
       claw.observed.phase \in {"deleting", "attention"} /\ ~claw.desired.enabled
  /\ claw.observed.drained => claw.observed.stage # "none"
  /\ claw.desired.enabled /\ ~claw.observed.lifecycle =>
       claw.observed.generation < claw.desired.generation

Holds(c, s) == workspaces[s].state # "gone" /\ workspaces[s].owner = c

QuietPromise(c, claw) ==
  claw.observed.stage \in {"release", "confirm"} => turns[c] = 0 /\ ~routed[c]

GonePromise(c, claw) ==
  claw.observed.stage = "revoke" \/ claw.observed.phase = "deleted" => ~Holds(c, claw.slug)

ConfigPromise(c, claw) ==
  /\ claw.desired.enabled
  /\ claw.observed.generation = claw.desired.generation
  /\ Holds(c, claw.slug)
  /\ workspaces[claw.slug].state \in {"provisioning", "ready"}
  => workspaces[claw.slug].config = childPolicyHash(claw)

Promises(c, claw) == QuietPromise(c, claw) /\ GonePromise(c, claw) /\ ConfigPromise(c, claw)

ClawInv(c) ==
  /\ Exists(c) => RecordOK(claws[c]) /\ Promises(c, claws[c])
  /\ elapsed[c] => Exists(c) /\ claws[c].observed.drained /\ ~routed[c]

Written(snap, observed) == [snap EXCEPT !.observed = observed]

(* What a reconcile may record of a snapshot that is still current. *)
Recordable(c, snap, observed) ==
  /\ RecordOK(Written(snap, observed)) /\ Promises(c, Written(snap, observed))
  /\ Rank(snap) <= Rank(Written(snap, observed))

FreshInv(c, job) ==
  /\ job.snap = claws[c]
  /\ job.step = "announce" => Provisions(job.snap)
  /\ job.step = "write" => Recordable(c, job.snap, job.result)

StaleInv(c, job) ==
  /\ job.snap.observed.stage = "none"
  /\ job.snap.slug = claws[c].slug
  /\ claws[c].observed.stage \in {"none", "disable"}
  /\ job.snap.desired.generation < claws[c].desired.generation
  /\ claws[c].observed.generation <= job.snap.desired.generation

JobInv(c) ==
  jobs[c] # None =>
    /\ Exists(c) /\ ~Deleted(c)
    /\ jobs[c].fresh => FreshInv(c, jobs[c])
    /\ ~jobs[c].fresh => StaleInv(c, jobs[c])

WorkspaceInv(s) ==
  workspaces[s].state # "gone" =>
    /\ workspaces[s].owner \in Claws
    /\ Exists(workspaces[s].owner) /\ ~Deleted(workspaces[s].owner)
    /\ claws[workspaces[s].owner].slug = s

OneClawPerSlug ==
  \A c, d \in Claws :
    /\ Exists(c) /\ ~Deleted(c) /\ Exists(d) /\ ~Deleted(d)
    /\ claws[c].slug = claws[d].slug
    => c = d

IInv ==
  /\ TypeOK
  /\ \A c \in Claws : ClawInv(c) /\ JobInv(c)
  /\ \A s \in Slugs : WorkspaceInv(s)
  /\ OneClawPerSlug

-----------------------------------------------------------------------------
(* Types. *)

(* Every observation a reconcile records is an observation. *)
LEMMA ObservedTypes ==
  ASSUME NEW claw \in Claw, NEW c \in Claws
  PROVE  /\ Attention(claw) \in Observed /\ MarkProviderAbsent(claw) \in Observed
         /\ \A stage \in Stage : InStage(claw, stage) \in Observed
         /\ MarkDeleted(claw) \in Observed /\ Drained(c, claw) \in Observed
  BY DEF Claw, Observed, Desired, Stage, Phase, Attention, MarkProviderAbsent, InStage,
         MarkDeleted, Drained

(* A record that gets a new desired state is a record. *)
LEMMA DesiredTypes ==
  ASSUME TypeOK, NEW c \in Claws, Exists(c)
  PROVE  /\ \A p \in Policies : Updated(c, p) \in Claw
         /\ \A b \in BOOLEAN : setClawEnabled(c, b) \in Claw
         /\ NextDesired(c, [claws[c].desired EXCEPT !.credentials = @ + 1]) \in Claw
         /\ RemovalRequested(c) \in Claw
<1>1. claws[c] \in Claw /\ claws[c].desired \in Desired
  BY DEF TypeOK, Exists, Claw
<1>2. ASSUME NEW desired \in Desired
      PROVE  NextDesired(c, desired) \in Claw
  BY <1>1 DEF NextDesired, Claw, Desired
<1>3. \A p \in Policies : Updated(c, p) \in Claw
  BY <1>1, <1>2 DEF Updated, Desired
<1>4. \A b \in BOOLEAN : setClawEnabled(c, b) \in Claw
  BY <1>1, <1>2 DEF setClawEnabled, Desired
<1>5. NextDesired(c, [claws[c].desired EXCEPT !.credentials = @ + 1]) \in Claw
  BY <1>1, <1>2 DEF Desired
<1>6. RemovalRequested(c) \in Claw
  <2>1. NextDesired(c, [claws[c].desired EXCEPT !.enabled = FALSE]) \in Claw
    BY <1>1, <1>2 DEF Desired
  <2>2. ASSUME NEW claw \in Claw
        PROVE  [claw EXCEPT !.observed.phase = "deleting", !.observed.stage = "disable",
                  !.observed.drained = FALSE] \in Claw
    BY DEF Claw, Observed, Phase, Stage
  <2> QED
    BY <2>1, <2>2 DEF RemovalRequested
<1> QED
  BY <1>3, <1>4, <1>5, <1>6

(* Writing a record under a new revision keeps the types. *)
LEMMA CommitTypes ==
  ASSUME TypeOK, NEW c \in Claws, NEW claw \in Claw, Commit(c, claw)
  PROVE  /\ claws' \in [Claws -> Claw \cup {None}]
         /\ jobs' \in [Claws -> Job \cup {None}]
  BY DEF TypeOK, Commit, Job

(* So does an answer of the provider. *)
LEMMA ReplyTypes ==
  ASSUME TypeOK, NEW c \in Claws, Calls(c) \/ CallFails(c), NEW observed \in Observed, Reply(c, observed)
  PROVE  jobs' \in [Claws -> Job \cup {None}]
<1>1. jobs[c] \in Job
  BY DEF TypeOK, Calls, CallFails
<1> QED
  BY <1>1 DEF TypeOK, Reply, Job

(* And an answer that is lost. *)
LEMMA ReplyOrFailTypes ==
  ASSUME TypeOK, NEW c \in Claws, Calls(c), NEW claw \in Claw,
         NEW observed \in Observed, ReplyOrFail(c, claw, observed)
  PROVE  jobs' \in [Claws -> Job \cup {None}] /\ faults' \in Nat
  BY ObservedTypes, ReplyTypes DEF ReplyOrFail, TypeOK

(* The registry operations keep the types. *)
LEMMA RegistryTypes ==
  ASSUME TypeOK, NEW c \in Claws,
         Create(c) \/ Update(c) \/ SetEnabled(c) \/ RotateCredentials(c) \/ RequestRemoval(c)
  PROVE  TypeOK'
<1> USE DEF requestVars, coordinatorVars, budgets
<1>1. CASE Create(c)
  <2>1. \A s \in Slugs, p \in Policies : NewClaw(s, p) \in Claw
    BY DEF NewClaw, Claw, Desired, Observed, Phase, Stage
  <2> QED
    BY <1>1, <2>1, CommitTypes DEF Create, TypeOK
<1>2. CASE Update(c)
  <2>1. PICK p \in Policies : Change(c, Updated(c, p))
    BY <1>2 DEF Update
  <2>2. Updated(c, p) \in Claw
    BY <1>2, DesiredTypes DEF Update, Mutable
  <2> QED
    BY <1>2, <2>1, <2>2, CommitTypes DEF Update, Change, TypeOK
<1>3. CASE SetEnabled(c)
  <2> DEFINE enabled == ~claws[c].desired.enabled
  <2>1. enabled \in BOOLEAN
    BY Zenon
  <2>2. setClawEnabled(c, enabled) \in Claw
    <3> HIDE DEF enabled
    <3> QED
      BY <1>3, <2>1, DesiredTypes DEF SetEnabled, Mutable
  <2>3. Change(c, setClawEnabled(c, enabled)) /\ UNCHANGED <<workspaces, requestVars, faults, losses>>
    BY <1>3 DEF SetEnabled
  <2> HIDE DEF enabled
  <2> QED
    BY <2>2, <2>3, CommitTypes DEF Change, TypeOK
<1>4. CASE RotateCredentials(c)
  <2>1. NextDesired(c, [claws[c].desired EXCEPT !.credentials = @ + 1]) \in Claw
    BY <1>4, DesiredTypes DEF RotateCredentials, Mutable
  <2> QED
    BY <1>4, <2>1, CommitTypes DEF RotateCredentials, Change, TypeOK
<1>5. CASE RequestRemoval(c)
  <2>1. RemovalRequested(c) \in Claw
    BY <1>5, DesiredTypes DEF RequestRemoval
  <2> QED
    BY <1>5, <2>1, CommitTypes DEF RequestRemoval, Change, TypeOK
<1> QED
  BY <1>1, <1>2, <1>3, <1>4, <1>5

(* The steps of a reconcile that only answer keep them. *)
LEMMA AnswerTypes ==
  ASSUME TypeOK, NEW c \in Claws,
         \/ RemovalDisables(c) \/ RemovalDrains(c) \/ RemovalRevokes(c) \/ Disables(c)
         \/ InspectAbsent(c) \/ InspectNotReady(c)
  PROVE  TypeOK'
<1> USE DEF requestVars, coordinatorVars, budgets
<1> DEFINE claw == jobs[c].snap
<1>1. Calls(c) /\ claw \in Claw
  <2>1. Calls(c)
    BY DEF RemovalDisables, RemovalDrains, RemovalRevokes, Disables, InspectAbsent,
           InspectNotReady, Inspects
  <2> QED
    BY <2>1 DEF Calls, TypeOK, Job
<1>2. /\ UNCHANGED <<claws, workspaces, requestVars, changes, losses>>
      /\ \E observed \in Observed : ReplyOrFail(c, claw, observed)
  <2>1. CASE RemovalDisables(c)
    BY <1>1, <2>1, ObservedTypes DEF RemovalDisables, Stage
  <2>2. CASE RemovalDrains(c)
    BY <1>1, <2>2, ObservedTypes DEF RemovalDrains
  <2>3. CASE RemovalRevokes(c)
    BY <1>1, <2>3, ObservedTypes DEF RemovalRevokes
  <2>4. CASE Disables(c)
    <3>1. [claw.observed EXCEPT !.phase = "disabled",
             !.generation = claw.desired.generation] \in Observed
      BY <1>1 DEF Claw, Observed, Desired, Phase
    <3> QED
      BY <2>4, <3>1 DEF Disables
  <2>5. CASE InspectAbsent(c)
    <3>1. [claw.observed EXCEPT !.generation = 0, !.phase = "provisioning",
             !.lifecycle = FALSE] \in Observed
      BY <1>1 DEF Claw, Observed, Phase
    <3> QED
      BY <2>5, <3>1 DEF InspectAbsent
  <2>6. CASE InspectNotReady(c)
    <3>1. [claw.observed EXCEPT !.generation = 0, !.phase = "enrolling"] \in Observed
      BY <1>1 DEF Claw, Observed, Phase
    <3> QED
      BY <1>1, <2>6, <3>1, ObservedTypes DEF InspectNotReady, ReplyOrFail
  <2> QED
    BY <2>1, <2>2, <2>3, <2>4, <2>5, <2>6
<1> QED
  BY <1>1, <1>2, ReplyOrFailTypes DEF TypeOK

(* So do those that change the workspace of the claw. *)
LEMMA WorkspaceCallTypes ==
  ASSUME TypeOK, NEW c \in Claws, RemovalReleases(c) \/ Provision(c) \/ InspectReady(c)
  PROVE  TypeOK'
<1> USE DEF requestVars, coordinatorVars, budgets
<1> DEFINE claw == jobs[c].snap
           s == claw.slug
<1>1. Calls(c) /\ claw \in Claw /\ s \in Slugs
  <2>1. Calls(c)
    BY DEF RemovalReleases, Provision, Provisioned, InspectReady, Inspected, Inspects
  <2> QED
    BY <2>1 DEF Calls, TypeOK, Job, Claw
<1>2. /\ workspaces[s] \in Workspace /\ NoWorkspace \in Workspace
      /\ childPolicyHash(claw) \in Config
  BY <1>1 DEF TypeOK, Workspace, NoWorkspace, childPolicyHash, Claw, Desired, Config
<1>3. CASE RemovalReleases(c)
  <2>1. PICK left \in {NoWorkspace, [workspaces[s] EXCEPT !.state = "stopping"]} :
          /\ workspaces' = [workspaces EXCEPT ![s] = left]
          /\ ReplyOrFail(c, claw, IF left = NoWorkspace THEN MarkProviderAbsent(claw)
                                  ELSE InStage(claw, "confirm"))
    BY <1>3 DEF RemovalReleases
  <2>2. left \in Workspace
    BY <1>2 DEF Workspace
  <2>3. workspaces' \in [Slugs -> Workspace]
    BY <2>1, <2>2 DEF TypeOK
  <2>4. jobs' \in [Claws -> Job \cup {None}] /\ faults' \in Nat
    BY <1>1, <2>1, ObservedTypes, ReplyOrFailTypes DEF Stage
  <2> QED
    BY <1>3, <2>3, <2>4 DEF RemovalReleases, TypeOK
<1>4. CASE Provision(c)
  <2>1. [claw.observed EXCEPT !.generation = 0, !.phase = "enrolling",
           !.lifecycle = TRUE] \in Observed
    BY <1>1 DEF Claw, Observed, Phase
  <2>2. [owner |-> c, config |-> None, state |-> "provisioning"] \in Workspace
    BY DEF Workspace
  <2>3. workspaces' \in [Slugs -> Workspace]
    BY <1>2, <1>4, <2>2 DEF Provision, Provisioned, TypeOK
  <2>4. jobs' \in [Claws -> Job \cup {None}] /\ faults' \in Nat
    BY <1>1, <1>4, <2>1, ObservedTypes, ReplyTypes, ReplyOrFailTypes
       DEF Provision, Provisioned, TypeOK
  <2> QED
    BY <1>4, <2>3, <2>4 DEF Provision, Provisioned, TypeOK
<1>5. CASE InspectReady(c)
  <2>1. /\ \A phase \in Phase : \A g \in Nat :
             [claw.observed EXCEPT !.phase = phase, !.generation = g] \in Observed
        /\ [claw.observed EXCEPT !.phase = "enrolling"] \in Observed
        /\ claw.desired.generation \in Nat
    BY <1>1 DEF Claw, Observed, Desired, Phase
  <2>2. \A config \in Config \cup {None} :
          [workspaces EXCEPT ![s].config = config] \in [Slugs -> Workspace]
    BY <1>2 DEF TypeOK, Workspace
  <2>3. workspaces[s].config \in Config \cup {None}
    BY <1>2 DEF Workspace
  <2>4. workspaces' \in [Slugs -> Workspace]
    BY <1>2, <1>5, <2>2, <2>3 DEF InspectReady, Inspected
  <2>5. \E observed \in Observed : Reply(c, observed)
    BY <1>1, <1>5, <2>1, ObservedTypes DEF InspectReady, Inspected, Phase
  <2>6. jobs' \in [Claws -> Job \cup {None}] /\ faults' \in Nat
    BY <1>1, <1>5, <2>5, ReplyTypes DEF InspectReady, Inspected, TypeOK
  <2> QED
    BY <1>5, <2>4, <2>6 DEF InspectReady, Inspected, TypeOK
<1> QED
  BY <1>3, <1>4, <1>5

(* So do the first and the last steps of a reconcile, of a claw that exists. *)
LEMMA ReconcileTypes ==
  ASSUME TypeOK, NEW c \in Claws, Exists(c), Begin(c) \/ Announce(c) \/ Write(c)
  PROVE  TypeOK'
<1> USE DEF requestVars, coordinatorVars, budgets
<1>1. claws[c] \in Claw /\ claws[c].observed \in Observed
  BY DEF Exists, TypeOK, Claw
<1>2. ASSUME NEW observed \in Observed, WriteObserved(c, observed)
      PROVE  claws' \in [Claws -> Claw \cup {None}]
  BY <1>1, <1>2 DEF WriteObserved, TypeOK, Claw
<1>3. CASE Begin(c)
  <2>1. jobs' \in [Claws -> Job \cup {None}]
    BY <1>1, <1>3 DEF Begin, TypeOK, Job
  <2> QED
    BY <1>3, <2>1 DEF Begin, TypeOK
<1>4. CASE Announce(c)
  <2> DEFINE observed == [jobs[c].snap.observed EXCEPT !.phase = "provisioning"]
  <2>1. jobs[c] \in Job
    BY <1>4 DEF Announce, TypeOK
  <2>2. observed \in Observed
    BY <2>1 DEF Job, Claw, Observed, Phase
  <2>3. [jobs[c] EXCEPT !.step = "call", !.snap.observed = observed] \in Job
    <3> HIDE DEF observed
    <3> QED
      BY <2>1, <2>2 DEF Job, Claw
  <2>4. jobs' \in [Claws -> Job \cup {None}]
    BY <1>4, <2>3 DEF Announce, TypeOK
  <2> QED
    BY <1>2, <1>4, <2>2, <2>4 DEF Announce, TypeOK
<1>5. CASE Write(c)
  <2>1. jobs[c].result \in Observed
    BY <1>5 DEF Write, TypeOK, Job
  <2>2. jobs[c].result.drained \in BOOLEAN
    BY <2>1 DEF Observed
  <2>3. elapsed' \in [Claws -> BOOLEAN] /\ jobs' \in [Claws -> Job \cup {None}]
    BY <1>5, <2>2 DEF Write, TypeOK
  <2> QED
    BY <1>2, <1>5, <2>1, <2>3 DEF Write, TypeOK
<1> QED
  BY <1>3, <1>4, <1>5

(* And the steps of everything around the reconciler. *)
LEMMA EnvironmentTypes ==
  ASSUME TypeOK,
         \/ \E c \in Claws : \/ PrepareForRemoval(c) \/ RouteTurn(c) \/ EnqueueTurn(c)
                             \/ TurnSettles(c) \/ QuietPeriodEnds(c)
         \/ \E s \in Slugs : WorkspaceBoots(s) \/ WorkspaceStops(s) \/ WorkspaceLost(s)
         \/ Crash
  PROVE  TypeOK'
<1> USE DEF requestVars, coordinatorVars, budgets
<1>1. ASSUME NEW c \in Claws, PrepareForRemoval(c) \/ RouteTurn(c) \/ QuietPeriodEnds(c)
      PROVE  TypeOK'
  <2>1. CASE PrepareForRemoval(c)
    BY <2>1 DEF PrepareForRemoval, TypeOK
  <2>2. CASE RouteTurn(c)
    BY <2>2 DEF RouteTurn, TypeOK
  <2>3. CASE QuietPeriodEnds(c)
    BY <2>3 DEF QuietPeriodEnds, TypeOK
  <2> QED
    BY <1>1, <2>1, <2>2, <2>3
<1>2. ASSUME NEW c \in Claws, EnqueueTurn(c) \/ TurnSettles(c)
      PROVE  TypeOK'
  <2>1. CASE EnqueueTurn(c)
    BY <2>1 DEF EnqueueTurn, TypeOK
  <2>2. CASE TurnSettles(c)
    BY <2>2 DEF TurnSettles, TypeOK
  <2> QED
    BY <1>2, <2>1, <2>2
<1>3. ASSUME NEW s \in Slugs, WorkspaceBoots(s) \/ WorkspaceStops(s) \/ WorkspaceLost(s)
      PROVE  TypeOK'
  <2>1. /\ NoWorkspace \in Workspace
        /\ \A state \in {"gone", "provisioning", "ready", "failed", "stopping"} :
             [workspaces[s] EXCEPT !.state = state] \in Workspace
    BY DEF TypeOK, Workspace, NoWorkspace
  <2>2. workspaces' \in [Slugs -> Workspace]
    BY <1>3, <2>1 DEF WorkspaceBoots, WorkspaceStops, WorkspaceLost, TypeOK
  <2> QED
    BY <1>3, <2>2 DEF WorkspaceBoots, WorkspaceStops, WorkspaceLost, TypeOK
<1>4. CASE Crash
  BY <1>4 DEF Crash, TypeOK
<1> QED
  BY <1>1, <1>2, <1>3, <1>4

(* And an error before the provider acts. *)
LEMMA FailureTypes ==
  ASSUME TypeOK, NEW c \in Claws, CallFails(c)
  PROVE  TypeOK'
<1> USE DEF requestVars, coordinatorVars, budgets
<1>1. jobs[c].snap \in Claw /\ jobs[c] # None
  BY DEF CallFails, TypeOK, Job
<1>2. jobs' \in [Claws -> Job \cup {None}]
  BY <1>1, ObservedTypes, ReplyTypes DEF CallFails
<1> QED
  BY <1>2 DEF CallFails, TypeOK

(* Every step of the specification keeps the types, if a reconcile has a claw. *)
LEMMA TypeStep ==
  ASSUME TypeOK, Next, \A c \in Claws : jobs[c] # None => Exists(c)
  PROVE  TypeOK'
<1>1. ASSUME NEW c \in Claws, Announce(c) \/ Write(c)
      PROVE  TypeOK'
  BY <1>1, ReconcileTypes DEF Announce, Write
<1>2. ASSUME NEW c \in Claws, Begin(c)
      PROVE  TypeOK'
  BY <1>2, ReconcileTypes DEF Begin
<1> QED
  BY <1>1, <1>2, RegistryTypes, AnswerTypes, FailureTypes, WorkspaceCallTypes,
     EnvironmentTypes
     DEF Next, Reconcile

-----------------------------------------------------------------------------
(* Frames: what the inductive invariant asks of a step. *)

(* The rank of a record, by its phase and stage. *)
LEMMA RankOf ==
  ASSUME NEW claw \in Claw
  PROVE  /\ claw.observed.phase = "deleted" => Rank(claw) = 7
         /\ claw.observed.phase # "deleted" =>
              /\ claw.observed.stage = "none" => Rank(claw) = 1
              /\ claw.observed.stage = "disable" => Rank(claw) = 2
              /\ claw.observed.stage = "drain" => Rank(claw) = 3
              /\ claw.observed.stage = "release" => Rank(claw) = 4
              /\ claw.observed.stage = "confirm" => Rank(claw) = 5
              /\ claw.observed.stage = "revoke" => Rank(claw) = 6
  BY NoneAssumption DEF Rank

(* The parts of a reconcile in flight, and the record it would write. *)
LEMMA JobTypes ==
  ASSUME TypeOK, NEW c \in Claws, jobs[c] # None
  PROVE  /\ jobs[c] \in Job /\ jobs[c].snap \in Claw /\ jobs[c].result \in Observed
         /\ \A observed \in Observed : Written(jobs[c].snap, observed) \in Claw
  BY DEF TypeOK, Job, Claw, Written

(* A step of a reconcile that ends in an answer. *)
LEMMA AnswerFrame ==
  ASSUME IInv, TypeOK', NEW c \in Claws, Calls(c) \/ CallFails(c), NEW observed \in Observed,
         NEW snap \in Claw, snap = jobs[c].snap,
         Reply(c, observed), UNCHANGED <<claws, turns, routed, elapsed>>,
         \A d \in Claws : d # c =>
           \A claw \in Claw : Promises(d, claw) => Promises(d, claw)',
         Promises(c, claws[c])',
         jobs[c].fresh => Recordable(c, snap, observed)',
         \A s \in Slugs : WorkspaceInv(s)'
  PROVE  IInv'
<1>1. jobs[c] \in Job /\ jobs[c].snap \in Claw
  BY JobTypes DEF IInv, Calls, CallFails
<1>2. ASSUME NEW d \in Claws
      PROVE  ClawInv(d)'
  <2>1. Exists(d) => Promises(d, claws[d])'
    BY DEF IInv, ClawInv, TypeOK, Exists
  <2> QED
    BY <2>1 DEF IInv, ClawInv, Exists
<1>3. JobInv(c)'
  <2>1. /\ jobs'[c] # None /\ jobs'[c].snap = jobs[c].snap /\ jobs'[c].fresh = jobs[c].fresh
        /\ jobs'[c].step = "write" /\ jobs'[c].result = observed
    <3>1. jobs' \in [Claws -> Job \cup {None}] /\ jobs \in [Claws -> Job \cup {None}]
      BY DEF IInv, TypeOK
    <3>2. jobs'[c] = [jobs[c] EXCEPT !.step = "write", !.result = observed]
      BY <3>1 DEF Reply
    <3>3. jobs'[c] \in Job
      BY <1>1, <3>2 DEF Job
    <3> QED
      BY <1>1, <3>2, <3>3, NoneAssumption DEF Job
  <2>2. Exists(c)' /\ ~Deleted(c)'
    BY DEF IInv, JobInv, Calls, CallFails, Exists, Deleted
  <2>3. CASE jobs[c].fresh
    BY <2>1, <2>2, <2>3 DEF IInv, JobInv, FreshInv, Calls, CallFails, Recordable, Written, Promises,
       QuietPromise, GonePromise, ConfigPromise, Holds
  <2>4. CASE ~jobs[c].fresh
    BY <2>1, <2>2, <2>4 DEF IInv, JobInv, StaleInv, Calls, CallFails
  <2> QED
    BY <2>3, <2>4
<1>4. ASSUME NEW d \in Claws, d # c
      PROVE  JobInv(d)'
  <2>1. jobs'[d] = jobs[d]
    BY <1>4 DEF Reply, IInv, TypeOK
  <2>2. jobs[d] # None /\ jobs[d].fresh /\ jobs[d].step = "write" =>
          Recordable(d, jobs[d].snap, jobs[d].result)'
    BY <1>4, <2>1, JobTypes DEF IInv, JobInv, FreshInv, Recordable
  <2> QED
    BY <2>1, <2>2 DEF IInv, JobInv, FreshInv, StaleInv, Exists, Deleted
<1>5. OneClawPerSlug'
  BY DEF IInv, OneClawPerSlug, Exists, Deleted
<1> QED
  BY <1>2, <1>3, <1>4, <1>5 DEF IInv

(* When the answer changes no workspace. *)
LEMMA AnswerKeeps ==
  ASSUME IInv, TypeOK', NEW c \in Claws, Calls(c) \/ CallFails(c), NEW observed \in Observed,
         NEW snap \in Claw, snap = jobs[c].snap, Reply(c, observed),
         UNCHANGED <<claws, turns, routed, elapsed, workspaces>>,
         jobs[c].fresh => Recordable(c, snap, observed)
  PROVE  IInv'
<1>1. \A d \in Claws, claw \in Claw : Promises(d, claw) => Promises(d, claw)'
  BY DEF Promises, QuietPromise, GonePromise, ConfigPromise, Holds
<1>2. Promises(c, claws[c])'
  <2>1. Promises(c, claws[c])
    BY DEF IInv, ClawInv, JobInv, Calls, CallFails
  <2> QED
    BY <2>1 DEF Promises, QuietPromise, GonePromise, ConfigPromise, Holds
<1>3. Written(snap, observed) \in Claw
  BY JobTypes DEF IInv, Calls, CallFails
<1>4. jobs[c].fresh => Recordable(c, snap, observed)'
  BY <1>1, <1>3 DEF Recordable
<1>5. \A s \in Slugs : WorkspaceInv(s)'
  BY DEF IInv, WorkspaceInv, Exists, Deleted
<1> QED
  BY <1>1, <1>2, <1>4, <1>5, AnswerFrame

(* What a reconcile that calls the provider knows of its snapshot. *)
LEMMA CallKnows ==
  ASSUME IInv, NEW c \in Claws, Calls(c) \/ CallFails(c)
  PROVE  /\ jobs[c].snap \in Claw /\ jobs[c].snap.slug = claws[c].slug
         /\ Exists(c) /\ ~Deleted(c) /\ claws[c] \in Claw
         /\ jobs[c].snap.observed.stage # "none" => jobs[c].fresh
         /\ jobs[c].fresh =>
              /\ jobs[c].snap = claws[c] /\ jobs[c].snap.observed.phase # "deleted"
              /\ RecordOK(jobs[c].snap) /\ Promises(c, jobs[c].snap)
         /\ ~jobs[c].fresh => StaleInv(c, jobs[c])
<1>1. jobs[c].snap \in Claw /\ claws[c] \in Claw /\ jobs[c] # None
  BY JobTypes DEF IInv, Calls, CallFails, TypeOK, JobInv, Exists
<1> QED
  BY <1>1 DEF IInv, ClawInv, JobInv, FreshInv, StaleInv, Calls, CallFails, Exists, Deleted

(* A failure can always be recorded. *)
LEMMA AttentionRecordable ==
  ASSUME IInv, NEW c \in Claws, Calls(c) \/ CallFails(c), jobs[c].fresh
  PROVE  Recordable(c, jobs[c].snap, Attention(jobs[c].snap))
<1> DEFINE snap == jobs[c].snap
           new == Written(snap, Attention(snap))
<1>1. snap \in Claw /\ snap.observed.phase # "deleted" /\ RecordOK(snap) /\ Promises(c, snap)
  BY CallKnows
<1>2. /\ new \in Claw /\ new.slug = snap.slug /\ new.desired = snap.desired
      /\ new.observed.phase = "attention" /\ new.observed.stage = snap.observed.stage
      /\ new.observed.generation = snap.observed.generation
      /\ new.observed.lifecycle = snap.observed.lifecycle
      /\ new.observed.drained = snap.observed.drained
  BY <1>1 DEF Written, Attention, Claw, Observed, Phase
<1> HIDE DEF new, snap
<1>3. RecordOK(new)
  BY <1>1, <1>2 DEF RecordOK
<1>4. Promises(c, new)
  BY <1>1, <1>2 DEF Promises, QuietPromise, GonePromise, ConfigPromise, childPolicyHash
<1>5. Rank(snap) <= Rank(new)
  BY <1>1, <1>2, RankOf DEF Claw, Observed, Stage
<1> QED
  BY <1>3, <1>4, <1>5 DEF Recordable, new, snap

(* So an answer, or its loss, keeps the invariant if the answer does. *)
LEMMA AnswerOrLossKeeps ==
  ASSUME IInv, TypeOK', NEW c \in Claws, Calls(c), NEW observed \in Observed,
         ReplyOrFail(c, jobs[c].snap, observed),
         UNCHANGED <<claws, turns, routed, elapsed, workspaces>>,
         jobs[c].fresh => Recordable(c, jobs[c].snap, observed)
  PROVE  IInv'
<1>1. PICK snap \in Claw : snap = jobs[c].snap
  BY CallKnows
<1>2. Attention(snap) \in Observed
  BY ObservedTypes
<1>3. jobs[c].fresh => Recordable(c, snap, Attention(snap))
  BY <1>1, AttentionRecordable
<1>4. Reply(c, observed) \/ Reply(c, Attention(snap))
  BY <1>1 DEF ReplyOrFail
<1>5. CASE Reply(c, observed)
  BY <1>1, <1>5, AnswerKeeps
<1>6. CASE Reply(c, Attention(snap))
  BY <1>1, <1>2, <1>3, <1>6, AnswerKeeps
<1> QED
  BY <1>4, <1>5, <1>6

(* An error before the provider acts is recorded like one that follows it. *)
LEMMA CallFailsKeeps ==
  ASSUME IInv, TypeOK', NEW c \in Claws, CallFails(c)
  PROVE  IInv'
<1>1. jobs[c] # None /\ UNCHANGED <<claws, turns, routed, elapsed, workspaces>>
  BY DEF CallFails, requestVars, coordinatorVars
<1>2. PICK snap \in Claw : snap = jobs[c].snap
  BY <1>1, CallKnows
<1>3. Attention(snap) \in Observed /\ Reply(c, Attention(snap))
  BY <1>2, ObservedTypes DEF CallFails
<1>4. jobs[c].fresh => Recordable(c, snap, Attention(snap))
  BY <1>1, <1>2, AttentionRecordable
<1> QED
  BY <1>1, <1>2, <1>3, <1>4, AnswerKeeps

-----------------------------------------------------------------------------
(* The answers of the provider. *)

(* The stages of a removal are recorded in their order. *)
LEMMA StageRecordable ==
  ASSUME IInv, NEW c \in Claws, Calls(c), jobs[c].snap.observed.stage # "none",
         NEW stage \in {"drain", "release", "confirm", "revoke"}, NEW drained \in BOOLEAN,
         Rank(jobs[c].snap) <= Rank(Written(jobs[c].snap, InStage(jobs[c].snap, stage))),
         stage \in {"release", "confirm"} => turns[c] = 0 /\ ~routed[c],
         stage = "revoke" => ~Holds(c, jobs[c].snap.slug)
  PROVE  /\ Recordable(c, jobs[c].snap, [InStage(jobs[c].snap, stage) EXCEPT !.drained = drained])
         /\ Recordable(c, jobs[c].snap, InStage(jobs[c].snap, stage))
<1> DEFINE snap == jobs[c].snap
<1>1. snap \in Claw /\ snap.observed.phase # "deleted" /\ RecordOK(snap) /\ Promises(c, snap)
  BY CallKnows
<1>2. ASSUME NEW observed \in Observed, NEW b \in BOOLEAN,
             observed = [InStage(snap, stage) EXCEPT !.drained = b]
      PROVE  Recordable(c, snap, observed)
  <2> DEFINE new == Written(snap, observed)
             plain == Written(snap, InStage(snap, stage))
  <2>1. /\ new \in Claw /\ new.slug = snap.slug /\ new.desired = snap.desired
        /\ new.observed.phase = "deleting" /\ new.observed.stage = stage
        /\ new.observed.generation = snap.observed.generation
        /\ new.observed.lifecycle = snap.observed.lifecycle
    BY <1>1, <1>2 DEF Written, InStage, Claw, Observed, Phase
  <2>2. /\ plain \in Claw /\ plain.observed.phase = "deleting"
        /\ plain.observed.stage = stage
    BY <1>1 DEF Written, InStage, Claw, Observed, Phase, Stage
  <2>3. Rank(snap) <= Rank(plain)
    OBVIOUS
  <2> HIDE DEF new, plain, snap
  <2>4. RecordOK(new)
    BY <1>1, <2>1 DEF RecordOK, snap
  <2>5. Promises(c, new)
    BY <1>1, <2>1 DEF Promises, QuietPromise, GonePromise, ConfigPromise, RecordOK, snap
  <2>6. Rank(new) = Rank(plain)
    BY <2>1, <2>2, RankOf
  <2> QED
    BY <2>3, <2>4, <2>5, <2>6 DEF Recordable, new
<1>3. InStage(snap, stage) \in Observed
  BY <1>1, ObservedTypes DEF Stage
<1>4. /\ [InStage(snap, stage) EXCEPT !.drained = drained] \in Observed
      /\ InStage(snap, stage).drained \in BOOLEAN
      /\ InStage(snap, stage) = [InStage(snap, stage) EXCEPT !.drained = InStage(snap, stage).drained]
  BY <1>3 DEF Observed
<1> QED
  BY <1>2, <1>3, <1>4

(* How the rank of the stage to be recorded compares. *)
LEMMA StageRank ==
  ASSUME NEW snap \in Claw, NEW stage \in Stage, snap.observed.phase # "deleted"
  PROVE  /\ snap.observed.stage = "disable" /\ stage \in {"drain", "revoke"} =>
              Rank(snap) <= Rank(Written(snap, InStage(snap, stage)))
         /\ snap.observed.stage = "drain" /\ stage \in {"drain", "release", "revoke"} =>
              Rank(snap) <= Rank(Written(snap, InStage(snap, stage)))
         /\ snap.observed.stage \in {"release", "confirm"} /\ stage \in {"confirm", "revoke"} =>
              Rank(snap) <= Rank(Written(snap, InStage(snap, stage)))
<1> DEFINE new == Written(snap, InStage(snap, stage))
<1>1. new \in Claw /\ new.observed.phase = "deleting" /\ new.observed.stage = stage
  BY DEF Written, InStage, Claw, Observed, Phase
<1> HIDE DEF new
<1>2. /\ stage = "drain" => Rank(new) = 3
      /\ stage = "release" => Rank(new) = 4
      /\ stage = "confirm" => Rank(new) = 5
      /\ stage = "revoke" => Rank(new) = 6
  BY <1>1, RankOf
<1>3. /\ snap.observed.stage = "disable" => Rank(snap) = 2
      /\ snap.observed.stage = "drain" => Rank(snap) = 3
      /\ snap.observed.stage = "release" => Rank(snap) = 4
      /\ snap.observed.stage = "confirm" => Rank(snap) = 5
  BY RankOf
<1> QED
  BY <1>2, <1>3 DEF new

(* The provider's word that there is no workspace is true of a removal. *)
LEMMA AbsentHoldsNothing ==
  ASSUME IInv, NEW c \in Claws, Calls(c), jobs[c].snap.observed.stage # "none",
         ProviderAbsent(jobs[c].snap)
  PROVE  /\ ~Holds(c, jobs[c].snap.slug)
         /\ MarkProviderAbsent(jobs[c].snap) = InStage(jobs[c].snap, "revoke")
  BY DEF ProviderAbsent, HasWorkspaceId, Holds, MarkProviderAbsent, InStage

(* Ingress is closed, or the workspace is gone. *)
LEMMA RemovalDisablesKeeps ==
  ASSUME IInv, TypeOK', NEW c \in Claws, RemovalDisables(c)
  PROVE  IInv'
<1> DEFINE snap == jobs[c].snap
<1>1. Calls(c) /\ snap \in Claw /\ snap.observed.phase # "deleted"
  BY CallKnows DEF RemovalDisables
<1>2. PICK observed \in Observed :
        /\ ReplyOrFail(c, snap, observed)
        /\ \/ observed = InStage(snap, "drain")
           \/ observed = InStage(snap, "revoke") /\ ~Holds(c, snap.slug)
  BY <1>1, ObservedTypes, AbsentHoldsNothing DEF RemovalDisables, Stage
<1>3. Recordable(c, snap, observed)
  <2>1. snap.observed.stage = "disable"
    BY DEF RemovalDisables
  <2>2. CASE observed = InStage(snap, "drain")
    BY <1>1, <2>1, <2>2, StageRank, StageRecordable DEF Stage
  <2>3. CASE observed = InStage(snap, "revoke") /\ ~Holds(c, snap.slug)
    BY <1>1, <2>1, <2>3, StageRank, StageRecordable DEF Stage
  <2> QED
    BY <1>2, <2>2, <2>3
<1> QED
  BY <1>1, <1>2, <1>3, AnswerOrLossKeeps DEF RemovalDisables, requestVars

(* The claw is drained: a release is recorded only after the quiet period. *)
LEMMA RemovalDrainsKeeps ==
  ASSUME IInv, TypeOK', NEW c \in Claws, RemovalDrains(c)
  PROVE  IInv'
<1> DEFINE snap == jobs[c].snap
           observed == Drained(c, snap)
<1>1. Calls(c) /\ snap \in Claw /\ snap.observed.phase # "deleted"
  BY CallKnows DEF RemovalDrains
<1>2. observed \in Observed /\ ReplyOrFail(c, snap, observed) /\ snap.observed.stage = "drain"
  BY <1>1, ObservedTypes DEF RemovalDrains
<1>3. \/ observed = InStage(snap, "revoke") /\ ~Holds(c, snap.slug)
      \/ observed = InStage(snap, "drain")
      \/ \E b \in BOOLEAN : observed = [InStage(snap, "drain") EXCEPT !.drained = b]
      \/ observed = InStage(snap, "release") /\ turns[c] = 0 /\ ~routed[c]
  <2>1. turns[c] \in Nat /\ (elapsed[c] => ~routed[c])
    BY DEF IInv, TypeOK, ClawInv
  <2> QED
    <3>1. CASE ProviderAbsent(snap)
      BY <1>1, <1>2, <3>1, AbsentHoldsNothing DEF Drained
    <3>2. CASE ~ProviderAbsent(snap) /\ turns[c] > 0
      BY <3>2 DEF Drained
    <3>3. CASE ~ProviderAbsent(snap) /\ ~(turns[c] > 0) /\ ~snap.observed.drained
      BY <3>3 DEF Drained
    <3>4. CASE ~ProviderAbsent(snap) /\ ~(turns[c] > 0) /\ snap.observed.drained /\ ~elapsed[c]
      BY <3>4 DEF Drained
    <3>5. CASE ~ProviderAbsent(snap) /\ ~(turns[c] > 0) /\ snap.observed.drained /\ elapsed[c]
      <4>1. turns[c] = 0 /\ ~routed[c]
        BY <2>1, <3>5
      <4> QED
        BY <3>5, <4>1 DEF Drained
    <3> QED
      BY <3>1, <3>2, <3>3, <3>4, <3>5
<1>4. Recordable(c, snap, observed)
  <2> HIDE DEF observed
  <2>1. /\ Rank(snap) <= Rank(Written(snap, InStage(snap, "drain")))
        /\ Rank(snap) <= Rank(Written(snap, InStage(snap, "release")))
        /\ Rank(snap) <= Rank(Written(snap, InStage(snap, "revoke")))
    BY <1>1, <1>2, StageRank DEF Stage
  <2>2. CASE observed = InStage(snap, "revoke") /\ ~Holds(c, snap.slug)
    BY <1>1, <1>2, <2>1, <2>2, StageRecordable
  <2>3. CASE observed = InStage(snap, "drain")
    BY <1>1, <1>2, <2>1, <2>3, StageRecordable
  <2>4. CASE \E b \in BOOLEAN : observed = [InStage(snap, "drain") EXCEPT !.drained = b]
    BY <1>1, <1>2, <2>1, <2>4, StageRecordable
  <2>5. CASE observed = InStage(snap, "release") /\ turns[c] = 0 /\ ~routed[c]
    BY <1>1, <1>2, <2>1, <2>5, StageRecordable
  <2> QED
    BY <1>3, <2>2, <2>3, <2>4, <2>5
<1> QED
  BY <1>1, <1>2, <1>4, AnswerOrLossKeeps DEF RemovalDrains, requestVars

(* What a reconcile may record of a claw that is not being removed. *)
LEMMA ServingRecordable ==
  ASSUME IInv, NEW c \in Claws, Calls(c), jobs[c].fresh,
         NEW snap \in Claw, snap = jobs[c].snap, snap.observed.stage = "none",
         NEW observed \in Observed,
         observed.stage = "none", observed.drained = snap.observed.drained,
         observed.phase # "deleted",
         observed.generation <= snap.desired.generation,
         snap.desired.enabled /\ ~observed.lifecycle =>
           observed.generation < snap.desired.generation
  PROVE  /\ ConfigPromise(c, Written(snap, observed)) => Recordable(c, snap, observed)
         /\ ConfigPromise(c, Written(snap, observed))' => Recordable(c, snap, observed)'
<1> DEFINE new == Written(snap, observed)
<1>1. snap.observed.phase # "deleted" /\ RecordOK(snap)
  BY CallKnows
<1>2. new \in Claw /\ new.desired = snap.desired /\ new.observed = observed
  BY DEF Written, Claw
<1> HIDE DEF new
<1>3. RecordOK(new)
  BY <1>1, <1>2 DEF RecordOK
<1>4. Rank(snap) <= Rank(new)
  BY <1>1, <1>2, RankOf
<1>5. QuietPromise(c, new) /\ GonePromise(c, new)
  BY <1>2 DEF QuietPromise, GonePromise
<1>6. (QuietPromise(c, new) /\ GonePromise(c, new))'
  BY <1>2 DEF QuietPromise, GonePromise, new
<1> QED
  BY <1>3, <1>4, <1>5, <1>6 DEF Recordable, Promises, new

(* The claw is deleted: its workspace was gone before. *)
LEMMA RemovalRevokesKeeps ==
  ASSUME IInv, TypeOK', NEW c \in Claws, RemovalRevokes(c)
  PROVE  IInv'
<1> DEFINE snap == jobs[c].snap
           observed == MarkDeleted(snap)
           new == Written(snap, observed)
<1>1. /\ Calls(c) /\ snap \in Claw /\ snap.observed.phase # "deleted"
      /\ snap.observed.stage = "revoke" /\ RecordOK(snap) /\ Promises(c, snap)
      /\ observed \in Observed
  BY CallKnows, ObservedTypes DEF RemovalRevokes
<1>2. /\ new \in Claw /\ new.slug = snap.slug /\ new.desired = snap.desired
      /\ new.observed.phase = "deleted" /\ new.observed.stage = "none"
      /\ new.observed.generation = snap.desired.generation /\ new.observed.drained = FALSE
  BY <1>1 DEF Written, MarkDeleted, Claw, Observed, Desired, Phase
<1>3. Recordable(c, snap, observed)
  <2> HIDE DEF new, snap, observed
  <2>0. snap.desired.generation \in Nat
    BY <1>1 DEF Claw, Desired
  <2>1. RecordOK(new)
    BY <1>1, <1>2, <2>0 DEF RecordOK
  <2>2. Promises(c, new)
    BY <1>1, <1>2 DEF Promises, QuietPromise, GonePromise, ConfigPromise, RecordOK
  <2>3. Rank(snap) <= Rank(new)
    BY <1>1, <1>2, RankOf
  <2> QED
    BY <2>1, <2>2, <2>3 DEF Recordable, new
<1>4. ReplyOrFail(c, snap, observed) /\ UNCHANGED <<claws, turns, routed, elapsed, workspaces>>
  BY DEF RemovalRevokes, requestVars
<1> QED
  BY <1>1, <1>3, <1>4, AnswerOrLossKeeps

(* A disabled claw, and one whose workspace has gone or is not ready. *)
LEMMA ServingAnswersKeep ==
  ASSUME IInv, TypeOK', NEW c \in Claws,
         Disables(c) \/ InspectAbsent(c) \/ InspectNotReady(c)
  PROVE  IInv'
<1> DEFINE snap == jobs[c].snap
<1>1. /\ Calls(c) /\ snap \in Claw /\ snap.observed.stage = "none"
      /\ jobs[c].fresh => RecordOK(snap) /\ Promises(c, snap)
      /\ UNCHANGED <<claws, turns, routed, elapsed, workspaces>>
      /\ snap.desired.generation \in Nat
  <2>1. Calls(c) /\ snap.observed.stage = "none"
        /\ UNCHANGED <<claws, turns, routed, elapsed, workspaces>>
    BY DEF Disables, InspectAbsent, InspectNotReady, Inspects, requestVars
  <2>2. snap \in Claw
    BY <2>1, CallKnows
  <2> QED
    BY <2>1, <2>2, CallKnows DEF Claw, Desired
<1>2. CASE Disables(c)
  <2> DEFINE observed == [snap.observed EXCEPT !.phase = "disabled",
                            !.generation = snap.desired.generation]
             new == Written(snap, observed)
  <2>1. ~snap.desired.enabled /\ ReplyOrFail(c, snap, observed)
    BY <1>2 DEF Disables
  <2>2. /\ observed \in Observed /\ observed.stage = "none" /\ observed.phase = "disabled"
        /\ observed.drained = snap.observed.drained
        /\ observed.generation = snap.desired.generation
        /\ new.desired = snap.desired
    BY <1>1 DEF Claw, Observed, Desired, Phase, Written
  <2> HIDE DEF observed, new
  <2>3. ConfigPromise(c, new)
    BY <2>1, <2>2 DEF ConfigPromise
  <2>4. jobs[c].fresh => Recordable(c, snap, observed)
    BY <1>1, <2>1, <2>2, <2>3, ServingRecordable DEF new
  <2> QED
    BY <1>1, <2>1, <2>2, <2>4, AnswerOrLossKeeps
<1>3. ASSUME NEW observed \in Observed, observed.stage = "none", observed.phase # "deleted",
             observed.drained = snap.observed.drained, observed.generation = 0,
             ReplyOrFail(c, snap, observed)
      PROVE  IInv'
  <2>1. jobs[c].fresh => Recordable(c, snap, observed)
    <3>0. SUFFICES ASSUME jobs[c].fresh PROVE Recordable(c, snap, observed)
      OBVIOUS
    <3>1. 1 <= snap.desired.generation
      BY <1>1, <3>0 DEF RecordOK
    <3>2. ConfigPromise(c, Written(snap, observed))
      <4>1. Written(snap, observed).desired = snap.desired
            /\ Written(snap, observed).observed = observed
        BY <1>1 DEF Written, Claw
      <4> QED
        BY <1>1, <1>3, <3>1, <4>1 DEF ConfigPromise
    <3> QED
      BY <1>1, <1>3, <3>0, <3>1, <3>2, ServingRecordable
  <2> QED
    BY <1>1, <1>3, <2>1, AnswerOrLossKeeps
<1>4. CASE InspectAbsent(c)
  <2> DEFINE observed == [snap.observed EXCEPT !.generation = 0, !.phase = "provisioning",
                            !.lifecycle = FALSE]
  <2>1. /\ observed \in Observed /\ observed.stage = "none" /\ observed.phase # "deleted"
        /\ observed.drained = snap.observed.drained /\ observed.generation = 0
    BY <1>1 DEF Claw, Observed, Phase
  <2>2. ReplyOrFail(c, snap, observed)
    BY <1>4 DEF InspectAbsent
  <2> QED
    BY <1>3, <2>1, <2>2
<1>5. CASE InspectNotReady(c)
  <2> DEFINE observed == [snap.observed EXCEPT !.generation = 0, !.phase = "enrolling"]
  <2>1. /\ observed \in Observed /\ observed.stage = "none" /\ observed.phase # "deleted"
        /\ observed.drained = snap.observed.drained /\ observed.generation = 0
    BY <1>1 DEF Claw, Observed, Phase
  <2>2. ReplyOrFail(c, snap, observed) \/ Reply(c, Attention(snap))
    BY <1>5 DEF InspectNotReady
  <2>3. CASE Reply(c, Attention(snap))
    BY <1>1, <2>3, ObservedTypes, AttentionRecordable, AnswerKeeps
  <2> QED
    BY <1>3, <2>1, <2>2, <2>3
<1> QED
  BY <1>2, <1>4, <1>5

-----------------------------------------------------------------------------
(* Workspaces that change. *)

(* A workspace that is gone, or no more of a workspace than it was. *)
Fades(s, left) ==
  \/ left = NoWorkspace
  \/ /\ workspaces[s].state # "gone" /\ left.owner = workspaces[s].owner
     /\ left.config = workspaces[s].config
     /\ left.state \in {"provisioning", "ready"} =>
          workspaces[s].state \in {"provisioning", "ready"}

(* A workspace that fades breaks no promise of a claw. *)
LEMMA FadingKeepsPromises ==
  ASSUME IInv, NEW s \in Slugs, NEW left \in Workspace, Fades(s, left),
         workspaces' = [workspaces EXCEPT ![s] = left],
         UNCHANGED <<claws, turns, routed>>
  PROVE  /\ \A d \in Claws, claw \in Claw : Promises(d, claw) => Promises(d, claw)'
         /\ \A t \in Slugs : WorkspaceInv(t)'
         /\ \A d \in Claws : left = NoWorkspace => ~Holds(d, s)'
<1>1. /\ workspaces \in [Slugs -> Workspace] /\ workspaces'[s] = left
      /\ \A t \in Slugs : t # s => workspaces'[t] = workspaces[t]
      /\ NoWorkspace.state = "gone"
  BY DEF IInv, TypeOK, NoWorkspace
<1>2. ASSUME NEW d \in Claws, NEW claw \in Claw, Promises(d, claw)
      PROVE  Promises(d, claw)'
  <2>1. claw.slug \in Slugs
    BY DEF Claw
  <2>2. Holds(d, claw.slug)' => Holds(d, claw.slug)
    BY <1>1, <2>1 DEF Holds, Fades
  <2>3. QuietPromise(d, claw)' /\ GonePromise(d, claw)'
    BY <1>2, <2>2 DEF Promises, QuietPromise, GonePromise
  <2>4. ConfigPromise(d, claw)'
    <3>1. CASE claw.slug # s
      BY <1>1, <1>2, <2>1, <2>2, <3>1 DEF Promises, ConfigPromise
    <3>2. CASE claw.slug = s
      BY <1>1, <1>2, <2>2, <3>2 DEF Promises, ConfigPromise, Fades
    <3> QED
      BY <3>1, <3>2
  <2> QED
    BY <2>3, <2>4 DEF Promises
<1>3. ASSUME NEW t \in Slugs
      PROVE  WorkspaceInv(t)'
  <2>1. WorkspaceInv(t)
    BY DEF IInv
  <2>2. /\ workspaces'[t].state # "gone" => workspaces[t].state # "gone"
        /\ workspaces'[t].state # "gone" => workspaces'[t].owner = workspaces[t].owner
    BY <1>1 DEF Fades
  <2> QED
    BY <2>1, <2>2 DEF WorkspaceInv, Exists, Deleted
<1> QED
  BY <1>1, <1>2, <1>3 DEF Holds

(* The service boots, stops and loses workspaces by itself. *)
LEMMA ServiceKeeps ==
  ASSUME IInv, TypeOK', NEW s \in Slugs,
         WorkspaceBoots(s) \/ WorkspaceStops(s) \/ WorkspaceLost(s)
  PROVE  IInv'
<1>1. PICK left \in Workspace :
        workspaces' = [workspaces EXCEPT ![s] = left] /\ Fades(s, left)
  <2>0. workspaces[s] \in Workspace /\ NoWorkspace \in Workspace
    BY DEF IInv, TypeOK, Workspace, NoWorkspace
  <2>1. CASE WorkspaceBoots(s)
    <3> DEFINE left == [workspaces[s] EXCEPT !.state = "ready"]
    <3>1. left \in Workspace /\ Fades(s, left)
      BY <2>0, <2>1 DEF WorkspaceBoots, Workspace, Fades
    <3> QED
      BY <2>1, <3>1 DEF WorkspaceBoots
  <2>2. CASE WorkspaceStops(s)
    BY <2>0, <2>2 DEF WorkspaceStops, Fades
  <2>3. CASE WorkspaceLost(s)
    <3>1. PICK state \in {"failed", "stopping"} :
            workspaces' = [workspaces EXCEPT ![s].state = state]
      BY <2>3 DEF WorkspaceLost
    <3> DEFINE left == [workspaces[s] EXCEPT !.state = state]
    <3>2. left \in Workspace /\ Fades(s, left)
      BY <2>0, <2>3, <3>1 DEF WorkspaceLost, Workspace, Fades
    <3> QED
      BY <3>1, <3>2
  <2> QED
    BY <2>1, <2>2, <2>3
<1>2. UNCHANGED <<claws, jobs, turns, routed, elapsed>>
  BY DEF WorkspaceBoots, WorkspaceStops, WorkspaceLost, requestVars
<1>3. /\ \A d \in Claws, claw \in Claw : Promises(d, claw) => Promises(d, claw)'
      /\ \A t \in Slugs : WorkspaceInv(t)'
  BY <1>1, <1>2, FadingKeepsPromises
<1>4. ASSUME NEW d \in Claws
      PROVE  ClawInv(d)' /\ JobInv(d)'
  <2>1. ClawInv(d)'
    <3>1. Exists(d) => claws[d] \in Claw
      BY DEF IInv, TypeOK, Exists
    <3> QED
      BY <1>2, <1>3, <3>1 DEF IInv, ClawInv, Exists
  <2>2. jobs[d] # None => \A observed \in Observed : Written(jobs[d].snap, observed) \in Claw
    BY JobTypes DEF IInv
  <2>3. jobs[d] # None /\ jobs[d].fresh /\ jobs[d].step = "write" =>
          Recordable(d, jobs[d].snap, jobs[d].result)'
    BY <1>2, <1>3, <2>2, JobTypes DEF IInv, JobInv, FreshInv, Recordable
  <2>4. JobInv(d)'
    BY <1>2, <2>3 DEF IInv, JobInv, FreshInv, StaleInv, Exists, Deleted
  <2> QED
    BY <2>1, <2>4
<1>5. OneClawPerSlug'
  BY <1>2 DEF IInv, OneClawPerSlug, Exists, Deleted
<1> QED
  BY <1>3, <1>4, <1>5 DEF IInv

(* The workspace is released, and reported gone only when it is. *)
LEMMA RemovalReleasesKeeps ==
  ASSUME IInv, TypeOK', NEW c \in Claws, RemovalReleases(c)
  PROVE  IInv'
<1>0. PICK snap \in Claw : snap = jobs[c].snap
  BY CallKnows DEF RemovalReleases
<1> DEFINE s == snap.slug
<1>1. /\ Calls(c) /\ snap.observed.phase # "deleted"
      /\ snap.observed.stage \in {"release", "confirm"} /\ s \in Slugs
      /\ jobs[c].fresh /\ snap = claws[c] /\ Promises(c, snap)
  BY <1>0, CallKnows DEF RemovalReleases, Claw
<1>2. PICK left \in {NoWorkspace, [workspaces[s] EXCEPT !.state = "stopping"]} :
        /\ workspaces[s].state = "gone" => left = NoWorkspace
        /\ workspaces' = [workspaces EXCEPT ![s] = left]
        /\ ReplyOrFail(c, snap, IF left = NoWorkspace THEN MarkProviderAbsent(snap)
                                ELSE InStage(snap, "confirm"))
        /\ UNCHANGED <<claws, turns, routed, elapsed>>
  BY <1>0 DEF RemovalReleases, requestVars
<1>3. left \in Workspace /\ Fades(s, left)
  <2>1. workspaces[s] \in Workspace
    BY <1>1 DEF IInv, TypeOK
  <2> QED
    BY <1>2, <2>1 DEF Workspace, NoWorkspace, Fades
<1>4. /\ \A d \in Claws, claw \in Claw : Promises(d, claw) => Promises(d, claw)'
      /\ \A t \in Slugs : WorkspaceInv(t)'
      /\ left = NoWorkspace => ~Holds(c, s)'
  BY <1>1, <1>2, <1>3, FadingKeepsPromises
<1>5. Promises(c, claws[c])'
  <2>1. Promises(c, snap)'
    BY <1>1, <1>4
  <2> QED
    BY <1>1, <1>2, <2>1 DEF Promises, QuietPromise, GonePromise, ConfigPromise
<1>6. \A observed \in Observed : Written(snap, observed) \in Claw
  BY <1>0, <1>1, JobTypes DEF IInv, Calls
<1>7. ASSUME NEW observed \in Observed, Reply(c, observed), Recordable(c, snap, observed)'
      PROVE  IInv'
  BY <1>0, <1>1, <1>2, <1>4, <1>5, <1>7, AnswerFrame
<1>8. ASSUME NEW observed \in Observed, Reply(c, observed), Recordable(c, snap, observed)
      PROVE  IInv'
  <2>1. Recordable(c, snap, observed)'
    BY <1>4, <1>6, <1>8 DEF Recordable
  <2> QED
    BY <1>7, <1>8, <2>1
<1>9. CASE Reply(c, Attention(snap))
  BY <1>0, <1>1, <1>8, <1>9, AttentionRecordable, ObservedTypes
<1>10. CASE left # NoWorkspace /\ Reply(c, InStage(snap, "confirm"))
  <2>1. Rank(snap) <= Rank(Written(snap, InStage(snap, "confirm")))
    BY <1>1, StageRank DEF Stage
  <2>2. turns[c] = 0 /\ ~routed[c]
    BY <1>1 DEF Promises, QuietPromise
  <2>3. Recordable(c, snap, InStage(snap, "confirm"))
    BY <1>0, <1>1, <2>1, <2>2, StageRecordable
  <2> QED
    BY <1>8, <1>10, <2>3, ObservedTypes DEF Stage
<1>11. CASE left = NoWorkspace /\ Reply(c, MarkProviderAbsent(snap))
  <2> DEFINE observed == MarkProviderAbsent(snap)
             new == Written(snap, observed)
  <2>1. /\ new \in Claw /\ new.slug = s /\ new.desired = snap.desired
        /\ new.observed.phase = "deleting" /\ new.observed.stage = "revoke"
        /\ new.observed.generation = snap.observed.generation
        /\ new.observed.lifecycle = snap.observed.lifecycle
        /\ observed \in Observed
    BY <1>6, ObservedTypes DEF Written, MarkProviderAbsent, Claw, Observed
  <2> HIDE DEF new, observed
  <2>2. RecordOK(snap)
    BY <1>0, <1>1, CallKnows
  <2>3. RecordOK(new)
    BY <1>1, <2>1, <2>2 DEF RecordOK
  <2>4. Promises(c, new)'
    <3>1. (QuietPromise(c, new) /\ GonePromise(c, new) /\ ConfigPromise(c, new))'
      BY <1>1, <1>4, <1>11, <2>1, <2>3
         DEF QuietPromise, GonePromise, ConfigPromise, RecordOK, new, observed
    <3> QED
      BY <3>1 DEF Promises
  <2>5. Rank(snap) <= Rank(new)
    BY <1>1, <2>1, RankOf
  <2>6. Recordable(c, snap, observed)'
    BY <2>3, <2>4, <2>5 DEF Recordable, new
  <2> QED
    BY <1>7, <1>11, <2>1, <2>6 DEF observed
<1> QED
  BY <1>2, <1>9, <1>10, <1>11 DEF ReplyOrFail

(* A workspace of one claw keeps no other claw from its promises. *)
LEMMA OthersKeepPromises ==
  ASSUME IInv, NEW s \in Slugs, NEW left \in Workspace, NEW c \in Claws,
         left.owner = c, workspaces[s].state # "gone" => workspaces[s].owner = c,
         workspaces' = [workspaces EXCEPT ![s] = left], UNCHANGED <<turns, routed>>
  PROVE  \A d \in Claws : d # c =>
           \A claw \in Claw : Promises(d, claw) => Promises(d, claw)'
<1>1. /\ workspaces'[s] = left
      /\ \A t \in Slugs : t # s => workspaces'[t] = workspaces[t]
  BY DEF IInv, TypeOK
<1>2. ASSUME NEW d \in Claws, d # c, NEW claw \in Claw, Promises(d, claw)
      PROVE  Promises(d, claw)'
  <2>1. claw.slug \in Slugs
    BY DEF Claw
  <2>2. CASE claw.slug # s
    BY <1>1, <1>2, <2>1, <2>2 DEF Promises, QuietPromise, GonePromise, ConfigPromise, Holds
  <2>3. CASE claw.slug = s
    BY <1>1, <1>2, <2>3 DEF Promises, QuietPromise, GonePromise, ConfigPromise, Holds
  <2> QED
    BY <2>2, <2>3
<1> QED
  BY <1>2

(* Provisioning: an existing workspace is taken as it is; a new one serves *)
(* a claw that does not count as converged.                                *)
LEMMA ProvisionKeeps ==
  ASSUME IInv, TypeOK', NEW c \in Claws, Provision(c)
  PROVE  IInv'
<1>0. PICK snap \in Claw : snap = jobs[c].snap
  BY CallKnows DEF Provision, Provisioned
<1> DEFINE s == snap.slug
           observed == [snap.observed EXCEPT !.generation = 0, !.phase = "enrolling",
                          !.lifecycle = TRUE]
<1>1. /\ Calls(c) /\ snap.observed.stage = "none" /\ snap.desired.enabled
      /\ ~snap.observed.lifecycle /\ s \in Slugs /\ snap.slug = claws[c].slug
      /\ jobs[c].fresh => snap = claws[c] /\ RecordOK(snap) /\ Promises(c, snap)
      /\ ~jobs[c].fresh => StaleInv(c, jobs[c])
      /\ Exists(c) /\ ~Deleted(c) /\ claws[c] \in Claw
      /\ UNCHANGED <<claws, turns, routed, elapsed>>
      /\ snap.desired.generation \in Nat /\ claws[c].desired.generation \in Nat
      /\ claws[c].observed.generation \in Nat
  <2>1. Calls(c) /\ Provisions(snap) /\ UNCHANGED <<claws, turns, routed, elapsed>>
    BY <1>0 DEF Provision, Provisioned, requestVars
  <2> QED
    BY <1>0, <2>1, CallKnows DEF Provisions, Claw, Desired, Observed
<1>2. /\ Recordable(c, snap, Attention(snap)) \/ ~jobs[c].fresh
      /\ Attention(snap) \in Observed
  BY <1>0, <1>1, AttentionRecordable, ObservedTypes
<1>3. /\ observed \in Observed /\ observed.stage = "none" /\ observed.phase # "deleted"
      /\ observed.drained = snap.observed.drained /\ observed.generation = 0
      /\ observed.lifecycle
  BY <1>1 DEF Claw, Observed, Phase
<1> HIDE DEF observed
<1>4. /\ jobs[c].fresh => Recordable(c, snap, observed)
      /\ jobs[c].fresh => Recordable(c, snap, observed)'
  <2>0. SUFFICES ASSUME jobs[c].fresh
                 PROVE  Recordable(c, snap, observed) /\ Recordable(c, snap, observed)'
    OBVIOUS
  <2>1. 1 <= snap.desired.generation
    BY <1>1, <2>0 DEF RecordOK
  <2>2. /\ Written(snap, observed).desired = snap.desired
        /\ Written(snap, observed).observed = observed
    BY DEF Written, Claw
  <2>3. ConfigPromise(c, Written(snap, observed))
    BY <1>3, <2>1, <2>2 DEF ConfigPromise
  <2>4. ConfigPromise(c, Written(snap, observed))'
    BY <1>3, <2>1, <2>2 DEF ConfigPromise
  <2> QED
    BY <1>0, <1>1, <1>3, <2>0, <2>1, <2>3, <2>4, ServingRecordable
<1>5. CASE UNCHANGED workspaces
  <2>1. Reply(c, observed) \/ Reply(c, Attention(snap))
    BY <1>0 DEF Provision, Provisioned, ReplyOrFail, observed
  <2> QED
    BY <1>0, <1>1, <1>2, <1>3, <1>4, <1>5, <2>1, AnswerKeeps
<1>6. CASE workspaces[s].state = "gone"
  <2> DEFINE left == [owner |-> c, config |-> None, state |-> "provisioning"]
  <2>1. /\ ReplyOrFail(c, snap, observed)
        /\ workspaces' = [workspaces EXCEPT ![s] = left]
    BY <1>0, <1>1, <1>6 DEF Provision, Provisioned, observed, IInv, TypeOK
  <2>2. left \in Workspace /\ left.owner = c /\ left.state = "provisioning"
    BY DEF Workspace
  <2> HIDE DEF left
  <2>3. \A d \in Claws : d # c => \A claw \in Claw : Promises(d, claw) => Promises(d, claw)'
    BY <1>1, <1>6, <2>1, <2>2, OthersKeepPromises
  <2>4. ASSUME NEW claw \in Claw, Promises(c, claw), claw.observed.stage # "revoke",
               claw.observed.phase # "deleted",
               claw.observed.generation < claw.desired.generation
        PROVE  Promises(c, claw)'
    <3>1. claw.observed.generation # claw.desired.generation
      BY <2>4 DEF Claw, Desired, Observed
    <3> QED
      BY <1>1, <2>4, <3>1 DEF Promises, QuietPromise, GonePromise, ConfigPromise
  <2>5. Promises(c, claws[c])'
    <3>1. Promises(c, claws[c]) /\ claws[c].observed.phase # "deleted"
      BY <1>1 DEF IInv, ClawInv, Deleted
    <3>2. claws[c].observed.stage # "revoke"
      BY <1>1 DEF StaleInv
    <3>3. claws[c].observed.generation < claws[c].desired.generation
      BY <1>0, <1>1 DEF StaleInv, RecordOK
    <3>4. \A claw \in Claw : claw = claws[c] => Promises(c, claw)'
      BY <2>4, <3>1, <3>2, <3>3
    <3> QED
      BY <1>1, <3>4 DEF Promises, QuietPromise, GonePromise, ConfigPromise
  <2>6. \A t \in Slugs : WorkspaceInv(t)'
    BY <1>1, <2>1, <2>2 DEF IInv, TypeOK, WorkspaceInv, Exists, Deleted
  <2>7. CASE Reply(c, observed)
    BY <1>0, <1>1, <1>3, <1>4, <2>3, <2>5, <2>6, <2>7, AnswerFrame
  <2>8. CASE Reply(c, Attention(snap))
    <3>1. jobs[c].fresh => Recordable(c, snap, Attention(snap))'
      <4>0. SUFFICES ASSUME jobs[c].fresh PROVE Recordable(c, snap, Attention(snap))'
        OBVIOUS
      <4> DEFINE new == Written(snap, Attention(snap))
      <4>1. /\ new \in Claw /\ new.observed.stage = "none"
            /\ new.observed.phase = "attention" /\ new.desired = snap.desired
            /\ new.observed.generation = snap.observed.generation
        BY <1>1 DEF Written, Attention, Claw, Observed, Phase
      <4>2. Recordable(c, snap, Attention(snap))
        BY <1>2, <4>0
      <4> HIDE DEF new
      <4>3. snap.observed.generation < snap.desired.generation
        BY <1>1, <4>0 DEF RecordOK
      <4>4. Promises(c, new)'
        BY <2>4, <4>1, <4>2, <4>3 DEF Recordable, new
      <4> QED
        BY <4>2, <4>4 DEF Recordable, new
    <3> QED
      BY <1>0, <1>1, <1>2, <2>3, <2>5, <2>6, <2>8, <3>1, AnswerFrame
  <2> QED
    BY <2>1, <2>7, <2>8 DEF ReplyOrFail
<1> QED
  <2>1. CASE workspaces[s].state # "gone"
    <3>1. [workspaces EXCEPT ![s] = workspaces[s]] = workspaces
      BY <1>1 DEF IInv, TypeOK
    <3>2. UNCHANGED workspaces
      BY <1>0, <2>1, <3>1 DEF Provision, Provisioned
    <3> QED
      BY <1>5, <3>2
  <2> QED
    BY <1>6, <2>1

(* The workspace that a claw configures is its own, and a reconcile that   *)
(* is stale configures it for a claw that does not count as converged.     *)
LEMMA InspectReadyKeeps ==
  ASSUME IInv, TypeOK', NEW c \in Claws, InspectReady(c)
  PROVE  IInv'
<1>0. PICK snap \in Claw : snap = jobs[c].snap
  BY CallKnows DEF InspectReady, Inspected, Inspects
<1> DEFINE s == snap.slug
<1>1. /\ Calls(c) /\ snap.observed.stage = "none" /\ snap.desired.enabled
      /\ snap.observed.lifecycle /\ s \in Slugs /\ snap.slug = claws[c].slug
      /\ workspaces[s].state = "ready"
      /\ jobs[c].fresh => snap = claws[c] /\ RecordOK(snap) /\ Promises(c, snap)
      /\ ~jobs[c].fresh => StaleInv(c, jobs[c])
      /\ Exists(c) /\ ~Deleted(c) /\ claws[c] \in Claw
      /\ UNCHANGED <<claws, turns, routed, elapsed>>
      /\ snap.desired.generation \in Nat /\ claws[c].desired.generation \in Nat
      /\ claws[c].observed.generation \in Nat /\ snap.observed \in Observed
  <2>1. Calls(c) /\ Inspects(c, snap) /\ UNCHANGED <<claws, turns, routed, elapsed>>
        /\ workspaces[s].state = "ready"
    BY <1>0 DEF InspectReady, Inspected, Inspects, requestVars
  <2>2. claws[c] \in Claw /\ snap.observed \in Observed
    BY <1>0, <2>1, CallKnows DEF Claw
  <2>3. /\ snap.desired.generation \in Nat /\ claws[c].desired.generation \in Nat
        /\ claws[c].observed.generation \in Nat /\ s \in Slugs
    BY <2>2 DEF Claw, Desired, Observed
  <2> QED
    BY <1>0, <2>1, <2>2, <2>3, CallKnows DEF Inspects
<1>2. workspaces[s] \in Workspace /\ workspaces[s].owner = c
  <2>1. WorkspaceInv(s) /\ workspaces[s] \in Workspace
    BY <1>1 DEF IInv, TypeOK
  <2> QED
    BY <1>1, <2>1 DEF IInv, OneClawPerSlug, WorkspaceInv
<1>3. PICK config \in {workspaces[s].config, childPolicyHash(snap)}, observed \in Observed :
        /\ workspaces' = [workspaces EXCEPT ![s].config = config]
        /\ Reply(c, observed)
        /\ observed.stage = "none" /\ observed.drained = snap.observed.drained
        /\ observed.phase # "deleted" /\ observed.lifecycle
        /\ \/ /\ observed.generation = snap.desired.generation
              /\ config = childPolicyHash(snap)
           \/ observed.generation = snap.observed.generation
  <2>1. /\ \A phase \in {"ready", "attention"} :
             LET observed == [snap.observed EXCEPT !.phase = phase,
                                !.generation = snap.desired.generation] IN
               /\ observed \in Observed /\ observed.stage = "none"
               /\ observed.drained = snap.observed.drained /\ observed.phase = phase
               /\ observed.lifecycle /\ observed.generation = snap.desired.generation
        /\ \A phase \in {"enrolling", "attention"} :
             LET observed == [snap.observed EXCEPT !.phase = phase] IN
               /\ observed \in Observed /\ observed.stage = "none"
               /\ observed.drained = snap.observed.drained /\ observed.phase = phase
               /\ observed.lifecycle /\ observed.generation = snap.observed.generation
    BY <1>1 DEF Observed, Phase
  <2>2. \/ /\ workspaces' = [workspaces EXCEPT ![s].config = childPolicyHash(snap)]
           /\ \E phase \in {"ready", "attention"} :
                Reply(c, [snap.observed EXCEPT !.phase = phase,
                            !.generation = snap.desired.generation])
        \/ \E config \in {workspaces[s].config, childPolicyHash(snap)} :
             /\ workspaces' = [workspaces EXCEPT ![s].config = config]
             /\ \E phase \in {"enrolling", "attention"} :
                  Reply(c, [snap.observed EXCEPT !.phase = phase])
    BY <1>0 DEF InspectReady, Inspected, Attention
  <2>3. CASE /\ workspaces' = [workspaces EXCEPT ![s].config = childPolicyHash(snap)]
             /\ \E phase \in {"ready", "attention"} :
                  Reply(c, [snap.observed EXCEPT !.phase = phase,
                              !.generation = snap.desired.generation])
    <3>1. PICK phase \in {"ready", "attention"} :
            Reply(c, [snap.observed EXCEPT !.phase = phase,
                        !.generation = snap.desired.generation])
      BY <2>3
    <3> DEFINE observed == [snap.observed EXCEPT !.phase = phase,
                              !.generation = snap.desired.generation]
    <3>2. /\ observed \in Observed /\ observed.stage = "none"
          /\ observed.drained = snap.observed.drained /\ observed.phase # "deleted"
          /\ observed.lifecycle /\ observed.generation = snap.desired.generation
      BY <2>1
    <3> HIDE DEF observed
    <3>3. Reply(c, observed)
      BY <3>1 DEF observed
    <3> QED
      BY <2>3, <3>2, <3>3
  <2>4. CASE \E config \in {workspaces[s].config, childPolicyHash(snap)} :
               /\ workspaces' = [workspaces EXCEPT ![s].config = config]
               /\ \E phase \in {"enrolling", "attention"} :
                    Reply(c, [snap.observed EXCEPT !.phase = phase])
    <3>1. PICK config \in {workspaces[s].config, childPolicyHash(snap)},
               phase \in {"enrolling", "attention"} :
            /\ workspaces' = [workspaces EXCEPT ![s].config = config]
            /\ Reply(c, [snap.observed EXCEPT !.phase = phase])
      BY <2>4
    <3> DEFINE observed == [snap.observed EXCEPT !.phase = phase]
    <3>2. /\ observed \in Observed /\ observed.stage = "none"
          /\ observed.drained = snap.observed.drained /\ observed.phase # "deleted"
          /\ observed.lifecycle /\ observed.generation = snap.observed.generation
      BY <2>1
    <3> HIDE DEF observed
    <3>3. Reply(c, observed)
      BY <3>1 DEF observed
    <3> QED
      BY <3>1, <3>2, <3>3
  <2> QED
    BY <2>2, <2>3, <2>4
<1> DEFINE left == [workspaces[s] EXCEPT !.config = config]
<1>4. /\ left \in Workspace /\ left.owner = c /\ left.state = "ready" /\ left.config = config
      /\ workspaces' = [workspaces EXCEPT ![s] = left]
      /\ workspaces'[s] = left
      /\ \A t \in Slugs : t # s => workspaces'[t] = workspaces[t]
  <2>1. childPolicyHash(snap) \in Config
    BY DEF childPolicyHash, Config, Claw, Desired
  <2>2. left \in Workspace
    BY <1>2, <2>1 DEF Workspace
  <2>3. left.owner = c /\ left.state = "ready" /\ left.config = config
    BY <1>1, <1>2 DEF Workspace
  <2>4. workspaces' = [workspaces EXCEPT ![s] = left]
    BY <1>3
  <2> QED
    BY <1>1, <2>2, <2>3, <2>4 DEF IInv, TypeOK
<1> HIDE DEF left
<1>5. \A d \in Claws : d # c => \A claw \in Claw : Promises(d, claw) => Promises(d, claw)'
  BY <1>1, <1>2, <1>4, OthersKeepPromises
<1>6. Promises(c, claws[c])'
  <2>1. Promises(c, claws[c]) /\ Holds(c, s)
    BY <1>1, <1>2 DEF IInv, ClawInv, Holds
  <2>2. (QuietPromise(c, claws[c]) /\ GonePromise(c, claws[c]))'
    BY <1>1, <2>1 DEF Promises, QuietPromise, GonePromise
  <2>3. /\ claws[c].desired.enabled
        /\ claws[c].observed.generation = claws[c].desired.generation
        => config = childPolicyHash(claws[c])
    <3>1. CASE jobs[c].fresh
      BY <1>1, <1>3, <2>1, <3>1 DEF Promises, ConfigPromise
    <3>2. CASE ~jobs[c].fresh
      BY <1>0, <1>1, <3>2 DEF StaleInv
    <3> QED
      BY <3>1, <3>2
  <2>4. childPolicyHash(claws[c])' = childPolicyHash(claws[c])
    BY <1>1 DEF childPolicyHash
  <2>5. ConfigPromise(c, claws[c])'
    BY <1>1, <1>4, <2>3, <2>4 DEF ConfigPromise
  <2> QED
    BY <2>2, <2>5 DEF Promises
<1>7. jobs[c].fresh => Recordable(c, snap, observed)'
  <2>0. SUFFICES ASSUME jobs[c].fresh PROVE Recordable(c, snap, observed)'
    OBVIOUS
  <2> DEFINE new == Written(snap, observed)
  <2>1. /\ new.desired = snap.desired /\ new.observed = observed /\ new.slug = s
        /\ childPolicyHash(new) = childPolicyHash(snap)
    BY DEF Written, Claw, childPolicyHash
  <2> HIDE DEF new
  <2>2. ConfigPromise(c, new)'
    <3>1. config = childPolicyHash(snap) \/ ConfigPromise(c, snap)
      BY <1>1, <2>0 DEF Promises
    <3>2. ConfigPromise(c, new)' <=> ConfigPromise(c, new)'
      OBVIOUS
    <3>3. observed.generation = snap.desired.generation => config = childPolicyHash(snap)
      BY <1>1, <1>2, <1>3, <3>1 DEF ConfigPromise, Holds
    <3> QED
      BY <1>3, <1>4, <2>1, <3>3 DEF ConfigPromise, new
  <2>3. observed.generation <= snap.desired.generation
    BY <1>1, <1>3, <2>0 DEF RecordOK
  <2> QED
    BY <1>0, <1>1, <1>3, <2>0, <2>2, <2>3, ServingRecordable DEF new
<1>8. \A t \in Slugs : WorkspaceInv(t)'
  BY <1>1, <1>2, <1>4 DEF IInv, WorkspaceInv, Exists, Deleted
<1> QED
  BY <1>0, <1>1, <1>3, <1>5, <1>6, <1>7, <1>8, AnswerFrame

-----------------------------------------------------------------------------
(* The registry operations. *)

(* A new desired state for a claw that is not being removed, which may be  *)
(* the request of its removal: the reconcile in flight becomes stale.      *)
DesiredChanges(c) ==
  /\ Exists(c) /\ ~Deleted(c) /\ claws[c].observed.stage = "none"
  /\ claws'[c] \in Claw /\ claws'[c].slug = claws[c].slug
  /\ claws'[c].desired.generation = claws[c].desired.generation + 1
  /\ claws'[c].observed.generation = claws[c].observed.generation
  /\ claws'[c].observed.phase # "deleted" /\ ~claws'[c].observed.drained
  /\ \/ claws'[c].observed.stage = "none"
     \/ /\ claws'[c].observed.stage = "disable" /\ ~claws'[c].desired.enabled
        /\ claws'[c].observed.phase = "deleting"
  /\ jobs'[c] = IF jobs[c] = None THEN None ELSE [jobs[c] EXCEPT !.fresh = FALSE]

(* Whatever changes desired states, of one claw or of several at once,     *)
(* makes their reconciles stale in the way StaleInv says.                  *)
LEMMA ChangesKeep ==
  ASSUME IInv, TypeOK', NEW changed \in SUBSET Claws,
         \A c \in changed : DesiredChanges(c),
         \A c \in Claws \ changed : claws'[c] = claws[c] /\ jobs'[c] = jobs[c],
         UNCHANGED <<workspaces, turns, routed, elapsed>>
  PROVE  IInv'
<1>1. ASSUME NEW c \in changed
      PROVE  /\ c \in Claws /\ claws[c] \in Claw /\ RecordOK(claws[c])
             /\ ~claws[c].observed.drained
             /\ claws[c].desired.generation \in Nat /\ claws[c].observed.generation \in Nat
  <2>1. DesiredChanges(c) /\ c \in Claws
    BY <1>1
  <2>2. claws[c] \in Claw /\ RecordOK(claws[c])
    BY <2>1 DEF IInv, TypeOK, ClawInv, Exists, DesiredChanges
  <2> QED
    BY <2>1, <2>2 DEF RecordOK, Claw, Desired, Observed, DesiredChanges
<1>2. ASSUME NEW c \in changed
      PROVE  Exists(c)' /\ ~Deleted(c)'
  BY <1>2, NoneAssumption DEF Exists, Deleted, DesiredChanges
<1>3. ASSUME NEW c \in changed
      PROVE  ClawInv(c)'
  <2>0. /\ claws'[c] \in Claw /\ DesiredChanges(c)
        /\ claws'[c].desired.generation = claws[c].desired.generation + 1
        /\ claws'[c].observed.generation = claws[c].observed.generation
    BY <1>3 DEF DesiredChanges
  <2>1. RecordOK(claws'[c])
    BY <1>1, <1>3, <2>0 DEF RecordOK, DesiredChanges
  <2>2. Promises(c, claws[c])'
    BY <1>1, <1>3, <2>0
       DEF Promises, QuietPromise, GonePromise, ConfigPromise, RecordOK, DesiredChanges
  <2>3. ~elapsed[c]
    BY <1>1, <1>3 DEF IInv, ClawInv
  <2> QED
    BY <1>2, <1>3, <2>1, <2>2, <2>3 DEF ClawInv
<1>4. ASSUME NEW c \in changed
      PROVE  JobInv(c)'
  <2>0. SUFFICES ASSUME jobs'[c] # None PROVE JobInv(c)'
    BY DEF JobInv
  <2>1. /\ c \in Claws /\ jobs[c] # None /\ jobs[c] \in Job
        /\ jobs'[c] = [jobs[c] EXCEPT !.fresh = FALSE]
    BY <1>4, <2>0 DEF IInv, TypeOK, DesiredChanges
  <2>2. ~jobs'[c].fresh /\ jobs'[c].snap = jobs[c].snap
    BY <2>1 DEF Job
  <2>3. /\ jobs[c].snap.observed.stage = "none" /\ jobs[c].snap.slug = claws[c].slug
        /\ jobs[c].snap.desired.generation <= claws[c].desired.generation
        /\ claws[c].observed.generation <= jobs[c].snap.desired.generation
        /\ jobs[c].snap.desired.generation \in Nat
    <3>1. jobs[c].snap.desired.generation \in Nat
      BY <2>1 DEF Job, Claw, Desired
    <3>2. CASE jobs[c].fresh
      BY <1>1, <1>4, <2>1, <3>1, <3>2 DEF IInv, JobInv, FreshInv, RecordOK, DesiredChanges
    <3>3. CASE ~jobs[c].fresh
      BY <1>1, <1>4, <2>1, <3>1, <3>3 DEF IInv, JobInv, StaleInv
    <3> QED
      BY <3>1, <3>2, <3>3
  <2>4. /\ claws'[c].observed.stage \in {"none", "disable"} /\ claws'[c].slug = claws[c].slug
        /\ claws'[c].desired.generation = claws[c].desired.generation + 1
        /\ claws'[c].observed.generation = claws[c].observed.generation
    BY <1>4 DEF DesiredChanges
  <2>5. StaleInv(c, jobs[c])'
    BY <1>1, <1>4, <2>2, <2>3, <2>4 DEF StaleInv
  <2> QED
    BY <1>2, <1>4, <2>2, <2>5 DEF JobInv
<1>5. ASSUME NEW d \in Claws, d \notin changed
      PROVE  ClawInv(d)' /\ JobInv(d)'
  <2>1. claws'[d] = claws[d] /\ jobs'[d] = jobs[d]
    BY <1>5
  <2>2. ClawInv(d)'
    BY <2>1 DEF IInv, ClawInv, Exists, Promises, QuietPromise, GonePromise, ConfigPromise, Holds
  <2>3. JobInv(d)'
    BY <2>1 DEF IInv, JobInv, FreshInv, StaleInv, Recordable, Exists, Deleted, Promises,
       QuietPromise, GonePromise, ConfigPromise, Holds
  <2> QED
    BY <2>2, <2>3
<1>6. ASSUME NEW c \in Claws
      PROVE  /\ Exists(c)' <=> Exists(c)
             /\ Deleted(c)' <=> Deleted(c)
             /\ Exists(c) => claws'[c].slug = claws[c].slug
  <2>1. CASE c \in changed
    BY <1>2, <2>1 DEF DesiredChanges
  <2>2. CASE c \notin changed
    BY <2>2 DEF Exists, Deleted
  <2> QED
    BY <2>1, <2>2
<1>7. \A s \in Slugs : WorkspaceInv(s)'
  BY <1>6 DEF IInv, WorkspaceInv
<1>8. OneClawPerSlug'
  BY <1>6 DEF IInv, OneClawPerSlug
<1> QED
  BY <1>3, <1>4, <1>5, <1>7, <1>8 DEF IInv

(* The same for one claw, whose record is committed. *)
LEMMA ChangeKeeps ==
  ASSUME IInv, TypeOK', NEW c \in Claws, NEW claw \in Claw, Commit(c, claw),
         Exists(c), ~Deleted(c), claws[c].observed.stage = "none",
         claw.slug = claws[c].slug,
         claw.desired.generation = claws[c].desired.generation + 1,
         claw.observed.generation = claws[c].observed.generation,
         claw.observed.phase # "deleted", ~claw.observed.drained,
         \/ claw.observed.stage = "none"
         \/ /\ claw.observed.stage = "disable" /\ ~claw.desired.enabled
            /\ claw.observed.phase = "deleting",
         UNCHANGED <<workspaces, turns, routed, elapsed>>
  PROVE  IInv'
<1>1. /\ claws'[c] = claw
      /\ \A d \in Claws : d # c => claws'[d] = claws[d] /\ jobs'[d] = jobs[d]
      /\ jobs'[c] = IF jobs[c] = None THEN None ELSE [jobs[c] EXCEPT !.fresh = FALSE]
  BY DEF IInv, TypeOK, Commit
<1>2. DesiredChanges(c)
  BY <1>1 DEF DesiredChanges
<1>3. {c} \in SUBSET Claws /\ \A d \in Claws \ {c} : claws'[d] = claws[d] /\ jobs'[d] = jobs[d]
  BY <1>1
<1>4. \A d \in {c} : DesiredChanges(d)
  BY <1>2
<1> QED
  BY <1>3, <1>4, ChangesKeep

(* Updating, enabling, disabling, rotating and the request of a removal. *)
LEMMA RegistryKeeps ==
  ASSUME IInv, TypeOK', NEW c \in Claws,
         Update(c) \/ SetEnabled(c) \/ RotateCredentials(c) \/ RequestRemoval(c)
  PROVE  IInv'
<1>0. Exists(c) /\ UNCHANGED <<workspaces, turns, routed, elapsed>>
  BY DEF Update, SetEnabled, RotateCredentials, RequestRemoval, Mutable, requestVars,
     coordinatorVars
<1>1. /\ claws[c] \in Claw /\ claws[c].desired \in Desired /\ RecordOK(claws[c])
  BY <1>0 DEF IInv, TypeOK, ClawInv, Exists, Claw
<1>2. ASSUME NEW desired \in Desired, desired.generation = claws[c].desired.generation,
             Mutable(c), Commit(c, NextDesired(c, desired))
      PROVE  IInv'
  <2> DEFINE claw == NextDesired(c, desired)
  <2>1. /\ claw \in Claw /\ claw.slug = claws[c].slug /\ claw.observed = claws[c].observed
        /\ claw.desired.generation = claws[c].desired.generation + 1
    BY <1>1, <1>2 DEF NextDesired, Claw, Desired
  <2> HIDE DEF claw
  <2>2. Commit(c, claw)
    BY <1>2 DEF claw
  <2>3. /\ ~Deleted(c) /\ claws[c].observed.stage = "none" /\ ~claws[c].observed.drained
        /\ claws[c].observed.phase # "deleted"
    BY <1>1, <1>2 DEF Mutable, Deleted, RecordOK
  <2> QED
    BY <1>0, <2>1, <2>2, <2>3, ChangeKeeps
<1>3. CASE Update(c)
  <2>1. PICK p \in Policies : Change(c, Updated(c, p)) /\ Mutable(c)
    BY <1>3 DEF Update
  <2> DEFINE desired == [claws[c].desired EXCEPT !.policy = p]
  <2>2. desired \in Desired /\ desired.generation = claws[c].desired.generation
    BY <1>1 DEF Desired
  <2>3. Commit(c, NextDesired(c, desired))
    BY <2>1 DEF Change, Updated
  <2> HIDE DEF desired
  <2> QED
    BY <1>2, <2>1, <2>2, <2>3
<1>4. CASE SetEnabled(c)
  <2> DEFINE enabled == ~claws[c].desired.enabled
             desired == [claws[c].desired EXCEPT !.enabled = enabled]
  <2>1. enabled \in BOOLEAN
    BY Zenon
  <2>2. desired \in Desired /\ desired.generation = claws[c].desired.generation
    <3> HIDE DEF enabled
    <3> QED
      BY <1>1, <2>1 DEF Desired
  <2>3. Commit(c, NextDesired(c, desired)) /\ Mutable(c)
    BY <1>4, Zenon DEF SetEnabled, Change, setClawEnabled
  <2> HIDE DEF desired, enabled
  <2> QED
    BY <1>2, <2>2, <2>3
<1>5. CASE RotateCredentials(c)
  <2> DEFINE desired == [claws[c].desired EXCEPT !.credentials = @ + 1]
  <2>1. desired \in Desired /\ desired.generation = claws[c].desired.generation
    BY <1>1 DEF Desired
  <2>2. Commit(c, NextDesired(c, desired)) /\ Mutable(c)
    BY <1>5 DEF RotateCredentials, Change
  <2> HIDE DEF desired
  <2> QED
    BY <1>2, <2>1, <2>2
<1>6. CASE RequestRemoval(c) /\ Commit(c, RemovalRequested(c)) /\ ~Deleted(c)
                             /\ claws[c].observed.stage = "none"
  <2> DEFINE claw == RemovalRequested(c)
             desired == [claws[c].desired EXCEPT !.enabled = FALSE]
             next == NextDesired(c, desired)
  <2>1. /\ desired \in Desired /\ desired.generation = claws[c].desired.generation
        /\ desired.enabled = FALSE
    BY <1>1 DEF Desired
  <2>2. /\ next \in Claw /\ next.slug = claws[c].slug /\ next.observed = claws[c].observed
        /\ next.desired.generation = claws[c].desired.generation + 1
        /\ next.desired.enabled = FALSE
    <3> HIDE DEF desired
    <3> QED
      BY <1>1, <2>1 DEF NextDesired, Claw, Desired
  <2>3. claw = [next EXCEPT !.observed.phase = "deleting", !.observed.stage = "disable",
                  !.observed.drained = FALSE]
    BY DEF RemovalRequested
  <2> HIDE DEF next, claw
  <2>4. /\ claw \in Claw /\ claw.slug = next.slug /\ claw.desired = next.desired
        /\ claw.observed.generation = next.observed.generation
        /\ claw.observed.phase = "deleting" /\ claw.observed.stage = "disable"
        /\ claw.observed.drained = FALSE
    BY <2>2, <2>3 DEF Claw, Observed, Phase, Stage
  <2>5. Commit(c, claw)
    BY <1>6 DEF claw
  <2> QED
    BY <1>0, <1>6, <2>2, <2>4, <2>5, ChangeKeeps
<1>7. CASE UNCHANGED <<claws, jobs>>
  <2>1. ASSUME NEW d \in Claws
        PROVE  ClawInv(d)' /\ JobInv(d)'
    BY <1>0, <1>7 DEF IInv, ClawInv, JobInv, FreshInv, StaleInv, Recordable, Exists, Deleted,
       Promises, QuietPromise, GonePromise, ConfigPromise, Holds
  <2>2. (\A s \in Slugs : WorkspaceInv(s)') /\ OneClawPerSlug'
    BY <1>0, <1>7 DEF IInv, WorkspaceInv, OneClawPerSlug, Exists, Deleted
  <2> QED
    BY <2>1, <2>2 DEF IInv
<1> QED
  BY <1>3, <1>4, <1>5, <1>6, <1>7 DEF RequestRemoval, Change

(* A new claw has its slug to itself, and no workspace yet. *)
LEMMA CreateKeeps ==
  ASSUME IInv, TypeOK', NEW c \in Claws, Create(c)
  PROVE  IInv'
<1>1. PICK s \in Slugs, p \in Policies :
        ~SlugTaken(s) /\ Commit(c, NewClaw(s, p))
  BY DEF Create
<1> DEFINE claw == NewClaw(s, p)
<1>2. /\ claw \in Claw /\ claw.slug = s /\ claw.desired.generation = 1
      /\ claw.observed.generation = 0 /\ claw.observed.phase = "requested"
      /\ claw.observed.stage = "none" /\ claw.observed.drained = FALSE
  BY DEF NewClaw, Claw, Desired, Observed, Phase, Stage
<1> HIDE DEF claw
<1>3. ~Exists(c) /\ UNCHANGED <<workspaces, turns, routed, elapsed>>
  BY DEF Create, requestVars, coordinatorVars
<1>4. /\ jobs[c] = None /\ claws'[c] = claw /\ jobs'[c] = None
      /\ \A d \in Claws : d # c => claws'[d] = claws[d] /\ jobs'[d] = jobs[d]
      /\ Exists(c)' /\ ~Deleted(c)'
  <2>1. jobs[c] = None
    BY <1>3 DEF IInv, JobInv
  <2> QED
    BY <1>1, <1>2, <2>1, NoneAssumption DEF claw, IInv, TypeOK, Commit, Exists, Deleted
<1>5. ClawInv(c)'
  <2>1. RecordOK(claw)
    BY <1>2 DEF RecordOK
  <2>2. Promises(c, claws[c])'
    BY <1>2, <1>4 DEF Promises, QuietPromise, GonePromise, ConfigPromise
  <2>3. ~elapsed[c]
    BY <1>3 DEF IInv, ClawInv
  <2> QED
    BY <1>3, <1>4, <2>1, <2>2, <2>3 DEF ClawInv
<1>6. ASSUME NEW d \in Claws, d # c
      PROVE  ClawInv(d)' /\ JobInv(d)'
  <2>1. claws'[d] = claws[d] /\ jobs'[d] = jobs[d]
    BY <1>4, <1>6
  <2>2. ClawInv(d)'
    BY <1>3, <2>1 DEF IInv, ClawInv, Exists, Promises, QuietPromise, GonePromise, ConfigPromise,
       Holds
  <2>3. JobInv(d)'
    BY <1>3, <2>1 DEF IInv, JobInv, FreshInv, StaleInv, Recordable, Exists, Deleted, Promises,
       QuietPromise, GonePromise, ConfigPromise, Holds
  <2> QED
    BY <2>2, <2>3
<1>7. \A t \in Slugs : WorkspaceInv(t)'
  BY <1>3, <1>4 DEF IInv, WorkspaceInv, Exists, Deleted
<1>8. OneClawPerSlug'
  BY <1>1, <1>2, <1>4 DEF IInv, OneClawPerSlug, SlugTaken, Exists, Deleted
<1> QED
  BY <1>4, <1>5, <1>6, <1>7, <1>8 DEF IInv, JobInv

-----------------------------------------------------------------------------
(* The steps of a reconcile that read and write the record. *)

(* A record that only its own reconcile writes. *)
LEMMA RecordFrame ==
  ASSUME IInv, TypeOK', NEW c \in Claws, Exists(c), NEW claw \in Claw, claw.slug = claws[c].slug,
         Deleted(c) => claw.observed.phase = "deleted",
         claws' = [claws EXCEPT ![c] = claw],
         UNCHANGED <<workspaces, turns, routed>>,
         \A d \in Claws : d # c => jobs'[d] = jobs[d] /\ elapsed'[d] = elapsed[d],
         RecordOK(claw), Promises(c, claw),
         elapsed'[c] => claw.observed.drained /\ ~routed[c],
         JobInv(c)'
  PROVE  IInv'
<1>1. /\ claws'[c] = claw /\ Exists(c)'
      /\ \A d \in Claws : d # c => claws'[d] = claws[d] /\ jobs'[d] = jobs[d]
      /\ ~Deleted(c)' => ~Deleted(c)
  BY NoneAssumption DEF IInv, TypeOK, Exists, Deleted
<1>2. ClawInv(c)'
  BY <1>1 DEF ClawInv, Promises, QuietPromise, GonePromise, ConfigPromise, Holds
<1>3. ASSUME NEW d \in Claws, d # c
      PROVE  ClawInv(d)' /\ JobInv(d)'
  <2>1. claws'[d] = claws[d] /\ jobs'[d] = jobs[d] /\ elapsed'[d] = elapsed[d]
    BY <1>1, <1>3
  <2>2. ClawInv(d)'
    BY <2>1 DEF IInv, ClawInv, Exists, Promises, QuietPromise, GonePromise, ConfigPromise, Holds
  <2>3. JobInv(d)'
    BY <2>1 DEF IInv, JobInv, FreshInv, StaleInv, Recordable, Exists, Deleted, Promises,
       QuietPromise, GonePromise, ConfigPromise, Holds
  <2> QED
    BY <2>2, <2>3
<1>4. ASSUME NEW s \in Slugs
      PROVE  WorkspaceInv(s)'
  <2>1. Deleted(c)' => ~Holds(c, claw.slug)
    BY <1>1 DEF Deleted, Promises, GonePromise
  <2> QED
    BY <1>1, <2>1 DEF IInv, WorkspaceInv, Holds, Exists, Deleted
<1>5. OneClawPerSlug'
  BY <1>1 DEF IInv, OneClawPerSlug, Exists, Deleted
<1> QED
  BY <1>2, <1>3, <1>4, <1>5 DEF IInv

(* A reconcile begins with the current record. *)
LEMMA BeginKeeps ==
  ASSUME IInv, TypeOK', NEW c \in Claws, Begin(c)
  PROVE  IInv'
<1>1. /\ Exists(c) /\ ~Deleted(c) /\ UNCHANGED <<claws, workspaces, turns, routed, elapsed>>
      /\ claws[c] \in Claw /\ RecordOK(claws[c]) /\ Promises(c, claws[c])
  BY DEF Begin, requestVars, IInv, TypeOK, ClawInv, Exists
<1>2. /\ \A d \in Claws : d # c => jobs'[d] = jobs[d]
      /\ jobs'[c].snap = claws[c] /\ jobs'[c].fresh
      /\ jobs'[c].step = "announce" => Provisions(claws[c])
      /\ jobs'[c].step # "write"
  BY DEF Begin, IInv, TypeOK
<1>3. JobInv(c)'
  BY <1>1, <1>2 DEF JobInv, FreshInv, Exists, Deleted, Provisions
<1>4. claws' = [claws EXCEPT ![c] = claws[c]]
  BY <1>1 DEF IInv, TypeOK
<1>5. elapsed'[c] => claws[c].observed.drained /\ ~routed[c]
  BY <1>1 DEF IInv, ClawInv
<1> QED
  BY <1>1, <1>2, <1>3, <1>4, <1>5, RecordFrame DEF Deleted

(* It announces the provisioning of a claw that has not changed since. *)
LEMMA AnnounceKeeps ==
  ASSUME IInv, TypeOK', NEW c \in Claws, Announce(c)
  PROVE  IInv'
<1> DEFINE snap == jobs[c].snap
           observed == [snap.observed EXCEPT !.phase = "provisioning"]
           claw == Written(snap, observed)
<1>1. /\ jobs[c] \in Job /\ jobs[c] # None /\ snap \in Claw /\ Exists(c) /\ ~Deleted(c)
      /\ UNCHANGED <<workspaces, turns, routed, elapsed>> /\ claws[c] \in Claw
      /\ RecordOK(claws[c]) /\ Promises(c, claws[c])
      /\ \A d \in Claws : d # c => jobs'[d] = jobs[d]
  BY JobTypes DEF Announce, requestVars, IInv, TypeOK, JobInv, ClawInv, Exists
<1>2. CASE jobs[c].fresh
  <2>1. snap = claws[c] /\ Provisions(snap)
    BY <1>1, <1>2 DEF IInv, JobInv, FreshInv, Announce
  <2>2. /\ claw \in Claw /\ claw.slug = snap.slug /\ claw.desired = snap.desired
        /\ claw.observed.phase = "provisioning" /\ claw.observed.stage = "none"
        /\ claw.observed.generation = snap.observed.generation
        /\ claw.observed.lifecycle = snap.observed.lifecycle
        /\ claw.observed.drained = snap.observed.drained
    BY <1>1, <2>1 DEF Written, Claw, Observed, Phase, Provisions
  <2>3. claws' = [claws EXCEPT ![c] = claw]
    BY <1>2, <2>1 DEF Announce, WriteObserved, Written
  <2>4. jobs'[c] = [jobs[c] EXCEPT !.step = "call", !.snap.observed = observed]
    BY <1>2 DEF Announce, IInv, TypeOK
  <2>5. jobs'[c].step = "call" /\ jobs'[c].fresh /\ jobs'[c].snap = claw
    BY <1>1, <1>2, <2>4 DEF Job, Written
  <2> HIDE DEF claw, observed, snap
  <2>6. RecordOK(claw)
    BY <1>1, <2>1, <2>2 DEF RecordOK, Provisions
  <2>7. Promises(c, claw)
    BY <1>1, <2>1, <2>2 DEF Promises, QuietPromise, GonePromise, ConfigPromise, childPolicyHash
  <2>8. claws'[c] = claw /\ JobInv(c)'
    BY <1>1, <2>2, <2>3, <2>5, NoneAssumption DEF JobInv, FreshInv, Exists, Deleted, IInv, TypeOK
  <2>9. elapsed'[c] => claw.observed.drained /\ ~routed[c]
    BY <1>1, <2>1, <2>2 DEF IInv, ClawInv
  <2> QED
    BY <1>1, <2>1, <2>2, <2>3, <2>6, <2>7, <2>8, <2>9, RecordFrame
<1>3. CASE ~jobs[c].fresh
  <2>1. claws' = [claws EXCEPT ![c] = claws[c]]
    BY <1>1, <1>3 DEF Announce, WriteObserved, Claw
  <2>2. JobInv(c)'
    BY <1>3 DEF JobInv, Announce, IInv, TypeOK
  <2>3. elapsed'[c] => claws[c].observed.drained /\ ~routed[c]
    BY <1>1 DEF IInv, ClawInv
  <2> QED
    BY <1>1, <2>1, <2>2, <2>3, RecordFrame
<1> QED
  BY <1>2, <1>3

(* It writes what it observed, or nothing. *)
LEMMA WriteKeeps ==
  ASSUME IInv, TypeOK', NEW c \in Claws, Write(c)
  PROVE  IInv'
<1> DEFINE snap == jobs[c].snap
           observed == jobs[c].result
           claw == Written(snap, observed)
<1>1. /\ jobs[c] \in Job /\ jobs[c] # None /\ snap \in Claw /\ Exists(c) /\ ~Deleted(c)
      /\ observed \in Observed /\ claw \in Claw
      /\ UNCHANGED <<workspaces, turns, routed>> /\ claws[c] \in Claw
      /\ RecordOK(claws[c]) /\ Promises(c, claws[c])
      /\ \A d \in Claws : d # c => jobs'[d] = jobs[d] /\ elapsed'[d] = elapsed[d]
      /\ elapsed'[c] => elapsed[c] /\ observed.drained
      /\ JobInv(c)'
  BY JobTypes DEF Write, coordinatorVars, IInv, TypeOK, JobInv, ClawInv, Exists
<1>2. elapsed[c] => claws[c].observed.drained /\ ~routed[c]
  BY DEF IInv, ClawInv
<1>3. CASE jobs[c].fresh
  <2>1. snap = claws[c] /\ RecordOK(claw) /\ Promises(c, claw)
    BY <1>1, <1>3 DEF IInv, JobInv, FreshInv, Write, Recordable
  <2>2. claw.slug = snap.slug /\ claw.observed = observed
    BY <1>1 DEF Written, Claw
  <2>3. claws' = [claws EXCEPT ![c] = claw]
    BY <1>3, <2>1 DEF Write, WriteObserved, Written
  <2> HIDE DEF claw, observed, snap
  <2> QED
    BY <1>1, <1>2, <2>1, <2>2, <2>3, RecordFrame
<1>4. CASE ~jobs[c].fresh
  <2>1. claws' = [claws EXCEPT ![c] = claws[c]]
    BY <1>1, <1>4 DEF Write, WriteObserved, Claw
  <2> QED
    BY <1>1, <1>2, <2>1, RecordFrame
<1> QED
  BY <1>3, <1>4

-----------------------------------------------------------------------------
(* Turns, the quiet period, and crashes. *)

(* A turn can only be routed to a claw that promises no quiet, and no      *)
(* reconcile is about to promise it.                                       *)
LEMMA NoQuietWhileServing ==
  ASSUME IInv, NEW c \in Claws, Exists(c), claws[c].desired.enabled
  PROVE  /\ claws[c].observed.stage = "none" /\ ~elapsed[c]
         /\ jobs[c] # None /\ jobs[c].fresh /\ jobs[c].step = "write" =>
              Written(jobs[c].snap, jobs[c].result).observed.stage = "none"
<1>1. RecordOK(claws[c]) /\ claws[c].observed.stage = "none" /\ ~elapsed[c]
  BY DEF IInv, ClawInv, RecordOK
<1>2. ASSUME jobs[c] # None, jobs[c].fresh, jobs[c].step = "write"
      PROVE  Written(jobs[c].snap, jobs[c].result).observed.stage = "none"
  <2>1. jobs[c].snap = claws[c] /\ RecordOK(Written(jobs[c].snap, jobs[c].result))
    BY <1>2 DEF IInv, JobInv, FreshInv, Recordable
  <2>2. Written(jobs[c].snap, jobs[c].result).desired = jobs[c].snap.desired
    BY <1>2, JobTypes DEF Written, Claw, IInv
  <2> QED
    BY <2>1, <2>2 DEF RecordOK
<1> QED
  BY <1>1, <1>2

(* What a step that leaves records and workspaces alone must not disturb. *)
LEMMA TurnFrame ==
  ASSUME IInv, TypeOK', UNCHANGED <<claws, workspaces>>,
         \A d \in Claws :
           /\ UNCHANGED jobs[d] \/ jobs'[d] = None
           /\ elapsed'[d] => Exists(d) /\ claws[d].observed.drained /\ ~routed'[d]
           /\ Exists(d) => \A claw \in Claw :
                /\ \/ claw = claws[d]
                   \/ /\ jobs[d] # None /\ jobs[d].fresh /\ jobs[d].step = "write"
                      /\ claw = Written(jobs[d].snap, jobs[d].result)
                /\ QuietPromise(d, claw)
                => QuietPromise(d, claw)'
  PROVE  IInv'
<1>1. ASSUME NEW d \in Claws
      PROVE  ClawInv(d)'
  <2>1. Exists(d) => claws[d] \in Claw
    BY DEF IInv, TypeOK, Exists
  <2>2. Exists(d) => Promises(d, claws[d])'
    <3>1. Exists(d) => QuietPromise(d, claws[d])'
      <4>1. ASSUME NEW claw \in Claw, claw = claws[d], Exists(d)
            PROVE  QuietPromise(d, claw)'
        BY <4>1 DEF IInv, ClawInv, Promises
      <4>2. ASSUME NEW claw \in Claw, claw = claws[d], Exists(d)
            PROVE  QuietPromise(d, claws[d])'
        BY <4>1, <4>2 DEF QuietPromise
      <4> QED
        BY <2>1, <4>2
    <3> QED
      BY <3>1 DEF IInv, ClawInv, Promises, GonePromise, ConfigPromise, Holds
  <2> QED
    BY <2>2 DEF IInv, ClawInv, Exists
<1>2. ASSUME NEW d \in Claws
      PROVE  JobInv(d)'
  <2>1. CASE jobs'[d] = None
    BY <2>1 DEF JobInv
  <2>2. CASE jobs[d] # None /\ UNCHANGED jobs[d]
    <3>1. Exists(d) /\ ~Deleted(d)
      BY <2>2 DEF IInv, JobInv
    <3>2. jobs[d].fresh /\ jobs[d].step = "write" => Recordable(d, jobs[d].snap, jobs[d].result)'
      <4>0. SUFFICES ASSUME jobs[d].fresh, jobs[d].step = "write"
                     PROVE  Recordable(d, jobs[d].snap, jobs[d].result)'
        OBVIOUS
      <4>1. PICK claw \in Claw : claw = Written(jobs[d].snap, jobs[d].result)
        BY <2>2, JobTypes DEF IInv
      <4>2. Recordable(d, jobs[d].snap, jobs[d].result)
        BY <2>2, <4>0 DEF IInv, JobInv, FreshInv
      <4>3. QuietPromise(d, claw)'
        BY <2>2, <3>1, <4>0, <4>1, <4>2 DEF Recordable, Promises
      <4>4. Promises(d, claw)'
        BY <4>1, <4>2, <4>3 DEF Recordable, Promises, GonePromise, ConfigPromise, Holds
      <4>5. Written(jobs[d].snap, jobs[d].result)' = claw
        BY <2>2, <4>1 DEF Written
      <4> QED
        BY <2>2, <4>1, <4>2, <4>4, <4>5
           DEF Recordable, Promises, QuietPromise, GonePromise, ConfigPromise, Holds
    <3> QED
      BY <2>2, <3>1, <3>2 DEF IInv, JobInv, FreshInv, StaleInv, Exists, Deleted
  <2> QED
    BY <2>1, <2>2
<1>3. (\A s \in Slugs : WorkspaceInv(s)') /\ OneClawPerSlug'
  BY DEF IInv, WorkspaceInv, OneClawPerSlug, Exists, Deleted
<1> QED
  BY <1>1, <1>2, <1>3 DEF IInv

(* A turn is routed only to a claw that is served, so none breaks a quiet period. *)
LEMMA TurnsKeep ==
  ASSUME IInv, TypeOK', NEW c \in Claws,
         PrepareForRemoval(c) \/ RouteTurn(c) \/ EnqueueTurn(c) \/ TurnSettles(c)
           \/ QuietPeriodEnds(c)
  PROVE  IInv'
<1>1. UNCHANGED <<claws, workspaces, jobs>>
  BY DEF PrepareForRemoval, RouteTurn, EnqueueTurn, TurnSettles, QuietPeriodEnds
<1>2. ASSUME NEW d \in Claws
      PROVE  elapsed[d] => Exists(d) /\ claws[d].observed.drained /\ ~routed[d]
  BY DEF IInv, ClawInv
<1>3. CASE PrepareForRemoval(c)
  <2>1. \A d \in Claws : turns'[d] = 0 \/ UNCHANGED turns[d]
    BY <1>3 DEF PrepareForRemoval, IInv, TypeOK
  <2>2. UNCHANGED <<routed, elapsed>>
    BY <1>3 DEF PrepareForRemoval
  <2> QED
    BY <1>1, <1>2, <2>1, <2>2, TurnFrame DEF QuietPromise
<1>4. CASE RouteTurn(c)
  <2>1. /\ Exists(c) /\ claws[c].desired.enabled /\ UNCHANGED <<turns, elapsed>>
        /\ \A d \in Claws : d # c => UNCHANGED routed[d]
    BY <1>4 DEF RouteTurn, Routable, IInv, TypeOK
  <2>2. /\ claws[c].observed.stage = "none" /\ ~elapsed[c]
        /\ jobs[c] # None /\ jobs[c].fresh /\ jobs[c].step = "write" =>
             Written(jobs[c].snap, jobs[c].result).observed.stage = "none"
    BY <2>1, NoQuietWhileServing
  <2> QED
    BY <1>1, <1>2, <2>1, <2>2, TurnFrame DEF QuietPromise
<1>5. CASE EnqueueTurn(c)
  <2>1. /\ routed[c] /\ UNCHANGED elapsed /\ ~routed'[c]
        /\ \A d \in Claws : d # c => UNCHANGED <<routed[d], turns[d]>>
    BY <1>5 DEF EnqueueTurn, IInv, TypeOK
  <2> QED
    BY <1>1, <1>2, <2>1, TurnFrame DEF QuietPromise
<1>6. CASE TurnSettles(c)
  <2>1. /\ turns[c] # 0 /\ UNCHANGED <<routed, elapsed>>
        /\ \A d \in Claws : d # c => UNCHANGED turns[d]
    BY <1>6 DEF TurnSettles, IInv, TypeOK
  <2> QED
    BY <1>1, <1>2, <2>1, TurnFrame DEF QuietPromise
<1>7. CASE QuietPeriodEnds(c)
  <2>1. /\ UNCHANGED <<turns, routed>> /\ Exists(c) /\ claws[c].observed.drained /\ ~routed[c]
        /\ \A d \in Claws : d # c => UNCHANGED elapsed[d]
    BY <1>7 DEF QuietPeriodEnds, IInv, TypeOK
  <2> QED
    BY <1>1, <1>2, <2>1, TurnFrame DEF QuietPromise
<1> QED
  BY <1>3, <1>4, <1>5, <1>6, <1>7

(* A crash drops every reconcile and every request. *)
LEMMA CrashKeeps ==
  ASSUME IInv, TypeOK', Crash
  PROVE  IInv'
<1>1. /\ UNCHANGED <<claws, workspaces, turns, elapsed>>
      /\ \A d \in Claws : jobs'[d] = None /\ ~routed'[d]
  BY DEF Crash
<1>2. \A d \in Claws : elapsed[d] => Exists(d) /\ claws[d].observed.drained
  BY DEF IInv, ClawInv
<1> QED
  BY <1>1, <1>2, TurnFrame DEF QuietPromise

-----------------------------------------------------------------------------
(* The theorems. *)

(* There is no claw and no workspace at first. *)
LEMMA InitIInv ==
  ASSUME Init
  PROVE  IInv
<1>1. TypeOK
  BY ConstantsAssumption DEF Init, TypeOK, Workspace, NoWorkspace
<1> QED
  BY <1>1 DEF Init, IInv, ClawInv, JobInv, WorkspaceInv, OneClawPerSlug, Exists, NoWorkspace

(* Every step keeps the invariant. *)
LEMMA StepIInv ==
  ASSUME IInv, [Next]_vars
  PROVE  IInv'
<1>1. ASSUME Next
      PROVE  TypeOK'
  BY <1>1, TypeStep DEF IInv, JobInv
<1>2. ASSUME NEW c \in Claws, Reconcile(c), TypeOK'
      PROVE  IInv'
  BY <1>2, BeginKeeps, AnnounceKeeps, CallFailsKeeps, WriteKeeps, RemovalDisablesKeeps,
     RemovalDrainsKeeps, RemovalReleasesKeeps, RemovalRevokesKeeps, ServingAnswersKeep, ProvisionKeeps,
     InspectReadyKeeps DEF Reconcile
<1>3. CASE Next
  BY <1>1, <1>2, <1>3, CreateKeeps, RegistryKeeps, TurnsKeep, ServiceKeeps, CrashKeeps DEF Next
<1>4. CASE UNCHANGED vars
  BY <1>4 DEF vars, budgets, IInv, TypeOK, ClawInv, JobInv, FreshInv, StaleInv, Recordable,
     WorkspaceInv, OneClawPerSlug, Exists, Deleted, Promises, QuietPromise, GonePromise,
     ConfigPromise, Holds
<1> QED
  BY <1>3, <1>4

(* The invariant holds of every state the fleet reaches. *)
THEOREM FleetInvariant == Spec => []IInv
<1> QED
  BY InitIInv, StepIInv, PTL DEF Spec

(* Records, reconciles and workspaces stay within their types: a reconcile *)
(* in flight always has a record to write to.                              *)
THEOREM FleetTypeCorrect == Spec => []TypeOK
<1>1. IInv => TypeOK
  BY DEF IInv
<1> QED
  BY <1>1, FleetInvariant, PTL

(* No workspace outlives its claw, however many claws share its name. *)
THEOREM WorkspacesAreOwned == Spec => []WorkspaceOwned
<1>1. IInv => WorkspaceOwned
  BY DEF IInv, WorkspaceInv, WorkspaceOwned
<1> QED
  BY <1>1, FleetInvariant, PTL

(* A workspace is released only when no turn of its claw is left. *)
THEOREM ReleasesSpareTurns == Spec => []ReleaseSparesTurns
<1>1. IInv => ReleaseSparesTurns
  BY DEF IInv, ClawInv, Promises, QuietPromise, ReleaseSparesTurns
<1> QED
  BY <1>1, FleetInvariant, PTL

(* A claw that counts as converged runs the desired configuration. *)
THEOREM GenerationsAreHonest == Spec => []HonestGeneration
<1>1. IInv => HonestGeneration
  BY DEF IInv, ClawInv, Promises, ConfigPromise, Holds, HonestGeneration
<1> QED
  BY <1>1, FleetInvariant, PTL

(* The rank of a record depends on what was observed of it. *)
LEMMA RankIsObserved ==
  ASSUME NEW claw \in Claw, NEW other \in Claw
  PROVE  /\ Rank(claw) \in 1..7
         /\ claw.observed = other.observed => Rank(claw) = Rank(other)
  BY RankOf DEF Claw, Observed, Stage

(* Who writes the record of a claw: the registry, and its own reconcile. *)
LEMMA RecordWriters ==
  ASSUME IInv, [Next]_vars, NEW c \in Claws
  PROVE  \/ claws'[c] = claws[c]
         \/ Create(c) \/ Update(c) \/ SetEnabled(c) \/ RotateCredentials(c)
         \/ RequestRemoval(c) \/ Announce(c) \/ Write(c)
<1>1. ASSUME NEW d \in Claws, d # c,
              \/ Create(d) \/ Update(d) \/ SetEnabled(d) \/ RotateCredentials(d)
              \/ RequestRemoval(d) \/ Announce(d) \/ Write(d)
       PROVE  claws'[c] = claws[c]
  <2>1. \A x : claws' = [claws EXCEPT ![d] = x] => claws'[c] = claws[c]
    BY <1>1 DEF IInv, TypeOK
  <2>2. UNCHANGED claws \/ \E x : claws' = [claws EXCEPT ![d] = x]
    <3>1. CASE Announce(d) \/ Write(d)
      BY <3>1 DEF Announce, Write, WriteObserved
    <3>2. CASE Create(d) \/ Update(d) \/ SetEnabled(d) \/ RotateCredentials(d) \/ RequestRemoval(d)
      BY <3>2 DEF Create, Update, SetEnabled, RotateCredentials, RequestRemoval, Change, Commit
    <3> QED
      BY <1>1, <3>1, <3>2
  <2> QED
    BY <2>1, <2>2
<1>2. ASSUME NEW d \in Claws,
              \/ PrepareForRemoval(d) \/ Begin(d) \/ RemovalDisables(d) \/ RemovalDrains(d)
              \/ RemovalReleases(d) \/ RemovalRevokes(d) \/ Disables(d) \/ Provision(d)
              \/ InspectAbsent(d) \/ InspectNotReady(d) \/ InspectReady(d) \/ CallFails(d)
              \/ RouteTurn(d) \/ EnqueueTurn(d) \/ TurnSettles(d) \/ QuietPeriodEnds(d)
       PROVE  claws' = claws
  BY <1>2 DEF PrepareForRemoval, Begin, RemovalDisables, RemovalDrains, RemovalReleases,
     RemovalRevokes, Disables, Provision, Provisioned, InspectAbsent, InspectNotReady, InspectReady, Inspected, CallFails,
     RouteTurn, EnqueueTurn, TurnSettles, QuietPeriodEnds
<1>3. CASE Crash \/ \E s \in Slugs : WorkspaceBoots(s) \/ WorkspaceStops(s) \/ WorkspaceLost(s)
  BY <1>3 DEF Crash, WorkspaceBoots, WorkspaceStops, WorkspaceLost
<1>4. CASE UNCHANGED vars
  BY <1>4 DEF vars
<1> QED
  BY <1>1, <1>2, <1>3, <1>4 DEF Next, Reconcile

(* No step lowers the rank of a record. *)
LEMMA RankAdvances ==
  ASSUME IInv, [Next]_vars, NEW c \in Claws
  PROVE  Rank(claws[c]) <= Rank(claws'[c])
<1>1. /\ claws[c] \in Claw \cup {None} /\ claws'[c] \in Claw \cup {None} /\ Rank(None) = 0
  BY StepIInv DEF IInv, TypeOK, Rank
<1>2. CASE claws'[c] = claws[c]
  BY <1>1, <1>2, RankIsObserved
<1>3. CASE claws[c] = None
  BY <1>1, <1>3, RankIsObserved
<1>4. ASSUME Exists(c), NEW desired \in Desired, claws'[c] = NextDesired(c, desired)
      PROVE  Rank(claws[c]) <= Rank(claws'[c])
  <2>1. claws[c] \in Claw /\ claws'[c] \in Claw
    BY <1>1, <1>4, NoneAssumption DEF Exists, NextDesired, Claw, Desired
  <2>2. claws'[c].observed = claws[c].observed
    BY <1>4, <2>1 DEF NextDesired, Claw
  <2> QED
    BY <2>1, <2>2, RankIsObserved
<1>5. CASE Update(c) \/ SetEnabled(c) \/ RotateCredentials(c)
  <2>1. Exists(c) /\ claws[c].desired \in Desired
    BY <1>1, <1>5 DEF Update, SetEnabled, RotateCredentials, Mutable, Exists, Claw
  <2>2. CASE Update(c)
    <3>1. PICK p \in Policies : claws'[c] = Updated(c, p)
      BY <2>2 DEF Update, Change, Commit, IInv, TypeOK
    <3>2. [claws[c].desired EXCEPT !.policy = p] \in Desired
      BY <2>1 DEF Desired
    <3> QED
      BY <1>4, <2>1, <3>1, <3>2 DEF Updated
  <2>3. CASE SetEnabled(c)
    <3> DEFINE enabled == ~claws[c].desired.enabled
    <3>1. enabled \in BOOLEAN
      BY Zenon
    <3>2. claws'[c] = setClawEnabled(c, enabled)
      BY <2>3 DEF SetEnabled, Change, Commit, IInv, TypeOK
    <3> HIDE DEF enabled
    <3>3. [claws[c].desired EXCEPT !.enabled = enabled] \in Desired
      BY <2>1, <3>1 DEF Desired
    <3> QED
      BY <1>4, <2>1, <3>2, <3>3 DEF setClawEnabled
  <2>4. CASE RotateCredentials(c)
    <3>1. claws'[c] = NextDesired(c, [claws[c].desired EXCEPT !.credentials = @ + 1])
      BY <2>4 DEF RotateCredentials, Change, Commit, IInv, TypeOK
    <3>2. [claws[c].desired EXCEPT !.credentials = @ + 1] \in Desired
      BY <2>1 DEF Desired
    <3> QED
      BY <1>4, <2>1, <3>1, <3>2
  <2> QED
    BY <1>5, <2>2, <2>3, <2>4
<1>6. CASE RequestRemoval(c)
  <2>1. SUFFICES ASSUME claws'[c] = RemovalRequested(c), Exists(c), ~Deleted(c),
                        claws[c].observed.stage = "none"
                 PROVE  Rank(claws[c]) <= Rank(claws'[c])
    BY <1>2, <1>6 DEF RequestRemoval, Change, Commit, IInv, TypeOK
  <2>2. Rank(claws[c]) = 1
    BY <1>1, <2>1, RankOf DEF Exists, Deleted
  <2>3. claws'[c] \in Claw
    BY <2>1, DesiredTypes DEF IInv
  <2> QED
    BY <2>2, <2>3, RankIsObserved
<1>7. CASE Announce(c) /\ jobs[c].fresh
  <2> DEFINE snap == jobs[c].snap
             observed == [snap.observed EXCEPT !.phase = "provisioning"]
  <2>1. snap \in Claw /\ snap = claws[c] /\ snap.observed.stage = "none" /\ ~Deleted(c)
        /\ Exists(c)
    BY <1>7, JobTypes DEF Announce, IInv, JobInv, FreshInv, Provisions
  <2>2. claws'[c] = [claws[c] EXCEPT !.observed = observed]
    BY <1>7 DEF Announce, WriteObserved, IInv, TypeOK
  <2>3. claws'[c].observed.stage = "none" /\ claws'[c] \in Claw
    BY <2>1, <2>2 DEF Claw, Observed, Phase
  <2>4. Rank(claws[c]) = 1
    BY <2>1, RankOf DEF Exists, Deleted
  <2> QED
    BY <2>3, <2>4, RankIsObserved
<1>8. CASE Write(c) /\ jobs[c].fresh
  <2>1. jobs[c].snap = claws[c] /\ Recordable(c, jobs[c].snap, jobs[c].result)
    BY <1>8 DEF Write, IInv, JobInv, FreshInv
  <2>2. claws'[c] = Written(claws[c], jobs[c].result)
    BY <1>8 DEF Write, WriteObserved, Written, IInv, TypeOK
  <2> QED
    BY <2>1, <2>2 DEF Recordable
<1>9. CASE (Announce(c) \/ Write(c)) /\ ~jobs[c].fresh
  <2>1. claws[c] \in Claw
    BY <1>1, <1>9 DEF Announce, Write, IInv, JobInv, Exists
  <2>2. claws'[c] = claws[c]
    BY <1>9, <2>1 DEF Announce, Write, WriteObserved, IInv, TypeOK, Claw
  <2> QED
    BY <1>2, <2>2
<1>10. CASE Create(c)
  BY <1>3, <1>10 DEF Create, Exists
<1> QED
  BY <1>2, <1>5, <1>6, <1>7, <1>8, <1>9, <1>10, RecordWriters

(* A removal never goes back, whatever a reconcile observed before it. *)
THEOREM RemovalsAdvance == Spec => RemovalAdvances
<1>1. IInv /\ [Next]_vars => [\A c \in Claws : Rank(claws[c]) <= Rank(claws'[c])]_vars
  BY RankAdvances
<1> QED
  BY <1>1, FleetInvariant, PTL DEF Spec, RemovalAdvances

-----------------------------------------------------------------------------
(* The rollout of a policy (PolicyRollout).  A target that others edited    *)
(* is past the generation that was previewed; an undisturbed canary is as   *)
(* the rollout left it, and so is what its reconcile goes by.               *)

(* What a reconcile is about to record as served or disabled counts as     *)
(* converged.                                                              *)
HonestAnswer(job) ==
  job.step = "write" /\ job.result.phase \in {"ready", "disabled"}
    => job.result.generation = job.snap.desired.generation

RolloutTypeOK ==
  /\ rollout.step \in {"idle", "previewed", "waiting", "reconciling", "passed"}
  /\ rollout.step # "idle" =>
       /\ rollout \in [step: {"previewed", "waiting", "reconciling", "passed"},
                       policy: Policies, canary: Claws, rest: SUBSET Claws,
                       expected: [Claws -> Nat], applied: Nat]
       /\ rollout.canary \notin rollout.rest

TargetInv(c) ==
  /\ Exists(c)
  /\ claws[c].desired.generation >= rollout.expected[c]
  /\ c \in edited => claws[c].desired.generation > rollout.expected[c]

CanaryInv ==
  rollout.canary \notin edited =>
    /\ claws[rollout.canary].desired.generation = rollout.applied
    /\ rollout.step = "reconciling" =>
         /\ jobs[rollout.canary] # None /\ jobs[rollout.canary].fresh
         /\ HonestAnswer(jobs[rollout.canary])

RolloutInv ==
  /\ RolloutTypeOK
  /\ rollout.step # "idle" => \A c \in Targets : TargetInv(c)
  /\ rollout.step \in {"waiting", "reconciling"} => CanaryInv

(* The registry operations give a claw a new generation of its desired     *)
(* state, or leave the claw as it is.                                      *)
LEMMA RegistryDesires ==
  ASSUME IInv, NEW c \in Claws,
         Update(c) \/ SetEnabled(c) \/ RotateCredentials(c) \/ RequestRemoval(c)
  PROVE  \/ claws'[c] = claws[c] /\ jobs'[c] = jobs[c]
         \/ /\ claws'[c] \in Claw
            /\ claws'[c].desired.generation = claws[c].desired.generation + 1
<1>1. /\ Exists(c) /\ claws[c] \in Claw /\ claws[c].desired \in Desired
  BY DEF Update, SetEnabled, RotateCredentials, RequestRemoval, Mutable, IInv, TypeOK, Exists, Claw
<1>2. ASSUME NEW desired \in Desired, desired.generation = claws[c].desired.generation
      PROVE  /\ NextDesired(c, desired) \in Claw
             /\ NextDesired(c, desired).desired.generation = claws[c].desired.generation + 1
  BY <1>1, <1>2 DEF NextDesired, Claw, Desired
<1>3. CASE Update(c)
  <2>1. PICK p \in Policies : claws'[c] = Updated(c, p)
    BY <1>3 DEF Update, Change, Commit, IInv, TypeOK
  <2>2. /\ [claws[c].desired EXCEPT !.policy = p] \in Desired
        /\ [claws[c].desired EXCEPT !.policy = p].generation = claws[c].desired.generation
    BY <1>1 DEF Desired
  <2> QED
    BY <1>2, <2>1, <2>2 DEF Updated
<1>4. CASE SetEnabled(c)
  <2> DEFINE enabled == ~claws[c].desired.enabled
  <2>1. enabled \in BOOLEAN
    BY Zenon
  <2>2. claws'[c] = setClawEnabled(c, enabled)
    BY <1>4 DEF SetEnabled, Change, Commit, IInv, TypeOK
  <2> HIDE DEF enabled
  <2>3. /\ [claws[c].desired EXCEPT !.enabled = enabled] \in Desired
        /\ [claws[c].desired EXCEPT !.enabled = enabled].generation = claws[c].desired.generation
    BY <1>1, <2>1 DEF Desired
  <2> QED
    BY <1>2, <2>2, <2>3 DEF setClawEnabled
<1>5. CASE RotateCredentials(c)
  <2>1. claws'[c] = NextDesired(c, [claws[c].desired EXCEPT !.credentials = @ + 1])
    BY <1>5 DEF RotateCredentials, Change, Commit, IInv, TypeOK
  <2>2. /\ [claws[c].desired EXCEPT !.credentials = @ + 1] \in Desired
        /\ [claws[c].desired EXCEPT !.credentials = @ + 1].generation = claws[c].desired.generation
    BY <1>1 DEF Desired
  <2> QED
    BY <1>2, <2>1, <2>2
<1>6. CASE RequestRemoval(c)
  <2>1. SUFFICES ASSUME claws'[c] = RemovalRequested(c)
                 PROVE  /\ claws'[c] \in Claw
                        /\ claws'[c].desired.generation = claws[c].desired.generation + 1
    BY <1>6 DEF RequestRemoval, Change, Commit, IInv, TypeOK
  <2>2. /\ [claws[c].desired EXCEPT !.enabled = FALSE] \in Desired
        /\ [claws[c].desired EXCEPT !.enabled = FALSE].generation = claws[c].desired.generation
    BY <1>1 DEF Desired
  <2>3. PICK next \in Claw :
          /\ next = NextDesired(c, [claws[c].desired EXCEPT !.enabled = FALSE])
          /\ next.desired.generation = claws[c].desired.generation + 1
    BY <1>2, <2>2
  <2>4. claws'[c] = [next EXCEPT !.observed.phase = "deleting", !.observed.stage = "disable",
                                 !.observed.drained = FALSE]
    BY <2>1, <2>3 DEF RemovalRequested
  <2>5. claws'[c] \in Claw
    BY <1>1, <2>1, DesiredTypes DEF IInv
  <2> QED
    BY <2>3, <2>4, <2>5 DEF Claw
<1> QED
  BY <1>3, <1>4, <1>5, <1>6

(* A desired state stays as it is or gets the next generation. *)
LEMMA DesiredAdvances ==
  ASSUME IInv, [Next]_vars, NEW c \in Claws, Exists(c)
  PROVE  /\ Exists(c)'
         /\ \/ claws'[c].desired = claws[c].desired
            \/ claws'[c].desired.generation = claws[c].desired.generation + 1
<1>1. claws[c] \in Claw
  BY DEF IInv, TypeOK, Exists
<1>2. CASE Update(c) \/ SetEnabled(c) \/ RotateCredentials(c) \/ RequestRemoval(c)
  BY <1>2, RegistryDesires, NoneAssumption DEF Exists
<1>3. CASE Announce(c) \/ Write(c)
  <2>1. claws[c].observed \in Observed
    BY <1>1 DEF Claw
  <2>2. PICK observed \in Observed : claws'[c] = [claws[c] EXCEPT !.observed = observed]
    <3>1. CASE Announce(c)
      <4>1. jobs[c].snap \in Claw
        BY <3>1, JobTypes DEF Announce, IInv
      <4>2. [jobs[c].snap.observed EXCEPT !.phase = "provisioning"] \in Observed
        BY <4>1 DEF Claw, Observed, Phase
      <4> QED
        BY <2>1, <3>1, <4>2 DEF Announce, WriteObserved, IInv, TypeOK
    <3>2. CASE Write(c)
      BY <2>1, <3>2, JobTypes DEF Write, WriteObserved, IInv, TypeOK
    <3> QED
      BY <1>3, <3>1, <3>2
  <2> QED
    BY <1>1, <2>2, NoneAssumption DEF Claw, Exists
<1>4. CASE Create(c)
  BY <1>4 DEF Create
<1> QED
  BY <1>2, <1>3, <1>4, RecordWriters DEF Exists

(* What the provider's answers say of a claw's phase. *)
LEMMA AnswerPhases ==
  ASSUME NEW claw \in Claw, NEW c \in Claws
  PROVE  /\ Attention(claw).phase = "attention"
         /\ MarkProviderAbsent(claw).phase = "deleting"
         /\ \A stage \in Stage : InStage(claw, stage).phase = "deleting"
         /\ MarkDeleted(claw).phase = "deleted"
         /\ Drained(c, claw).phase = "deleting"
  BY DEF Claw, Observed, Stage, Phase, Attention, MarkProviderAbsent, InStage, MarkDeleted, Drained

(* An answer that is honest leaves the reconcile fresh and honest. *)
LEMMA HonestReply ==
  ASSUME IInv, NEW c \in Claws, jobs[c] # None, jobs[c].fresh, NEW observed \in Observed,
         Reply(c, observed),
         observed.phase \in {"ready", "disabled"} =>
           observed.generation = jobs[c].snap.desired.generation
  PROVE  jobs'[c] # None /\ jobs'[c].fresh /\ HonestAnswer(jobs'[c])
<1>1. jobs[c] \in Job
  BY JobTypes DEF IInv
<1>2. jobs'[c] = [jobs[c] EXCEPT !.step = "write", !.result = observed]
  BY DEF Reply, IInv, TypeOK
<1>3. /\ jobs'[c].step = "write" /\ jobs'[c].result = observed
      /\ jobs'[c].snap = jobs[c].snap /\ jobs'[c].fresh = jobs[c].fresh
  BY <1>1, <1>2 DEF Job
<1>4. jobs'[c] # None
  BY <1>1, <1>2, NoneAssumption DEF Job
<1> QED
  BY <1>3, <1>4 DEF HonestAnswer

(* So does the loss of one. *)
LEMMA HonestReplyOrFail ==
  ASSUME IInv, NEW c \in Claws, jobs[c] # None, jobs[c].fresh, NEW observed \in Observed,
         ReplyOrFail(c, jobs[c].snap, observed),
         observed.phase \in {"ready", "disabled"} =>
           observed.generation = jobs[c].snap.desired.generation
  PROVE  jobs'[c] # None /\ jobs'[c].fresh /\ HonestAnswer(jobs'[c])
<1>1. Attention(jobs[c].snap) \in Observed /\ Attention(jobs[c].snap).phase = "attention"
  BY JobTypes, AnswerPhases, ObservedTypes DEF IInv
<1> QED
  BY <1>1, HonestReply DEF ReplyOrFail

(* Every answer of the provider is honest: what is recorded as ready or    *)
(* disabled has reached the generation of the snapshot.                    *)
LEMMA AnswersHonest ==
  ASSUME IInv, NEW c \in Claws, jobs[c] # None, jobs[c].fresh,
         \/ CallFails(c) \/ RemovalDisables(c) \/ RemovalDrains(c) \/ RemovalReleases(c)
         \/ RemovalRevokes(c) \/ Disables(c) \/ Provision(c) \/ InspectAbsent(c)
         \/ InspectNotReady(c) \/ InspectReady(c)
  PROVE  jobs'[c] # None /\ jobs'[c].fresh /\ HonestAnswer(jobs'[c])
<1> DEFINE snap == jobs[c].snap
           Honest(observed) ==
             /\ observed \in Observed
             /\ observed.phase \in {"ready", "disabled"} =>
                  observed.generation = snap.desired.generation
<1>1. /\ snap \in Claw /\ snap.observed \in Observed /\ snap.desired \in Desired
      /\ Honest(Attention(snap)) /\ Honest(MarkProviderAbsent(snap)) /\ Honest(MarkDeleted(snap))
      /\ Honest(Drained(c, snap)) /\ \A stage \in Stage : Honest(InStage(snap, stage))
  <2>1. snap \in Claw
    BY JobTypes DEF IInv
  <2> QED
    BY <2>1, AnswerPhases, ObservedTypes DEF Claw
<1> HIDE DEF snap
<1>2. ASSUME NEW observed, Honest(observed), Reply(c, observed) \/ ReplyOrFail(c, snap, observed)
      PROVE  jobs'[c] # None /\ jobs'[c].fresh /\ HonestAnswer(jobs'[c])
  BY <1>2, HonestReply, HonestReplyOrFail DEF snap
<1> HIDE DEF Honest
<1>3. CASE CallFails(c)
  BY <1>1, <1>2, <1>3 DEF CallFails, snap
<1>4. CASE RemovalDisables(c)
  <2>1. \/ ReplyOrFail(c, snap, MarkProviderAbsent(snap))
        \/ ReplyOrFail(c, snap, InStage(snap, "drain"))
    BY <1>4 DEF RemovalDisables, snap
  <2> QED
    BY <1>1, <1>2, <2>1 DEF Stage
<1>5. CASE RemovalDrains(c)
  BY <1>1, <1>2, <1>5 DEF RemovalDrains, snap
<1>6. CASE RemovalReleases(c)
  <2>1. \/ ReplyOrFail(c, snap, MarkProviderAbsent(snap))
        \/ ReplyOrFail(c, snap, InStage(snap, "confirm"))
    BY <1>6 DEF RemovalReleases, snap
  <2> QED
    BY <1>1, <1>2, <2>1 DEF Stage
<1>7. CASE RemovalRevokes(c)
  BY <1>1, <1>2, <1>7 DEF RemovalRevokes, snap
<1>8. CASE Disables(c)
  <2>1. Honest([snap.observed EXCEPT !.phase = "disabled", !.generation = snap.desired.generation])
    BY <1>1 DEF Honest, Observed, Phase, Desired
  <2> QED
    BY <1>2, <1>8, <2>1 DEF Disables, snap
<1>9. CASE Provision(c)
  <2>1. Honest(Provisioned(snap))
    BY <1>1 DEF Honest, Provisioned, Observed, Phase
  <2> QED
    BY <1>1, <1>2, <1>9, <2>1 DEF Provision, snap
<1>10. CASE InspectAbsent(c)
  <2>1. Honest([snap.observed EXCEPT !.generation = 0, !.phase = "provisioning", !.lifecycle = FALSE])
    BY <1>1 DEF Honest, Observed, Phase, Desired
  <2> QED
    BY <1>2, <1>10, <2>1 DEF InspectAbsent, snap
<1>11. CASE InspectNotReady(c)
  <2>1. Honest([snap.observed EXCEPT !.generation = 0, !.phase = "enrolling"])
    BY <1>1 DEF Honest, Observed, Phase, Desired
  <2> QED
    BY <1>1, <1>2, <1>11, <2>1 DEF InspectNotReady, snap
<1>12. CASE InspectReady(c)
  <2>1. /\ Honest(Inspected(snap, "ready", TRUE)) /\ Honest(Inspected(snap, "attention", TRUE))
        /\ Honest(Inspected(snap, "enrolling", FALSE))
    BY <1>1 DEF Honest, Inspected, Observed, Phase, Desired
  <2>2. \/ Reply(c, Inspected(snap, "ready", TRUE)) \/ Reply(c, Inspected(snap, "attention", TRUE))
        \/ Reply(c, Inspected(snap, "enrolling", FALSE)) \/ Reply(c, Attention(snap))
    BY <1>12 DEF InspectReady, snap
  <2> QED
    BY <1>1, <1>2, <2>1, <2>2
<1> QED
  BY <1>3, <1>4, <1>5, <1>6, <1>7, <1>8, <1>9, <1>10, <1>11, <1>12

(* A reconcile that is fresh stays so, and honest, until it writes, unless *)
(* the desired state of its claw changes or the process crashes.           *)
LEMMA FreshReconcile ==
  ASSUME IInv, Next, ~Crash, NEW c \in Claws,
         jobs[c] # None, jobs[c].fresh, HonestAnswer(jobs[c])
  PROVE  \/ claws'[c].desired # claws[c].desired /\ jobs'[c] # None
         \/ Write(c)
         \/ jobs'[c] # None /\ jobs'[c].fresh /\ HonestAnswer(jobs'[c])
<1>0. Exists(c) /\ claws[c] \in Claw /\ claws[c].desired.generation \in Nat /\ jobs[c] \in Job
  BY DEF IInv, TypeOK, JobInv, Exists, Claw, Desired
<1>1. CASE jobs'[c] = jobs[c]
  BY <1>1
<1>2. CASE Update(c) \/ SetEnabled(c) \/ RotateCredentials(c) \/ RequestRemoval(c)
  <2>1. CASE claws'[c].desired.generation = claws[c].desired.generation + 1
    <3>1. claws'[c].desired.generation # claws[c].desired.generation
      BY <1>0, <2>1
    <3>2. jobs'[c] = jobs[c] \/ jobs'[c] = [jobs[c] EXCEPT !.fresh = FALSE]
      BY <1>2 DEF Update, SetEnabled, RotateCredentials, RequestRemoval, Change, Commit, IInv, TypeOK
    <3>3. jobs'[c] # None
      BY <1>0, <3>2, NoneAssumption DEF Job
    <3> QED
      BY <3>1, <3>3
  <2> QED
    BY <1>1, <1>2, <2>1, RegistryDesires
<1>3. CASE Announce(c)
  <2> DEFINE observed == [jobs[c].snap.observed EXCEPT !.phase = "provisioning"]
  <2>1. jobs'[c] = [jobs[c] EXCEPT !.step = "call", !.snap.observed = observed]
    BY <1>3 DEF Announce, IInv, TypeOK
  <2>2. observed \in Observed
    BY <1>0 DEF Job, Claw, Observed, Phase
  <2> HIDE DEF observed
  <2> DEFINE snap == [jobs[c].snap EXCEPT !.observed = observed]
  <2>3. snap \in Claw /\ jobs'[c] = [jobs[c] EXCEPT !.step = "call", !.snap = snap]
    BY <1>0, <2>1, <2>2 DEF Job, Claw
  <2> HIDE DEF snap
  <2>4. jobs'[c] \in Job /\ jobs'[c].step = "call" /\ jobs'[c].fresh
    BY <1>0, <2>3 DEF Job
  <2> QED
    BY <2>4, NoneAssumption DEF HonestAnswer
<1>4. CASE Create(c) \/ Begin(c)
  BY <1>0, <1>4 DEF Create, Begin
<1>5. ASSUME NEW d \in Claws, d # c,
             \/ Create(d) \/ Update(d) \/ SetEnabled(d) \/ RotateCredentials(d)
             \/ RequestRemoval(d) \/ Reconcile(d)
      PROVE  jobs'[c] = jobs[c]
  <2>1. CASE Create(d) \/ Update(d) \/ SetEnabled(d) \/ RotateCredentials(d) \/ RequestRemoval(d)
    BY <1>5, <2>1
       DEF Create, Update, SetEnabled, RotateCredentials, RequestRemoval, Change, Commit, IInv, TypeOK
  <2>2. CASE Begin(d) \/ Announce(d) \/ Write(d)
    BY <1>5, <2>2 DEF Begin, Announce, Write, IInv, TypeOK
  <2>3. ASSUME NEW observed, Reply(d, observed)
        PROVE  jobs'[c] = jobs[c]
    BY <1>5, <2>3 DEF Reply, IInv, TypeOK
  <2>4. CASE \/ CallFails(d) \/ RemovalDisables(d) \/ RemovalDrains(d) \/ RemovalReleases(d)
             \/ RemovalRevokes(d) \/ Disables(d) \/ Provision(d) \/ InspectAbsent(d)
             \/ InspectNotReady(d) \/ InspectReady(d)
    BY <2>3, <2>4
       DEF CallFails, RemovalDisables, RemovalDrains, RemovalReleases, RemovalRevokes, Disables,
           Provision, InspectAbsent, InspectNotReady, InspectReady, ReplyOrFail
  <2> QED
    BY <1>5, <2>1, <2>2, <2>4 DEF Reconcile
<1>6. ASSUME NEW d \in Claws,
             \/ PrepareForRemoval(d) \/ RouteTurn(d) \/ EnqueueTurn(d) \/ TurnSettles(d)
             \/ QuietPeriodEnds(d)
      PROVE  jobs'[c] = jobs[c]
  BY <1>6 DEF PrepareForRemoval, RouteTurn, EnqueueTurn, TurnSettles, QuietPeriodEnds
<1>7. CASE \E s \in Slugs : WorkspaceBoots(s) \/ WorkspaceStops(s) \/ WorkspaceLost(s)
  BY <1>1, <1>7 DEF WorkspaceBoots, WorkspaceStops, WorkspaceLost
<1>8. CASE Reconcile(c)
  BY <1>3, <1>4, <1>8, AnswersHonest DEF Reconcile
<1> QED
  BY <1>1, <1>2, <1>4, <1>5, <1>6, <1>7, <1>8 DEF Next

(* An application changes nothing but targets that are as they were        *)
(* previewed, and of those the desired state.                              *)
LEMMA ApplyEffect ==
  ASSUME IInv, NEW targets \in SUBSET Claws, rollout.policy \in Policies, ApplyPolicy(targets),
         NEW c \in Claws
  PROVE  /\ c \in targets => Current(c)
         /\ \/ claws'[c] = claws[c] /\ jobs'[c] = jobs[c]
            \/ c \in targets /\ DesiredChanges(c) /\ claws'[c].observed = claws[c].observed
<1> DEFINE changed == {d \in targets : claws[d].desired.policy # rollout.policy}
<1>1. /\ c \in targets => Current(c)
      /\ claws'[c] = IF c \in changed THEN Updated(c, rollout.policy) ELSE claws[c]
      /\ jobs'[c] = IF c \in changed /\ jobs[c] # None THEN [jobs[c] EXCEPT !.fresh = FALSE]
                    ELSE jobs[c]
  BY DEF ApplyPolicy
<1>2. ASSUME c \in changed
      PROVE  DesiredChanges(c) /\ claws'[c].observed = claws[c].observed
  <2>1. Current(c) /\ Mutable(c)
    BY <1>1, <1>2 DEF Current
  <2>2. claws[c] \in Claw /\ claws[c].desired \in Desired /\ RecordOK(claws[c])
    BY <2>1 DEF Mutable, Exists, IInv, TypeOK, ClawInv, Claw
  <2>3. /\ Exists(c) /\ ~Deleted(c) /\ claws[c].observed.stage = "none"
        /\ claws[c].observed.phase # "deleted" /\ ~claws[c].observed.drained
    BY <2>1, <2>2 DEF Mutable, Deleted, RecordOK
  <2> DEFINE desired == [claws[c].desired EXCEPT !.policy = rollout.policy]
  <2>4. desired \in Desired /\ desired.generation = claws[c].desired.generation
    BY <2>2 DEF Desired
  <2> HIDE DEF desired
  <2>5. claws'[c] = NextDesired(c, desired)
    BY <1>1, <1>2 DEF Updated, desired
  <2>6. /\ claws'[c] \in Claw /\ claws'[c].slug = claws[c].slug
        /\ claws'[c].observed = claws[c].observed
        /\ claws'[c].desired.generation = claws[c].desired.generation + 1
    BY <2>2, <2>4, <2>5 DEF NextDesired, Claw, Desired
  <2>7. jobs'[c] = IF jobs[c] = None THEN None ELSE [jobs[c] EXCEPT !.fresh = FALSE]
    BY <1>1, <1>2
  <2> QED
    BY <2>3, <2>6, <2>7 DEF DesiredChanges
<1> QED
  BY <1>1, <1>2

(* An application keeps the invariant of the fleet. *)
LEMMA ApplyKeeps ==
  ASSUME IInv, NEW targets \in SUBSET Claws, rollout.policy \in Policies, ApplyPolicy(targets),
         UNCHANGED <<workspaces, requestVars, budgets>>
  PROVE  IInv'
<1> DEFINE changed == {c \in Claws : DesiredChanges(c)}
<1>1. UNCHANGED <<turns, removing, routed, deleting, elapsed, changes, faults, losses>>
  BY DEF requestVars, budgets
<1>2. \A c \in Claws \ changed : claws'[c] = claws[c] /\ jobs'[c] = jobs[c]
  BY ApplyEffect
<1>3. TypeOK'
  <2>1. ASSUME NEW c \in Claws
        PROVE  claws'[c] \in Claw \cup {None} /\ jobs'[c] \in Job \cup {None}
    <3>1. CASE c \in changed
      BY <3>1 DEF DesiredChanges, IInv, TypeOK, Job
    <3>2. CASE c \notin changed
      BY <1>2, <3>2 DEF IInv, TypeOK
    <3> QED
      BY <3>1, <3>2
  <2>2. DOMAIN claws' = Claws /\ DOMAIN jobs' = Claws
    BY DEF ApplyPolicy
  <2>3. claws' = [c \in Claws |-> claws'[c]] /\ jobs' = [c \in Claws |-> jobs'[c]]
    BY DEF ApplyPolicy
  <2>4. claws' \in [Claws -> Claw \cup {None}] /\ jobs' \in [Claws -> Job \cup {None}]
    BY <2>1, <2>3
  <2> QED
    BY <1>1, <2>4 DEF IInv, TypeOK
<1>4. \A c \in changed : DesiredChanges(c)
  OBVIOUS
<1> HIDE DEF changed
<1>5. changed \in SUBSET Claws
  BY DEF changed
<1> QED
  BY <1>1, <1>2, <1>3, <1>4, <1>5, ChangesKeep

(* At first there is no rollout, and no claw. *)
LEMMA InitRollout ==
  ASSUME RolloutInit
  PROVE  IInv /\ RolloutInv
  BY InitIInv DEF RolloutInit, NoRollout, RolloutInv, RolloutTypeOK

(* What a rollout that is under way refers to. *)
LEMMA RolloutParts ==
  ASSUME RolloutInv, rollout.step # "idle"
  PROVE  /\ rollout.policy \in Policies /\ rollout.canary \in Claws
         /\ rollout.rest \in SUBSET Claws /\ rollout.canary \notin rollout.rest
         /\ Targets \in SUBSET Claws /\ rollout.canary \in Targets
         /\ \A c \in Claws : rollout.expected[c] \in Nat
  BY DEF RolloutInv, RolloutTypeOK, Targets

(* A preview records the generations of its targets. *)
LEMMA PreviewKeeps ==
  ASSUME IInv, RolloutInv, Preview
  PROVE  IInv' /\ RolloutInv'
<1>1. IInv'
  BY StepIInv DEF Preview
<1>2. PICK canary \in Claws, p \in Policies, rest \in SUBSET Claws :
        /\ canary \notin rest /\ \A c \in rest \cup {canary} : Mutable(c)
        /\ rollout' = [step |-> "previewed", policy |-> p, canary |-> canary,
                       rest |-> rest, applied |-> 0,
                       expected |-> [c \in Claws |->
                         IF c \in rest \cup {canary} THEN claws[c].desired.generation ELSE 0]]
  BY DEF Preview
<1>3. \A c \in rest \cup {canary} : Exists(c) /\ claws[c].desired.generation \in Nat
  BY <1>2 DEF IInv, TypeOK, Mutable, Exists, Claw, Desired
<1>4. [c \in Claws |-> IF c \in rest \cup {canary} THEN claws[c].desired.generation ELSE 0]
        \in [Claws -> Nat]
  BY <1>3
<1>5. RolloutTypeOK'
  BY <1>2, <1>4 DEF RolloutTypeOK
<1>6. ASSUME NEW c \in Targets'
      PROVE  TargetInv(c)'
  <2>1. c \in rest \cup {canary} /\ c \in Claws
    BY <1>2, <1>6 DEF Targets
  <2>2. rollout'.expected[c] = claws[c].desired.generation
    BY <1>2, <2>1
  <2>3. claws' = claws /\ edited' = {}
    BY DEF Preview, vars
  <2> QED
    BY <1>3, <2>1, <2>2, <2>3 DEF TargetInv, Exists
<1> QED
  BY <1>1, <1>2, <1>5, <1>6 DEF RolloutInv

(* The application to the canary leaves it a generation to converge on. *)
LEMMA ApplyToCanaryKeeps ==
  ASSUME IInv, RolloutInv, ApplyToCanary
  PROVE  IInv' /\ RolloutInv'
<1>0. rollout.step = "previewed" /\ UNCHANGED <<workspaces, requestVars, budgets, edited>>
  BY DEF ApplyToCanary
<1>1. CASE Refused({rollout.canary})
  <2>1. UNCHANGED vars /\ rollout'.step = "idle"
    BY <1>0, <1>1 DEF Refused, NoRollout, vars, requestVars, coordinatorVars
  <2> QED
    BY <2>1, StepIInv DEF RolloutInv, RolloutTypeOK
<1>2. CASE /\ ApplyPolicy({rollout.canary})
           /\ rollout' = [rollout EXCEPT !.step = "waiting",
                            !.applied = claws'[rollout.canary].desired.generation]
  <2>0. /\ rollout.policy \in Policies /\ rollout.canary \in Claws
        /\ {rollout.canary} \in SUBSET Claws /\ rollout.canary \in Targets
        /\ Targets \in SUBSET Claws
    BY <1>0, RolloutParts
  <2>1. IInv'
    BY <1>0, <1>2, <2>0, ApplyKeeps
  <2>2. /\ rollout'.step = "waiting" /\ Targets' = Targets
        /\ rollout'.canary = rollout.canary /\ rollout'.expected = rollout.expected
        /\ rollout'.applied = claws'[rollout.canary].desired.generation
    BY <1>0, <1>2 DEF RolloutInv, RolloutTypeOK, Targets
  <2>3. /\ Current(rollout.canary) /\ TargetInv(rollout.canary) /\ Exists(rollout.canary)
        /\ claws[rollout.canary].desired.generation \in Nat
        /\ claws[rollout.canary].desired.generation = rollout.expected[rollout.canary]
    <3>1. Current(rollout.canary) /\ TargetInv(rollout.canary)
      BY <1>0, <1>2, <2>0, ApplyEffect DEF RolloutInv
    <3> QED
      BY <2>0, <3>1 DEF TargetInv, Current, Exists, IInv, TypeOK, Claw, Desired
  <2>4. /\ rollout.canary \notin edited /\ claws'[rollout.canary] # None
        /\ claws'[rollout.canary].desired.generation \in Nat
        /\ claws'[rollout.canary].desired.generation >= rollout.expected[rollout.canary]
    <3>1. rollout.canary \notin edited
      BY <2>3 DEF TargetInv
    <3>2. CASE claws'[rollout.canary] = claws[rollout.canary]
      BY <2>3, <3>1, <3>2 DEF Exists
    <3>3. CASE DesiredChanges(rollout.canary)
      <4>1. claws'[rollout.canary].desired.generation = claws[rollout.canary].desired.generation + 1
        BY <3>3 DEF DesiredChanges
      <4>2. claws'[rollout.canary] # None
        BY <3>3, NoneAssumption DEF DesiredChanges
      <4> QED
        BY <2>3, <3>1, <4>1, <4>2
    <3> QED
      BY <1>2, <2>0, <3>2, <3>3, ApplyEffect
  <2>5. ASSUME NEW c \in Targets
        PROVE  TargetInv(c)'
    <3>1. CASE c = rollout.canary
      BY <1>0, <2>2, <2>4, <3>1 DEF TargetInv, Exists
    <3>2. CASE c # rollout.canary
      <4>1. claws'[c] = claws[c]
        BY <1>2, <2>0, <2>5, <3>2, ApplyEffect
      <4>2. TargetInv(c)
        BY <1>0 DEF RolloutInv
      <4> QED
        BY <1>0, <2>2, <4>1, <4>2 DEF TargetInv, Exists
    <3> QED
      BY <3>1, <3>2
  <2>6. RolloutTypeOK'
    BY <1>0, <1>2, <2>2, <2>4 DEF RolloutInv, RolloutTypeOK
  <2> QED
    BY <2>1, <2>2, <2>5, <2>6 DEF RolloutInv, CanaryInv
<1> QED
  BY <1>1, <1>2 DEF ApplyToCanary

(* The reconcile of the canary starts from what the application left. *)
LEMMA ReconcileCanaryKeeps ==
  ASSUME IInv, RolloutInv, ReconcileCanary
  PROVE  IInv' /\ RolloutInv'
<1>0. rollout.step = "waiting" /\ rollout.canary \in Claws /\ UNCHANGED edited
  BY RolloutParts DEF ReconcileCanary
<1>1. CASE rollout' = NoRollout /\ UNCHANGED vars
  BY <1>1, StepIInv DEF NoRollout, RolloutInv, RolloutTypeOK
<1>2. CASE Begin(rollout.canary) /\ rollout' = [rollout EXCEPT !.step = "reconciling"]
  <2>1. IInv'
    BY <1>0, <1>2, StepIInv DEF Next, Reconcile
  <2>2. claws' = claws
    BY <1>2 DEF Begin
  <2>3. jobs'[rollout.canary] # None /\ jobs'[rollout.canary].fresh
        /\ HonestAnswer(jobs'[rollout.canary])
    <3>1. jobs'[rollout.canary] =
            [step |-> IF Provisions(claws[rollout.canary]) THEN "announce" ELSE "call",
             snap |-> claws[rollout.canary], fresh |-> TRUE,
             result |-> claws[rollout.canary].observed]
      BY <1>0, <1>2 DEF Begin, IInv, TypeOK
    <3>2. claws[rollout.canary] \in Claw /\ claws[rollout.canary].observed \in Observed
      BY <1>0, <1>2 DEF Begin, Exists, IInv, TypeOK, Claw
    <3>3. jobs'[rollout.canary] \in Job
      BY <3>1, <3>2 DEF Job
    <3>4. jobs'[rollout.canary].fresh /\ jobs'[rollout.canary].step # "write"
      BY <3>1
    <3> QED
      BY <3>3, <3>4, NoneAssumption DEF HonestAnswer
  <2>4. /\ rollout'.step = "reconciling" /\ rollout'.canary = rollout.canary
        /\ rollout'.applied = rollout.applied /\ rollout'.expected = rollout.expected
        /\ Targets' = Targets /\ RolloutTypeOK'
    BY <1>0, <1>2 DEF RolloutInv, RolloutTypeOK, Targets
  <2>5. \A c \in Targets : TargetInv(c)'
    BY <1>0, <2>2, <2>4 DEF RolloutInv, TargetInv, Exists
  <2>6. CanaryInv'
    BY <1>0, <2>2, <2>3, <2>4 DEF RolloutInv, CanaryInv
  <2> QED
    BY <2>1, <2>4, <2>5, <2>6 DEF RolloutInv
<1> QED
  BY <1>1, <1>2 DEF ReconcileCanary

(* What others do to the fleet meanwhile is remembered as an edit, or      *)
(* leaves the canary and its reconcile as they are.                        *)
LEMMA FleetStepKeeps ==
  ASSUME IInv, RolloutInv, FleetStep
  PROVE  IInv' /\ RolloutInv'
<1>0. \/ rollout' = NoRollout
      \/ /\ rollout.step = "reconciling" /\ rollout' = [rollout EXCEPT !.step = "passed"]
         /\ ~Crash
      \/ /\ rollout' = rollout /\ ~Crash
         /\ rollout.step = "reconciling" => ~ReconcileReturns(rollout.canary)
  <2>1. CASE Crash
    BY <2>1 DEF FleetStep
  <2>2. CASE ~Crash /\ rollout.step = "reconciling" /\ ReconcileReturns(rollout.canary)
    BY <2>2 DEF FleetStep
  <2>3. CASE ~Crash /\ ~(rollout.step = "reconciling" /\ ReconcileReturns(rollout.canary))
    BY <2>3 DEF FleetStep
  <2> QED
    BY <2>1, <2>2, <2>3
<1>1. IInv' /\ Next
  BY StepIInv DEF FleetStep
<1>2. CASE rollout' = NoRollout
  BY <1>1, <1>2 DEF NoRollout, RolloutInv, RolloutTypeOK
<1>3. SUFFICES ASSUME rollout.step # "idle", rollout' # NoRollout
               PROVE  RolloutInv'
  <2>1. CASE rollout.step = "idle" /\ rollout' # NoRollout
    BY <1>0, <1>1, <2>1 DEF RolloutInv, RolloutTypeOK
  <2> QED
    BY <1>1, <1>2, <2>1
<1>4. /\ rollout.canary \in Claws /\ rollout.canary \in Targets /\ Targets \in SUBSET Claws
      /\ \A c \in Claws : rollout.expected[c] \in Nat
  BY <1>3, RolloutParts
<1>5. /\ RolloutTypeOK' /\ rollout'.canary = rollout.canary /\ rollout'.applied = rollout.applied
      /\ rollout'.expected = rollout.expected /\ Targets' = Targets
  <2>1. CASE rollout' = rollout
    BY <2>1 DEF RolloutInv, RolloutTypeOK, Targets
  <2>2. CASE rollout.step = "reconciling" /\ rollout' = [rollout EXCEPT !.step = "passed"]
    BY <2>2 DEF RolloutInv, RolloutTypeOK, Targets
  <2> QED
    BY <1>0, <1>3, <2>1, <2>2
<1>6. ASSUME NEW c \in Claws, Exists(c)
      PROVE  /\ Exists(c)'
             /\ claws[c].desired.generation \in Nat
             /\ \/ claws'[c].desired = claws[c].desired /\ (c \in edited' <=> c \in edited)
                \/ /\ claws'[c].desired.generation = claws[c].desired.generation + 1
                   /\ c \in edited'
  <2>1. claws[c].desired.generation \in Nat
    BY <1>6 DEF IInv, TypeOK, Exists, Claw, Desired
  <2>2. c \in edited' <=> c \in edited \/ claws'[c].desired # claws[c].desired
    BY <1>6 DEF FleetStep
  <2>3. claws'[c].desired.generation = claws[c].desired.generation + 1
          => claws'[c].desired # claws[c].desired
    <3>1. claws'[c].desired.generation = claws[c].desired.generation + 1
            => claws'[c].desired.generation # claws[c].desired.generation
      BY <2>1
    <3> QED
      BY <3>1
  <2> QED
    BY <1>1, <1>6, <2>1, <2>2, <2>3, DesiredAdvances
<1>7. ASSUME NEW c \in Targets
      PROVE  TargetInv(c)'
  <2>1. c \in Claws /\ TargetInv(c) /\ Exists(c) /\ rollout.expected[c] \in Nat
    BY <1>3, <1>4, <1>7 DEF RolloutInv, TargetInv
  <2> QED
    BY <1>5, <1>6, <2>1 DEF TargetInv
<1>8. ASSUME rollout'.step \in {"waiting", "reconciling"}, rollout.canary \notin edited'
      PROVE  CanaryInv'
  <2>1. rollout' = rollout /\ rollout.step \in {"waiting", "reconciling"}
    BY <1>0, <1>3, <1>8 DEF RolloutInv, RolloutTypeOK
  <2>2. /\ Exists(rollout.canary) /\ rollout.canary \notin edited
        /\ claws'[rollout.canary].desired = claws[rollout.canary].desired
    BY <1>3, <1>4, <1>6, <1>8 DEF RolloutInv, TargetInv
  <2>3. claws[rollout.canary].desired.generation = rollout.applied
    BY <2>1, <2>2 DEF RolloutInv, CanaryInv
  <2>4. CASE rollout.step = "waiting"
    BY <1>5, <2>1, <2>2, <2>3, <2>4 DEF CanaryInv
  <2>5. CASE rollout.step = "reconciling"
    <3>1. /\ jobs[rollout.canary] # None /\ jobs[rollout.canary].fresh
          /\ HonestAnswer(jobs[rollout.canary])
      BY <2>2, <2>5 DEF RolloutInv, CanaryInv
    <3>2. jobs'[rollout.canary] # None
      <4>1. ~ReconcileReturns(rollout.canary)
        BY <1>0, <1>3, <2>1, <2>5 DEF RolloutInv, RolloutTypeOK
      <4> QED
        BY <3>1, <4>1 DEF ReconcileReturns
    <3>3. ~Write(rollout.canary)
      BY <1>4, <3>2 DEF Write, IInv, TypeOK
    <3>4. jobs'[rollout.canary].fresh /\ HonestAnswer(jobs'[rollout.canary])
      BY <1>0, <1>1, <1>3, <1>4, <2>2, <3>1, <3>3, FreshReconcile
    <3> QED
      BY <2>1, <2>2, <2>3, <3>2, <3>4 DEF CanaryInv
  <2> QED
    BY <2>1, <2>4, <2>5
<1>9. rollout'.step \in {"waiting", "reconciling"} => CanaryInv'
  BY <1>5, <1>8 DEF CanaryInv
<1> QED
  BY <1>5, <1>7, <1>9 DEF RolloutInv

(* The application to the rest ends the rollout. *)
LEMMA ApplyToRestKeeps ==
  ASSUME IInv, RolloutInv, ApplyToRest
  PROVE  IInv' /\ RolloutInv'
<1>1. /\ rollout.policy \in Policies /\ rollout.rest \in SUBSET Claws
      /\ UNCHANGED <<workspaces, requestVars, budgets>>
  BY RolloutParts DEF ApplyToRest
<1>2. rollout'.step = "idle"
  BY DEF ApplyToRest, Refused, NoRollout
<1>3. ASSUME ApplyPolicy(rollout.rest)
      PROVE  IInv'
  BY <1>1, <1>3, ApplyKeeps
<1>4. ASSUME Refused(rollout.rest)
      PROVE  IInv'
  <2>1. UNCHANGED vars
    BY <1>1, <1>4 DEF Refused, vars, requestVars
  <2> QED
    BY <2>1, StepIInv
<1>5. IInv'
  BY <1>3, <1>4 DEF ApplyToRest
<1> QED
  BY <1>2, <1>5 DEF RolloutInv, RolloutTypeOK

(* Every step of the composed specification keeps both invariants. *)
LEMMA RolloutStep ==
  ASSUME IInv, RolloutInv, [RolloutNext]_rolloutVars
  PROVE  IInv' /\ RolloutInv'
<1>1. CASE UNCHANGED rolloutVars
  <2>1. UNCHANGED <<vars, rollout, edited, claws, jobs>>
    BY <1>1 DEF rolloutVars, vars
  <2> QED
    BY <2>1, StepIInv
       DEF RolloutInv, RolloutTypeOK, TargetInv, CanaryInv, HonestAnswer, Exists, Targets
<1> QED
  BY <1>1, PreviewKeeps, ApplyToCanaryKeeps, ReconcileCanaryKeeps, FleetStepKeeps, ApplyToRestKeeps
     DEF RolloutNext

(* Rollouts never disturb the fleet: whatever is rolled out meanwhile, its *)
(* invariant holds, and so does what a rollout knows of its targets.       *)
THEOREM RolloutInvariant == RolloutSpec => [](IInv /\ RolloutInv)
<1>1. RolloutInit => IInv /\ RolloutInv
  BY InitRollout
<1>2. IInv /\ RolloutInv /\ [RolloutNext]_rolloutVars => (IInv /\ RolloutInv)'
  BY RolloutStep
<1> QED
  BY <1>1, <1>2, PTL DEF RolloutSpec

(* So its safety properties hold of the composed system as well.           *)
THEOREM RolloutsSpareFleet ==
  RolloutSpec => [](WorkspaceOwned /\ ReleaseSparesTurns /\ HonestGeneration)
<1>1. IInv => WorkspaceOwned /\ ReleaseSparesTurns /\ HonestGeneration
  BY DEF IInv, WorkspaceInv, WorkspaceOwned, ClawInv, Promises, QuietPromise, ReleaseSparesTurns,
     ConfigPromise, Holds, HonestGeneration
<1> QED
  BY <1>1, RolloutInvariant, PTL

(* An application moves no removal.  Neither does any other step back.     *)
THEOREM RolloutsSpareRemovals == RolloutSpec => RemovalAdvances
<1>1. ASSUME IInv, RolloutInv, [RolloutNext]_rolloutVars, NEW c \in Claws
      PROVE  Rank(claws[c]) <= Rank(claws'[c])
  <2>1. /\ claws[c] \in Claw \cup {None} /\ claws'[c] \in Claw \cup {None} /\ Rank(None) = 0
    BY <1>1, RolloutStep DEF IInv, TypeOK, Rank
  <2>2. CASE claws'[c] = claws[c]
    BY <2>1, <2>2, RankIsObserved
  <2>3. CASE FleetStep \/ Preview \/ ReconcileCanary \/ UNCHANGED rolloutVars
    <3>1. CASE FleetStep
      BY <1>1, <3>1, RankAdvances DEF FleetStep
    <3>2. CASE Preview \/ ReconcileCanary \/ UNCHANGED rolloutVars
      BY <2>2, <3>2 DEF Preview, ReconcileCanary, Begin, rolloutVars, vars
    <3> QED
      BY <2>3, <3>1, <3>2
  <2>4. ASSUME NEW targets \in SUBSET Claws, rollout.policy \in Policies, ApplyPolicy(targets)
        PROVE  Rank(claws[c]) <= Rank(claws'[c])
    <3>1. \/ claws'[c] = claws[c]
          \/ DesiredChanges(c) /\ claws'[c].observed = claws[c].observed
      BY <1>1, <2>4, ApplyEffect
    <3>2. CASE DesiredChanges(c) /\ claws'[c].observed = claws[c].observed
      <4>1. claws[c] \in Claw /\ claws'[c] \in Claw
        BY <2>1, <3>2 DEF DesiredChanges, Exists
      <4> QED
        BY <3>2, <4>1, RankIsObserved
    <3> QED
      BY <2>2, <3>1, <3>2
  <2>5. CASE ApplyToCanary \/ ApplyToRest
    <3>1. /\ rollout.policy \in Policies /\ rollout.rest \in SUBSET Claws
          /\ {rollout.canary} \in SUBSET Claws
      BY <1>1, <2>5, RolloutParts DEF ApplyToCanary, ApplyToRest
    <3>2. \/ claws' = claws
          \/ ApplyPolicy({rollout.canary}) \/ ApplyPolicy(rollout.rest)
      BY <2>5 DEF ApplyToCanary, ApplyToRest, Refused
    <3> QED
      BY <2>2, <2>4, <3>1, <3>2
  <2> QED
    BY <1>1, <2>3, <2>5 DEF RolloutNext
<1>2. IInv /\ RolloutInv /\ [RolloutNext]_rolloutVars
        => [\A c \in Claws : Rank(claws[c]) <= Rank(claws'[c])]_vars
  BY <1>1
<1> QED
  BY <1>2, RolloutInvariant, PTL DEF RolloutSpec, RemovalAdvances

(* A rollout overwrites no change it was not previewed against, whoever     *)
(* else updates, enables or removes claws meanwhile (applyPolicy).          *)
THEOREM EditsAreKept == RolloutSpec => RolloutKeepsEdits
<1> DEFINE Kept(c) ==
      /\ rollout.step \in {"previewed", "passed"} /\ rollout'.step # rollout.step
      /\ claws'[c] # claws[c] /\ claws'[c].desired.policy # claws[c].desired.policy
      => c \in Targets /\ c \notin edited
<1>1. ASSUME IInv, RolloutInv, [RolloutNext]_rolloutVars, NEW c \in Claws,
             rollout.step \in {"previewed", "passed"}, rollout'.step # rollout.step,
             claws'[c] # claws[c]
      PROVE  c \in Targets /\ c \notin edited
  <2>1. /\ rollout.policy \in Policies /\ rollout.canary \in Claws
        /\ rollout.rest \in SUBSET Claws /\ {rollout.canary} \in SUBSET Claws
        /\ \A d \in Claws : rollout.expected[d] \in Nat
    BY <1>1, RolloutParts
  <2>2. ~Preview /\ ~ReconcileCanary /\ ~UNCHANGED rolloutVars
    BY <1>1 DEF Preview, ReconcileCanary, rolloutVars
  <2>3. ~FleetStep
    <3>1. CASE Crash
      BY <1>1, <3>1 DEF Crash
    <3>2. CASE ~Crash
      BY <1>1, <3>2 DEF FleetStep
    <3> QED
      BY <3>1, <3>2
  <2>4. \/ ApplyToCanary /\ ApplyPolicy({rollout.canary})
        \/ ApplyToRest /\ ApplyPolicy(rollout.rest)
    BY <1>1, <2>2, <2>3 DEF RolloutNext, ApplyToCanary, ApplyToRest, Refused
  <2>5. c \in Targets /\ Current(c)
    BY <1>1, <2>1, <2>4, ApplyEffect DEF Targets
  <2>6. TargetInv(c) /\ claws[c].desired.generation = rollout.expected[c]
    BY <1>1, <2>5 DEF RolloutInv, Current
  <2> QED
    BY <1>1, <2>1, <2>5, <2>6 DEF TargetInv
<1>2. IInv /\ RolloutInv /\ [RolloutNext]_rolloutVars => [\A c \in Claws : Kept(c)]_rolloutVars
  BY <1>1
<1> QED
  BY <1>2, RolloutInvariant, PTL DEF RolloutSpec, RolloutKeepsEdits

(* An undisturbed canary that lets the rollout go on has converged on the   *)
(* policy: no older observation passes for it (reconcileOne, apply route).  *)
THEOREM CanariesAreProven == RolloutSpec => CanaryProven
<1> DEFINE Proven ==
      rollout.step = "reconciling" /\ rollout'.step = "passed" /\ rollout.canary \notin edited
        => claws'[rollout.canary].observed.generation = rollout.applied
<1>1. ASSUME IInv, RolloutInv, [RolloutNext]_rolloutVars,
             rollout.step = "reconciling", rollout'.step = "passed", rollout.canary \notin edited
      PROVE  claws'[rollout.canary].observed.generation = rollout.applied
  <2> DEFINE k == rollout.canary
  <2>1. /\ k \in Claws /\ claws[k].desired.generation = rollout.applied
        /\ jobs[k] # None /\ jobs[k].fresh /\ HonestAnswer(jobs[k])
    BY <1>1, RolloutParts DEF RolloutInv, CanaryInv
  <2>2. FleetStep
    BY <1>1 DEF RolloutNext, Preview, ApplyToCanary, ReconcileCanary, ApplyToRest, rolloutVars
  <2>3. Next /\ ~Crash /\ ReconcileReturns(k) /\ CanaryOk
    <3>1. rollout' # NoRollout
      BY <1>1 DEF NoRollout
    <3>2. ~Crash
      BY <2>2, <3>1 DEF FleetStep
    <3>3. ReconcileReturns(k)
      BY <1>1, <2>2, <3>2 DEF FleetStep
    <3> QED
      BY <1>1, <2>2, <3>1, <3>2, <3>3 DEF FleetStep
  <2>4. jobs'[k] = None
    BY <2>3 DEF ReconcileReturns
  <2>5. Write(k)
    BY <1>1, <2>1, <2>3, <2>4, FreshReconcile
  <2>6. jobs[k].step = "write" /\ jobs[k].snap = claws[k] /\ claws[k] \in Claw
    BY <1>1, <2>1, <2>5 DEF Write, IInv, TypeOK, JobInv, FreshInv, Exists
  <2>7. claws'[k] = Written(claws[k], jobs[k].result)
    BY <1>1, <2>1, <2>5 DEF Write, WriteObserved, Written, IInv, TypeOK
  <2>8. claws'[k].observed = jobs[k].result
    BY <2>6, <2>7 DEF Written, Claw
  <2>9. jobs[k].result.phase \in {"ready", "disabled"}
    BY <2>3, <2>8 DEF CanaryOk
  <2> QED
    BY <2>1, <2>6, <2>8, <2>9 DEF HonestAnswer
<1>2. IInv /\ RolloutInv /\ [RolloutNext]_rolloutVars => [Proven]_rolloutVars
  BY <1>1
<1> QED
  BY <1>2, RolloutInvariant, PTL DEF RolloutSpec, CanaryProven

=============================================================================
