# A TLA+ development of Crabhelm

Crabhelm administers a fleet of OpenClaw agents ("claws"): it places them on
providers, keeps their desired state, routes Slack turns to the runtime of each
claw and posts the replies. This directory holds TLA+ modules that model its
stateful parts, TLC configurations that check them on small instances, and
proofs that TLAPS checks for every value of the constants.

Paths below are relative to the repository root.

## Inventory

| Part | State it keeps | Operations | What makes it correct |
|---|---|---|---|
| AWS turn coordinator, `aws/postgres-coordinator.ts` | rows of turn jobs, tombstone and reset generation per claw (PostgreSQL); attached sockets, the running operation (process) | attach, detach, enqueue, claim, start, complete, cancel, reset, remove, sweep, deliver | a turn starts at most once, gets one outcome, its reply is posted only while owed, duplicates need a loss, every turn settles, removal is final |
| Runtime bridge, `deploy/runtime-bridge.mjs` | the turn being run, the completion waiting for its acknowledgement, claim in flight, reset generation | connect, claim, run, complete, resend, cancel | one turn at a time, no answer lost, the bridge never stops asking for work |
| Cloudflare coordinator, `worker/claw-coordinator.ts` | the same rows in Durable Object SQLite, alarms | the same, interleaved at every `await` | the same promise as on AWS |
| Fleet registry, `src/registry.ts`, `src/domain.ts` | desired and observed state of each claw, generations, revisions, policies, audit | create, update, enable, rotate, apply policy, request removal, write observed | generations only grow, no lost update, bounded history |
| Reconciler, `src/reconciler.ts` | deletion stage inside the observed state | one reconcile per claw, staged removal | stages in order, nothing released twice, "deleted" only when the provider resource is gone and the link revoked |
| Runtime sockets, `aws/postgres-coordinator.ts`, `aws/server.ts` | observed, buffered and attached sockets, the queue of operations, shutdown flags | upgrade, buffer, attach, drop, restart, close all | frames served in order and none lost while a socket stays; a dropped socket is silent |
| Runtime credentials, `worker/http-service.ts`, both coordinators | one-use tickets, refresh fences with stored responses, the bridge's token file | issue, consume, rotate, replay, clean up | one use each, renewal survives a crash, all answers name one successor |
| Governance, `src/governance*.ts`, `worker/governance-controller.ts`, `src/governed-tool.ts` | confirmations, invocations, grants, runs, OAuth states, connections, principals, personas, skills | propose, decide, issue, consume, execute, connect, revoke, log in, edit | an action runs at most once per approval and exactly as approved; records say what GitHub said; authority comes from logins |
| Control-plane service, `worker/control-plane-service.ts` | none of its own | administration, canary policy rollout, Slack routing, alarm | the rest of the fleet is untouched when the canary fails; no turn for a removed claw |
| State stores, `src/state.ts`, `worker/state.ts`, `aws/postgres-state.ts` | keyed records with limits | register, lookup, delete, transaction | atomic, same contract on every backend |
| Background work, `aws/scheduler.ts`, `aws/audit-poller.ts`, `aws/server.ts`, the directory's sweep | one timer, one poll loop, one sweep, shutdown flags | schedule, fire, poll, sweep, stop | no wake-up lost, audit records archived before they are deleted, no claw passed over |
| Node control, `src/node-control.ts` | the child's config file, saved probes | inspect, apply, disable, drain, revoke | what is concluded of a child is so, also when an invoke lands late |
| Model routing, `src/clawrouter.ts` | an observation cached for 30 s | put policy, put credential, read back | a cached observation holds at ClawRouter |
| Bootstrap, `worker/bootstrap.ts`, `worker/http-service.ts`, `deploy/crabbox-profile` | marker files on the workspace | poll, launch, fetch, install, mark | "ready" means the desired policy and credentials are installed |
| Providers, `src/providers.ts` | leases and credential epochs at external services | provision, inspect, release | idempotent, no orphaned resource |

HTTP parsing, identity checks, configuration, object storage, the state stores
and the web console are not modelled; see "Not modelled" below.

How the parts meet: the control-plane service writes desired state to the
registry and asks the reconciler to converge it; the reconciler calls the
provider and writes what it observed back under the revision it read. Slack
events become turns in the claw's coordinator; the bridge claims them over one
outbound WebSocket; the coordinator posts the reply. Administration reaches the
coordinator directly (cancel, reset, reconnect, remove). The hard behaviours
are the operations that write several times and can stop between two writes,
frames that cross a reconnect, leases that expire under work in progress, a
post whose acceptance is lost, calls that time out and land later, handlers that
interleave at an `await`, and snapshots that are stale when they are used.
`PROJECT.json` lists them as hazards, each at its line.

## Plan

1. **TurnCoordinator**, its promise **TurnReplies**, and their proofs (done).
2. **RuntimeTurns**: TurnCoordinator composed with the bridge over connections
   that break, and the proof that it is a TurnCoordinator (done).
3. **FleetReconciler**: registry, reconciler, Crabbox provider, Slack routing
   and removal, and their proofs; **PolicyRollout**, which composes it with the
   canary rollout (done).
4. **EdgeCoordinator**: the Cloudflare coordinator, interleaved at every await,
   which implements TurnReplies until a removal (done).
5. The platform of one claw: **RuntimeCredentials**, **RuntimeSockets**,
   **NodeControl**, **NodeRetirement**, **ModelRouting**, **Installer**,
   **Wakeups**, **AuditTrail**, **CoordinatorDirectory** (done).
6. Governance: **GovernedActions** and **GovernanceDirectory** (done).

Composition: EdgeCoordinator and TurnCoordinator implement the same
TurnReplies; RuntimeTurns and PolicyRollout extend the module they compose.
FleetReconciler uses of the coordinator only what TurnCoordinator shows (every
turn settles), and of the parts of the platform only that they end in success
or failure. The parts of steps 5 and 6 share no state in the code beyond that,
and are composed side by side (see Runs).

Every safety and action property that the passing runs check has a theorem. What
is left to TLC is liveness (see Proofs).

## Modules

| Module | Contents |
|---|---|
| `TurnCoordinator` | one claw's turn queue on AWS: rows, sockets, operations, deliveries, faults, time; its properties |
| `TurnReplies` | what a coordinator promises about the turns it accepts |
| `MCTurnCoordinator` | TLC instance: symmetry |
| `TurnCoordinatorProofs` | the inductive invariant and the safety theorems |
| `TurnRepliesProofs` | that TurnCoordinator implements TurnReplies, and three action properties |
| `RuntimeTurns` | TurnCoordinator composed with the bridge and the connections between them |
| `MCRuntimeTurns` | TLC instance: symmetry, its two scenarios |
| `RuntimeTurnsProofs` | that RuntimeTurns behaves like TurnCoordinator, its types, and that a prompt is run once and its answer kept |
| `FleetReconciler` | records of the fleet, reconciles, workspaces, turns and removal of many claws |
| `MCFleetReconciler` | TLC instance: symmetry |
| `FleetReconcilerProofs` | the inductive invariant and the safety theorems, of the fleet alone and with rollouts |
| `PolicyRollout` | FleetReconciler composed with the rollout of a policy through a canary |
| `MCPolicyRollout` | TLC instance: symmetry, its two scenarios |
| `EdgeCoordinator` | the turn queue of one claw on Cloudflare, interleaved at every await |
| `MCEdgeCoordinator` | TLC instance: its scenarios |
| `GovernedActions` | confirmations, grants, runs, OAuth connections and the agent's tool |
| `GovernanceDirectory` | principals, personas and skills, and the identities logins and Slack assert |
| `MCGovernedAccess` | TLC instance of both |
| `RuntimeCredentials` | tickets and renewals of the runtime token, on both hosts |
| `RuntimeSockets` | the sockets of one claw on AWS: upgrade, buffer, attachment, removal, shutdown |
| `NodeControl` | the parent's inspect and disable of one child over its node |
| `NodeRetirement` | the drain's scan of sessions and the revocation of the pairing |
| `ModelRouting` | the reconciliation of a claw's policy and key at ClawRouter |
| `Installer` | installers of a claw's runtime and the evidence of readiness |
| `Wakeups` | the alarm of both hosts and the rounds of reconcileAll |
| `AuditTrail` | the queue of audit events, its consumers and the archive |
| `CoordinatorDirectory` | the sweep over the claws |
| `RuntimeAccessProofs` | theorems about RuntimeCredentials and RuntimeSockets |
| `GovernanceProofs` | theorems about GovernanceDirectory and GovernedActions |
| `EdgeCoordinatorProofs` | the inductive invariant of EdgeCoordinator, and that it implements TurnReplies |
| `PlatformProofs` | theorems about NodeControl, NodeRetirement, ModelRouting, Installer, Wakeups, AuditTrail and CoordinatorDirectory |
| `MCPlatform` | TLC instance of the nine modules above |

### TurnCoordinator

`jobs` is the table `crabhelm_coordinator_turn_jobs`, one row per job id
("absent" before the insert, "purged" after the delete). `removed` and
`resetGen` are the claw's control row. `sockets` is `#sockets`. `outbox` holds
the frames a step writes. `posts` and `unacked` are history: replies Slack
accepted, and those whose acceptance the coordinator never recorded.

`#serialize` lets one operation of the claw run at a time. An operation with
one durable write is one action. An operation with several (`cancelPending`,
`cancelActiveTurns`, a completion with its delivery, `cleanupSweep`) is held in
`op`, and the `#deliver` call it is in is held in `dlv`; each of their writes
is a step, in the code's order:

* `#deliver`: DeliverClaim (the lease), DeliverPost (the request to Slack:
  accepted, accepted with the response lost, refused retryably, refused for
  good), DeliverRecord (the guarded update).
* `#complete`: Complete (record), the delivery, Acknowledge (`job.ack`, and
  `job.available` when more is pending).
* `cleanupSweep`: CleanupSweep (stale offers), FailNext, ExpireNext,
  DeliverNext, and EndPhase (which moves to the next query, and purges last).

Faults: Crash at any point (rows survive, sockets and the operation do not, the
process's delivery owner id is lost), OperationFails (a statement of a running
operation rejects), RecordFails (the write of 'delivered' fails, applied or
not), SocketOperationFails (attach, detach and reconnect change the socket map
before they write).

Timestamps are ages. `claimedAge`, `deliveryAge` and `completedAge` stop one
above the bound they are compared with, and `ttl` at zero, so time needs no
bound of its own. The runtime may send any frame on any attached socket at any
time, which includes everything a faulty bridge could do.

Abstracted: the content of prompts and replies (an envelope is present or not;
a reply is the agent's answer or a notice), the split of a turn into frames,
the batch limits of the sweep's queries (20 and 100 rows; a later sweep takes
the rest), ids (never reused), and an undecodable Slack source (`validateTurn`
refuses it at the insert). A payload that cannot be decrypted returns its job
to the queue (SendOffer). A transaction is modelled as applied or not; that its
commit succeeds while the response is lost is not modelled.

### RuntimeTurns

Extends TurnCoordinator; each coordinator action is conjoined with what it does
to the connections (`ServerStep`). `bridge` is the module state of
`runtime-bridge.mjs`. `stage` splits `working`: "writing" until the turn file is
written and there is an agent to cancel (`activeRunCancel`), "running" while the
agent works and its file is removed, "done" while `pendingCompletion` waits for
its `job.ack`, and "stuck" once a file operation has failed. `claiming` is
`claiming`, `preparing` is `preparingJobId`, `polling` the two-second timer.
`link`, `toServer` and `toBridge` are the WebSockets: frames arrive in order
until one end closes or the network breaks the connection, which each end
notices on its own (`Detach`, `Disconnect`), and which may lose what is in
flight. A socket's name is reused once both ends have forgotten it.

The handlers are OnGeneration (ready, heartbeat), OnAvailable, OnNoJob, OnOther
(error, started.ack), OnAck and OnTurn; StartAgent, FinishTurn and TurnFileFails
are the stages of `runTurn`; Poll, Beat and Resend are the timers.
`RestartBridge` is a bridge that dies and is launched again with no memory.

Abstracted: the frames of one turn (`job.preparing` to `job.turn.ready`) are one
frame, because one handler sends them and a connection keeps their order; a
connection that breaks between them leaves the turn announced (Disconnect).
Frames that arrive before the socket is attached are handled right after the
attachment, where the code handles them just before it answers `runtime.ready`.
A turn refused with `runtime.client_error` changes nothing at the coordinator.
The administrator's reset is CancelActiveTurns; restarting the connections
afterwards is a separate call and a separate step. The refresh of the
credential, a rejected ticket (which ends the process), the runtime lock and
the reconnect delay are left out; while a refresh is pending the bridge only
claims later. SocketOperationFails and RecordFails are left to TurnCoordinator's
own runs.

### FleetReconciler

`claws` is the `claws-v1` store: of a record, the slug, the desired generation,
managed policy, credential epoch and `enabled`, and of the observation the
generation, phase, whether `lifecycle` is set, the deletion stage ("none" for no
`deletion`) and whether `deletion.drainedAt` is set. `jobs` is the reconcile in
flight for each claw (`#clawTails` lets one run at a time): its snapshot, where
it is ("announce", "call", "write"), what it is about to write, and whether the
record's revision is still the snapshot's. A revision is only compared with the
one read by the reconcile in flight and grows with every write, so `fresh`
replaces it. `workspaces` are those of the Crabbox service, by name.

Registry operations run one at a time, each in a transaction, and are one action
each: Create, Update, SetEnabled, RotateCredentials, RequestRemoval. A DELETE
request is two (RequestRemoval, PrepareForRemoval) and can stop in between. A
reconcile is three or four: Begin (read), Announce (the record says
"provisioning" before a workspace is asked for), one provider call per branch
(Provision, InspectAbsent, InspectNotReady, InspectReady, Disables and the
removal stages RemovalDisables, RemovalDrains, RemovalReleases, RemovalRevokes)
and Write. CallFails is an error before the provider acts, ReplyOrFail an answer
lost after it did; both end in "attention". A write that meets a conflict
changes nothing. The inspection that precedes a call and the call are one
action: a claw has one reconcile at a time, so nobody else releases or replaces
its workspace in between, and what the service or the turn queue does there
could as well happen before or after.

RouteTurn reads the record, EnqueueTurn is the coordinator's insert some time
later, which the tombstone refuses. Turns settle one at a time
(TurnCoordinator's EveryTurnSettles). `elapsed` says whether
`drainQuietPeriodMs` has passed since `drainedAt`.

Assumptions about the surroundings, all visible as guards: a Slack event that
was routed before `drainedAt` has enqueued its turn or given up when the quiet
period of 5 s ends (QuietPeriodEnds); a request to Crabbox has been handled, or
never will be, when its client gives up after 10 s; one control-plane process
runs (`docs/architecture.md:46`). `CrabboxWorkspaceBootstrap.disable` and
`revokeControl` always succeed.

Abstracted: names, owners, placement, models and messages; health and probes
(ready means healthy); the steps of an installation (InspectReady installs, or
fails, or stays "enrolling"; that the poll gives up after three attempts,
`worker/bootstrap.ts:709`, is modelled in Installer and not here); ClawRouter,
whose reconcile can fail (CallFails) and whose live proof can be missing
(InspectReady); policy templates (a policy value); the audit trail; a write of
the record that fails in the store, other than with the process.

### PolicyRollout

Extends FleetReconciler with the apply route: Preview records the generations,
ApplyToCanary and ApplyToRest are `applyPolicy` (all targets or none),
ReconcileCanary begins the route's own reconcile of the canary, and FleetStep
is any step of the fleet, with the route going on or giving up when that
reconcile returns. `edited` is history: the claws whose desired state somebody
else changed. Creating policies and their versions is left out; the reconciles
of the rest after ApplyToRest are ordinary ones.

### EdgeCoordinator

The same table as TurnCoordinator's, without a delivery lease: `#deliveries`
takes its place. A handler is one step up to an `await` of something outside
the object's storage, where it becomes a member of `tasks` and everything else
may go ahead; it resumes with what it had selected (`todo`, `asOf`). A post is a
member of `deliveries` of its own, because several handlers may wait for one.
The alarm is one flag: set by `#scheduleCleanup`, consumed when Alarm begins,
set again by EndOfAlarm while the queue holds work. Evict loses tasks and
deliveries and fires an unfinished alarm again.

A removal during a post is where this coordinator differs from the one on AWS.
`#deliverPending` reads its row once and then decrypts and posts what it read,
so a removal that clears the response meanwhile does not stop the post, and the
post that returns overwrites the row: a withdrawn turn can still be accepted by
Slack and end as delivered. A row read without a response cannot be decrypted
and ends in a retry (the delivery "empty"). EdgeImplementsReplies therefore
stops at the removal, and EdgePostsAccounted says what holds after it.

Abstracted: ages (a limit has passed or not), ids, the content of envelopes (one
can always be decrypted or fails for good), batch limits, and what
RuntimeCredentials and GovernedActions model.

### Governance

GovernedActions: `handlers` are the requests under way, each at its next await;
between two awaits any other request, a failure (Rejected), or a crash may come.
Registry operations are one action each (CreateConfirmation, UseConfirmation,
SaveInvocation, Update, ...), the coordinator's RegisterGrant, ConsumeGrant,
StartRun and FinishRun likewise, and Post is the request to GitHub, which may be
carried out with its answer lost. `tool` is the agent's governed tool, which
asks, polls for the decision and executes. The OAuth callback and the
revocation are chains over the registry, the vault and GitHub.

GovernanceDirectory: LoginWithOidc, RouteSlackTurn and DecideFromSlack assert a
principal (`ensureExternalPrincipal`), with Slack's profile lookup answering or
not; WritePersona, CreateSkill, ApproveSkill and EnsurePersonaForClaw are the
administration. Abstracted: capabilities, repository scopes, names, and the text
of a managed spec (whether one can be built is PersonasServe).

### The platform of a claw

RuntimeCredentials: a renewal suspends at `sign`, `rotate` and `replay`;
`hosting` decides whether the new token is registered with the old one's
consumption (AWS) or before it (Cloudflare). PrepareForRemoval closes the sockets
on both; on AWS it also deletes tokens and tickets, and `access` is then
"revoked". `memory` and `file` are the
bridge's. Signatures and envelopes are which token they are of.

RuntimeSockets: `tail` is `#tail` and `run` how far its first operation is;
Handshake, Frame and SocketCloses are events of the WebSocket, which `handle…`
of `aws/server.ts` passes on at any time. AttachSocketNow, ReleaseReplacedOffers,
FlushNext and Greet are the stages of `attachSocket`. Frames are numbered as
they arrive, so that FramesKept can say that none is lost, repeated or
overtaken; what a frame does is TurnCoordinator's. CloseRuntimeSockets (which
queues the detaches in any order: the server lists its sockets in the order of
their upgrades, which the model does not keep), DrainServer and EndServer are the
shutdown; that a peer closes its end is not assumed.

NodeControl: `child` is the config file that the status, apply and ingress
commands of the node read and write; `parent` is the operation under way.
TimesOut fails it and leaves its invoke in `abandoned`, from where LandsLate may
still run it. `spec` stands for the model together with the rest of a policy;
probes are of one spec, recent or not, with their Slack and model answers.
NodeRetirement: `scan` reads the sessions page by page while they move;
`revoking` lists, rejects, removes and lists again.

ModelRouting: Begin, PutPolicy, PutCredential and InspectKey are the requests of
one reconcile; RequestFails leaves a PUT in `lost`, from where it may land.

Installer: `jobs` are installer processes on the workspace, several when the
desired state changed meanwhile; Launch and LaunchOver are the poll's two ways
to start one, and the markers are its only evidence. `vouched` is what was last
reported ready, while nothing is known to have replaced the runtime.

Wakeups: `timer` is the alarm, `pass` the claws the running round has still to
see, `ending` the alarms past it, which arm the next. A create request is
CreateClaw and then RequestWakeup, or CreateFails when the persona or the
reconcile throws in between; `orphans` are the claws whose request broke off while
nothing was armed. On Cloudflare the alarm
survives a crash; on AWS a new process arms it as it starts.

AuditTrail: a message is queued, hidden while a consumer has it, deleted, or set
aside after too many deliveries, from where an operator may redrive it.

CoordinatorDirectory: the sweep's cursor and page; claws fall due and are done
between its queries.

## Runs

| Run | Checks | Distinct states |
|---|---|---|
| `turn_safety` | EnvelopesMatchStatus, OffersExclusive, LeaseHeldWhilePosting, RepliesAccounted, RemovalIsFinal; NoPostAfterRemoval, StartedNeverRequeued, OutcomeIsFinal | 1.7 million |
| `turn_liveness` | EveryTurnSettles; ImplementsTurnReplies | 34 thousand |
| `bridge_faults` | PromptRunOnce (with RunningIsBacked), AnswerKept with a broken or reset connection, a crash or failure of the coordinator, a bridge restart, a reset and a removal | 1.9 million |
| `bridge_liveness` | ResetStopsTurn, OwnedCompletionAcknowledged | 101 thousand |
| `bridge_wedge` | CompletionAcknowledged, which is violated (see Findings) | 101 thousand |
| `fleet_safety` | WorkspaceOwned, ReleaseSparesTurns, HonestGeneration, RemovalAdvances for two claws that want one slug | 1.0 million |
| `fleet_liveness` | RemovalCompletes, ServingConverges | 296 thousand |
| `policy_rollout` | RolloutKeepsEdits, CanaryProven while others edit the claws, or calls fail and the process crashes | 1.2 million |
| `policy_canary_conflict` | UnconvergedCanaryStops, which is violated (see Findings) | 672 thousand |
| `edge_turns` | WorkHasAlarm, EdgePostsAccounted, EdgeImplementsReplies, EdgeTurnSettles | 146 thousand |
| `governed_access` | ActionsConfirmed, OutcomeHonest, CredentialsAccounted; IdentityHolds, PersonasServe | 498 thousand |
| `platform` | CredentialsHold, SocketsAccounted, NodeHonest, RetirementHonest, RouterHonest, ReadinessHonest, WakeupHonoured, AuditKept, SweepComplete | 3.5 million |

Type invariants. TypeOK of TurnCoordinator and of FleetReconciler and
SystemTypeOK are theorems; EdgeTypeOK, ActionTypeOK, DirectoryTypeOK and
CredentialTypeOK are conjuncts of EdgePostsAccounted, ActionsConfirmed,
IdentityHolds and CredentialsHold; SocketTypeOK is part of the invariant that is
proved of RuntimeSockets.

Bounds. `turn_safety` has two jobs, two events, two sockets and one runtime:
two sockets of one runtime are what a reconnect needs, and two jobs what an
offer beside a running turn, or a delivery beside a claim, needs. Leases of 0
make every lease expire after one tick, so that expiry races everything. Two
delivery attempts (the code has five) give a retry and a final refusal. One
reset and one fault; `turn_liveness` allows two faults, so a recovery can fail
again. JobId, EventId and Socket are symmetric in the safety run; the liveness
runs use no symmetry. ImplementsTurnReplies is checked on the one job of
`turn_liveness`, where it is cheap; its proof covers the rest.

`bridge_faults` has two sockets, one for the connection the coordinator still
knows and one for its replacement, and two jobs, in two scenarios: two of a
reset, a fault and a restart for one turn, or two turns across a reconnect with
none of them. MaxDrops = 1 allows one broken connection or one forced
reconnect, which is enough to lose any one frame and everything behind it;
MaxInFlight = 1 only holds back a timer while a frame is on its way, since a
timer that fires then adds a duplicate behind it.

`fleet_safety` has two claws and one slug, so that a slug is taken, freed and
reused; three changes are what create-then-disable-then-enable-then-remove
needs; one turn is enough to be early, late or in the way; one fault is a crash
at any point, a failed call or a lost answer, and one workspace fails or expires.
Claws, slugs and policies are symmetric. `fleet_liveness` has one claw, because
claws only meet over slugs, two policies, two faults so that a recovery can
fail again, and no symmetry. `policy_rollout` has a canary and one more claw,
each with a slug, and two policies, in two scenarios: one change by somebody
else at any point, or two faults and a lost workspace. Turns are left to the
other runs. The theorems of FleetReconcilerProofs hold without any of these
bounds.

`edge_turns` has one job, two sockets (one replaces the other), two requests
suspended at a time beside the alarm, two delivery attempts, and one mishap: a
reset or removal, an eviction, a lost answer of Slack, or a replaced socket. One
job is enough for several handlers to hold stale selections of the same row,
which is where the code's guards are; two jobs meet only over one runtime's
offer.

The two scenarios of `bridge_faults` and of `policy_rollout` are state
constraints of their cfg, which is sound for the safety properties they check;
those of `edge_turns`, which checks liveness, are part of its specification.

`governed_access` and `platform` instantiate modules that share no state. In a
behaviour one part moves and the others rest in one initial state: `part` says
which, so the state space is the sum of the parts' and not their product, and
each invariant is checked over all of its own part. Where a part starts with
one of several interchangeable values (a scope, a policy), one stands for all;
the next unused of several interchangeable names is taken by CHOOSE.

`governed_access`: two clients, two confirmed actions and a read, two
confirmations and invocations are two requests racing for one approval, with an
approval to spare; three scenarios (two clients on confirmed actions, one
account connected and revoked, the persona's policy edited between the steps of
one request) with one failure, lost answer or crash; two of identities and of
staffing, with one address, two workspaces and four edits.

`platform`, by part. Credentials: three tokens are a chain of two renewals, with
two sockets, two renewals at a time and one crash, restart or lost message.
Sockets: two sockets of one runtime, a buffer of one frame (8 in the code), two
frames, three queued operations, one failing query. Nodes: two edits (of the
owner, of the desired policy, or of the switch) and one timeout, whose invoke
may land at any later moment. Retirement: pages of one session (of the
200 in the code), three pages, two moves. Routing: two scopes, two generations, two
changes, two lost requests. Installing: two policies, two generations, two
changes (so that a policy can come back), two installer processes, two attempts
(three in the code). Wake-ups: two claws, delays of 10 s and 15 s in steps of
5 s, two alarms, two crashes. Audit: two events and a malformed message, two
consumers, two deliveries. Sweeps: three claws in pages of one.

Fairness. Steps of a running operation and Restart are weakly fair: PostgreSQL
and Slack requests end (the post has a 15 s timeout) and ECS restarts a dead
task. CleanupSweep and Tick are strongly fair: the sweep runs every minute and
queues behind the running operation, so other operations can delay it but never
starve it. Runtimes, administrators and Slack owe nothing.

SystemFairness (`bridge_liveness`): both ends go on handling what has arrived;
the bridge's reconnect loop never gives up and its intervals fire; the
coordinator attaches and detaches sockets (strongly fair: each waits only for
the operation that runs); a running operation goes on. An agent owes nothing
until it is cancelled: then SIGTERM and SIGKILL end its process group and
FinishTurn is weakly fair. Nothing is assumed of the turn file: StartAgent owes
nothing, and TurnFileFails may come at any time. Time and sweeps are not part of
it, so that nothing there can rest on a lease, on the expiry or on the purge of
the row. TimedSystemSpec (`bridge_wedge`) adds them, so that the counterexample
cannot be blamed on a clock that stands still.

FleetReconciler: every reconcile step is weakly fair, because the alarm
reconciles every claw that is not deleted and is scheduled again after each
round (`worker/control-plane-service.ts:218`, `aws/server.ts:212`) and provider
calls time out. EnqueueTurn and QuietPeriodEnds are the passage of time,
TurnSettles is EveryTurnSettles, an installation succeeds in the end if its
workspace does not fail (so ServingConverges speaks of installers that do not use
up their three attempts), and the service stops a workspace it was told
to stop and boots one it created, unless that fails. Administrators, Slack and
faults owe nothing.

EdgeCoordinator: the platform resumes suspended handlers, a post is answered or
times out after 15 s, an alarm that is set is fired, and limits pass. The
runtime, Slack's users and administrators owe nothing. The scenarios of
MCEdgeCoordinator restrict no fair step: each has an outcome they allow.

PolicyRollout, the parts of the platform and governance are checked for safety
only: what makes them go on is a poll, an alarm or a person that tries again.

## Findings

`bridge_wedge`: a bridge can stop answering for good while its connection is up.
It sends `job.started` once. If the coordinator gives up the offer before that
frame is handled (a forced reconnect, a replaced or closed socket), the start
and later the completion are answered with `runtime.error`. The bridge handles
that frame by clearing `claiming` and logging (`deploy/runtime-bridge.mjs:193`):
`working` and `pendingCompletion` stay set, the completion is resent every ten
seconds and after every reconnect and refused each time, and `requestJob`
returns early. The claw's later turns expire. `docs/architecture.md:46` says
that "runtime bridges reconnect after the socket closes", and
`docs/validation.md:16` that replies were delivered "including after forced
reconnect". OwnedCompletionAcknowledged shows that every completion the
coordinator does own is acknowledged (unless its row has been purged meanwhile,
which ends in the same refusal). Discarding the completion on any
`runtime.error` is not a repair: the mutant RefusedForgets does that, and
PromptRunOnce and AnswerKept fail.

`policy_canary_conflict`: a rollout can go on although its canary never
converged. The apply route looks at the phase of the record that
`reconcileOne` returns (`worker/control-plane-service.ts:421`). If another change
of the canary commits while that reconcile is in flight, its write conflicts
and `reconcileOne` returns the current record (`src/reconciler.ts:332`), whose
phase is that of an observation made before the policy: a canary that was ready
still says "ready", and the policy reaches the rest. `docs/product.md:88` says
"an unconverged canary stops the remainder". CanaryProven shows that the route
is right whenever nobody else changes the canary. Comparing the observed
generation with the one that was applied would close the gap.

## Proofs

Turn queue and bridge. Assumptions: `ConstantsAssumption`, and for RuntimeTurns
`BridgeAssumption` (one runtime; the bounds are numbers). The set of jobs is
finite, `None` is no id, and the bounds are natural numbers. In particular the
proofs hold for every number of jobs, sockets, runtimes, resets and faults.

The invariants are not inductive one by one. RemovalIsFinal needs that a
removed claw runs only operations with nothing left to do; RepliesAccounted
needs that the row of an accepted post is still held when the outcome is
written; LeaseHeldWhilePosting needs that no operation starts while another
delivers. `IInv` therefore joins TypeOK, EnvelopesMatchStatus, OffersExclusive,
LeaseHeldWhilePosting, RepliesAccounted, RemovalIsFinal and OperationShape (how
`op` and `dlv` constrain the rest). `TurnCoordinatorProofs` first states what
each row update does (ReleasedRow to TickedRow), then shows that each action
preserves IInv (one lemma per action), and concludes `Spec => []IInv` and one
theorem per invariant and one for TypeOK.

`TurnRepliesProofs` maps a row to its phase (`PhaseOf`) and shows that every
action is a step or a stutter of TurnReplies: enqueue accepts, start begins, a
completion, failure or expiry answers, a post posts, a recorded outcome
delivers or abandons, removal closes and the purge forgets. NoPostAfterRemoval
and StartedNeverRequeued follow from the refinement. OutcomeIsFinal tells apart
outcomes that TurnReplies does not, so it is shown action by action from IInv.

`RuntimeTurnsProofs` shows `SystemSpec => Spec`: each action of the composed
system is a TurnCoordinator action or leaves the coordinator alone. That needs
to know that every frame in flight about a turn names a job (`FramesOK`), which
holds because the coordinator writes such frames and the bridge answers them;
`SystemInv` joins it with SystemTypeOK, and `IInv` supplies the coordinator's
types. So the theorems about TurnCoordinator hold of the system with the bridge.

PromptRunOnce and AnswerKept are about frames that cross each other. `OnceInv`
says what makes them true: a job whose prompt the bridge was given since it was
last started (`Ran`) is at hand in the bridge until the coordinator is done with
it (`Over`), so a copy of its turn still in flight meets a bridge that refuses
it; an acknowledgement in flight is of a job that is over, and no copy of the
job's turn follows it on its connection (`AcksLast`), so the bridge that has
just forgotten the answer is not offered the prompt again; and a `job.started`
in flight is of a prompt that was run. The coordinator's side rests on `IInv`
and the refinement: what is over stays over (OverStays), only a start makes a job
running (OnlyStartBegins), and it writes a turn only for a job that is not over
and an acknowledgement only for one that is (WritesAgree). TLC checked OnceInv on
the instance of `bridge_faults`.

Fleet. Assumptions: `ConstantsAssumption` (bounds are natural numbers) and
`NoneAssumption` (`None` is no claw, record, job or configuration). The
properties are not inductive: whether a reconcile may release a workspace or
report it gone was decided by an earlier call, and its record is written later,
while turns, administration and the service go on. `IInv` of
`FleetReconcilerProofs` joins TypeOK with

* `RecordOK`: which phases, stages and flags of a record go together;
* `Promises`: what a record says of the world. QuietPromise (a claw past
  "drain" has no turn left and none on its way), GonePromise (a claw in "revoke"
  or deleted has no workspace) and ConfigPromise (a claw that counts as
  converged has the desired configuration in its workspace);
* `JobInv`: a reconcile that is fresh holds the current record and is about to
  write one that keeps all promises and lowers no stage (`Recordable`); one that
  is stale can no longer write, and may only still provision or configure the
  workspace of a claw that does not count as converged (`StaleInv`);
* `WorkspaceInv` and `OneClawPerSlug`: a workspace belongs to the one claw that
  is not deleted and has its slug.

Each action has a lemma. Two frames carry most of them: AnswerFrame (a call that
ends in an answer only has to be Recordable) and TurnFrame (a step that touches
neither records nor workspaces only has to keep the quiet promise). The six
theorems are the invariant, TypeOK, WorkspaceOwned, ReleaseSparesTurns,
HonestGeneration and RemovalAdvances; the last follows because Recordable bounds
the rank of what is written.

Rollouts. PolicyRollout adds an application to several claws in one transaction,
which makes the reconciles of all of them stale at once (`ChangesKeep`), so the
fleet's invariant is one of `RolloutSpec` too, and with it the four properties of
the fleet. `RolloutInv` joins the types of a rollout with `TargetInv` (a target is
at the previewed generation or past it, and past it if others edited it, because a
generation never goes back) and `CanaryInv` (an undisturbed canary is at the
generation the rollout gave it, its reconcile is fresh, and what that reconcile
is about to record as ready or disabled counts as converged). RolloutKeepsEdits
follows from the first, and CanaryProven from the second: a fresh reconcile can
only return by its write.

Cloudflare coordinator. Assumption: `EdgeAssumption` (the turns are finitely
many, `None` is no id, at least one delivery attempt, the bounds are numbers).
WorkHasAlarm and EdgePostsAccounted depend on what a suspended handler may still
do, so `EdgeInv` of `EdgeCoordinatorProofs` joins the types with

* `Sound`, for each row: how its status, its delivery status, its response, the
  post under way and the answers Slack accepted go together, before and after a
  removal, which may come between the read of a row and the end of its post;
* `SweepSound` and `EnqueuesSound`: a suspended sweep is in one of its stages,
  and two suspended requests never insert the same turn;
* WorkHasAlarm.

The handlers differ in what they select but not in what they make of a row:
`Reaches` names the tables they may leave behind (each row kept, released,
started, answered or forgotten), and most actions are an
`OrdinaryStep`: such a table, at most one delivery of it started, no turn
inserted and the alarm not given up. One lemma shows that such a step keeps
EdgeInv, and each action has a lemma that it is one; what remains (inserts,
posts, removals, evictions) is proved apart. EdgeRefinesReplies shows that every
step is one of TurnReplies until the removal. It assumes `SlackConfigured`:
without Slack an answer and its failed delivery are one step here, and two steps
of TurnReplies.

Credentials. Assumption: `CredentialsAssumption` (`Nothing` is no token, ticket
or socket). That all answers to a renewal agree depends on renewals suspended
between their reads and their writes. `CredentialInv` of `RuntimeAccessProofs`
joins CredentialTypeOK with UsedRegistered (a token somebody holds or was sent
is registered while it lives, until a removal on AWS, which also makes a fresh
token one that nobody knows), RenewalsSound (what a renewal has in hand at each
await: a token known to it alone, or the successor that is registered),
SuccessorsUnique and TicketsSound; RevokedSilent adds that after such a removal
no socket is open and no renewal under way.

Sockets. Assumption: `SocketAssumption` (the sockets are finitely many, the
bounds are numbers). A name of a socket is used again once it has closed, so a
behaviour has any number of connections. SocketsAccounted is not inductive: the
frames of a socket are in four places (served, being flushed, buffered, queued),
and what may be in which depends on operations that wait behind others. In the
same module `SocketInv` joins the types with RunSound (an operation past its first
await is an attachment whose socket is attached, and only its last stage flushes),
AttachesOnce, and for each socket

* Unopened: before its handshake nothing of it is queued or attached;
* Waits, Unattached: until its attachment begins it is served nothing and no frame
  of it is queued, so all are in the buffer;
* Attached: it was not dropped, is its runtime's only socket, and once it has
  closed its detach is queued;
* Silent: what a dropped socket was served does not change;
* Kept: served, flushed, buffered and queued frames count from 1 to the last that
  arrived, and an attached socket has a buffer only while the earlier socket's
  offers are released.

Kept is the heart: a frame that comes while the offers are released is queued
behind the attachment that has yet to flush the buffer, and is later than all of
it. Three lemmas carry most steps: SoundKept (a step that only shortens the queue
or touches other sockets keeps a socket sound), QuietStep, and OperationEnded
(the end of the operation that runs). TLC checked SocketInv, its types
unfolded, with two sockets, a buffer of two frames, three frames and four queued
operations (3.4 million states): more frames and a longer queue than `platform`
has.

Governance. Assumptions: `DirectoryAssumption` (`Nobody` is no subject or claw,
no address is a Slack account id) and `ActionsAssumption` (the requests under
way at once are finitely many, the service actor is no human). `GovernanceProofs`
has three invariants.

* `DirectoryInv`: GrantsKept, TurnsOwned and DecisionsOwned (why an
  assertion of an identity never hands a turn or a decision to somebody else) and
  PersonasSound.
* `ActionInv`: ConfirmationsSpent (a confirmation is spent on one request that
  has still to save its invocation, or on one invocation, and matches it),
  GrantsHeld (at most one request holds the grant of an invocation, and what it
  knows of GitHub's answer), InvocationsSound (carried out once, after the grant
  was consumed; its records are what was heard) and ToolSound. ActionsConfirmed
  and OutcomeHonest follow. A read may name a confirmation too, so the uniqueness
  is of the actions that need one.
* `VaultInv`: CredentialKnown (the stage of a request tells where the credential
  in its hand is), CredentialsApart and LossBounded. CredentialsAccounted counts a
  set, so the argument is one about cardinalities: a step without a failure adds
  nothing to what is astray, a failure at most what all requests have in hand.

The platform. `PlatformProofs` has one invariant for each of seven modules.
Their assumptions say that bounds are numbers, that special values are none of the
ordinary ones, and that the sessions of a child are finitely many; delays,
pages and generations are positive.

* Wake-ups: WakeupHonoured is inductive with the type of the timer. That
  `Scheduled` arms whenever the process is up is the lemma it rests on; its second
  half, that whatever is armed relieves every orphaned claw, is what a failing
  create request needs.
* Audit: `AuditInv` adds that events are recorded before they are sent
  (ArchiveSound), and that what a consumer is about to delete was archived
  (BatchSound), although others may have the same message.
* Routing: `RoutingInv` says of the cache what RouterHonest says of the
  observation, because a later reconciliation answers from it.
* Sweeps: `SweepInv` says where the claws that are still owed can be: beyond the
  cursor or on the page, and on the page alone if it is short. That a full page
  holds every due claw up to its last one (PageCovers) is proved from the least
  element of a set of numbers.
* Removal: `RetirementInv` adds that every run belongs to a listed session and
  that a scan that found none so far has read a prefix without runs (ScanSound).
* Installing: `InstallerInv` is about `owner`, the installer that last began
  to replace the runtime: alone, it knows what is installed and writes markers
  that agree (OwnerSound, SettledSound); an installer only ever installs what it
  was launched for (JobSound).
* Nodes: `NodeInv` says what the operation under way knows of the child at
  each stage (OperationSound), that the policy on the child's record was probed or
  belongs to an operation that did not end (AppliedSound), and that the owner's
  flag is the channel's or the one put aside.

Only model-checked: liveness, which is outside the prover's reach:
EveryTurnSettles, ResetStopsTurn, OwnedCompletionAcknowledged, RemovalCompletes,
ServingConverges, EdgeTurnSettles.

## Limits met while modelling

Behaviours the models show that no doc or test rules out; the properties are
stated around them, and each says so.

* A Cloudflare removal during a post (EdgeCoordinator, above).
* A reset the bridge hears of while it still writes the turn file cancels nothing:
  `activeRunCancel` is set at `deploy/runtime-bridge.mjs:288`, after the awaited
  write (:247), and the generation is stored (:232), so the same value does not
  cancel later either. ResetStopsTurn is about an agent that works.
* A turn file that cannot be written (:247) or removed (:260) leaves `working` set
  without a completion, and the bridge claims nothing until it is restarted (stage
  "stuck").
* A turn that was announced and never arrives makes the bridge pass over the
  answers to its claims (:148) until its connection closes.
* A list of sessions that moves under the drain's scan can hide an active run
  (RetirementHonest).
* An installer that is overtaken or dies after replacing the runtime leaves the
  old ready marker: a policy that is changed and changed back may be reported
  ready from it (ReadinessHonest).
* A claw whose create request throws after `create`
  (`worker/control-plane-service.ts:484`, on either host) or dies there (on
  Cloudflare) has no wake-up, and if none is armed and no round runs it waits until
  something else asks for one. WakeupHonoured says that this is the only way to be
  left without a round.
* An installer that has used up its three attempts is not launched again for its
  desired state (Installer); ServingConverges does not cover it.
* A failing step of the OAuth callback or the revocation leaves a credential
  that nobody takes away; CredentialsAccounted bounds it by one per request under
  way at each failure.
* A socket whose handshake ends after `closeRuntimeSockets` took its list is
  attached all the same, and the server's close waits for it without a limit
  (`aws/server.ts:528`).
* The directory's sweep stops at a claw that rejects (SweepComplete).

## Not modelled

* HTTP parsing, signatures, access checks, configuration, migrations and
  deployment scripts: run once or per request, with no state between calls.
* The state stores: one contract, whose transactions the models take as one step
  that is applied or not. The backends are thin calls to a database.
* Encryption and object storage: which credentials and objects exist is modelled
  where it matters (GovernedActions, AuditTrail), how they are written is not.
* The bridge's runtime lock, its rejected ticket (which ends the process) and
  its reconnect delay; the terminal dialer; the simulator provider.
* The text of installation scripts, managed specs and messages; catalogues of
  capabilities and repositories; the web console.
