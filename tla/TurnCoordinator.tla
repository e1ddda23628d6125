-------------------------- MODULE TurnCoordinator --------------------------
(***************************************************************************)
(* The turn queue of one claw on the AWS backend                           *)
(* (aws/postgres-coordinator.ts, class AwsClawCoordinator).                *)
(*                                                                         *)
(* Slack turns are enqueued as rows of crabhelm_coordinator_turn_jobs, a   *)
(* runtime claims, starts and completes them over a WebSocket, and the     *)
(* reply is posted to Slack under a delivery lease.  Rows survive a crash  *)
(* of the process; sockets and the operation being run do not.             *)
(*                                                                         *)
(* Every public method goes through #serialize, so at most one operation   *)
(* of the claw runs at a time.  An operation that is a single statement or *)
(* transaction is one action.  The operations that write several times     *)
(* (cancelPending, cancelActiveTurns, a completion, cleanupSweep) are run  *)
(* by the steps of `op' and `dlv', one durable write per step, so that the *)
(* process can crash, or PostgreSQL can fail, between any two writes.      *)
(*                                                                         *)
(* Timestamps are kept as ages: a row's claimedAge is now - claimed_at,    *)
(* capped just above the only bound it is compared with, and ttl is what   *)
(* is left until expires_at.  Time advances between operations: a later    *)
(* operation of the claw cannot observe the clock in the middle of an      *)
(* earlier one, and a sweep uses the `now' it started with.                *)
(*                                                                         *)
(* The runtime is left open here: it may send any frame on any attached    *)
(* socket at any time.  RuntimeTurns closes the system with the bridge.    *)
(***************************************************************************)
EXTENDS Integers, FiniteSets, Sequences

CONSTANTS
  JobId,            \* turn job ids (random UUIDs: an id is never used twice)
  EventId,          \* Slack event ids
  Socket,           \* runtime WebSockets
  Runtime,          \* runtime identities
  None,             \* SQL NULL, and "no job", "no socket"
  TurnTtl,          \* expires_at - created_at of a turn
  OfferLease,       \* offerLeaseMs
  RunningTimeout,   \* runningTimeoutMs
  DeliveryLease,    \* deliveryLeaseMs
  JobRetention,     \* jobRetentionMs
  MaxAttempts,      \* delivery attempts before a retryable failure is final
  SlackConfigured,  \* whether the installation has a Slack bot token
  MaxResets,        \* bound: administrator resets
  MaxFaults         \* bound: crashes plus database failures

ASSUME ConstantsAssumption ==
  /\ IsFiniteSet(JobId)
  /\ None \notin JobId \cup EventId \cup Socket \cup Runtime
  /\ TurnTtl \in Nat \ {0} /\ MaxAttempts \in Nat \ {0}
  /\ OfferLease \in Nat /\ RunningTimeout \in Nat
  /\ DeliveryLease \in Nat /\ JobRetention \in Nat
  /\ SlackConfigured \in BOOLEAN
  /\ MaxResets \in Nat /\ MaxFaults \in Nat

VARIABLES
  jobs,      \* the turn_jobs table: a row for every job id
  removed,   \* removed_at IS NOT NULL for this claw
  resetGen,  \* reset_generation of this claw
  up,        \* the process is running
  sockets,   \* #sockets: the runtime each socket is attached for, or None
  op,        \* the operation #serialize is running, if it takes several steps
  dlv,       \* the #deliver call that operation is in, if any
  outbox,    \* frames this step wrote to each socket
  posts,     \* ghost: replies Slack accepted, per job
  unacked,   \* ghost: accepted replies whose acceptance was never recorded
  faults     \* crashes and database failures so far

vars == <<jobs, removed, resetGen, up, sockets, op, dlv, outbox, posts,
          unacked, faults>>

----------------------------------------------------------------------------
(* Rows.  "absent" is a row not yet inserted, "purged" one deleted again.  *)

Waiting  == {"pending", "offered"}
Active   == {"pending", "offered", "running"}
Terminal == {"completed", "failed"}
Present  == Active \cup Terminal

Row == [event : EventId \cup {None}, createdAt : Nat,
        status : Present \cup {"absent", "purged"},
        runtimeId : Runtime \cup {None},
        claimedAge : Nat, ttl : Nat, completedAge : Nat,
        payload : BOOLEAN, response : {"none", "answer", "notice"},
        deliveryStatus : {"none", "pending", "delivering", "delivered", "failed"},
        deliveryOwner : {"none", "self", "dead"},
        deliveryAge : Nat, attempts : Nat]

AbsentRow == [event |-> None, createdAt |-> 0, status |-> "absent",
              runtimeId |-> None, claimedAge |-> 0, ttl |-> 0, completedAge |-> 0,
              payload |-> FALSE, response |-> "none", deliveryStatus |-> "none",
              deliveryOwner |-> "none", deliveryAge |-> 0, attempts |-> 0]

(* What each UPDATE does to a row it selects.  A finished row's claimed_at *)
(* and expires_at are never read again, so they are forgotten (0).         *)

Enqueued(e, now) ==
  [AbsentRow EXCEPT !.event = e, !.status = "pending", !.ttl = TurnTtl,
                    !.payload = TRUE, !.createdAt = now]

(* Mutant: a released offer keeps its runtime_id. *)
ReleasedKeepsOwner(row) == [row EXCEPT !.status = "pending", !.claimedAge = 0]

Released(row) ==
  [row EXCEPT !.status = "pending", !.runtimeId = None, !.claimedAge = 0]

Offered(row, r) ==
  [row EXCEPT !.status = "offered", !.runtimeId = r, !.claimedAge = 0]

Started(row) ==
  [row EXCEPT !.status = "running", !.claimedAge = 0, !.ttl = 0]

(* Mutant: payload_envelope is not cleared. *)
FinishedKeepsPrompt(row, outcome, reply) ==
  [row EXCEPT !.status = outcome, !.response = reply, !.deliveryStatus = "pending"]

Finished(row, outcome, reply) ==
  [row EXCEPT !.status = outcome, !.response = reply, !.payload = FALSE,
              !.deliveryStatus = "pending",
              !.completedAge = 0, !.claimedAge = 0, !.ttl = 0]

DeliveryClaimed(row) ==
  [row EXCEPT !.deliveryStatus = "delivering", !.deliveryOwner = "self",
              !.deliveryAge = 0]

DeliverySettled(row, outcome) ==
  [row EXCEPT !.deliveryStatus = outcome, !.deliveryOwner = "none",
              !.deliveryAge = 0, !.payload = FALSE, !.response = "none"]

DeliveryRequeued(row) ==
  [row EXCEPT !.deliveryStatus = "pending", !.deliveryOwner = "none", !.deliveryAge = 0]

Attempted(row) == [row EXCEPT !.attempts = @ + 1]

(* Mutant: a removal fails the job but not its delivery. *)
WithdrawnKeepsDelivery(row) == [row EXCEPT !.status = "failed", !.payload = FALSE]

Withdrawn(row) ==
  [DeliverySettled(row, "failed") EXCEPT !.status = "failed",
              !.claimedAge = 0, !.ttl = 0]

Purged(row) == [row EXCEPT !.status = "purged", !.completedAge = 0]

Abandoned(row) ==
  [row EXCEPT !.deliveryOwner = IF @ = "self" THEN "dead" ELSE @]

(* Sets of rows the queries select. *)

(* Mutants of the queries: a missing or too wide condition. *)
OfferedToAnyStatus(r)     == {j \in JobId : jobs[j].runtimeId = r}
RunningOrCompleted        == {j \in JobId : jobs[j].status \in {"running", "completed"}}
StaleOffersWithRunning    == {j \in JobId : /\ jobs[j].status \in {"offered", "running"}
                                            /\ jobs[j].claimedAge > OfferLease}
ExpiredOffers             == {j \in JobId : jobs[j].status = "offered" /\ jobs[j].ttl = 0}
UnsettledForgetsRunning   == {j \in JobId : \/ jobs[j].status \in Waiting
                                            \/ /\ jobs[j].status \in Present
                                               /\ jobs[j].deliveryStatus \in {"pending", "delivering"}}

OfferedTo(r)   == {j \in JobId : jobs[j].status = "offered" /\ jobs[j].runtimeId = r}
OwnedOffers(r) == {j \in OfferedTo(r) : jobs[j].ttl > 0}
Claimable      == {j \in JobId : jobs[j].status = "pending" /\ jobs[j].ttl > 0}
Pending        == {j \in JobId : jobs[j].status = "pending"}
WaitingJobs    == {j \in JobId : jobs[j].status \in Waiting}
Running        == {j \in JobId : jobs[j].status = "running"}
StaleOffers    == {j \in JobId : jobs[j].status = "offered" /\ jobs[j].claimedAge > OfferLease}
Stalled        == {j \in Running : jobs[j].claimedAge > RunningTimeout}
Expired        == {j \in WaitingJobs : jobs[j].ttl = 0}
Deliverable(row) ==
  /\ row.status \in Present
  /\ \/ row.deliveryStatus = "pending"
     \/ row.deliveryStatus = "delivering" /\ row.deliveryAge > DeliveryLease
Undelivered    == {j \in JobId : Deliverable(jobs[j])}
Retired        == {j \in JobId : /\ jobs[j].status \in Terminal
                                 /\ jobs[j].deliveryStatus \in {"delivered", "failed"}
                                 /\ jobs[j].completedAge > JobRetention}
Unsettled      == {j \in JobId : /\ jobs[j].status \in Present
                                 /\ \/ jobs[j].status \in Active
                                    \/ jobs[j].deliveryStatus \in {"pending", "delivering"}}

(* The oldest members of a set of jobs: ORDER BY created_at LIMIT 1. *)
Oldest(S) == {j \in S : \A k \in S : jobs[j].createdAt <= jobs[k].createdAt}

----------------------------------------------------------------------------
(* Frames written to the runtime.                                          *)

Frame(t, j)   == [type |-> t, job |-> j, gen |-> 0]
GenFrame(t, g) == [type |-> t, job |-> None, gen |-> g]
Silent        == [s \in Socket |-> <<>>]
Write(s, fs)  == outbox' = [Silent EXCEPT ![s] = fs]
Quiet         == outbox' = Silent

(* Operations and the delivery inside one. *)

NoOp  == [call |-> "none", phase |-> "none", todo |-> {}, caller |-> None, job |-> None]
NoDlv == [job |-> None, stage |-> "none"]

(* Mutant: an operation does not wait for the one that is running. *)
IdleIgnoresQueue == up

Idle  == up /\ op = NoOp

Begin(call, phase, todo) ==
  op' = [NoOp EXCEPT !.call = call, !.phase = phase, !.todo = todo]

Update(S, T(_)) == [j \in JobId |-> IF j \in S THEN T(jobs[j]) ELSE jobs[j]]

control == <<removed, resetGen, up, posts, unacked, faults>>

Init ==
  /\ jobs = [j \in JobId |-> AbsentRow]
  /\ removed = FALSE /\ resetGen = 0 /\ up = TRUE
  /\ sockets = [s \in Socket |-> None]
  /\ op = NoOp /\ dlv = NoDlv /\ outbox = Silent
  /\ posts = [j \in JobId |-> 0] /\ unacked = [j \in JobId |-> 0]
  /\ faults = 0

----------------------------------------------------------------------------
(* Sockets.                                                                *)

(* attachSocket: a removed claw refuses it.  A socket already attached for *)
(* the same runtime is replaced and its offers go back to the queue; the   *)
(* close event of a replaced socket later finds no attachment.             *)
Replaced(r) == {s \in Socket : sockets[s] = r}
Attached(s, r) == [t \in Socket |-> IF t = s THEN r
                                    ELSE IF t \in Replaced(r) THEN None ELSE sockets[t]]
ReleaseReplaced(r) == IF Replaced(r) = {} THEN jobs ELSE Update(OfferedTo(r), Released)

AttachSocket(s, r) ==
  /\ Idle /\ ~removed /\ sockets[s] = None
  /\ sockets' = Attached(s, r)
  /\ jobs' = ReleaseReplaced(r)
  /\ LET available == \E j \in JobId : jobs'[j].status = "pending" IN
     Write(s, <<GenFrame("runtime.ready", resetGen)>> \o
              (IF available THEN <<Frame("job.available", None)>> ELSE <<>>))
  /\ UNCHANGED <<op, dlv, control>>

(* webSocketClose, webSocketError: #detachSocket. *)
DetachSocket(s) ==
  /\ Idle /\ sockets[s] # None
  /\ jobs' = Update(OfferedTo(sockets[s]), Released)
  /\ sockets' = [sockets EXCEPT ![s] = None]
  /\ Quiet
  /\ UNCHANGED <<op, dlv, control>>

(* An administrator asks the runtimes to reconnect. *)
RestartRuntimeConnections ==
  /\ Idle
  /\ sockets' = [s \in Socket |-> None]
  /\ jobs' = Update({j \in JobId : jobs[j].status = "offered"}, Released)
  /\ Quiet
  /\ UNCHANGED <<op, dlv, control>>

Heartbeat(s) ==
  /\ Idle /\ sockets[s] # None
  /\ Write(s, <<GenFrame("runtime.heartbeat", resetGen)>>)
  /\ UNCHANGED <<jobs, sockets, op, dlv, control>>

----------------------------------------------------------------------------
(* Turns.                                                                  *)

(* #enqueueTurn: an event that already has a row is a duplicate and inserts *)
(* nothing; a removed claw refuses every turn.                              *)
EnqueueTurn(j, e) ==
  /\ Idle /\ ~removed
  /\ jobs[j].status = "absent"
  /\ \A k \in JobId : jobs[k].status \in Present => jobs[k].event # e
  /\ jobs' = [jobs EXCEPT ![j] =
       Enqueued(e, Cardinality({k \in JobId : jobs[k].status # "absent"}))]
  /\ outbox' = [s \in Socket |->
       IF sockets[s] # None THEN <<Frame("job.available", None)>> ELSE <<>>]
  /\ UNCHANGED <<sockets, op, dlv, control>>

(* #sendOffer: a payload that cannot be decrypted returns the job. *)
SendOffer(s, j) ==
  \/ /\ Write(s, <<Frame("job.turn", j)>>)
     /\ UNCHANGED jobs
  \/ /\ jobs' = Update({j}, Released)
     /\ Write(s, <<Frame("job.retry", None)>>)

(* #claim, a two-message handshake: the first claim marks the oldest        *)
(* pending job as offered and asks for a second, which sends the turn.      *)
Claim(s) ==
  /\ Idle /\ sockets[s] # None
  /\ LET r == sockets[s] IN
     \/ \E j \in Oldest(OwnedOffers(r)) : SendOffer(s, j)
     \/ /\ OwnedOffers(r) = {}
        /\ \E j \in Oldest(Claimable) : jobs' = [jobs EXCEPT ![j] = Offered(@, r)]
        /\ Write(s, <<Frame("job.retry", None)>>)
     \/ /\ OwnedOffers(r) = {} /\ Claimable = {}
        /\ Write(s, <<Frame("job.none", None)>>)
        /\ UNCHANGED jobs
  /\ UNCHANGED <<sockets, op, dlv, control>>

(* #start: a repeated start of the runtime's own running job is            *)
(* acknowledged again.                                                     *)
Start(s, j) ==
  /\ Idle /\ sockets[s] # None
  /\ LET r == sockets[s] IN
     \/ /\ j \in OfferedTo(r)
        /\ jobs' = [jobs EXCEPT ![j] = Started(@)]
        /\ Write(s, <<Frame("job.started.ack", j)>>)
     \/ /\ j \notin OfferedTo(r)
        /\ Write(s, <<Frame(IF j \in Running /\ jobs[j].runtimeId = r
                            THEN "job.started.ack" ELSE "runtime.error", j)>>)
        /\ UNCHANGED jobs
  /\ UNCHANGED <<sockets, op, dlv, control>>

RejectCompletion(s, j) == Write(s, <<Frame("runtime.error", j)>>)

(* #complete: records the outcome of the runtime's own running job, then   *)
(* delivers the reply before it acknowledges; a repeated completion of a   *)
(* finished job retries a pending delivery and is acknowledged again; a    *)
(* job that is not the runtime's own is rejected.                          *)
Complete(s, j, ok) ==
  /\ Idle /\ sockets[s] # None
  /\ LET mine == jobs[j].runtimeId = sockets[s]
         call(phase) == op' = [NoOp EXCEPT !.call = "complete", !.phase = phase,
                                           !.caller = s, !.job = j]
     IN
     \/ /\ mine /\ jobs[j].status \in Terminal
        /\ call("reack")
        /\ dlv' = IF jobs[j].deliveryStatus = "pending"
                  THEN [job |-> j, stage |-> "claim"] ELSE NoDlv
        /\ Quiet
        /\ UNCHANGED jobs
     \/ /\ mine /\ jobs[j].status = "running"
        /\ jobs' = [jobs EXCEPT ![j] = IF ok THEN Finished(@, "completed", "answer")
                                             ELSE Finished(@, "failed", "notice")]
        /\ call("ack")
        /\ dlv' = [job |-> j, stage |-> "claim"]
        /\ Quiet
     \/ /\ ~(mine /\ jobs[j].status \in Terminal \cup {"running"})
        /\ RejectCompletion(s, j)
        /\ UNCHANGED <<jobs, op, dlv>>
  /\ UNCHANGED <<sockets, control>>

(* An answer that is empty or too long is refused, whatever its job. *)
InvalidCompletion(s) ==
  /\ Idle /\ sockets[s] # None
  /\ Write(s, <<Frame("runtime.error", None)>>)
  /\ UNCHANGED <<jobs, sockets, op, dlv, control>>

----------------------------------------------------------------------------
(* Administration.                                                         *)

CancelPending ==
  /\ Idle
  /\ Begin("cancelPending", "cancel", WaitingJobs)
  /\ Quiet
  /\ UNCHANGED <<jobs, sockets, dlv, control>>

CancelActiveTurns ==
  /\ Idle /\ resetGen < MaxResets
  /\ resetGen' = resetGen + 1
  /\ Begin("cancelActiveTurns", "cancel", WaitingJobs)
  /\ Quiet
  /\ UNCHANGED <<jobs, sockets, dlv, removed, up, posts, unacked, faults>>

(* prepareForRemoval: one transaction sets the tombstone and withdraws     *)
(* every unsettled job, then every socket is closed.                       *)
PrepareForRemoval ==
  /\ Idle /\ resetGen <= MaxResets
  /\ removed' = TRUE
  /\ resetGen' = resetGen + 1
  /\ jobs' = Update(Unsettled, Withdrawn)
  /\ sockets' = [s \in Socket |-> None]
  /\ Quiet
  /\ UNCHANGED <<op, dlv, up, posts, unacked, faults>>

(* cleanupSweep, started by the process-wide cadence for every claw that   *)
(* has something to sweep: releases stale offers, then fails stalled       *)
(* turns, expires waiting ones, delivers what is undelivered, and purges.  *)
CleanupSweep ==
  /\ Idle /\ Unsettled \cup Retired # {}
  /\ jobs' = Update(StaleOffers, Released)
  /\ Begin("cleanupSweep", "fail", Stalled)
  /\ Quiet
  /\ UNCHANGED <<sockets, dlv, control>>

----------------------------------------------------------------------------
(* The steps of a running operation.                                       *)

Step(phase) == up /\ op.phase = phase /\ dlv = NoDlv
Done(j)     == op' = [op EXCEPT !.todo = @ \ {j}]
Enter(phase, todo) == op' = [op EXCEPT !.phase = phase, !.todo = todo]
Deliver(S, j) == dlv' = IF j \in S THEN [job |-> j, stage |-> "claim"] ELSE NoDlv

FailedRow(row) == Finished(row, "failed", "notice")

(* #cancelPending's loop leaves the delivery to a later sweep. *)
CancelNext(j) ==
  /\ Step("cancel") /\ j \in op.todo
  /\ jobs' = Update({j} \cap WaitingJobs, FailedRow)
  /\ Done(j)
  /\ UNCHANGED dlv

(* #failJob and #expireJob deliver at once. *)
FailNext(j) ==
  /\ Step("fail") /\ j \in op.todo
  /\ jobs' = Update({j} \cap Running, FailedRow)
  /\ Done(j)
  /\ Deliver(Running, j)

ExpireNext(j) ==
  /\ Step("expire") /\ j \in op.todo
  /\ jobs' = Update({j} \cap WaitingJobs, FailedRow)
  /\ Done(j)
  /\ Deliver(WaitingJobs, j)

DeliverNext(j) ==
  /\ Step("deliver") /\ j \in op.todo
  /\ Done(j)
  /\ Deliver({j}, j)
  /\ UNCHANGED jobs

EndPhase ==
  /\ op.todo = {} /\ UNCHANGED dlv
  /\ \/ /\ Step("cancel")
        /\ IF op.call = "cancelActiveTurns" THEN Enter("fail", Running) ELSE op' = NoOp
        /\ UNCHANGED jobs
     \/ /\ Step("fail")
        /\ IF op.call = "cleanupSweep" THEN Enter("expire", Expired) ELSE op' = NoOp
        /\ UNCHANGED jobs
     \/ /\ Step("expire")
        /\ Enter("deliver", Undelivered)
        /\ UNCHANGED jobs
     \/ /\ Step("deliver")
        /\ jobs' = Update(Retired, Purged)
        /\ op' = NoOp

(* The end of #complete, after #deliver has returned. *)
Acknowledge ==
  /\ \/ /\ Step("reack")
        /\ Write(op.caller, <<Frame("job.ack", op.job)>>)
     \/ /\ Step("ack")
        /\ Write(op.caller, <<Frame("job.ack", op.job)>> \o
             (IF Pending # {} THEN <<Frame("job.available", None)>> ELSE <<>>))
  /\ op' = NoOp
  /\ UNCHANGED <<jobs, sockets, dlv, control>>

----------------------------------------------------------------------------
(* #deliver: claim the lease, post, record the outcome under the lease.    *)

At(stage) == up /\ dlv.stage = stage
GoTo(stage) == dlv' = [dlv EXCEPT !.stage = stage]
(* Mutant: the outcome is written whoever holds the lease. *)
HeldByAnyone(j) == {k \in {j} : jobs[k].status \in Present}

Held(j) == {k \in {j} : /\ jobs[k].status \in Present
                        /\ jobs[k].deliveryStatus = "delivering"
                        /\ jobs[k].deliveryOwner = "self"}

(* Without a Slack token the delivery fails without an outbound request. *)
DeliverClaim ==
  /\ At("claim")
  /\ IF Deliverable(jobs[dlv.job])
     THEN /\ jobs' = Update({dlv.job}, DeliveryClaimed)
          /\ GoTo(IF SlackConfigured THEN "post" ELSE "unsendable")
     ELSE dlv' = NoDlv /\ UNCHANGED jobs
  /\ UNCHANGED <<posts, unacked>>

(* chat.postMessage (external): Slack may accept the post and the response *)
(* may be lost, refuse it retryably, or refuse it for good.                *)
DeliverPost ==
  /\ At("post")
  /\ \/ /\ GoTo("accepted")
        /\ posts' = [posts EXCEPT ![dlv.job] = @ + 1]
        /\ UNCHANGED unacked
     \/ /\ GoTo("retry")
        /\ posts' = [posts EXCEPT ![dlv.job] = @ + 1]
        /\ unacked' = [unacked EXCEPT ![dlv.job] = @ + 1]
     \/ /\ \/ GoTo("retry")
           \/ GoTo("reject")
        /\ UNCHANGED <<posts, unacked>>
  /\ UNCHANGED jobs

DeliveryRefused(row, retryable) ==
  IF retryable /\ row.attempts < MaxAttempts THEN DeliveryRequeued(row)
  ELSE DeliverySettled(row, "failed")

DeliveryOutcome(stage, row) ==
  CASE stage = "accepted"   -> DeliverySettled(row, "delivered")
    [] stage = "unsendable" -> DeliverySettled(row, "failed")
    [] OTHER                -> DeliveryRefused(Attempted(row), stage = "retry")

Record(stage) ==
  LET Outcome(row) == DeliveryOutcome(stage, row)
  IN jobs' = Update(Held(dlv.job), Outcome)

DeliverRecord ==
  /\ up /\ dlv.stage \in {"accepted", "retry", "reject", "unsendable"}
  /\ Record(dlv.stage)
  /\ dlv' = NoDlv
  /\ UNCHANGED <<posts, unacked>>

----------------------------------------------------------------------------
(* Faults and time.                                                        *)

Forget(j) == [unacked EXCEPT ![j] = @ + 1]

(* The write of 'delivered' fails, before or after it is applied: the      *)
(* catch block treats the accepted post as a retryable failure.            *)
RecordFails ==
  /\ At("accepted") /\ faults < MaxFaults
  /\ faults' = faults + 1
  /\ GoTo("retry")
  /\ \/ unacked' = Forget(dlv.job) /\ UNCHANGED jobs
     \/ Record("accepted") /\ UNCHANGED unacked
  /\ Quiet
  /\ UNCHANGED <<removed, resetGen, up, sockets, op, posts>>

(* Any other statement of a running operation fails: the operation rejects *)
(* and the next one in #serialize's queue runs.  (A statement that was     *)
(* applied although it failed is its step, followed by this one.)          *)
OperationFails ==
  /\ up /\ op # NoOp /\ faults < MaxFaults
  /\ dlv.stage # "accepted"
  /\ faults' = faults + 1
  /\ op' = NoOp /\ dlv' = NoDlv
  /\ Quiet
  /\ UNCHANGED <<jobs, removed, resetGen, up, sockets, posts, unacked>>

(* The socket operations change #sockets before they write: when releasing *)
(* the offers fails they stay offered to a runtime that is gone.  When a   *)
(* later query of attachSocket fails the new socket is dropped.            *)
SocketOperationFails ==
  /\ Idle /\ faults < MaxFaults
  /\ faults' = faults + 1
  /\ \/ \E s \in Socket : /\ sockets[s] # None
                          /\ sockets' = [sockets EXCEPT ![s] = None]
                          /\ UNCHANGED jobs
     \/ /\ sockets' = [s \in Socket |-> None]
        /\ UNCHANGED jobs
     \/ \E s \in Socket, r \in Runtime :
          /\ ~removed /\ sockets[s] = None
          /\ \/ /\ Replaced(r) # {}
                /\ sockets' = Attached(s, r)
                /\ UNCHANGED jobs
             \/ /\ sockets' = [Attached(s, r) EXCEPT ![s] = None]
                /\ jobs' = ReleaseReplaced(r)
  /\ Quiet
  /\ UNCHANGED <<op, dlv, removed, resetGen, up, posts, unacked>>

(* The process dies.  Its delivery owner id is random and dies with it. *)
Crash ==
  /\ up /\ faults < MaxFaults
  /\ up' = FALSE
  /\ faults' = faults + 1
  /\ sockets' = [s \in Socket |-> None]
  /\ op' = NoOp /\ dlv' = NoDlv
  /\ jobs' = Update(JobId, Abandoned)
  /\ unacked' = IF dlv.stage = "accepted" THEN Forget(dlv.job) ELSE unacked
  /\ Quiet
  /\ UNCHANGED <<removed, resetGen, posts>>

Restart ==
  /\ ~up /\ up' = TRUE
  /\ Quiet
  /\ UNCHANGED <<jobs, removed, resetGen, sockets, op, dlv, posts, unacked, faults>>

Aged(age, bound) == IF age > bound THEN age ELSE age + 1

TtlLeft(row) ==
  IF row.status \in Waiting /\ row.ttl > 0 THEN row.ttl - 1 ELSE row.ttl

ClaimAge(row) ==
  IF row.status = "offered" THEN Aged(row.claimedAge, OfferLease)
  ELSE IF row.status = "running" THEN Aged(row.claimedAge, RunningTimeout)
  ELSE row.claimedAge

LeaseAge(row) ==
  IF row.status \in Present /\ row.deliveryStatus = "delivering"
  THEN Aged(row.deliveryAge, DeliveryLease) ELSE row.deliveryAge

CompletionAge(row) ==
  IF row.status \in Terminal THEN Aged(row.completedAge, JobRetention)
  ELSE row.completedAge

Ticked(row) ==
  [row EXCEPT !.ttl = TtlLeft(row), !.claimedAge = ClaimAge(row),
              !.deliveryAge = LeaseAge(row), !.completedAge = CompletionAge(row)]

Tick ==
  /\ op = NoOp
  /\ jobs' = Update(JobId, Ticked)
  /\ Quiet
  /\ UNCHANGED <<sockets, op, dlv, control>>

----------------------------------------------------------------------------
RuntimeFrame(s) ==
  \/ Heartbeat(s)
  \/ InvalidCompletion(s)
  \/ Claim(s)
  \/ \E j \in JobId : Start(s, j)
  \/ \E j \in JobId, ok \in BOOLEAN : Complete(s, j, ok)

Connections ==
  \/ \E s \in Socket, r \in Runtime : AttachSocket(s, r)
  \/ \E s \in Socket : DetachSocket(s)
  \/ RestartRuntimeConnections

Administration ==
  \/ CancelPending
  \/ CancelActiveTurns
  \/ PrepareForRemoval

OperationStep ==
  \/ Acknowledge
  \/ /\ \/ \E j \in JobId : \/ CancelNext(j)
                            \/ FailNext(j)
                            \/ ExpireNext(j)
                            \/ DeliverNext(j)
        \/ EndPhase
     /\ Quiet /\ UNCHANGED <<sockets, control>>
  \/ /\ \/ DeliverClaim
        \/ DeliverPost
        \/ DeliverRecord
     /\ Quiet /\ UNCHANGED <<sockets, op, removed, resetGen, up, faults>>

Fault == RecordFails \/ OperationFails \/ SocketOperationFails \/ Crash

Next ==
  \/ \E j \in JobId, e \in EventId : EnqueueTurn(j, e)
  \/ \E s \in Socket : RuntimeFrame(s)
  \/ Connections
  \/ Administration
  \/ CleanupSweep
  \/ OperationStep
  \/ Fault
  \/ Restart
  \/ Tick

Spec == Init /\ [][Next]_vars

(* The process-wide setInterval sweeps every minute, #serialize runs the   *)
(* operations queued behind one another in order (so neither the sweep nor *)
(* the clock waits for ever on other operations), an operation's next      *)
(* statement is eventually answered, and ECS restarts a dead task.  A      *)
(* runtime or an administrator owes nothing.                               *)
Fairness ==
  /\ WF_vars(OperationStep)
  /\ WF_vars(Restart)
  /\ SF_vars(CleanupSweep)
  /\ SF_vars(Tick)

FairSpec == Spec /\ Fairness

----------------------------------------------------------------------------
(* Properties.                                                             *)

Calls  == {"none", "complete", "cancelPending", "cancelActiveTurns", "cleanupSweep"}
Phases == {"none", "ack", "reack", "cancel", "fail", "expire", "deliver"}
Stages == {"none", "claim", "post", "accepted", "retry", "reject", "unsendable"}

TypeOK ==
  /\ jobs \in [JobId -> Row]
  /\ removed \in BOOLEAN /\ resetGen \in Nat /\ up \in BOOLEAN
  /\ sockets \in [Socket -> Runtime \cup {None}]
  /\ op \in [call : Calls, phase : Phases, todo : SUBSET JobId,
             caller : Socket \cup {None}, job : JobId \cup {None}]
  /\ dlv \in [job : JobId \cup {None}, stage : Stages]
  /\ posts \in [JobId -> Nat] /\ unacked \in [JobId -> Nat]
  /\ faults \in Nat

(* A job that is still to run keeps its encrypted prompt and has no reply; *)
(* a job that owes a reply has exactly the reply its outcome calls for and *)
(* no prompt; a settled or deleted job keeps neither.  Every UPDATE of the *)
(* coordinator must clear or set both envelopes together with the two      *)
(* status columns: one that forgets leaves a prompt at rest, or a delivery *)
(* that has nothing to send.                                               *)
RowEnvelopes(row) ==
  /\ row.status \in Active =>
       row.payload /\ row.response = "none" /\ row.deliveryStatus = "none"
  /\ row.status \notin Active => ~row.payload
  /\ row.deliveryStatus \in {"pending", "delivering"} =>
       /\ row.status = "completed" => row.response = "answer"
       /\ row.status = "failed" => row.response = "notice"
  /\ row.status \in Terminal => row.deliveryStatus # "none"
  /\ row.deliveryStatus \in {"none", "delivered", "failed"} => row.response = "none"
  /\ row.deliveryStatus # "none" => row.status \notin Active \cup {"absent"}

EnvelopesMatchStatus == \A j \in JobId : RowEnvelopes(jobs[j])

(* A job handed to a runtime names it, and a job in the queue names none:  *)
(* #start and #complete decide ownership by runtime_id alone, so a release *)
(* that kept the id would let a runtime start a job it no longer holds.    *)
(* A runtime holds at most one offer it may still start a turn from.       *)
OffersExclusive ==
  /\ \A j \in JobId :
       /\ jobs[j].status = "pending" => jobs[j].runtimeId = None
       /\ jobs[j].status \in {"offered", "running"} => jobs[j].runtimeId \in Runtime
  /\ \A r \in Runtime : \A j, k \in OwnedOffers(r) : j = k

(* The outcome of a delivery in progress is written to a row this process  *)
(* still holds the lease of: neither a sweep, a repeated completion, a     *)
(* cancellation nor a removal can take the row away under a Slack post,    *)
(* although the post may outlast the lease.  A retry alone may find its    *)
(* row released, and then only because 'delivered' was recorded after all. *)
LeaseHeldWhilePosting ==
  dlv.stage \in {"post", "accepted", "retry", "reject", "unsendable"} =>
    /\ jobs[dlv.job].status \in Terminal
    /\ \/ /\ jobs[dlv.job].deliveryStatus = "delivering"
          /\ jobs[dlv.job].deliveryOwner = "self"
       \/ dlv.stage = "retry" /\ jobs[dlv.job].deliveryStatus = "delivered"

(* Every reply Slack accepted is either the recorded delivery of the job,  *)
(* or the one just accepted and not yet recorded, or one whose acceptance  *)
(* was lost (response, write or process).  So a duplicate reply needs a    *)
(* loss, and 'delivered' is never recorded without an accepted post.       *)
RepliesAccounted ==
  \A j \in JobId :
    posts[j] = unacked[j] + (IF \/ jobs[j].deliveryStatus = "delivered"
                                \/ dlv.job = j /\ dlv.stage = "accepted"
                             THEN 1 ELSE 0)

(* Once the tombstone is set the claw has no work and no runtime: nothing  *)
(* is waiting, running or owed, and no socket is attached, whatever was in *)
(* progress, and whatever arrives or restarts later.                       *)
RemovalIsFinal ==
  removed => /\ \A j \in JobId : j \notin Unsettled
             /\ \A s \in Socket : sockets[s] = None
             /\ dlv = NoDlv

(* No reply is posted for a removed claw. *)
NoPostAfterRemoval == [][removed => posts' = posts]_vars

(* A turn that started is never offered again: no release, sweep, restart  *)
(* or reconnect sends a running job back to the queue, so the agent does   *)
(* not run the same prompt twice because of the coordinator.               *)
StartedNeverRequeued ==
  [][\A j \in JobId : jobs[j].status = "running" => jobs'[j].status \notin Waiting]_vars

(* An outcome is final: a finished job keeps its outcome until it is       *)
(* deleted, except that a removal may turn an answer that was never        *)
(* delivered into a failure.                                               *)
OutcomeIsFinal ==
  [][\A j \in JobId : jobs[j].status \in Terminal =>
       \/ jobs'[j].status \in {jobs[j].status, "purged"}
       \/ /\ removed' /\ jobs'[j].status = "failed"
          /\ jobs[j].deliveryStatus \in {"pending", "delivering"}]_vars

(* Every accepted turn is settled: its reply is delivered, or delivery is  *)
(* given up, although runtimes may vanish, never start or never complete,  *)
(* Slack may refuse, and the process may crash between any two writes.     *)
EveryTurnSettles ==
  \A j \in JobId :
    jobs[j].status \in Active ~> jobs[j].deliveryStatus \in {"delivered", "failed"}

(* How the running operation constrains the rest: a process that is down   *)
(* runs nothing and holds no socket; a delivery belongs to an operation;   *)
(* a completion about to be acknowledged is recorded; and a removed claw   *)
(* runs only operations that have nothing to do.                           *)
OperationShape ==
  /\ ~up => op = NoOp /\ \A s \in Socket : sockets[s] = None
  /\ op = NoOp => dlv = NoDlv
  /\ IF dlv.stage = "none" THEN dlv = NoDlv ELSE dlv.job \in JobId
  /\ op.phase \in {"ack", "reack"} =>
       op.caller \in Socket /\ op.job \in JobId /\ jobs[op.job].status \in Terminal
  /\ removed => op.todo = {} /\ op.phase \notin {"ack", "reack"}

(* The inductive invariant of the proofs. *)
IInv ==
  /\ TypeOK
  /\ EnvelopesMatchStatus
  /\ OffersExclusive
  /\ LeaseHeldWhilePosting
  /\ RepliesAccounted
  /\ RemovalIsFinal
  /\ OperationShape

----------------------------------------------------------------------------
(* What the queue promises, and that it keeps the promise.                 *)

PhaseOf(row) ==
  CASE row.status = "absent"  -> "new"
    [] row.status \in Waiting -> "accepted"
    [] row.status = "running" -> "working"
    [] row.status = "purged"  -> "forgotten"
    [] OTHER -> CASE row.deliveryStatus = "delivered" -> "delivered"
                  [] row.deliveryStatus = "failed"    -> "abandoned"
                  [] OTHER                            -> "answered"

Replies == INSTANCE TurnReplies WITH
  phase  <- [j \in JobId |-> PhaseOf(jobs[j])],
  posts  <- posts,
  closed <- removed

(* The coordinator implements TurnReplies: across releases, sweeps,        *)
(* retries, crashes and restarts, each turn is started at most once,       *)
(* answered once, posted only while its answer is owed and its claw        *)
(* exists, and recorded as delivered only after a post.                    *)
ImplementsTurnReplies == Replies!Spec

=============================================================================
