-------------------------- MODULE EdgeCoordinator --------------------------
(***************************************************************************)
(* The turn queue of one claw on Cloudflare (worker/claw-coordinator.ts,   *)
(* class CrabhelmClawCoordinator, a Durable Object).                       *)
(*                                                                         *)
(* A handler runs alone until it awaits something outside the object's     *)
(* storage: encryption, decryption or the Slack post.  There it is         *)
(* suspended, and other requests, frames and the alarm go ahead; what it   *)
(* selected before the await may be stale when it resumes.  A suspended    *)
(* handler is a member of `tasks', a Slack post one of `deliveries' (the   *)
(* map #deliveries).  SQL statements and awaits of the object's storage    *)
(* let nothing in between.                                                 *)
(*                                                                         *)
(* The object may be evicted: rows, alarm and sockets stay, suspended      *)
(* handlers are lost, and an alarm that had not finished is fired again.   *)
(*                                                                         *)
(* A limit on a row's age (offer lease, running limit, retention, expiry)  *)
(* has passed or has not: `late' is about the limit of the row's present   *)
(* status, `expired' about expires_at.  The runtime may send any frame on  *)
(* any socket.  A claw has one runtime identity, crabbox:<clawId>, so      *)
(* runtime_id is that one or NULL.                                         *)
(***************************************************************************)
EXTENDS Integers, FiniteSets, Sequences

CONSTANTS
  JobId,           \* turn job ids
  EventId,         \* Slack event ids
  Socket,          \* runtime WebSockets
  None,            \* SQL NULL, and "no socket", "no job"
  MaxAttempts,     \* delivery attempts before a retryable failure is final
  SlackConfigured, \* Slack ingress and a bot token are configured
  MaxTasks,        \* bound: suspended requests and frames at a time
  MaxResets,       \* bound: resets and removals
  MaxCrashes,      \* bound: evictions
  MaxLosses        \* bound: Slack answers that are lost

ASSUME EdgeAssumption ==
  /\ IsFiniteSet(JobId)
  /\ None \notin JobId \cup EventId \cup Socket
  /\ MaxAttempts \in Nat \ {0} /\ SlackConfigured \in BOOLEAN
  /\ {MaxTasks, MaxResets, MaxCrashes, MaxLosses} \subseteq Nat

VARIABLES
  jobs,       \* the turn_jobs table: a row for every job id
  sockets,    \* "free", "open", "closing" (close() was called), "disabled" too
  alarm,      \* an alarm is set
  tasks,      \* handlers suspended at an await
  deliveries, \* per job, how far the post in #deliveries is
  resetGen,   \* runtime-reset-generation
  removed,    \* ghost: prepareForRemoval has run
  posts,      \* ghost: answers Slack accepted, per job
  lost,       \* ghost: accepted answers the object never heard of, per job
  crashes

ghosts == <<removed, posts, lost, crashes>>
vars == <<jobs, sockets, alarm, tasks, deliveries, resetGen, ghosts>>

----------------------------------------------------------------------------
(* Rows. *)

Waiting  == {"pending", "offered"}
Active   == Waiting \cup {"running"}
Terminal == {"completed", "failed"}
Present  == Active \cup Terminal

Row == [event : EventId \cup {None}, status : Present \cup {"absent", "purged"},
        owned : BOOLEAN, late : BOOLEAN, expired : BOOLEAN,
        response : {"none", "answer", "notice"},
        delivery : {"none", "pending", "delivered", "failed"}, attempts : Nat]

AbsentRow == [event |-> None, status |-> "absent", owned |-> FALSE, late |-> FALSE,
              expired |-> FALSE, response |-> "none", delivery |-> "none", attempts |-> 0]

Enqueued(e) == [AbsentRow EXCEPT !.event = e, !.status = "pending"]

Released(row) == [row EXCEPT !.status = "pending", !.owned = FALSE, !.late = FALSE]

Finished(row, outcome, reply) ==
  [row EXCEPT !.status = outcome, !.response = reply, !.delivery = "pending", !.late = FALSE]

Settled(row, outcome) == [row EXCEPT !.delivery = outcome, !.response = "none"]

HasStatus(S)    == {j \in JobId : jobs[j].status \in S}
Update(S, Op(_)) == jobs' = [j \in JobId |-> IF j \in S THEN Op(jobs[j]) ELSE jobs[j]]

(* #hasWork, on the table t. *)
HasWork(t) == \E j \in JobId : t[j].status \in Active \/ t[j].delivery = "pending"

(* #scheduleCleanup. *)
Schedule == alarm' = TRUE

----------------------------------------------------------------------------
(* #deliver(job) on a table t: the call joins a post that is under way; if *)
(* the row is no longer pending there is nothing to do; without Slack the  *)
(* delivery fails at once; otherwise the row is read, once, and what it    *)
(* holds is decrypted and posted.  A claim that failed has left no         *)
(* response, so that there is nothing to decrypt.                          *)

Deliverable(t, j) == deliveries[j] = "none" /\ t[j].delivery = "pending"

PostOf(row) == IF row.response = "none" THEN "empty" ELSE "posting"

(* Mutant: a call does not join the post that is under way. *)
DeliveryJoinsNone(t, j) ==
  IF t[j].delivery = "pending" /\ SlackConfigured
    THEN [deliveries EXCEPT ![j] = PostOf(t[j])] ELSE deliveries

DeliveryOf(t, j) ==
  IF Deliverable(t, j) /\ SlackConfigured
    THEN [deliveries EXCEPT ![j] = PostOf(t[j])] ELSE deliveries

RowsAfterDeliver(t, j) ==
  IF Deliverable(t, j) /\ ~SlackConfigured
    THEN [t EXCEPT ![j] = Settled(@, "failed")] ELSE t

Deliver(t, j) ==
  /\ jobs' = RowsAfterDeliver(t, j)
  /\ deliveries' = DeliveryOf(t, j)

(* The decryption and the post of what was read, whatever has become of    *)
(* the row since: Slack accepts it, accepts it and the answer is lost,     *)
(* refuses it for now or for good.  Decrypting nothing fails for now.      *)
SlackAnswers(j) ==
  /\ \/ /\ deliveries[j] = "posting"
        /\ deliveries' = [deliveries EXCEPT ![j] = "accepted"]
        /\ posts' = [posts EXCEPT ![j] = @ + 1]
        /\ UNCHANGED lost
     \/ /\ deliveries[j] = "posting" /\ lost[j] < MaxLosses
        /\ deliveries' = [deliveries EXCEPT ![j] = "retry"]
        /\ posts' = [posts EXCEPT ![j] = @ + 1]
        /\ lost' = [lost EXCEPT ![j] = @ + 1]
     \/ /\ deliveries[j] \in {"posting", "empty"}
        /\ deliveries' = [deliveries EXCEPT ![j] = "retry"]
        /\ UNCHANGED <<posts, lost>>
     \/ /\ deliveries[j] = "posting"
        /\ deliveries' = [deliveries EXCEPT ![j] = "final"]
        /\ UNCHANGED <<posts, lost>>
  /\ UNCHANGED <<jobs, sockets, alarm, tasks, resetGen, removed, crashes>>

(* The outcome is recorded: only a retry looks at delivery_status again, a *)
(* final outcome overwrites what a removal wrote in the meantime.          *)
RecordDelivery(j) ==
  LET row     == jobs[j]
      tried   == row.attempts + 1
      again   == deliveries[j] = "retry" /\ tried < MaxAttempts
      counted == [row EXCEPT !.attempts = tried]
  IN /\ deliveries[j] \in {"accepted", "retry", "final"}
     /\ deliveries' = [deliveries EXCEPT ![j] = "none"]
     /\ jobs' = [jobs EXCEPT ![j] =
          IF row.status \notin Present THEN row
          ELSE IF deliveries[j] = "accepted" THEN Settled(row, "delivered")
          ELSE IF ~again THEN Settled(counted, "failed")
          ELSE IF row.delivery = "pending" THEN counted ELSE row]
     /\ IF again THEN Schedule ELSE UNCHANGED alarm
     /\ UNCHANGED <<sockets, tasks, resetGen, ghosts>>

----------------------------------------------------------------------------
(* Suspended handlers.                                                     *)
(*                                                                         *)
(* cancelPending, cancelActiveTurns and alarm go through rows in stages:   *)
(* each stage selects its rows when the one before is through, and awaits  *)
(* an encryption or a delivery for one row after the other.                *)

NoTask == [kind |-> None, stage |-> 0, todo |-> {}, job |-> None,
           wait |-> "crypto", event |-> None, socket |-> None, asOf |-> {}]

(* Mutant: the alarm does not fail turns that run too long. *)
StagesWithoutStall(kind) ==
  CASE kind = "cancel" -> <<"cancel">>
    [] kind = "reset"  -> <<"cancel", "fail">>
    [] kind = "alarm"  -> <<"expire", "deliver">>

Stages(kind) ==
  CASE kind = "cancel" -> <<"cancel">>
    [] kind = "reset"  -> <<"cancel", "fail">>
    [] kind = "alarm"  -> <<"stall", "expire", "deliver">>

Swept == {"cancel", "reset", "alarm"}

(* What a stage selects from the table t; the alarm compares with the time *)
(* it started at, when the rows of asOf had passed their limit.            *)
Selected(stage, t, asOf) ==
  CASE stage = "cancel"  -> {j \in JobId : t[j].status \in Waiting}
    [] stage = "fail"    -> {j \in JobId : t[j].status = "running"}
    [] stage = "stall"   -> {j \in asOf : t[j].status = "running" /\ t[j].late}
    [] stage = "expire"  -> {j \in asOf : t[j].status \in Waiting /\ t[j].expired}
    [] stage = "deliver" -> {j \in JobId : t[j].delivery = "pending"}

(* The task turns to its next row, of this stage or of the next stage that *)
(* selects one; {} when it is through.                                     *)
Resumed(task, t) ==
  LET stages == Stages(task.kind)
      later  == {i \in task.stage + 1 .. Len(stages) :
                   Selected(stages[i], t, task.asOf) # {}}
      first  == CHOOSE i \in later : \A k \in later : i <= k
      At(i, todo) == {[task EXCEPT !.stage = i, !.job = j, !.todo = todo \ {j},
                         !.wait = IF stages[i] = "deliver" THEN "delivery" ELSE "crypto"]
                      : j \in todo}
  IN IF task.todo # {} THEN At(task.stage, task.todo)
     ELSE IF later # {} THEN At(first, Selected(stages[first], t, task.asOf))
     ELSE {}

StageOf(task) == IF task.stage = 0 THEN None ELSE Stages(task.kind)[task.stage]

(* DELETE of rows long settled, at the end of the alarm. *)
Purged(t, asOf) ==
  [j \in JobId |->
     IF /\ t[j].status \in Terminal /\ t[j].late /\ j \in asOf
        /\ t[j].delivery \in {"delivered", "failed"}
       THEN [AbsentRow EXCEPT !.status = "purged"] ELSE t[j]]

(* Mutant: the alarm is not set again. *)
EndOfAlarmOnce(asOf, t) == jobs' = Purged(t, asOf) /\ UNCHANGED alarm

(* The end of the alarm: old rows go, and it is set again while there is   *)
(* work left.                                                              *)
EndOfAlarm(asOf, t) ==
  /\ jobs' = Purged(t, asOf)
  /\ IF HasWork(t) THEN Schedule ELSE UNCHANGED alarm

(* A sweep goes on with the table t: the task is replaced by the next one, *)
(* or ends.  cancelPending schedules the cleanup when it is through.       *)
GoOn(task, t) ==
  LET S        == Resumed(task, t)
      canceled == StageOf(task) = "cancel" /\ task.todo = {}
  IN \/ /\ S = {}
        /\ tasks' = tasks \ {task}
        /\ UNCHANGED deliveries
        /\ IF task.kind = "alarm" THEN EndOfAlarm(task.asOf, t)
           ELSE /\ jobs' = t
                /\ IF canceled THEN Schedule ELSE UNCHANGED alarm
     \/ \E next \in S :
        /\ tasks' = (tasks \ {task}) \cup {next}
        /\ IF next.wait = "delivery" THEN Deliver(t, next.job)
           ELSE jobs' = t /\ UNCHANGED deliveries
        /\ IF canceled THEN Schedule ELSE UNCHANGED alarm

(* The row's reply is encrypted: it is failed if it is still what the      *)
(* stage selected, by the WHERE of the UPDATE.  #failJob delivers it then. *)
FailSelected(task) ==
  LET j       == task.job
      stage   == StageOf(task)
      still   == jobs[j].status \in (IF stage \in {"cancel", "expire"} THEN Waiting ELSE {"running"})
      updated == IF still THEN [jobs EXCEPT ![j] = Finished(@, "failed", "notice")] ELSE jobs
  IN /\ task.kind \in Swept /\ task.wait = "crypto"
     /\ IF still /\ stage \in {"fail", "stall"}
          THEN /\ tasks' = (tasks \ {task}) \cup {[task EXCEPT !.wait = "delivery"]}
               /\ Deliver(updated, j)
               /\ UNCHANGED alarm
          ELSE GoOn(task, updated)
     /\ UNCHANGED <<sockets, resetGen, ghosts>>

(* The delivery a sweep waits for is over. *)
DeliveryOver(task) ==
  /\ task.kind \in Swept /\ task.wait = "delivery" /\ deliveries[task.job] = "none"
  /\ GoOn(task, jobs)
  /\ UNCHANGED <<sockets, resetGen, ghosts>>

----------------------------------------------------------------------------
(* Requests of the control plane.                                          *)

Requests == Cardinality({task \in tasks : task.kind # "alarm"})

Idle == Requests < MaxTasks

(* enqueueTurn up to the encryption of its prompt: a duplicate is answered *)
(* from the table.  Slack may send the same event again.                   *)
EnqueueTurn(j, e) ==
  LET task == [NoTask EXCEPT !.kind = "enqueue", !.job = j, !.event = e]
  IN /\ Idle /\ jobs[j].status = "absent" /\ \A other \in tasks : other.job # j
     /\ \A k \in JobId : jobs[k].event # e
     /\ tasks' = tasks \cup {task}
     /\ UNCHANGED <<jobs, sockets, alarm, deliveries, resetGen, ghosts>>

(* The INSERT: it throws when the event was inserted meanwhile.            *)
InsertTurn(task) ==
  /\ task.kind = "enqueue"
  /\ tasks' = tasks \ {task}
  /\ IF \E k \in JobId : jobs[k].event = task.event THEN UNCHANGED <<jobs, alarm>>
     ELSE jobs' = [jobs EXCEPT ![task.job] = Enqueued(task.event)] /\ Schedule
  /\ UNCHANGED <<sockets, deliveries, resetGen, ghosts>>

CancelPending ==
  /\ Idle
  /\ GoOn([NoTask EXCEPT !.kind = "cancel"], jobs)
  /\ UNCHANGED <<sockets, resetGen, ghosts>>

CancelActiveTurns ==
  /\ Idle /\ resetGen < MaxResets /\ resetGen' = resetGen + 1
  /\ GoOn([NoTask EXCEPT !.kind = "reset"], jobs)
  /\ UNCHANGED <<sockets, ghosts>>

(* prepareForRemoval: one UPDATE withdraws every turn and every reply that *)
(* is still owed; nothing keeps later turns from being enqueued.           *)
Withdrawn(row) ==
  IF row.status \in Active \/ row.delivery = "pending"
    THEN [Settled(row, "failed") EXCEPT !.status = "failed", !.late = FALSE] ELSE row

PrepareForRemoval ==
  /\ resetGen < MaxResets /\ resetGen' = resetGen + 1 /\ removed' = TRUE
  /\ Update(JobId, Withdrawn)
  /\ sockets' = [s \in Socket |-> IF sockets[s] = "open" THEN "closing" ELSE sockets[s]]
  /\ UNCHANGED <<alarm, tasks, deliveries, posts, lost, crashes>>

RestartRuntimeConnections ==
  /\ \E s \in Socket : sockets[s] \in {"open", "closing"}
  /\ sockets' = [s \in Socket |-> IF sockets[s] = "free" THEN "free" ELSE "disabled"]
  /\ Update(HasStatus({"offered"}), Released)
  /\ IF HasWork(jobs) THEN Schedule ELSE UNCHANGED alarm
  /\ UNCHANGED <<tasks, deliveries, resetGen, ghosts>>

----------------------------------------------------------------------------
(* The runtime's connections and frames.                                   *)

(* #releaseOffers: UPDATE ... WHERE status = 'offered' AND runtime_id = ?  *)
ReleaseOffers == Update({j \in HasStatus({"offered"}) : jobs[j].owned}, Released)

(* fetch: the sockets of the same runtime are closed, their offers go back.*)
Connect(s) ==
  /\ sockets[s] = "free"
  /\ sockets' = [q \in Socket |-> CASE q = s -> "open"
                                    [] q # s /\ sockets[q] = "open" -> "closing"
                                    [] OTHER -> sockets[q]]
  /\ IF \E q \in Socket : sockets[q] # "free" THEN ReleaseOffers ELSE UNCHANGED jobs
  /\ UNCHANGED <<alarm, tasks, deliveries, resetGen, ghosts>>

(* webSocketClose, webSocketError: the offers go back, even if another     *)
(* socket of the runtime has taken over.                                   *)
SocketClosed(s) ==
  /\ sockets[s] # "free"
  /\ sockets' = [sockets EXCEPT ![s] = "free"]
  /\ ReleaseOffers
  /\ IF HasWork(jobs) THEN Schedule ELSE UNCHANGED alarm
  /\ UNCHANGED <<tasks, deliveries, resetGen, ghosts>>

(* Frames are read until the socket is closed, unless it is disabled; what *)
(* is sent on a socket after close() throws.                               *)
Heard(s)  == sockets[s] \in {"open", "closing"}

Offer(j) == jobs[j].status = "offered" /\ jobs[j].owned

(* job.claim of a runtime with an offer: the prompt is decrypted. *)
ClaimOwned(s, j) ==
  LET task == [NoTask EXCEPT !.kind = "claim", !.job = j, !.socket = s]
  IN /\ Idle /\ Heard(s) /\ Offer(j) /\ ~jobs[j].expired
     /\ tasks' = tasks \cup {task}
     /\ UNCHANGED <<jobs, sockets, alarm, deliveries, resetGen, ghosts>>

(* The turn is sent; when that fails, the offer is withdrawn.              *)
SendTurn(task) ==
  /\ task.kind = "claim"
  /\ tasks' = tasks \ {task}
  /\ IF sockets[task.socket] = "open" /\ jobs[task.job].status \in Present
       THEN UNCHANGED <<jobs, alarm>>
       ELSE /\ Update({j \in {task.job} : Offer(j)}, Released)
            /\ Schedule
  /\ UNCHANGED <<sockets, deliveries, resetGen, ghosts>>

(* job.claim of a runtime without one: job.retry is sent, then a pending   *)
(* turn is offered to it.  When the send throws, the turn is failed, and   *)
(* no response is left for it.                                             *)
ClaimPending(s, j) ==
  /\ Heard(s) /\ \A k \in JobId : Offer(k) => jobs[k].expired
  /\ jobs[j].status = "pending" /\ ~jobs[j].expired
  /\ IF sockets[s] = "open"
       THEN /\ jobs' = [jobs EXCEPT ![j].status = "offered", ![j].owned = TRUE, ![j].late = FALSE]
            /\ UNCHANGED alarm
       ELSE /\ jobs' = [jobs EXCEPT ![j] = Finished(@, "failed", "none")]
            /\ Schedule
  /\ UNCHANGED <<sockets, tasks, deliveries, resetGen, ghosts>>

(* #start: job.started of an offer the runtime holds. *)
Start(s, j) ==
  /\ Heard(s) /\ Offer(j)
  /\ jobs' = [jobs EXCEPT ![j].status = "running", ![j].late = FALSE]
  /\ UNCHANGED <<sockets, alarm, tasks, deliveries, resetGen, ghosts>>

(* #complete of a turn the runtime has running: its answer is encrypted.   *)
CompleteRunning(s, j, outcome) ==
  LET task == [NoTask EXCEPT !.kind = outcome, !.job = j, !.socket = s]
  IN /\ Idle /\ Heard(s) /\ jobs[j].status = "running" /\ jobs[j].owned
     /\ tasks' = tasks \cup {task}
     /\ UNCHANGED <<jobs, sockets, alarm, deliveries, resetGen, ghosts>>

(* #complete repeated for a finished turn: its reply is delivered, if owed.*)
CompleteAgain(s, j) ==
  /\ Heard(s) /\ jobs[j].status \in Terminal /\ jobs[j].owned
  /\ Deliver(jobs, j)
  /\ UNCHANGED <<sockets, alarm, tasks, resetGen, ghosts>>

(* Mutant: the outcome is recorded whatever the row has become. *)
RecordCompletionAnyway(task) ==
  LET j == task.job
      t == [jobs EXCEPT ![j] = Finished(@, task.kind, "answer")]
  IN /\ task.kind \in Terminal
     /\ tasks' = tasks \ {task}
     /\ Deliver(t, j)
     /\ UNCHANGED <<sockets, alarm, resetGen, ghosts>>

(* The outcome is recorded if the turn is still running, and delivered.    *)
RecordCompletion(task) ==
  LET j == task.job
      t == IF jobs[j].status # "running" THEN jobs
           ELSE [jobs EXCEPT ![j] = Finished(@, task.kind,
                   IF task.kind = "completed" THEN "answer" ELSE "notice")]
  IN /\ task.kind \in Terminal
     /\ tasks' = tasks \ {task}
     /\ Deliver(t, j)
     /\ UNCHANGED <<sockets, alarm, resetGen, ghosts>>

----------------------------------------------------------------------------
(* Time and failure.                                                       *)

(* alarm(): offers not started in time go back, and the sweep begins.  One *)
(* alarm runs at a time.                                                   *)
Alarm ==
  LET t    == [j \in JobId |-> IF jobs[j].status = "offered" /\ jobs[j].late
                                 THEN Released(jobs[j]) ELSE jobs[j]]
      task == [NoTask EXCEPT !.kind = "alarm",
                 !.asOf = {j \in JobId : jobs[j].late \/ jobs[j].expired}]
      S    == Resumed(task, t)
  IN /\ alarm /\ \A other \in tasks : other.kind # "alarm"
     /\ \/ /\ S = {} /\ UNCHANGED <<tasks, deliveries>>
           /\ jobs' = Purged(t, task.asOf) /\ alarm' = HasWork(t)
        \/ \E next \in S :
           /\ tasks' = tasks \cup {next} /\ alarm' = FALSE
           /\ IF next.wait = "delivery" THEN Deliver(t, next.job)
              ELSE jobs' = t /\ UNCHANGED deliveries
     /\ UNCHANGED <<sockets, resetGen, ghosts>>

(* The limit of a row's status passes: 30 s for an offer, 17 minutes for a *)
(* running turn, 24 hours for a finished one.                              *)
LimitPasses(j) ==
  /\ jobs[j].status \in {"offered", "running"} \cup Terminal /\ ~jobs[j].late
  /\ jobs' = [jobs EXCEPT ![j].late = TRUE]
  /\ UNCHANGED <<sockets, alarm, tasks, deliveries, resetGen, ghosts>>

(* expires_at passes; it is read of waiting rows only. *)
Expire(j) ==
  /\ jobs[j].status \in Waiting /\ ~jobs[j].expired
  /\ jobs' = [jobs EXCEPT ![j].expired = TRUE]
  /\ UNCHANGED <<sockets, alarm, tasks, deliveries, resetGen, ghosts>>

(* The object is evicted: suspended handlers and posts are forgotten, also *)
(* those Slack has accepted.                                               *)
Evict ==
  /\ crashes < MaxCrashes /\ crashes' = crashes + 1
  /\ tasks' = {} /\ deliveries' = [j \in JobId |-> "none"]
  /\ alarm' = (alarm \/ \E task \in tasks : task.kind = "alarm")
  /\ lost' = [j \in JobId |-> IF deliveries[j] = "accepted" THEN lost[j] + 1 ELSE lost[j]]
  /\ UNCHANGED <<jobs, sockets, resetGen, removed, posts>>

----------------------------------------------------------------------------
Init ==
  /\ jobs = [j \in JobId |-> AbsentRow]
  /\ sockets = [s \in Socket |-> "free"]
  /\ alarm = FALSE /\ tasks = {} /\ deliveries = [j \in JobId |-> "none"]
  /\ resetGen = 0 /\ removed = FALSE /\ crashes = 0
  /\ posts = [j \in JobId |-> 0] /\ lost = [j \in JobId |-> 0]

TaskStep(task) ==
  FailSelected(task) \/ DeliveryOver(task) \/ InsertTurn(task) \/ SendTurn(task)
    \/ RecordCompletion(task)

Frame(s, j) ==
  \/ ClaimOwned(s, j) \/ ClaimPending(s, j) \/ Start(s, j) \/ CompleteAgain(s, j)
  \/ \E outcome \in Terminal : CompleteRunning(s, j, outcome)

Next ==
  \/ \E j \in JobId, e \in EventId : EnqueueTurn(j, e)
  \/ CancelPending \/ CancelActiveTurns \/ PrepareForRemoval \/ RestartRuntimeConnections
  \/ \E s \in Socket : Connect(s) \/ SocketClosed(s)
  \/ \E s \in Socket, j \in JobId : Frame(s, j)
  \/ \E task \in tasks : TaskStep(task)
  \/ \E j \in JobId : SlackAnswers(j) \/ RecordDelivery(j)
  \/ Alarm
  \/ \E j \in JobId : LimitPasses(j) \/ Expire(j)
  \/ Evict

(* What the platform owes: it resumes handlers, answers or times out posts,*)
(* fires the alarm that is set, and time passes.  Nothing is owed by the   *)
(* runtime, by Slack's users or by administrators.                         *)
Fairness ==
  /\ WF_vars(\E task \in tasks : TaskStep(task))
  /\ \A j \in JobId : /\ WF_vars(SlackAnswers(j) \/ RecordDelivery(j))
                      /\ WF_vars(LimitPasses(j)) /\ WF_vars(Expire(j))
  /\ WF_vars(Alarm)

Spec == Init /\ [][Next]_vars

FairSpec == Spec /\ Fairness

----------------------------------------------------------------------------
(* Properties.                                                             *)

Task == [kind : Swept \cup {"enqueue", "claim"} \cup Terminal, stage : 0 .. 3,
         todo : SUBSET JobId, job : JobId, wait : {"crypto", "delivery"},
         event : EventId \cup {None}, socket : Socket \cup {None}, asOf : SUBSET JobId]

(* Types, a part of EdgePostsAccounted; a finished turn has a delivery     *)
(* status, and one that is not has none.                                   *)
EdgeTypeOK ==
  /\ jobs \in [JobId -> Row] /\ alarm \in BOOLEAN /\ tasks \subseteq Task
  /\ sockets \in [Socket -> {"free", "open", "closing", "disabled"}]
  /\ deliveries \in [JobId -> {"none", "empty", "posting", "accepted", "retry", "final"}]
  /\ resetGen \in 0 .. MaxResets /\ crashes \in 0 .. MaxCrashes /\ removed \in BOOLEAN
  /\ posts \in [JobId -> Nat] /\ lost \in [JobId -> Nat]
  /\ \A j \in JobId : jobs[j].delivery # "none" <=> jobs[j].status \in Terminal

(* Whatever interleaves at the awaits of alarm(), #scheduleCleanup and the *)
(* sweeps, and however the object is evicted, there is an alarm to come or *)
(* one that is running while the queue holds work.                         *)
WorkHasAlarm ==
  HasWork(jobs) => alarm \/ \E task \in tasks : task.kind = "alarm"

(* #deliveries keeps two handlers from posting a reply twice: a second     *)
(* post follows only an accepted one the object never heard of.  A reply   *)
(* recorded as delivered was posted, also when a removal came in between.  *)
EdgePostsAccounted ==
  /\ EdgeTypeOK
  /\ \A j \in JobId : /\ posts[j] <= 1 + lost[j]
                      /\ jobs[j].delivery = "delivered" => posts[j] > 0

(* Every turn the coordinator accepts is settled: delivered, given up or   *)
(* withdrawn, whatever the runtime does and whenever the alarm is late.    *)
EdgeTurnSettles ==
  \A j \in JobId : jobs[j].status \in Active
    ~> jobs[j].delivery \in {"delivered", "failed"} \/ jobs[j].status = "purged"

PhaseOf(row) ==
  CASE row.status = "absent"  -> "new"
    [] row.status = "purged"  -> "forgotten"
    [] row.status \in Waiting -> "accepted"
    [] row.status = "running" -> "working"
    [] row.delivery = "pending"   -> "answered"
    [] row.delivery = "delivered" -> "delivered"
    [] row.delivery = "failed"    -> "abandoned"

Replies == INSTANCE TurnReplies WITH
  phase  <- [j \in JobId |-> PhaseOf(jobs[j])],
  posts  <- posts,
  closed <- FALSE

(* Until the claw is removed, the coordinator implements TurnReplies as    *)
(* the one on AWS does: stale selections, late frames and repeated alarms  *)
(* start no turn twice, answer none twice and post nothing that is not     *)
(* owed.  (A removal during a post is beyond TurnReplies: see the README.) *)
EdgeImplementsReplies == Replies!Init /\ [][removed' \/ Replies!Next]_(Replies!vars)

=============================================================================
