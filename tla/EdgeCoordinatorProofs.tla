------------------------ MODULE EdgeCoordinatorProofs ------------------------
(***************************************************************************)
(* Proofs about EdgeCoordinator, for any sets of turns, events and         *)
(* sockets, any number of suspended handlers, resets, evictions and lost   *)
(* answers.                                                                *)
(***************************************************************************)
EXTENDS EdgeCoordinator, TLAPS

(* What holds of a row, of the post of its reply that is under way (dlv),  *)
(* of the answers Slack accepted (p) and those the object never heard of   *)
(* (l), before and after a removal (gone).                                 *)
Sound(row, dlv, p, l, gone) ==
  /\ row.delivery # "none" <=> row.status \in Terminal
  /\ row.response # "none" => row.delivery = "pending"
  /\ dlv # "none" => row.status \in Terminal \cup {"purged"}
  /\ dlv # "none" /\ ~gone => row.delivery = "pending"
  /\ dlv = "accepted" \/ row.delivery = "delivered" => p > 0
  /\ p <= 1 + l
  /\ dlv \in {"empty", "posting"} => p <= l
  /\ row.delivery \in {"none", "pending"} /\ row.status # "purged" /\ dlv # "accepted" => p <= l

(* The same of a whole table, with the present posts. *)
TableSound(t) ==
  /\ t \in [JobId -> Row]
  /\ \A j \in JobId : Sound(t[j], deliveries[j], posts[j], lost[j], removed)

(* A sweep is in one of its stages; the stage that delivers encrypts       *)
(* nothing.                                                                *)
SweepSound(task) ==
  /\ task.kind = "cancel" => task.stage = 1
  /\ task.kind = "reset" => task.stage \in 1 .. 2
  /\ task.kind = "alarm" => task.stage \in 1 .. 3 /\ (task.wait = "crypto" => task.stage \in 1 .. 2)

(* Two requests never insert the same turn, and nothing else makes a row.  *)
EnqueuesSound ==
  \A q \in tasks : q.kind = "enqueue" =>
    /\ jobs[q.job].status = "absent"
    /\ \A other \in tasks : other.kind = "enqueue" /\ other.job = q.job => other = q

AlarmRuns == \E q \in tasks : q.kind = "alarm"

EdgeTypes ==
  /\ alarm \in BOOLEAN /\ tasks \subseteq Task
  /\ sockets \in [Socket -> {"free", "open", "closing", "disabled"}]
  /\ deliveries \in [JobId -> {"none", "empty", "posting", "accepted", "retry", "final"}]
  /\ resetGen \in 0 .. MaxResets /\ crashes \in 0 .. MaxCrashes /\ removed \in BOOLEAN
  /\ posts \in [JobId -> Nat] /\ lost \in [JobId -> Nat]

EdgeInv ==
  /\ EdgeTypes /\ TableSound(jobs)
  /\ \A q \in tasks : SweepSound(q)
  /\ EnqueuesSound /\ WorkHasAlarm

----------------------------------------------------------------------------
(* Rows.                                                                   *)

(* What the handlers make of a row: nothing the invariant is about,        *)
Keeps(row, new) ==
  /\ new.delivery = row.delivery /\ new.response = row.response
  /\ new.status = row.status \/ {row.status, new.status} \subseteq Waiting

(* a running turn of an offered one,                                       *)
Starts(row, new) ==
  /\ row.status \in Waiting /\ new.status = "running"
  /\ new.delivery = row.delivery /\ new.response = row.response

(* a finished turn with a reply that is owed,                              *)
Answers(row, new) ==
  row.status \in Active /\ new.status \in Terminal /\ new.delivery = "pending"

(* a turn of a free row,                                                   *)
Enters(row, new) ==
  /\ row.status = "absent" /\ new.status = "pending"
  /\ new.delivery = "none" /\ new.response = "none"

(* or a deleted row of one that is settled.                                *)
Forgets(row, new) ==
  /\ row.status \in Terminal /\ row.delivery \in {"delivered", "failed"}
  /\ new.status = "purged" /\ new.delivery = "none" /\ new.response = "none"

(* Whichever it is, the row stays sound.                                   *)
LEMMA RowStaysSound ==
  ASSUME NEW row \in Row, NEW new \in Row, NEW dlv, NEW p \in Nat, NEW l \in Nat, NEW gone \in BOOLEAN,
         Sound(row, dlv, p, l, gone),
         \/ Keeps(row, new) \/ Starts(row, new) \/ Answers(row, new)
         \/ Enters(row, new) \/ Forgets(row, new)
  PROVE  Sound(new, dlv, p, l, gone)
<1>1. CASE Keeps(row, new)
  BY <1>1 DEF Sound, Keeps, Waiting, Active, Terminal, Present, Row
<1>2. CASE Starts(row, new)
  BY <1>2 DEF Sound, Starts, Waiting, Active, Terminal, Present, Row
<1>3. CASE Answers(row, new)
  BY <1>3 DEF Sound, Answers, Waiting, Active, Terminal, Present, Row
<1>4. CASE Enters(row, new)
  BY <1>4 DEF Sound, Enters, Waiting, Active, Terminal, Present, Row
<1>5. CASE Forgets(row, new)
  BY <1>5 DEF Sound, Forgets, Waiting, Active, Terminal, Present, Row
<1> QED BY <1>1, <1>2, <1>3, <1>4, <1>5

(* The rows the statements of the coordinator write.                       *)
LEMMA WrittenRows ==
  ASSUME NEW row \in Row
  PROVE  /\ Keeps(row, row)
         /\ row.status \in Waiting => Released(row) \in Row /\ Keeps(row, Released(row))
         /\ \A outcome \in Terminal, reply \in {"none", "answer", "notice"} :
              row.status \in Active => Finished(row, outcome, reply) \in Row
                                       /\ Answers(row, Finished(row, outcome, reply))
         /\ \A outcome \in {"delivered", "failed"} :
              /\ Settled(row, outcome) \in Row
              /\ Settled(row, outcome).status = row.status
              /\ Settled(row, outcome).delivery = outcome /\ Settled(row, outcome).response = "none"
<1>1. Keeps(row, row) BY DEF Keeps
<1>2. ASSUME row.status \in Waiting PROVE Released(row) \in Row /\ Keeps(row, Released(row))
  BY <1>2 DEF Released, Keeps, Row, Waiting, Active, Present
<1>3. ASSUME NEW outcome \in Terminal, NEW reply \in {"none", "answer", "notice"}, row.status \in Active
      PROVE  Finished(row, outcome, reply) \in Row /\ Answers(row, Finished(row, outcome, reply))
  BY <1>3 DEF Finished, Answers, Row, Present
<1>4. ASSUME NEW outcome \in {"delivered", "failed"}
      PROVE  /\ Settled(row, outcome) \in Row
             /\ Settled(row, outcome).status = row.status
             /\ Settled(row, outcome).delivery = outcome /\ Settled(row, outcome).response = "none"
  BY DEF Settled, Row
<1> QED BY <1>1, <1>2, <1>3, <1>4

(* The row of a turn that was inserted or deleted.                         *)
LEMMA FreeRows ==
  /\ AbsentRow \in Row
  /\ [AbsentRow EXCEPT !.status = "purged"] \in Row
  /\ \A row : row.status \in Terminal /\ row.delivery \in {"delivered", "failed"}
                => Forgets(row, [AbsentRow EXCEPT !.status = "purged"])
  /\ \A e \in EventId \cup {None} : Enqueued(e) \in Row /\ \A row : row.status = "absent" => Enters(row, Enqueued(e))
<1>1. AbsentRow \in Row BY DEF AbsentRow, Row
<1>2. [AbsentRow EXCEPT !.status = "purged"] \in Row BY DEF AbsentRow, Row
<1>3. \A row : row.status \in Terminal /\ row.delivery \in {"delivered", "failed"}
                 => Forgets(row, [AbsentRow EXCEPT !.status = "purged"])
  BY DEF AbsentRow, Forgets
<1>4. \A e \in EventId \cup {None} : Enqueued(e) \in Row /\ \A row : row.status = "absent" => Enters(row, Enqueued(e))
  BY DEF AbsentRow, Row, Enqueued, Enters, Present, Active, Waiting
<1> QED BY <1>1, <1>2, <1>3, <1>4

----------------------------------------------------------------------------
(* Tables.                                                                 *)

(* A handler turns the table into t: rows are kept or deleted, but for one *)
(* turn that may be started or finished.                                   *)
Reaches(t) ==
  /\ t \in [JobId -> Row]
  /\ \/ \A j \in JobId : Keeps(jobs[j], t[j]) \/ Forgets(jobs[j], t[j])
     \/ \E i \in JobId : /\ Starts(jobs[i], t[i]) \/ Answers(jobs[i], t[i])
                         /\ \A j \in JobId \ {i} : Keeps(jobs[j], t[j])

(* Such a table is sound, holds no work where there was none, and leaves   *)
(* free rows free.                                                         *)
LEMMA ReachedSound ==
  ASSUME EdgeTypes, TableSound(jobs), NEW t, Reaches(t)
  PROVE  /\ TableSound(t)
         /\ HasWork(t) => HasWork(jobs)
         /\ \A j \in JobId : jobs[j].status = "absent" => t[j].status = "absent"
<1>1. ASSUME NEW j \in JobId
      PROVE  Keeps(jobs[j], t[j]) \/ Starts(jobs[j], t[j]) \/ Answers(jobs[j], t[j]) \/ Forgets(jobs[j], t[j])
  BY DEF Reaches
<1>2. TableSound(t)
  <2>1. t \in [JobId -> Row] /\ jobs \in [JobId -> Row] BY DEF Reaches, TableSound
  <2> SUFFICES ASSUME NEW j \in JobId
               PROVE  Sound(t[j], deliveries[j], posts[j], lost[j], removed)
    BY <2>1 DEF TableSound
  <2>2. posts[j] \in Nat /\ lost[j] \in Nat /\ removed \in BOOLEAN BY DEF EdgeTypes
  <2>3. t[j] \in Row /\ jobs[j] \in Row BY <2>1
  <2>4. Sound(jobs[j], deliveries[j], posts[j], lost[j], removed) BY DEF TableSound
  <2> QED BY <1>1, <2>2, <2>3, <2>4, RowStaysSound
<1>3. HasWork(t) => HasWork(jobs)
  BY <1>1 DEF HasWork, Keeps, Starts, Answers, Forgets, Active, Waiting, Terminal
<1>4. \A j \in JobId : jobs[j].status = "absent" => t[j].status = "absent"
  BY <1>1 DEF Keeps, Starts, Answers, Forgets, Active, Waiting, Terminal
<1> QED BY <1>2, <1>3, <1>4

(* #deliver on a sound table leaves one: it joins the post that is under   *)
(* way, begins one, or settles the reply.                                  *)
LEMMA DeliverSound ==
  ASSUME EdgeTypes, NEW t, TableSound(t), NEW j \in JobId, Deliver(t, j),
         UNCHANGED <<posts, lost, removed>>
  PROVE  /\ TableSound(jobs)'
         /\ deliveries' \in [JobId -> {"none", "empty", "posting", "accepted", "retry", "final"}]
         /\ HasWork(jobs)' => HasWork(t)
         /\ \A k \in JobId : t[k].status = "absent" => jobs'[k].status = "absent"
         /\ SlackConfigured => jobs' = t
<1>1. t \in [JobId -> Row] BY DEF TableSound
<1>2. CASE ~Deliverable(t, j)
  <2>1. jobs' = t /\ deliveries' = deliveries
    BY <1>2 DEF Deliver, RowsAfterDeliver, DeliveryOf
  <2> QED BY <2>1 DEF TableSound, EdgeTypes, HasWork
<1>3. CASE Deliverable(t, j) /\ SlackConfigured
  <2>1. PICK post \in {"empty", "posting"} :
          jobs' = t /\ deliveries' = [deliveries EXCEPT ![j] = post]
    BY <1>3 DEF Deliver, RowsAfterDeliver, DeliveryOf, PostOf
  <2>2. TableSound(jobs)'
    <3> SUFFICES ASSUME NEW k \in JobId PROVE Sound(t[k], deliveries'[k], posts[k], lost[k], removed)
      BY <1>1, <2>1 DEF TableSound
    <3>1. Sound(t[k], deliveries[k], posts[k], lost[k], removed) BY DEF TableSound
    <3>2. CASE k # j BY <2>1, <3>1, <3>2 DEF EdgeTypes
    <3>3. CASE k = j
      <4>1. deliveries'[k] = post /\ deliveries[k] = "none" /\ t[k].delivery = "pending"
        BY <1>3, <2>1, <3>3 DEF EdgeTypes, Deliverable
      <4>2. t[k].status # "purged" BY <3>1, <4>1 DEF Sound, Terminal
      <4> QED BY <3>1, <4>1, <4>2 DEF Sound
    <3> QED BY <3>2, <3>3
  <2> QED BY <2>1, <2>2 DEF EdgeTypes, HasWork
<1>4. CASE Deliverable(t, j) /\ ~SlackConfigured
  <2>1. jobs' = [t EXCEPT ![j] = Settled(@, "failed")] /\ deliveries' = deliveries
    BY <1>4 DEF Deliver, RowsAfterDeliver, DeliveryOf
  <2>2. t[j] \in Row /\ t[j].delivery = "pending" /\ deliveries[j] = "none"
    BY <1>1, <1>4 DEF Deliverable
  <2>3. /\ Settled(t[j], "failed") \in Row /\ Settled(t[j], "failed").status = t[j].status
        /\ Settled(t[j], "failed").delivery = "failed" /\ Settled(t[j], "failed").response = "none"
    BY <2>2, WrittenRows
  <2>4. jobs' \in [JobId -> Row] /\ jobs'[j] = Settled(t[j], "failed") /\ \A k \in JobId \ {j} : jobs'[k] = t[k]
    BY <1>1, <2>1, <2>3
  <2>5. TableSound(jobs)'
    <3> SUFFICES ASSUME NEW k \in JobId PROVE Sound(jobs'[k], deliveries[k], posts[k], lost[k], removed)
      BY <2>1, <2>4 DEF TableSound
    <3>1. Sound(t[k], deliveries[k], posts[k], lost[k], removed) BY DEF TableSound
    <3>2. CASE k # j BY <2>4, <3>1, <3>2
    <3>3. CASE k = j BY <2>2, <2>3, <2>4, <3>1, <3>3 DEF Sound
    <3> QED BY <3>2, <3>3
  <2>6. HasWork(jobs)' => HasWork(t) BY <2>2, <2>3, <2>4 DEF HasWork
  <2>7. \A k \in JobId : t[k].status = "absent" => jobs'[k].status = "absent" BY <2>3, <2>4
  <2> QED BY <1>4, <2>1, <2>5, <2>6, <2>7 DEF EdgeTypes
<1> QED BY <1>2, <1>3, <1>4

----------------------------------------------------------------------------
(* Sweeps.                                                                 *)

(* A task, or the call that becomes one: it has no job yet.                *)
Sweeper == [kind : Swept, stage : 0 .. 3, todo : SUBSET JobId, job : JobId \cup {None},
            wait : {"crypto", "delivery"}, event : EventId \cup {None},
            socket : Socket \cup {None}, asOf : SUBSET JobId]

(* A call is in no stage and has selected nothing.                         *)
Sweeps(task) ==
  /\ task \in Sweeper
  /\ IF task.stage = 0 THEN task.todo = {} ELSE SweepSound(task)

(* The stages of cancelPending, cancelActiveTurns and alarm.               *)
LEMMA StageNames ==
  /\ Len(Stages("cancel")) = 1 /\ Stages("cancel")[1] = "cancel"
  /\ Len(Stages("reset")) = 2 /\ Stages("reset")[1] = "cancel" /\ Stages("reset")[2] = "fail"
  /\ Len(Stages("alarm")) = 3 /\ Stages("alarm")[1] = "stall"
  /\ Stages("alarm")[2] = "expire" /\ Stages("alarm")[3] = "deliver"
BY DEF Stages

(* What a stage selects are turns.                                         *)
LEMMA SelectedJobs ==
  ASSUME NEW kind \in Swept, NEW i \in 1 .. Len(Stages(kind)), NEW t, NEW asOf \in SUBSET JobId
  PROVE  Selected(Stages(kind)[i], t, asOf) \subseteq JobId
<1>1. Stages(kind)[i] \in {"cancel", "fail", "stall", "expire", "deliver"}
  BY StageNames DEF Swept
<1> QED BY <1>1 DEF Selected

(* A set of stages has a first one.                                        *)
LEMMA FirstStage ==
  ASSUME NEW S \in SUBSET (1 .. 3), S # {}
  PROVE  LET first == CHOOSE i \in S : \A k \in S : i <= k
         IN  first \in S /\ \A k \in S : first <= k
<1>1. \E i \in S : \A k \in S : i <= k
  <2>1. CASE 1 \in S BY <2>1
  <2>2. CASE 1 \notin S /\ 2 \in S BY <2>2
  <2>3. CASE 1 \notin S /\ 2 \notin S
    <3>1. \A k \in S : k = 3 BY <2>3
    <3>2. 3 \in S BY <3>1
    <3> QED BY <3>1, <3>2
  <2> QED BY <2>1, <2>2, <2>3
<1> QED BY <1>1

(* A sweep goes on as a task of the same kind, in one of its stages; one   *)
(* that is through has left no turn in a stage to come.                    *)
LEMMA Resuming ==
  ASSUME NEW task, Sweeps(task), NEW t
  PROVE  /\ \A next \in Resumed(task, t) :
              next \in Task /\ next.kind = task.kind /\ SweepSound(next)
         /\ Resumed(task, t) = {} /\ task.kind = "alarm" /\ task.stage # 3 =>
              \A j \in JobId : t[j].delivery # "pending"
<1> DEFINE stages == Stages(task.kind)
           later  == {i \in task.stage + 1 .. Len(stages) : Selected(stages[i], t, task.asOf) # {}}
           first  == CHOOSE i \in later : \A k \in later : i <= k
           Row_(i, j, todo) == [task EXCEPT !.stage = i, !.job = j, !.todo = todo \ {j},
                                  !.wait = IF stages[i] = "deliver" THEN "delivery" ELSE "crypto"]
           At(i, todo) == {Row_(i, j, todo) : j \in todo}
<1>1. Resumed(task, t) = IF task.todo # {} THEN At(task.stage, task.todo)
                         ELSE IF later # {} THEN At(first, Selected(stages[first], t, task.asOf))
                         ELSE {}
  BY DEF Resumed
<1>2. /\ task \in Sweeper /\ task.kind \in Swept /\ task.todo \subseteq JobId
      /\ task.stage \in 0 .. 3 /\ task.asOf \in SUBSET JobId
  BY DEF Sweeps, Sweeper
<1>3. \A i \in 1 .. Len(stages) :
        /\ i \in 1 .. 3
        /\ task.kind = "cancel" => i = 1
        /\ task.kind = "reset" => i \in 1 .. 2
        /\ task.kind = "alarm" /\ i = 3 => stages[i] = "deliver"
  <2>1. CASE task.kind = "cancel"
    <3>1. Len(stages) = 1 BY <2>1, StageNames
    <3> HIDE DEF stages
    <3> QED BY <2>1, <3>1
  <2>2. CASE task.kind = "reset"
    <3>1. Len(stages) = 2 BY <2>2, StageNames
    <3> HIDE DEF stages
    <3> QED BY <2>2, <3>1
  <2>3. CASE task.kind = "alarm"
    <3>1. Len(stages) = 3 /\ stages[3] = "deliver" BY <2>3, StageNames
    <3> HIDE DEF stages
    <3> QED BY <2>3, <3>1
  <2> QED BY <1>2, <2>1, <2>2, <2>3 DEF Swept
<1>4. later \in SUBSET (1 .. 3) BY <1>2, <1>3
<1>5. later # {} => first \in later BY <1>4, FirstStage
<1>6. ASSUME NEW i, i \in 1 .. Len(stages), NEW todo \in SUBSET JobId, NEW next \in At(i, todo)
      PROVE  next \in Task /\ next.kind = task.kind /\ SweepSound(next)
  <2>1. PICK j \in todo : next = Row_(i, j, todo) BY <1>6
  <2>2. /\ i \in 1 .. 3
        /\ task.kind = "cancel" => i = 1
        /\ task.kind = "reset" => i \in 1 .. 2
        /\ task.kind = "alarm" /\ i = 3 => stages[i] = "deliver"
    BY <1>3, <1>6
  <2>9. next.wait = IF stages[i] = "deliver" THEN "delivery" ELSE "crypto"
    BY <1>2, <2>1 DEF Sweeper
  <2>3. next = [task EXCEPT !.stage = i, !.job = j, !.todo = todo \ {j}, !.wait = next.wait]
    BY <2>1, <2>9
  <2>7. todo \in SUBSET JobId BY <1>6
  <2>8. j \in JobId
    <3> HIDE DEF Row_
    <3> QED BY <2>1, <2>7
  <2>4. todo \ {j} \in SUBSET JobId /\ i \in 0 .. 3 /\ next.wait \in {"crypto", "delivery"}
    <3> HIDE DEF stages, Row_
    <3>1. next.wait \in {"crypto", "delivery"} BY <2>9
    <3>2. todo \ {j} \in SUBSET JobId BY <2>7
    <3>3. i \in 0 .. 3 BY <2>2
    <3> QED BY <3>1, <3>2, <3>3
  <2>5. next \in Task /\ next.kind = task.kind /\ next.stage = i
    BY <1>2, <2>3, <2>4, <2>8 DEF Sweeper, Task
  <2>6. task.kind = "alarm" /\ i = 3 => next.wait = "delivery" BY <2>2, <2>9
  <2> HIDE DEF stages, Row_
  <2> QED BY <2>2, <2>5, <2>6 DEF SweepSound
<1>7. task.todo # {} => task.stage \in 1 .. Len(stages)
  <2>1. task.todo # {} => task.stage # 0 /\ SweepSound(task) BY DEF Sweeps
  <2> QED BY <1>2, <2>1, StageNames DEF SweepSound, Swept
<1>8. \A i \in 1 .. Len(stages) : Selected(stages[i], t, task.asOf) \in SUBSET JobId
  BY <1>2, SelectedJobs
<1>9. later # {} => first \in 1 .. Len(stages) /\ Selected(stages[first], t, task.asOf) # {}
  <2>1. \A i \in later : i \in 1 .. Len(stages) /\ Selected(stages[i], t, task.asOf) # {}
    BY <1>2, <1>3
  <2> HIDE DEF later, first, stages
  <2> QED BY <1>5, <2>1
<1>10. \A next \in Resumed(task, t) : next \in Task /\ next.kind = task.kind /\ SweepSound(next)
  <2> HIDE DEF At, later, first, stages
  <2>1. CASE task.todo # {} BY <1>1, <1>2, <1>6, <1>7, <2>1
  <2>2. CASE task.todo = {} /\ later # {} BY <1>1, <1>6, <1>8, <1>9, <2>2
  <2>3. CASE task.todo = {} /\ later = {} BY <1>1, <2>3
  <2> QED BY <2>1, <2>2, <2>3
<1>11. ASSUME Resumed(task, t) = {}, task.kind = "alarm", task.stage # 3
       PROVE  \A j \in JobId : t[j].delivery # "pending"
  <2>1. later = {}
    <3>1. \A i, todo : todo # {} => At(i, todo) # {} OBVIOUS
    <3> HIDE DEF At, later, first, stages
    <3> QED BY <1>1, <1>9, <1>11, <3>1
  <2>2. 3 \in task.stage + 1 .. Len(stages) BY <1>2, <1>11, StageNames
  <2>3. Selected(stages[3], t, task.asOf) = {} BY <2>1, <2>2
  <2>4. Selected("deliver", t, task.asOf) = {} BY <1>11, <2>3, StageNames
  <2> QED BY <2>4 DEF Selected
<1> QED BY <1>10, <1>11

----------------------------------------------------------------------------
(* Steps that neither insert a turn nor touch what Slack knows of one.     *)

SideTypes ==
  /\ alarm \in BOOLEAN /\ resetGen \in 0 .. MaxResets
  /\ sockets \in [Socket -> {"free", "open", "closing", "disabled"}]

(* The table becomes one a handler may reach, and at most one reply of it  *)
(* is delivered.                                                           *)
TableStep ==
  \E t : /\ Reaches(t)
         /\ \/ jobs' = t /\ deliveries' = deliveries
            \/ \E j \in JobId : Deliver(t, j)

(* New tasks are sweeps in a stage, claims or completions.                 *)
TasksFollow ==
  /\ tasks' \subseteq Task
  /\ \A q \in tasks' : SweepSound(q) /\ (q.kind = "enqueue" => q \in tasks)

(* The alarm, set or running, is not given up while there is work.         *)
AlarmOwed == (alarm \/ AlarmRuns => alarm' \/ AlarmRuns') \/ (HasWork(jobs)' => alarm')

OrdinaryStep ==
  /\ TableStep /\ TasksFollow /\ AlarmOwed /\ SideTypes'
  /\ UNCHANGED <<posts, lost, removed, crashes>>

LEMMA OrdinaryStepKeeps ==
  ASSUME EdgeInv, OrdinaryStep
  PROVE  EdgeInv'
<1>1. EdgeTypes /\ TableSound(jobs) BY DEF EdgeInv
<1>2. UNCHANGED <<posts, lost, removed, crashes>> BY DEF OrdinaryStep
<1>3. PICK t : Reaches(t) /\ ((jobs' = t /\ deliveries' = deliveries) \/ \E j \in JobId : Deliver(t, j))
  BY DEF OrdinaryStep, TableStep
<1>4. /\ TableSound(t)
      /\ HasWork(t) => HasWork(jobs)
      /\ \A j \in JobId : jobs[j].status = "absent" => t[j].status = "absent"
  BY <1>1, <1>3, ReachedSound
<1>5. /\ TableSound(jobs)'
      /\ deliveries' \in [JobId -> {"none", "empty", "posting", "accepted", "retry", "final"}]
      /\ HasWork(jobs)' => HasWork(t)
      /\ \A k \in JobId : t[k].status = "absent" => jobs'[k].status = "absent"
  <2>1. CASE jobs' = t /\ deliveries' = deliveries
    BY <1>1, <1>2, <1>4, <2>1 DEF TableSound, EdgeTypes, HasWork
  <2>2. CASE \E j \in JobId : Deliver(t, j)
    BY <1>1, <1>2, <1>4, <2>2, DeliverSound
  <2> QED BY <1>3, <2>1, <2>2
<1>6. EdgeTypes'
  BY <1>1, <1>2, <1>5 DEF EdgeTypes, OrdinaryStep, SideTypes, TasksFollow
<1>7. EnqueuesSound'
  <2> SUFFICES ASSUME NEW q \in tasks', q.kind = "enqueue"
               PROVE  /\ jobs'[q.job].status = "absent"
                      /\ \A other \in tasks' : other.kind = "enqueue" /\ other.job = q.job => other = q
    BY DEF EnqueuesSound
  <2>1. q \in tasks /\ \A other \in tasks' : other.kind = "enqueue" => other \in tasks
    BY DEF OrdinaryStep, TasksFollow
  <2>2. /\ jobs[q.job].status = "absent"
        /\ \A other \in tasks : other.kind = "enqueue" /\ other.job = q.job => other = q
    BY <2>1 DEF EdgeInv, EnqueuesSound
  <2>3. q.job \in JobId BY <1>1, <2>1 DEF EdgeTypes, Task
  <2> QED BY <1>4, <1>5, <2>1, <2>2, <2>3
<1>8. WorkHasAlarm'
  <2>1. HasWork(jobs)' => HasWork(jobs) BY <1>4, <1>5
  <2>2. HasWork(jobs) => alarm \/ AlarmRuns BY DEF EdgeInv, WorkHasAlarm, AlarmRuns
  <2>3. HasWork(jobs)' => alarm' \/ AlarmRuns' BY <2>1, <2>2 DEF OrdinaryStep, AlarmOwed
  <2> QED BY <2>3 DEF WorkHasAlarm, AlarmRuns
<1>9. \A q \in tasks' : SweepSound(q) BY DEF OrdinaryStep, TasksFollow
<1>10. (\A q \in tasks : SweepSound(q))' BY <1>9 DEF SweepSound
<1> QED BY <1>5, <1>6, <1>7, <1>8, <1>10 DEF EdgeInv

(* A statement that keeps every row is such a table step.                  *)
LEMMA KeptTable ==
  ASSUME TableSound(jobs), NEW t, t \in [JobId -> Row],
         \A j \in JobId : Keeps(jobs[j], t[j])
  PROVE  Reaches(t)
BY DEF Reaches

(* So is one that keeps every row but one, which it starts or finishes.    *)
LEMMA ChangedRow ==
  ASSUME TableSound(jobs), NEW i \in JobId, NEW row \in Row, Starts(jobs[i], row) \/ Answers(jobs[i], row)
  PROVE  Reaches([jobs EXCEPT ![i] = row])
<1>1. jobs \in [JobId -> Row] BY DEF TableSound
<1>2. [jobs EXCEPT ![i] = row] \in [JobId -> Row] BY <1>1
<1>3. \A j \in JobId \ {i} : Keeps(jobs[j], [jobs EXCEPT ![i] = row][j]) BY <1>1 DEF Keeps
<1>4. [jobs EXCEPT ![i] = row][i] = row BY <1>1
<1> QED BY <1>2, <1>3, <1>4 DEF Reaches

(* The table as it is.                                                     *)
LEMMA SameTable == ASSUME TableSound(jobs) PROVE Reaches(jobs)
BY DEF Reaches, Keeps, TableSound

(* Offers that go back.                                                    *)
LEMMA ReleasedTable ==
  ASSUME TableSound(jobs), NEW S, \A j \in S \cap JobId : jobs[j].status \in Waiting
  PROVE  Reaches([j \in JobId |-> IF j \in S THEN Released(jobs[j]) ELSE jobs[j]])
<1>1. jobs \in [JobId -> Row] BY DEF TableSound
<1>2. ASSUME NEW j \in JobId
      PROVE  LET row == IF j \in S THEN Released(jobs[j]) ELSE jobs[j]
             IN  row \in Row /\ Keeps(jobs[j], row)
  <2>1. jobs[j] \in Row BY <1>1
  <2> QED BY <2>1, WrittenRows
<1> QED BY <1>2, KeptTable

(* The deletions at the end of an alarm, after offers have gone back.      *)
LEMMA PurgedTable ==
  ASSUME TableSound(jobs), NEW t, t \in [JobId -> Row], \A j \in JobId : Keeps(jobs[j], t[j]), NEW asOf
  PROVE  /\ Reaches(Purged(t, asOf))
         /\ HasWork(Purged(t, asOf)) => HasWork(t)
<1>1. ASSUME NEW j \in JobId
      PROVE  /\ Purged(t, asOf)[j] \in Row
             /\ Keeps(jobs[j], Purged(t, asOf)[j]) \/ Forgets(jobs[j], Purged(t, asOf)[j])
             /\ \/ Purged(t, asOf)[j] = t[j]
                \/ Purged(t, asOf)[j].status = "purged" /\ Purged(t, asOf)[j].delivery = "none"
  <2> DEFINE row == Purged(t, asOf)[j]
  <2>3. t[j] \in Row /\ Keeps(jobs[j], t[j]) OBVIOUS
  <2>1. CASE row = t[j]
    BY <2>1, <2>3
  <2>2. CASE row # t[j]
    <3>1. /\ row = [AbsentRow EXCEPT !.status = "purged"]
          /\ t[j].status \in Terminal /\ t[j].delivery \in {"delivered", "failed"}
      BY <2>2 DEF Purged
    <3>2. jobs[j].status \in Terminal /\ jobs[j].delivery \in {"delivered", "failed"}
      BY <3>1 DEF Keeps, Waiting, Terminal
    <3>3. row \in Row /\ Forgets(jobs[j], row) BY <3>1, <3>2, FreeRows
    <3> QED BY <3>3 DEF Forgets, row
  <2> QED BY <2>1, <2>2
<1>2. Purged(t, asOf) \in [JobId -> Row] BY <1>1 DEF Purged
<1>3. HasWork(Purged(t, asOf)) => HasWork(t)
  <2> SUFFICES ASSUME NEW j \in JobId,
                      Purged(t, asOf)[j].status \in Active \/ Purged(t, asOf)[j].delivery = "pending"
               PROVE  t[j].status \in Active \/ t[j].delivery = "pending"
    BY DEF HasWork
  <2> QED BY <1>1 DEF Active, Waiting
<1> QED BY <1>1, <1>2, <1>3 DEF Reaches

(* A sweep that goes on, or is through, with a table its handler reaches.  *)
LEMMA SweepGoesOn ==
  ASSUME EdgeInv, NEW task, Sweeps(task), NEW t, Reaches(t), GoOn(task, t),
         t = jobs \/ (task.stage # 3 /\ \E j \in JobId : t[j].delivery = "pending")
  PROVE  TableStep /\ TasksFollow /\ AlarmOwed /\ alarm' \in BOOLEAN
<1> DEFINE S        == Resumed(task, t)
           canceled == StageOf(task) = "cancel" /\ task.todo = {}
<1>1. /\ alarm \in BOOLEAN /\ TableSound(jobs)
      /\ \A q \in tasks : q \in Task /\ SweepSound(q)
  BY DEF EdgeInv, EdgeTypes
<1>2. \A next \in S : next \in Task /\ next.kind = task.kind /\ SweepSound(next)
  BY Resuming
<1>3. task.kind \in Swept BY DEF Sweeps, Sweeper
<1>4. CASE /\ S = {} /\ tasks' = tasks \ {task} /\ deliveries' = deliveries
           /\ IF task.kind = "alarm" THEN EndOfAlarm(task.asOf, t)
              ELSE jobs' = t /\ IF canceled THEN Schedule ELSE UNCHANGED alarm
  <2>1. TasksFollow BY <1>1, <1>4 DEF TasksFollow
  <2>2. CASE task.kind = "alarm"
    <3>1. t = jobs
      <4>1. task.stage # 3 => \A j \in JobId : t[j].delivery # "pending" BY <1>4, <2>2, Resuming
      <4> QED BY <4>1
    <3>2. jobs' = Purged(t, task.asOf) /\ IF HasWork(t) THEN alarm' = TRUE ELSE alarm' = alarm
      BY <1>4, <2>2 DEF EndOfAlarm, Schedule
    <3>3. /\ Reaches(Purged(t, task.asOf))
          /\ HasWork(Purged(t, task.asOf)) => HasWork(t)
      <4>1. t \in [JobId -> Row] /\ \A j \in JobId : Keeps(jobs[j], t[j])
        BY <1>1, <3>1 DEF TableSound, Keeps
      <4> QED BY <1>1, <4>1, PurgedTable
    <3>4. TableStep BY <1>4, <3>2, <3>3 DEF TableStep
    <3>5. HasWork(jobs)' => alarm' BY <3>2, <3>3 DEF HasWork
    <3> QED BY <1>1, <2>1, <3>2, <3>4, <3>5 DEF AlarmOwed
  <2>3. CASE task.kind # "alarm"
    <3>1. jobs' = t /\ alarm' \in {TRUE, alarm} BY <1>4, <2>3 DEF Schedule
    <3>2. TableStep BY <1>4, <3>1 DEF TableStep
    <3>3. AlarmRuns => AlarmRuns' BY <1>4, <2>3 DEF AlarmRuns
    <3> QED BY <1>1, <2>1, <3>1, <3>2, <3>3 DEF AlarmOwed
  <2> QED BY <2>2, <2>3
<1>5. CASE \E next \in S :
           /\ tasks' = (tasks \ {task}) \cup {next}
           /\ IF next.wait = "delivery" THEN Deliver(t, next.job)
              ELSE jobs' = t /\ deliveries' = deliveries
           /\ IF canceled THEN Schedule ELSE UNCHANGED alarm
  <2>1. PICK next \in S :
           /\ tasks' = (tasks \ {task}) \cup {next}
           /\ IF next.wait = "delivery" THEN Deliver(t, next.job)
              ELSE jobs' = t /\ deliveries' = deliveries
           /\ IF canceled THEN Schedule ELSE UNCHANGED alarm
    BY <1>5
  <2>2. next \in Task /\ next.kind = task.kind /\ SweepSound(next) /\ next.job \in JobId
    BY <1>2 DEF Task
  <2>3. TasksFollow
    <3>1. next.kind # "enqueue" BY <1>3, <2>2 DEF Swept
    <3> HIDE DEF S, canceled
    <3> QED BY <1>1, <2>1, <2>2, <3>1 DEF TasksFollow
  <2>4. TableStep BY <2>1, <2>2 DEF TableStep
  <2>5. alarm' \in {TRUE, alarm} BY <2>1 DEF Schedule
  <2>6. AlarmRuns => AlarmRuns'
    <3> HIDE DEF S, canceled
    <3> QED BY <2>1, <2>2 DEF AlarmRuns
  <2> QED BY <1>1, <2>3, <2>4, <2>5, <2>6 DEF AlarmOwed
<1> QED BY <1>4, <1>5 DEF GoOn

(* NoTask, but for its fields that name a turn, event or socket.           *)
LEMMA Blank ==
  NoTask \in [kind : {None}, stage : 0 .. 3, todo : SUBSET JobId, job : JobId \cup {None},
              wait : {"crypto", "delivery"}, event : EventId \cup {None},
              socket : Socket \cup {None}, asOf : SUBSET JobId]
BY DEF NoTask

(* Tasks as frames make them,                                              *)
LEMMA FrameTask ==
  ASSUME NEW kind \in Swept \cup {"enqueue", "claim"} \cup Terminal, NEW j \in JobId, NEW s \in Socket
  PROVE  /\ [NoTask EXCEPT !.kind = kind, !.job = j, !.socket = s] \in Task
         /\ [NoTask EXCEPT !.kind = kind, !.job = j, !.socket = s].kind = kind
BY Blank DEF Task

(* as requests to enqueue do,                                              *)
LEMMA EnqueueTask ==
  ASSUME NEW j \in JobId, NEW e \in EventId
  PROVE  /\ [NoTask EXCEPT !.kind = "enqueue", !.job = j, !.event = e] \in Task
         /\ [NoTask EXCEPT !.kind = "enqueue", !.job = j, !.event = e].kind = "enqueue"
         /\ [NoTask EXCEPT !.kind = "enqueue", !.job = j, !.event = e].job = j
BY Blank DEF Task

(* and as the alarm does.                                                  *)
LEMMA AlarmTask ==
  ASSUME NEW asOf \in SUBSET JobId
  PROVE  [NoTask EXCEPT !.kind = "alarm", !.asOf = asOf] \in Sweeper
<1>1. "alarm" \in Swept BY DEF Swept
<1> QED BY <1>1, Blank DEF Sweeper

(* A task of the table, with its row.                                      *)
LEMMA TaskKnown ==
  ASSUME EdgeInv, NEW task \in tasks
  PROVE  /\ task \in Task /\ task.job \in JobId /\ jobs[task.job] \in Row
         /\ task.kind \in Swept => Sweeps(task)
<1>1. task \in Task /\ SweepSound(task) BY DEF EdgeInv, EdgeTypes
<1>2. jobs \in [JobId -> Row] BY DEF EdgeInv, TableSound
<1>3. task.job \in JobId BY <1>1 DEF Task
<1>4. task.kind \in Swept => task \in Sweeper /\ task.stage # 0
  <2>1. task.kind \in Swept => task \in Sweeper BY <1>1 DEF Task, Sweeper
  <2> QED BY <1>1, <2>1 DEF SweepSound, Swept
<1> QED BY <1>1, <1>2, <1>3, <1>4 DEF Sweeps

(* The tasks and the alarm when neither changes.                           *)
LEMMA TasksStay ==
  ASSUME EdgeInv, tasks' = tasks, alarm' \in {TRUE, alarm}
  PROVE  TasksFollow /\ AlarmOwed /\ alarm' \in BOOLEAN
BY DEF EdgeInv, EdgeTypes, TasksFollow, AlarmOwed, AlarmRuns

(* The tasks when one that is no alarm ends.                               *)
LEMMA TaskEnds ==
  ASSUME EdgeInv, NEW task, task.kind # "alarm", tasks' = tasks \ {task}, alarm' \in {TRUE, alarm}
  PROVE  TasksFollow /\ AlarmOwed /\ alarm' \in BOOLEAN
BY DEF EdgeInv, EdgeTypes, TasksFollow, AlarmOwed, AlarmRuns

----------------------------------------------------------------------------
(* The actions.                                                            *)

(* The row a sweep selected is failed.                                     *)
LEMMA FailSelectedKeeps ==
  ASSUME EdgeInv, NEW task \in tasks, FailSelected(task)
  PROVE  OrdinaryStep
<1> DEFINE j       == task.job
           stage   == StageOf(task)
           still   == jobs[j].status \in (IF stage \in {"cancel", "expire"} THEN Waiting ELSE {"running"})
           row     == Finished(jobs[j], "failed", "notice")
           updated == IF still THEN [jobs EXCEPT ![j] = row] ELSE jobs
<1>1. /\ task.kind \in Swept /\ task.wait = "crypto"
      /\ UNCHANGED <<sockets, resetGen, posts, lost, removed, crashes>>
  BY DEF FailSelected, ghosts
<1>2. /\ task \in Task /\ j \in JobId /\ jobs[j] \in Row /\ Sweeps(task)
  BY <1>1, TaskKnown
<1>3. TableSound(jobs) /\ EdgeTypes BY DEF EdgeInv
<1>4. SideTypes' <=> alarm' \in BOOLEAN BY <1>1, <1>3 DEF SideTypes, EdgeTypes
<1>5. still => row \in Row /\ Answers(jobs[j], row)
  <2>1. still => jobs[j].status \in Active BY DEF Active
  <2>2. "failed" \in Terminal BY DEF Terminal
  <2> HIDE DEF still, j
  <2> QED BY <1>2, <2>1, <2>2, WrittenRows
<1>6. Reaches(updated)
  <2> HIDE DEF still, j, row
  <2>1. CASE still BY <1>2, <1>3, <1>5, <2>1, ChangedRow
  <2>2. CASE ~still BY <1>3, <2>2, SameTable
  <2> QED BY <2>1, <2>2
<1>7. CASE still /\ stage \in {"fail", "stall"}
  <2>1. /\ tasks' = (tasks \ {task}) \cup {[task EXCEPT !.wait = "delivery"]}
        /\ Deliver(updated, j) /\ alarm' = alarm
    BY <1>7 DEF FailSelected
  <2>2. [task EXCEPT !.wait = "delivery"] \in Task /\ [task EXCEPT !.wait = "delivery"].kind = task.kind
        /\ [task EXCEPT !.wait = "delivery"].stage = task.stage
    BY <1>2 DEF Task
  <2>3. SweepSound(task) BY DEF EdgeInv
  <2>4. SweepSound([task EXCEPT !.wait = "delivery"])
    BY <1>2, <2>2, <2>3 DEF SweepSound, Task
  <2>5. TasksFollow
    <3>1. task.kind # "enqueue" BY <1>1 DEF Swept
    <3> QED BY <2>1, <2>2, <2>4, <3>1 DEF EdgeInv, EdgeTypes, TasksFollow
  <2>6. AlarmOwed BY <2>1, <2>2 DEF AlarmOwed, AlarmRuns
  <2>7. TableStep
    <3> HIDE DEF updated
    <3> QED BY <1>2, <1>6, <2>1 DEF TableStep
  <2> QED BY <1>1, <1>3, <1>4, <2>1, <2>5, <2>6, <2>7 DEF OrdinaryStep, EdgeTypes
<1>8. CASE ~(still /\ stage \in {"fail", "stall"})
  <2>1. GoOn(task, updated) BY <1>8 DEF FailSelected
  <2>2. updated = jobs \/ (task.stage # 3 /\ \E k \in JobId : updated[k].delivery = "pending")
    <3>1. task.stage # 3
      <4>1. SweepSound(task) BY DEF EdgeInv
      <4> QED BY <1>1, <4>1 DEF SweepSound, Swept
    <3>2. still => updated[j].delivery = "pending"
      <4>1. row.delivery = "pending" \/ ~still BY <1>5 DEF Answers
      <4>2. jobs \in [JobId -> Row] BY <1>3 DEF TableSound
      <4> HIDE DEF row, still, j
      <4> QED BY <1>2, <4>1, <4>2
    <3> HIDE DEF row, still, j
    <3> QED BY <1>2, <3>1, <3>2
  <2>3. TableStep /\ TasksFollow /\ AlarmOwed /\ alarm' \in BOOLEAN
    <3> HIDE DEF updated
    <3> QED BY <1>2, <1>6, <2>1, <2>2, SweepGoesOn
  <2> QED BY <1>1, <1>4, <2>3 DEF OrdinaryStep
<1> QED BY <1>7, <1>8

(* The delivery a sweep waits for is over.                                 *)
LEMMA DeliveryOverKeeps ==
  ASSUME EdgeInv, NEW task \in tasks, DeliveryOver(task)
  PROVE  OrdinaryStep
<1>1. /\ task.kind \in Swept /\ GoOn(task, jobs)
      /\ UNCHANGED <<sockets, resetGen, posts, lost, removed, crashes>>
  BY DEF DeliveryOver, ghosts
<1>2. TableSound(jobs) /\ EdgeTypes BY DEF EdgeInv
<1>3. Sweeps(task) BY <1>1, TaskKnown
<1>4. TableStep /\ TasksFollow /\ AlarmOwed /\ alarm' \in BOOLEAN
  BY <1>1, <1>2, <1>3, SameTable, SweepGoesOn
<1> QED BY <1>1, <1>2, <1>4 DEF OrdinaryStep, SideTypes, EdgeTypes

(* cancelPending and cancelActiveTurns begin a sweep.                      *)
LEMMA CancelKeeps ==
  ASSUME EdgeInv, CancelPending \/ CancelActiveTurns
  PROVE  OrdinaryStep
<1> DEFINE task(kind) == [NoTask EXCEPT !.kind = kind]
<1>1. PICK kind \in {"cancel", "reset"} : GoOn(task(kind), jobs)
  BY DEF CancelPending, CancelActiveTurns
<1>2. UNCHANGED <<sockets, posts, lost, removed, crashes>> /\ resetGen' \in 0 .. MaxResets
  <2>1. resetGen \in 0 .. MaxResets /\ MaxResets \in Nat BY EdgeAssumption DEF EdgeInv, EdgeTypes
  <2> QED BY <2>1 DEF CancelPending, CancelActiveTurns, ghosts
<1>3. TableSound(jobs) /\ EdgeTypes BY DEF EdgeInv
<1>4. Sweeps(task(kind))
  <2>1. task(kind) \in Sweeper BY DEF NoTask, Sweeper, Swept
  <2>2. task(kind).stage = 0 /\ task(kind).todo = {} BY DEF NoTask
  <2> QED BY <2>1, <2>2 DEF Sweeps
<1>5. TableStep /\ TasksFollow /\ AlarmOwed /\ alarm' \in BOOLEAN
  <2> HIDE DEF task
  <2> QED BY <1>1, <1>3, <1>4, SameTable, SweepGoesOn
<1> QED BY <1>2, <1>3, <1>5 DEF OrdinaryStep, SideTypes, EdgeTypes

(* Connections that come and go: offers go back.                           *)
LEMMA ConnectionsKeep ==
  ASSUME EdgeInv,
         RestartRuntimeConnections \/ \E s \in Socket : Connect(s) \/ SocketClosed(s)
  PROVE  OrdinaryStep
<1>1. TableSound(jobs) /\ EdgeTypes BY DEF EdgeInv
<1>2. UNCHANGED <<tasks, deliveries, resetGen, posts, lost, removed, crashes>> /\ alarm' \in {TRUE, alarm}
  BY DEF RestartRuntimeConnections, Connect, SocketClosed, ghosts, Schedule
<1>3. sockets' \in [Socket -> {"free", "open", "closing", "disabled"}]
  BY <1>1 DEF RestartRuntimeConnections, Connect, SocketClosed, EdgeTypes
<1>4. jobs' = jobs \/ \E S : /\ \A j \in S \cap JobId : jobs[j].status \in Waiting
                             /\ jobs' = [j \in JobId |-> IF j \in S THEN Released(jobs[j]) ELSE jobs[j]]
  <2> DEFINE offers == HasStatus({"offered"})
             owned  == {j \in HasStatus({"offered"}) : jobs[j].owned}
  <2>1. /\ \A j \in offers \cap JobId : jobs[j].status \in Waiting
        /\ \A j \in owned \cap JobId : jobs[j].status \in Waiting
    BY DEF HasStatus, Waiting
  <2>2. \/ jobs' = jobs
        \/ jobs' = [j \in JobId |-> IF j \in offers THEN Released(jobs[j]) ELSE jobs[j]]
        \/ jobs' = [j \in JobId |-> IF j \in owned THEN Released(jobs[j]) ELSE jobs[j]]
    BY DEF RestartRuntimeConnections, Connect, SocketClosed, ReleaseOffers, Update
  <2> HIDE DEF offers, owned
  <2> QED BY <2>1, <2>2
<1>5. Reaches(jobs')
  BY <1>1, <1>4, SameTable, ReleasedTable
<1>6. TableStep BY <1>2, <1>5 DEF TableStep
<1>7. TasksFollow /\ AlarmOwed /\ alarm' \in BOOLEAN BY <1>2, TasksStay
<1> QED BY <1>1, <1>2, <1>3, <1>6, <1>7 DEF OrdinaryStep, SideTypes, EdgeTypes

(* Frames that suspend their handler.                                      *)
LEMMA FrameSuspended ==
  ASSUME EdgeInv, NEW s \in Socket, NEW j \in JobId,
         ClaimOwned(s, j) \/ \E outcome \in Terminal : CompleteRunning(s, j, outcome)
  PROVE  OrdinaryStep
<1>1. TableSound(jobs) /\ EdgeTypes BY DEF EdgeInv
<1>2. UNCHANGED <<jobs, sockets, alarm, deliveries, resetGen, posts, lost, removed, crashes>>
  BY DEF ClaimOwned, CompleteRunning, ghosts
<1>3. PICK kind \in {"claim"} \cup Terminal :
        tasks' = tasks \cup {[NoTask EXCEPT !.kind = kind, !.job = j, !.socket = s]}
  BY DEF ClaimOwned, CompleteRunning
<1> DEFINE task == [NoTask EXCEPT !.kind = kind, !.job = j, !.socket = s]
<1>4. task \in Task /\ task.kind = kind
  <2>1. kind \in Swept \cup {"enqueue", "claim"} \cup Terminal BY <1>3
  <2> QED BY <2>1, FrameTask
<1>5. SweepSound(task) /\ task.kind # "enqueue" BY <1>4 DEF SweepSound, Terminal
<1>6. TasksFollow /\ AlarmOwed
  <2> HIDE DEF task
  <2>1. tasks' = tasks \cup {task} BY <1>3 DEF task
  <2> QED BY <1>2, <1>4, <1>5, <2>1 DEF EdgeInv, EdgeTypes, TasksFollow, AlarmOwed, AlarmRuns
<1>7. TableStep BY <1>1, <1>2, SameTable DEF TableStep
<1> QED BY <1>1, <1>2, <1>6, <1>7 DEF OrdinaryStep, SideTypes, EdgeTypes

(* Frames that write the turn's row, or deliver its reply.                 *)
LEMMA FrameHandled ==
  ASSUME EdgeInv, NEW s \in Socket, NEW j \in JobId,
         ClaimPending(s, j) \/ Start(s, j) \/ CompleteAgain(s, j)
  PROVE  OrdinaryStep
<1>1. TableSound(jobs) /\ EdgeTypes BY DEF EdgeInv
<1>2. /\ UNCHANGED <<sockets, tasks, resetGen, posts, lost, removed, crashes>>
      /\ alarm' \in {TRUE, alarm}
  BY DEF ClaimPending, Start, CompleteAgain, ghosts, Schedule
<1>3. TasksFollow /\ AlarmOwed /\ alarm' \in BOOLEAN BY <1>2, TasksStay
<1>4. jobs \in [JobId -> Row] /\ jobs[j] \in Row BY <1>1 DEF TableSound
<1>5. CASE ClaimPending(s, j) /\ sockets[s] = "open"
  <2> DEFINE t == [jobs EXCEPT ![j].status = "offered", ![j].owned = TRUE, ![j].late = FALSE]
  <2>1. jobs' = t /\ deliveries' = deliveries /\ jobs[j].status = "pending"
    BY <1>5 DEF ClaimPending
  <2>2. t[j] \in Row /\ t[j].status = "offered" /\ t[j].delivery = jobs[j].delivery
        /\ t[j].response = jobs[j].response
    BY <1>4 DEF Row, Present, Active, Waiting
  <2>3. t \in [JobId -> Row] /\ \A k \in JobId \ {j} : t[k] = jobs[k]
    <3>1. t = [jobs EXCEPT ![j] = t[j]] BY <1>4
    <3> HIDE DEF t
    <3> QED BY <1>4, <2>2, <3>1
  <2>4. \A k \in JobId : Keeps(jobs[k], t[k])
    <3> HIDE DEF t
    <3> QED BY <2>1, <2>2, <2>3 DEF Keeps, Waiting
  <2>5. Reaches(t)
    <3> HIDE DEF t
    <3> QED BY <1>1, <2>3, <2>4, KeptTable
  <2>6. TableStep
    <3> HIDE DEF t
    <3> QED BY <2>1, <2>5 DEF TableStep
  <2> QED BY <1>1, <1>2, <1>3, <2>6 DEF OrdinaryStep, SideTypes, EdgeTypes
<1>6. CASE ClaimPending(s, j) /\ sockets[s] # "open"
  <2> DEFINE row == Finished(jobs[j], "failed", "none")
  <2>1. jobs' = [jobs EXCEPT ![j] = row] /\ deliveries' = deliveries /\ jobs[j].status = "pending"
    BY <1>6 DEF ClaimPending
  <2>2. row \in Row /\ Answers(jobs[j], row)
    <3>1. jobs[j].status \in Active /\ "failed" \in Terminal BY <2>1 DEF Active, Waiting, Terminal
    <3> QED BY <1>4, <3>1, WrittenRows
  <2>3. Reaches(jobs')
    <3> HIDE DEF row
    <3> QED BY <1>1, <2>1, <2>2, ChangedRow
  <2>4. TableStep BY <2>1, <2>3 DEF TableStep
  <2> QED BY <1>1, <1>2, <1>3, <2>4 DEF OrdinaryStep, SideTypes, EdgeTypes
<1>7. CASE Start(s, j)
  <2> DEFINE row == [jobs[j] EXCEPT !.status = "running", !.late = FALSE]
  <2>1. jobs' = [jobs EXCEPT ![j] = row] /\ deliveries' = deliveries /\ jobs[j].status = "offered"
    BY <1>4, <1>7 DEF Start, Offer
  <2>2. row \in Row /\ row.status = "running" /\ row.delivery = jobs[j].delivery
        /\ row.response = jobs[j].response
    BY <1>4 DEF Row, Present, Active
  <2>3. Reaches(jobs')
    <3> HIDE DEF row
    <3>1. Starts(jobs[j], row) BY <2>1, <2>2 DEF Starts, Waiting
    <3> QED BY <1>1, <2>1, <2>2, <3>1, ChangedRow
  <2>4. TableStep BY <2>1, <2>3 DEF TableStep
  <2> QED BY <1>1, <1>2, <1>3, <2>4 DEF OrdinaryStep, SideTypes, EdgeTypes
<1>8. CASE CompleteAgain(s, j)
  <2>1. TableStep BY <1>1, <1>8, SameTable DEF CompleteAgain, TableStep
  <2> QED BY <1>1, <1>2, <1>3, <2>1 DEF OrdinaryStep, SideTypes, EdgeTypes
<1> QED BY <1>5, <1>6, <1>7, <1>8

(* Handlers that resume: the offer that could not be sent goes back, the   *)
(* outcome is recorded if the turn is still running.                       *)
LEMMA FrameResumed ==
  ASSUME EdgeInv, NEW task \in tasks, SendTurn(task) \/ RecordCompletion(task)
  PROVE  OrdinaryStep
<1>1. TableSound(jobs) /\ EdgeTypes BY DEF EdgeInv
<1>2. /\ UNCHANGED <<sockets, resetGen, posts, lost, removed, crashes>>
      /\ tasks' = tasks \ {task} /\ alarm' \in {TRUE, alarm} /\ task.kind # "alarm"
  BY DEF SendTurn, RecordCompletion, ghosts, Schedule, Terminal
<1>3. TasksFollow /\ AlarmOwed /\ alarm' \in BOOLEAN BY <1>2, TaskEnds
<1>4. task.job \in JobId /\ jobs[task.job] \in Row BY TaskKnown
<1>5. CASE SendTurn(task)
  <2> DEFINE S == {j \in {task.job} : Offer(j)}
  <2>1. \A j \in S \cap JobId : jobs[j].status \in Waiting BY DEF Offer, Waiting
  <2>2. deliveries' = deliveries /\ (jobs' = jobs \/ jobs' = [j \in JobId |-> IF j \in S THEN Released(jobs[j]) ELSE jobs[j]])
    BY <1>5 DEF SendTurn, Update
  <2>3. TableStep
    <3> HIDE DEF S
    <3>1. Reaches(jobs') BY <1>1, <2>1, <2>2, SameTable, ReleasedTable
    <3> QED BY <2>2, <3>1 DEF TableStep
  <2> QED BY <1>1, <1>2, <1>3, <2>3 DEF OrdinaryStep, SideTypes, EdgeTypes
<1>6. CASE RecordCompletion(task)
  <2> DEFINE j   == task.job
             row == Finished(jobs[j], task.kind, IF task.kind = "completed" THEN "answer" ELSE "notice")
             t   == IF jobs[j].status # "running" THEN jobs ELSE [jobs EXCEPT ![j] = row]
  <2>1. Deliver(t, j) /\ task.kind \in Terminal BY <1>6 DEF RecordCompletion
  <2>2. jobs[j].status = "running" => row \in Row /\ Answers(jobs[j], row)
    <3>1. jobs[j].status = "running" => jobs[j].status \in Active BY DEF Active
    <3>2. (IF task.kind = "completed" THEN "answer" ELSE "notice") \in {"none", "answer", "notice"} OBVIOUS
    <3> QED BY <1>4, <2>1, <3>1, <3>2, WrittenRows
  <2>3. Reaches(t)
    <3> HIDE DEF row
    <3> QED BY <1>1, <1>4, <2>2, SameTable, ChangedRow
  <2>4. TableStep
    <3> HIDE DEF t
    <3> QED BY <1>4, <2>1, <2>3 DEF TableStep
  <2> QED BY <1>1, <1>2, <1>3, <2>4 DEF OrdinaryStep, SideTypes, EdgeTypes
<1> QED BY <1>5, <1>6

(* The alarm begins: its offers go back, and it is a sweep or is through.  *)
LEMMA AlarmKeeps ==
  ASSUME EdgeInv, Alarm
  PROVE  OrdinaryStep
<1> DEFINE t    == [j \in JobId |-> IF jobs[j].status = "offered" /\ jobs[j].late
                                      THEN Released(jobs[j]) ELSE jobs[j]]
           asOf == {j \in JobId : jobs[j].late \/ jobs[j].expired}
           task == [NoTask EXCEPT !.kind = "alarm", !.asOf = asOf]
           S    == Resumed(task, t)
<1>1. TableSound(jobs) /\ EdgeTypes BY DEF EdgeInv
<1>2. UNCHANGED <<sockets, resetGen, posts, lost, removed, crashes>> BY DEF Alarm, ghosts
<1>3. t \in [JobId -> Row] /\ \A j \in JobId : Keeps(jobs[j], t[j])
  <2> SUFFICES ASSUME NEW j \in JobId PROVE t[j] \in Row /\ Keeps(jobs[j], t[j])
    OBVIOUS
  <2>1. jobs[j] \in Row BY <1>1 DEF TableSound
  <2>2. jobs[j].status = "offered" => jobs[j].status \in Waiting BY DEF Waiting
  <2> QED BY <2>1, <2>2, WrittenRows
<1>4. Sweeps(task)
  <2>1. asOf \in SUBSET JobId /\ "alarm" \in Swept BY DEF Swept
  <2>3. task \in Sweeper
    <3> HIDE DEF asOf
    <3> QED BY <2>1, AlarmTask
  <2>2. task.stage = 0 /\ task.todo = {} BY DEF NoTask
  <2> QED BY <2>2, <2>3 DEF Sweeps
<1>5. task.kind = "alarm" /\ task.asOf = asOf BY DEF NoTask
<1>6. CASE S = {} /\ tasks' = tasks /\ deliveries' = deliveries
           /\ jobs' = Purged(t, task.asOf) /\ alarm' = HasWork(t)
  <2>1. /\ Reaches(Purged(t, task.asOf))
        /\ HasWork(Purged(t, task.asOf)) => HasWork(t)
    <3> HIDE DEF t, task
    <3> QED BY <1>1, <1>3, PurgedTable
  <2>2. TableStep BY <1>6, <2>1 DEF TableStep
  <2>3. HasWork(jobs)' => HasWork(t) BY <1>6, <2>1 DEF HasWork
  <2>4. alarm' \in BOOLEAN /\ AlarmOwed
    <3>1. HasWork(t) \in BOOLEAN BY DEF HasWork
    <3> QED BY <1>6, <2>3, <3>1 DEF AlarmOwed
  <2>5. TasksFollow BY <1>6 DEF EdgeInv, EdgeTypes, TasksFollow
  <2> QED BY <1>1, <1>2, <2>2, <2>4, <2>5 DEF OrdinaryStep, SideTypes, EdgeTypes
<1>7. CASE \E next \in S :
           /\ tasks' = tasks \cup {next} /\ alarm' = FALSE
           /\ IF next.wait = "delivery" THEN Deliver(t, next.job)
              ELSE jobs' = t /\ deliveries' = deliveries
  <2>1. PICK next \in S :
           /\ tasks' = tasks \cup {next} /\ alarm' = FALSE
           /\ IF next.wait = "delivery" THEN Deliver(t, next.job)
              ELSE jobs' = t /\ deliveries' = deliveries
    BY <1>7
  <2>2. next \in Task /\ next.kind = "alarm" /\ SweepSound(next) /\ next.job \in JobId
    <3>1. next \in Task /\ next.kind = task.kind /\ SweepSound(next)
      BY <1>4, Resuming
    <3> QED BY <1>5, <3>1 DEF Task
  <2> HIDE DEF t, S, task
  <2>3. TableStep
    <3>1. Reaches(t) BY <1>1, <1>3, KeptTable
    <3> QED BY <2>1, <2>2, <3>1 DEF TableStep
  <2>4. TasksFollow /\ AlarmOwed
    BY <2>1, <2>2 DEF EdgeInv, EdgeTypes, TasksFollow, AlarmOwed, AlarmRuns
  <2> QED BY <1>1, <1>2, <2>1, <2>3, <2>4 DEF OrdinaryStep, SideTypes, EdgeTypes
<1> QED BY <1>6, <1>7 DEF Alarm

(* Time passes for a row.                                                  *)
LEMMA TimeKeeps ==
  ASSUME EdgeInv, NEW j \in JobId, LimitPasses(j) \/ Expire(j)
  PROVE  OrdinaryStep
<1>1. TableSound(jobs) /\ EdgeTypes BY DEF EdgeInv
<1>2. UNCHANGED <<sockets, alarm, tasks, deliveries, resetGen, posts, lost, removed, crashes>>
  BY DEF LimitPasses, Expire, ghosts
<1>3. TasksFollow /\ AlarmOwed /\ alarm' \in BOOLEAN BY <1>2, TasksStay
<1>4. jobs \in [JobId -> Row] /\ jobs[j] \in Row BY <1>1 DEF TableSound
<1>5. \E row \in Row : /\ jobs' = [jobs EXCEPT ![j] = row] /\ row.status = jobs[j].status
                       /\ row.delivery = jobs[j].delivery /\ row.response = jobs[j].response
  <2>1. CASE LimitPasses(j)
    <3> DEFINE row == [jobs[j] EXCEPT !.late = TRUE]
    <3>1. row \in Row /\ row.status = jobs[j].status
          /\ row.delivery = jobs[j].delivery /\ row.response = jobs[j].response
      BY <1>4 DEF Row
    <3>2. jobs' = [jobs EXCEPT ![j] = row] BY <2>1 DEF LimitPasses
    <3> QED BY <3>1, <3>2
  <2>2. CASE Expire(j)
    <3> DEFINE row == [jobs[j] EXCEPT !.expired = TRUE]
    <3>1. row \in Row /\ row.status = jobs[j].status
          /\ row.delivery = jobs[j].delivery /\ row.response = jobs[j].response
      BY <1>4 DEF Row
    <3>2. jobs' = [jobs EXCEPT ![j] = row] BY <2>2 DEF Expire
    <3> QED BY <3>1, <3>2
  <2> QED BY <2>1, <2>2
<1>6. jobs' \in [JobId -> Row] /\ \A k \in JobId : Keeps(jobs[k], jobs'[k])
  BY <1>4, <1>5 DEF Keeps
<1>7. TableStep BY <1>1, <1>2, <1>6, KeptTable DEF TableStep
<1> QED BY <1>1, <1>2, <1>3, <1>7 DEF OrdinaryStep, SideTypes, EdgeTypes

----------------------------------------------------------------------------
(* Steps that insert a turn, withdraw turns, or touch what Slack knows.    *)

(* A request to enqueue a turn.                                            *)
LEMMA EnqueueTurnKeeps ==
  ASSUME EdgeInv, NEW j \in JobId, NEW e \in EventId, EnqueueTurn(j, e)
  PROVE  EdgeInv'
<1> DEFINE task == [NoTask EXCEPT !.kind = "enqueue", !.job = j, !.event = e]
<1>1. UNCHANGED <<jobs, sockets, alarm, deliveries, resetGen, removed, posts, lost, crashes>>
      /\ tasks' = tasks \cup {task}
  BY DEF EnqueueTurn, ghosts
<1>2. jobs[j].status = "absent" /\ \A other \in tasks : other.job # j BY DEF EnqueueTurn
<1>3. task \in Task /\ task.kind = "enqueue" /\ task.job = j BY EnqueueTask
<1>4. SweepSound(task) BY <1>3 DEF SweepSound
<1> HIDE DEF task
<1>5. EdgeTypes' BY <1>1, <1>3 DEF EdgeInv, EdgeTypes
<1>6. TableSound(jobs)' BY <1>1 DEF EdgeInv, TableSound
<1>7. (\A q \in tasks : SweepSound(q))' BY <1>1, <1>4 DEF EdgeInv, SweepSound
<1>8. EnqueuesSound' BY <1>1, <1>2, <1>3 DEF EdgeInv, EnqueuesSound
<1>9. WorkHasAlarm'
  BY <1>1 DEF EdgeInv, WorkHasAlarm, HasWork
<1> QED BY <1>5, <1>6, <1>7, <1>8, <1>9 DEF EdgeInv

(* The INSERT: the row is free, and no other request is about to take it.  *)
LEMMA InsertTurnKeeps ==
  ASSUME EdgeInv, NEW task \in tasks, InsertTurn(task)
  PROVE  EdgeInv'
<1>1. /\ UNCHANGED <<sockets, deliveries, resetGen, removed, posts, lost, crashes>>
      /\ tasks' = tasks \ {task} /\ task.kind = "enqueue"
  BY DEF InsertTurn, ghosts
<1>2. task.job \in JobId /\ jobs[task.job] \in Row /\ task \in Task BY TaskKnown
<1>3. jobs[task.job].status = "absent"
      /\ \A other \in tasks : other.kind = "enqueue" /\ other.job = task.job => other = task
  BY <1>1 DEF EdgeInv, EnqueuesSound
<1>4. TableSound(jobs) /\ EdgeTypes BY DEF EdgeInv
<1>5. CASE UNCHANGED <<jobs, alarm>>
  <2>1. EdgeTypes' BY <1>1, <1>4, <1>5 DEF EdgeTypes
  <2>2. TableSound(jobs)' BY <1>1, <1>4, <1>5 DEF TableSound
  <2>3. (\A q \in tasks : SweepSound(q))' BY <1>1 DEF EdgeInv, SweepSound
  <2>4. EnqueuesSound' BY <1>1, <1>5 DEF EdgeInv, EnqueuesSound
  <2>5. WorkHasAlarm' BY <1>1, <1>5 DEF EdgeInv, WorkHasAlarm, HasWork
  <2> QED BY <2>1, <2>2, <2>3, <2>4, <2>5 DEF EdgeInv
<1>6. CASE jobs' = [jobs EXCEPT ![task.job] = Enqueued(task.event)] /\ alarm' = TRUE
  <2>1. Enqueued(task.event) \in Row /\ Enters(jobs[task.job], Enqueued(task.event))
    <3>1. task.event \in EventId \cup {None} BY <1>2 DEF Task
    <3> QED BY <1>3, <3>1, FreeRows
  <2>2. jobs' \in [JobId -> Row] /\ jobs'[task.job] = Enqueued(task.event)
        /\ \A k \in JobId \ {task.job} : jobs'[k] = jobs[k]
    BY <1>2, <1>4, <1>6, <2>1 DEF TableSound
  <2>3. TableSound(jobs)'
    <3> SUFFICES ASSUME NEW k \in JobId PROVE Sound(jobs'[k], deliveries[k], posts[k], lost[k], removed)
      BY <1>1, <2>2 DEF TableSound
    <3>1. Sound(jobs[k], deliveries[k], posts[k], lost[k], removed) /\ jobs[k] \in Row
      BY <1>4 DEF TableSound
    <3>2. posts[k] \in Nat /\ lost[k] \in Nat /\ removed \in BOOLEAN BY <1>4 DEF EdgeTypes
    <3>3. CASE k # task.job BY <2>2, <3>1, <3>3
    <3>4. CASE k = task.job BY <2>1, <2>2, <3>1, <3>2, <3>4, RowStaysSound
    <3> QED BY <3>3, <3>4
  <2>4. EdgeTypes' BY <1>1, <1>4, <1>6 DEF EdgeTypes
  <2>5. (\A q \in tasks : SweepSound(q))' BY <1>1 DEF EdgeInv, SweepSound
  <2>6. EnqueuesSound'
    <3> SUFFICES ASSUME NEW q \in tasks', q.kind = "enqueue"
                 PROVE  /\ jobs'[q.job].status = "absent"
                        /\ \A other \in tasks' : other.kind = "enqueue" /\ other.job = q.job => other = q
      BY DEF EnqueuesSound
    <3>1. q \in tasks /\ q # task BY <1>1
    <3>2. q.job \in JobId BY <3>1, TaskKnown
    <3>3. q.job # task.job BY <1>3, <3>1
    <3>4. jobs[q.job].status = "absent"
          /\ \A other \in tasks : other.kind = "enqueue" /\ other.job = q.job => other = q
      BY <3>1 DEF EdgeInv, EnqueuesSound
    <3> QED BY <1>1, <2>2, <3>2, <3>3, <3>4
  <2>7. WorkHasAlarm' BY <1>6 DEF WorkHasAlarm
  <2> QED BY <2>3, <2>4, <2>5, <2>6, <2>7 DEF EdgeInv
<1> QED BY <1>5, <1>6 DEF InsertTurn, Schedule

(* A removal withdraws every turn that is not settled and every reply that *)
(* is owed, also the one that is being posted.                             *)
LEMMA PrepareForRemovalKeeps ==
  ASSUME EdgeInv, PrepareForRemoval
  PROVE  EdgeInv'
<1>1. UNCHANGED <<alarm, tasks, deliveries, posts, lost, crashes>> /\ removed' = TRUE
      /\ resetGen' = resetGen + 1 /\ resetGen < MaxResets
      /\ jobs' = [j \in JobId |-> IF j \in JobId THEN Withdrawn(jobs[j]) ELSE jobs[j]]
  BY DEF PrepareForRemoval, Update
<1>2. TableSound(jobs) /\ EdgeTypes BY DEF EdgeInv
<1>3. ASSUME NEW j \in JobId
      PROVE  /\ jobs'[j] \in Row
             /\ \/ jobs'[j] = jobs[j] /\ jobs[j].status \notin Active /\ jobs[j].delivery # "pending"
                \/ /\ jobs[j].status \in Active \/ jobs[j].delivery = "pending"
                   /\ jobs'[j].status = "failed" /\ jobs'[j].delivery = "failed"
                   /\ jobs'[j].response = "none"
  <2>1. jobs[j] \in Row /\ jobs'[j] = Withdrawn(jobs[j]) BY <1>1, <1>2 DEF TableSound
  <2>2. CASE jobs[j].status \in Active \/ jobs[j].delivery = "pending"
    <3> DEFINE row == Settled(jobs[j], "failed")
    <3>1. row \in Row /\ row.delivery = "failed" /\ row.response = "none" BY <2>1, WrittenRows
    <3>2. jobs'[j] = [row EXCEPT !.status = "failed", !.late = FALSE]
      BY <2>1, <2>2 DEF Withdrawn
    <3> HIDE DEF row
    <3>3. jobs'[j] \in Row /\ jobs'[j].status = "failed" /\ jobs'[j].delivery = "failed"
          /\ jobs'[j].response = "none"
      BY <3>1, <3>2 DEF Row, Present, Terminal
    <3> QED BY <2>2, <3>3
  <2>3. CASE ~(jobs[j].status \in Active \/ jobs[j].delivery = "pending")
    BY <2>1, <2>3 DEF Withdrawn
  <2> QED BY <2>2, <2>3
<1>4. EdgeTypes'
  <2>1. sockets' \in [Socket -> {"free", "open", "closing", "disabled"}]
    BY <1>2 DEF PrepareForRemoval, EdgeTypes
  <2>2. resetGen' \in 0 .. MaxResets BY <1>1, <1>2, EdgeAssumption DEF EdgeTypes
  <2> QED BY <1>1, <1>2, <2>1, <2>2 DEF EdgeTypes
<1>5. TableSound(jobs)'
  <2>1. jobs' \in [JobId -> Row] BY <1>1, <1>3
  <2> SUFFICES ASSUME NEW j \in JobId PROVE Sound(jobs'[j], deliveries[j], posts[j], lost[j], TRUE)
    BY <1>1, <2>1 DEF TableSound
  <2>2. Sound(jobs[j], deliveries[j], posts[j], lost[j], removed) BY <1>2 DEF TableSound
  <2>3. posts[j] \in Nat /\ lost[j] \in Nat BY <1>2 DEF EdgeTypes
  <2> QED BY <1>3, <2>2, <2>3 DEF Sound, Terminal
<1>6. (\A q \in tasks : SweepSound(q))' BY <1>1 DEF EdgeInv, SweepSound
<1>7. EnqueuesSound'
  <2>1. \A j \in JobId : jobs[j].status = "absent" => jobs'[j].status = "absent"
    <3> SUFFICES ASSUME NEW j \in JobId, jobs[j].status = "absent" PROVE jobs'[j].status = "absent"
      OBVIOUS
    <3>1. Sound(jobs[j], deliveries[j], posts[j], lost[j], removed) BY <1>2 DEF TableSound
    <3> QED BY <1>3, <3>1 DEF Sound, Terminal, Active, Waiting
  <2>2. \A q \in tasks : q.job \in JobId BY TaskKnown
  <2> QED BY <1>1, <2>1, <2>2 DEF EdgeInv, EnqueuesSound
<1>8. WorkHasAlarm'
  <2>1. HasWork(jobs)' => HasWork(jobs) BY <1>3 DEF HasWork, Active, Waiting
  <2> QED BY <1>1, <2>1 DEF EdgeInv, WorkHasAlarm
<1> QED BY <1>4, <1>5, <1>6, <1>7, <1>8 DEF EdgeInv

(* Slack answers, or its answer is lost.                                   *)
LEMMA SlackAnswersKeeps ==
  ASSUME EdgeInv, NEW j \in JobId, SlackAnswers(j)
  PROVE  EdgeInv'
<1>1. UNCHANGED <<jobs, sockets, alarm, tasks, resetGen, removed, crashes>> /\ deliveries[j] \in {"empty", "posting"}
  BY DEF SlackAnswers
<1>2. TableSound(jobs) /\ EdgeTypes BY DEF EdgeInv
<1>3. /\ posts' \in [JobId -> Nat] /\ lost' \in [JobId -> Nat]
      /\ deliveries' \in [JobId -> {"none", "empty", "posting", "accepted", "retry", "final"}]
      /\ \A k \in JobId \ {j} : posts'[k] = posts[k] /\ lost'[k] = lost[k] /\ deliveries'[k] = deliveries[k]
      /\ \/ /\ deliveries'[j] = "accepted"
            /\ posts'[j] = posts[j] + 1 /\ lost'[j] = lost[j]
         \/ /\ deliveries'[j] = "retry"
            /\ posts'[j] = posts[j] + 1 /\ lost'[j] = lost[j] + 1
         \/ /\ deliveries'[j] \in {"retry", "final"} /\ posts'[j] = posts[j] /\ lost'[j] = lost[j]
  BY <1>2 DEF SlackAnswers, EdgeTypes
<1>4. EdgeTypes' BY <1>1, <1>2, <1>3 DEF EdgeTypes
<1>5. TableSound(jobs)'
  <2> SUFFICES ASSUME NEW k \in JobId PROVE Sound(jobs[k], deliveries'[k], posts'[k], lost'[k], removed)
    BY <1>1, <1>2 DEF TableSound
  <2>1. Sound(jobs[k], deliveries[k], posts[k], lost[k], removed) BY <1>2 DEF TableSound
  <2>2. posts[k] \in Nat /\ lost[k] \in Nat BY <1>2 DEF EdgeTypes
  <2>3. CASE k # j BY <1>3, <2>1, <2>3
  <2>4. CASE k = j BY <1>1, <1>3, <2>1, <2>2, <2>4 DEF Sound, Terminal
  <2> QED BY <2>3, <2>4
<1>6. (\A q \in tasks : SweepSound(q))' BY <1>1 DEF EdgeInv, SweepSound
<1>7. EnqueuesSound' BY <1>1 DEF EdgeInv, EnqueuesSound
<1>8. WorkHasAlarm' BY <1>1 DEF EdgeInv, WorkHasAlarm, HasWork
<1> QED BY <1>4, <1>5, <1>6, <1>7, <1>8 DEF EdgeInv

(* The rows the record of an outcome may leave.                            *)
LEMMA RecordedRow ==
  ASSUME EdgeInv, NEW j \in JobId, RecordDelivery(j)
  PROVE  /\ UNCHANGED <<sockets, tasks, resetGen, removed, posts, lost, crashes>>
         /\ alarm' \in {TRUE, alarm}
         /\ deliveries' = [deliveries EXCEPT ![j] = "none"]
         /\ deliveries[j] \in {"accepted", "retry", "final"}
         /\ jobs' = [jobs EXCEPT ![j] = jobs'[j]] /\ jobs'[j] \in Row
         /\ jobs'[j].status = jobs[j].status
         /\ \/ jobs[j].status \notin Present /\ jobs'[j] = jobs[j]
            \/ /\ jobs[j].status \in Present
               /\ \/ /\ deliveries[j] = "accepted"
                     /\ jobs'[j].delivery = "delivered" /\ jobs'[j].response = "none"
                  \/ /\ deliveries[j] # "accepted"
                     /\ jobs'[j].delivery = "failed" /\ jobs'[j].response = "none"
                  \/ /\ deliveries[j] # "accepted"
                     /\ jobs'[j].delivery = jobs[j].delivery /\ jobs'[j].response = jobs[j].response
<1> DEFINE row     == jobs[j]
           tried   == row.attempts + 1
           again   == deliveries[j] = "retry" /\ tried < MaxAttempts
           counted == [row EXCEPT !.attempts = tried]
           new     == IF row.status \notin Present THEN row
                      ELSE IF deliveries[j] = "accepted" THEN Settled(row, "delivered")
                      ELSE IF ~again THEN Settled(counted, "failed")
                      ELSE IF row.delivery = "pending" THEN counted ELSE row
<1>1. jobs \in [JobId -> Row] BY DEF EdgeInv, TableSound
<1>2. /\ UNCHANGED <<sockets, tasks, resetGen, removed, posts, lost, crashes>>
      /\ alarm' \in {TRUE, alarm} /\ deliveries[j] \in {"accepted", "retry", "final"}
      /\ deliveries' = [deliveries EXCEPT ![j] = "none"]
  BY DEF RecordDelivery, ghosts, Schedule
<1>3. jobs' = [jobs EXCEPT ![j] = new] BY DEF RecordDelivery
<1>4. row \in Row BY <1>1
<1>5. counted \in Row /\ counted.status = row.status
      /\ counted.delivery = row.delivery /\ counted.response = row.response
  <2>1. tried \in Nat BY <1>4 DEF Row
  <2> HIDE DEF tried, row
  <2> QED BY <1>4, <2>1 DEF Row
<1> HIDE DEF counted, again
<1>6. /\ Settled(row, "delivered") \in Row /\ Settled(row, "delivered").status = row.status
      /\ Settled(row, "delivered").delivery = "delivered" /\ Settled(row, "delivered").response = "none"
  BY <1>4, WrittenRows
<1>7. /\ Settled(counted, "failed") \in Row /\ Settled(counted, "failed").status = row.status
      /\ Settled(counted, "failed").delivery = "failed" /\ Settled(counted, "failed").response = "none"
  BY <1>5, WrittenRows
<1>8. new \in Row /\ new.status = row.status
      /\ \/ row.status \notin Present /\ new = row
         \/ /\ row.status \in Present
            /\ \/ /\ deliveries[j] = "accepted"
                  /\ new.delivery = "delivered" /\ new.response = "none"
               \/ /\ deliveries[j] # "accepted"
                  /\ new.delivery = "failed" /\ new.response = "none"
               \/ /\ deliveries[j] # "accepted"
                  /\ new.delivery = row.delivery /\ new.response = row.response
  BY <1>4, <1>5, <1>6, <1>7
<1> HIDE DEF new
<1>9. jobs'[j] = new BY <1>1, <1>3
<1> QED BY <1>2, <1>3, <1>8, <1>9

(* The outcome of a post is recorded.                                      *)
LEMMA RecordDeliveryKeeps ==
  ASSUME EdgeInv, NEW j \in JobId, RecordDelivery(j)
  PROVE  EdgeInv'
<1>1. /\ UNCHANGED <<sockets, tasks, resetGen, removed, posts, lost, crashes>>
      /\ alarm' \in {TRUE, alarm}
      /\ deliveries' = [deliveries EXCEPT ![j] = "none"]
      /\ deliveries[j] \in {"accepted", "retry", "final"}
  BY RecordedRow
<1>2. TableSound(jobs) /\ EdgeTypes BY DEF EdgeInv
<1>3. jobs' \in [JobId -> Row] /\ \A k \in JobId \ {j} : jobs'[k] = jobs[k]
  <2>1. jobs' = [jobs EXCEPT ![j] = jobs'[j]] /\ jobs'[j] \in Row BY RecordedRow
  <2> QED BY <1>2, <2>1 DEF TableSound
<1>4. Sound(jobs[j], deliveries[j], posts[j], lost[j], removed)
      /\ posts[j] \in Nat /\ lost[j] \in Nat
  BY <1>2 DEF TableSound, EdgeTypes
<1>5. jobs[j].status \in Terminal \cup {"purged"} BY <1>1, <1>4 DEF Sound
<1>6. Sound(jobs'[j], "none", posts[j], lost[j], removed)
  <2>1. jobs'[j].status = jobs[j].status BY RecordedRow
  <2>2. CASE jobs[j].status \notin Present /\ jobs'[j] = jobs[j]
    BY <1>1, <1>4, <1>5, <2>2 DEF Sound, Present, Terminal
  <2>3. CASE /\ jobs[j].status \in Present
             /\ \/ /\ deliveries[j] = "accepted"
                   /\ jobs'[j].delivery = "delivered" /\ jobs'[j].response = "none"
                \/ /\ deliveries[j] # "accepted"
                   /\ jobs'[j].delivery = "failed" /\ jobs'[j].response = "none"
                \/ /\ deliveries[j] # "accepted"
                   /\ jobs'[j].delivery = jobs[j].delivery /\ jobs'[j].response = jobs[j].response
    BY <1>1, <1>4, <1>5, <2>1, <2>3 DEF Sound, Present, Active, Waiting, Terminal
  <2> QED BY <2>2, <2>3, RecordedRow
<1>7. TableSound(jobs)'
  <2> SUFFICES ASSUME NEW k \in JobId PROVE Sound(jobs'[k], deliveries'[k], posts[k], lost[k], removed)
    BY <1>1, <1>3 DEF TableSound
  <2>1. CASE k = j BY <1>1, <1>2, <1>6, <2>1 DEF EdgeTypes
  <2>2. CASE k # j BY <1>1, <1>2, <1>3, <2>2 DEF EdgeTypes, TableSound
  <2> QED BY <2>1, <2>2
<1>8. EdgeTypes' BY <1>1, <1>2 DEF EdgeTypes
<1>9. (\A q \in tasks : SweepSound(q))' BY <1>1 DEF EdgeInv, SweepSound
<1>10. jobs'[j].status = jobs[j].status BY RecordedRow
<1>11. EnqueuesSound'
  <2>1. \A q \in tasks : q.job \in JobId BY TaskKnown
  <2> QED BY <1>1, <1>3, <1>10, <2>1 DEF EdgeInv, EnqueuesSound
<1>12. WorkHasAlarm'
  <2>1. jobs'[j].delivery = "pending" => jobs[j].delivery = "pending" BY RecordedRow
  <2>2. HasWork(jobs)' => HasWork(jobs) BY <1>3, <1>10, <2>1 DEF HasWork
  <2>3. HasWork(jobs) => alarm \/ AlarmRuns BY DEF EdgeInv, WorkHasAlarm, AlarmRuns
  <2>4. alarm \/ AlarmRuns => alarm' \/ AlarmRuns'
    <3>1. AlarmRuns' <=> AlarmRuns BY <1>1 DEF AlarmRuns
    <3>2. alarm \in BOOLEAN BY <1>2 DEF EdgeTypes
    <3> QED BY <1>1, <3>1, <3>2
  <2>5. HasWork(jobs)' => alarm' \/ AlarmRuns' BY <2>2, <2>3, <2>4
  <2> QED BY <2>5 DEF WorkHasAlarm, AlarmRuns
<1> QED BY <1>7, <1>8, <1>9, <1>11, <1>12 DEF EdgeInv

(* An eviction: what the object has not recorded is lost, an alarm that    *)
(* was running is set again.                                               *)
LEMMA EvictKeeps ==
  ASSUME EdgeInv, Evict
  PROVE  EdgeInv'
<1>1. /\ UNCHANGED <<jobs, sockets, resetGen, removed, posts>>
      /\ tasks' = {} /\ deliveries' = [j \in JobId |-> "none"]
      /\ alarm' = (alarm \/ AlarmRuns)
      /\ lost' = [j \in JobId |-> IF deliveries[j] = "accepted" THEN lost[j] + 1 ELSE lost[j]]
      /\ crashes < MaxCrashes /\ crashes' = crashes + 1
  BY DEF Evict, AlarmRuns
<1>2. TableSound(jobs) /\ EdgeTypes BY DEF EdgeInv
<1>3. EdgeTypes'
  <2>1. crashes' \in 0 .. MaxCrashes BY <1>1, <1>2, EdgeAssumption DEF EdgeTypes
  <2>2. alarm' \in BOOLEAN BY <1>1, <1>2 DEF EdgeTypes, AlarmRuns
  <2>3. lost' \in [JobId -> Nat] BY <1>1, <1>2 DEF EdgeTypes
  <2> QED BY <1>1, <1>2, <2>1, <2>2, <2>3 DEF EdgeTypes
<1>4. TableSound(jobs)'
  <2> SUFFICES ASSUME NEW j \in JobId PROVE Sound(jobs[j], "none", posts[j], lost'[j], removed)
    BY <1>1, <1>2 DEF TableSound
  <2>1. Sound(jobs[j], deliveries[j], posts[j], lost[j], removed) /\ posts[j] \in Nat /\ lost[j] \in Nat
    BY <1>2 DEF TableSound, EdgeTypes
  <2> QED BY <1>1, <2>1 DEF Sound
<1>5. (\A q \in tasks : SweepSound(q))' BY <1>1
<1>6. EnqueuesSound' BY <1>1 DEF EnqueuesSound
<1>7. WorkHasAlarm'
  <2>1. HasWork(jobs)' => HasWork(jobs) BY <1>1 DEF HasWork
  <2>2. HasWork(jobs) => alarm \/ AlarmRuns BY DEF EdgeInv, WorkHasAlarm, AlarmRuns
  <2> QED BY <1>1, <2>1, <2>2 DEF WorkHasAlarm
<1> QED BY <1>3, <1>4, <1>5, <1>6, <1>7 DEF EdgeInv

----------------------------------------------------------------------------
(* The invariant.                                                          *)

(* It holds of an object that has no turns yet.                            *)
LEMMA InitKeeps == ASSUME Init PROVE EdgeInv
<1>1. jobs = [j \in JobId |-> AbsentRow] /\ AbsentRow \in Row BY FreeRows DEF Init
<1>2. EdgeTypes
  <2>1. 0 \in 0 .. MaxResets /\ 0 \in 0 .. MaxCrashes BY EdgeAssumption
  <2> QED BY <2>1 DEF Init, EdgeTypes
<1>3. TableSound(jobs)
  <2> SUFFICES ASSUME NEW j \in JobId
               PROVE  Sound(AbsentRow, "none", 0, 0, FALSE)
    BY <1>1 DEF TableSound, Init
  <2> QED BY DEF Sound, AbsentRow, Terminal
<1>4. (\A q \in tasks : SweepSound(q)) /\ EnqueuesSound BY DEF Init, EnqueuesSound
<1>5. WorkHasAlarm
  BY <1>1 DEF WorkHasAlarm, HasWork, AbsentRow, Active, Waiting
<1> QED BY <1>2, <1>3, <1>4, <1>5 DEF EdgeInv

(* Nothing changes.                                                        *)
LEMMA StutterKeeps == ASSUME EdgeInv, UNCHANGED vars PROVE EdgeInv'
<1>1. TableSound(jobs) /\ EdgeTypes BY DEF EdgeInv
<1>2. UNCHANGED <<jobs, sockets, alarm, tasks, deliveries, resetGen, removed, posts, lost, crashes>>
  BY DEF vars, ghosts
<1>3. TableStep BY <1>1, <1>2, SameTable DEF TableStep
<1>4. TasksFollow /\ AlarmOwed /\ alarm' \in BOOLEAN BY <1>2, TasksStay
<1>5. OrdinaryStep BY <1>1, <1>2, <1>3, <1>4 DEF OrdinaryStep, SideTypes, EdgeTypes
<1> QED BY <1>5, OrdinaryStepKeeps

(* What a step of the coordinator is.                                      *)
LEMMA StepKinds ==
  ASSUME EdgeInv, Next
  PROVE  \/ OrdinaryStep \/ PrepareForRemoval \/ Evict
         \/ \E j \in JobId, e \in EventId : EnqueueTurn(j, e)
         \/ \E task \in tasks : InsertTurn(task)
         \/ \E j \in JobId : SlackAnswers(j) \/ RecordDelivery(j)
<1>1. CASE CancelPending \/ CancelActiveTurns BY <1>1, CancelKeeps
<1>2. CASE RestartRuntimeConnections \/ \E s \in Socket : Connect(s) \/ SocketClosed(s)
  BY <1>2, ConnectionsKeep
<1>3. CASE \E s \in Socket, j \in JobId : Frame(s, j)
  BY <1>3, FrameSuspended, FrameHandled DEF Frame
<1>4. CASE \E task \in tasks : TaskStep(task)
  BY <1>4, FailSelectedKeeps, DeliveryOverKeeps, FrameResumed DEF TaskStep
<1>5. CASE Alarm BY <1>5, AlarmKeeps
<1>6. CASE \E j \in JobId : LimitPasses(j) \/ Expire(j) BY <1>6, TimeKeeps
<1> QED BY <1>1, <1>2, <1>3, <1>4, <1>5, <1>6 DEF Next

(* Every step keeps the invariant.                                         *)
LEMMA NextKeeps == ASSUME EdgeInv, Next PROVE EdgeInv'
<1>1. CASE OrdinaryStep BY <1>1, OrdinaryStepKeeps
<1>2. CASE PrepareForRemoval BY <1>2, PrepareForRemovalKeeps
<1>3. CASE Evict BY <1>3, EvictKeeps
<1>4. CASE \E j \in JobId, e \in EventId : EnqueueTurn(j, e) BY <1>4, EnqueueTurnKeeps
<1>5. CASE \E task \in tasks : InsertTurn(task) BY <1>5, InsertTurnKeeps
<1>6. CASE \E j \in JobId : SlackAnswers(j) \/ RecordDelivery(j)
  BY <1>6, SlackAnswersKeeps, RecordDeliveryKeeps
<1> QED BY <1>1, <1>2, <1>3, <1>4, <1>5, <1>6, StepKinds

(* The table is sound, sweeps are in their stages, requests that enqueue a *)
(* turn do not collide, and work has an alarm, in every reachable state.   *)
THEOREM EdgeInvariant == Spec => []EdgeInv
<1>1. Init => EdgeInv BY InitKeeps
<1>2. EdgeInv /\ [Next]_vars => EdgeInv' BY NextKeeps, StutterKeeps
<1> QED BY <1>1, <1>2, PTL DEF Spec

(* While the queue holds work an alarm is set or running: alarm(), which   *)
(* sets it again only when it ends, the sweeps, #scheduleCleanup and the   *)
(* evictions between them never lose it.                                   *)
THEOREM WorkIsWatched == Spec => []WorkHasAlarm
<1>1. EdgeInv => WorkHasAlarm BY DEF EdgeInv
<1> QED BY <1>1, EdgeInvariant, PTL

(* #deliveries keeps two handlers from posting a reply twice: a second     *)
(* post follows only an accepted one whose answer the object lost.         *)
THEOREM EdgePostsCorrect == Spec => []EdgePostsAccounted
<1>1. EdgeInv => EdgePostsAccounted
  <2> SUFFICES ASSUME EdgeInv PROVE EdgePostsAccounted OBVIOUS
  <2>1. EdgeTypes /\ TableSound(jobs) BY DEF EdgeInv
  <2>2. \A j \in JobId : Sound(jobs[j], deliveries[j], posts[j], lost[j], removed)
    BY <2>1 DEF TableSound
  <2>3. EdgeTypeOK BY <2>1, <2>2 DEF EdgeTypes, TableSound, EdgeTypeOK, Sound
  <2>4. \A j \in JobId : posts[j] <= 1 + lost[j] /\ (jobs[j].delivery = "delivered" => posts[j] > 0)
    BY <2>2 DEF Sound
  <2> QED BY <2>3, <2>4 DEF EdgePostsAccounted
<1> QED BY <1>1, EdgeInvariant, PTL

----------------------------------------------------------------------------
(* The coordinator implements TurnReplies, when Slack is configured.       *)

(* A delivery status goes with a finished turn.                            *)
Linked(row) == row.delivery # "none" <=> row.status \in Terminal

(* The phase a row is in.                                                  *)
LEMMA Phases ==
  ASSUME NEW row \in Row, Linked(row)
  PROVE  /\ row.status = "absent" => PhaseOf(row) = "new"
         /\ row.status = "purged" => PhaseOf(row) = "forgotten"
         /\ row.status \in Waiting => PhaseOf(row) = "accepted"
         /\ row.status = "running" => PhaseOf(row) = "working"
         /\ row.delivery = "pending" => PhaseOf(row) = "answered"
         /\ row.delivery = "delivered" => PhaseOf(row) = "delivered"
         /\ row.delivery = "failed" => PhaseOf(row) = "abandoned"
<1>1. \/ row.status = "absent" /\ row.delivery = "none"
      \/ row.status = "purged" /\ row.delivery = "none"
      \/ row.status \in Waiting /\ row.delivery = "none"
      \/ row.status = "running" /\ row.delivery = "none"
      \/ row.status \in Terminal /\ row.delivery \in {"pending", "delivered", "failed"}
  BY DEF Linked, Row, Present, Active, Waiting, Terminal
<1>2. CASE row.status = "absent" /\ row.delivery = "none" BY <1>2 DEF PhaseOf, Waiting
<1>3. CASE row.status = "purged" /\ row.delivery = "none" BY <1>3 DEF PhaseOf, Waiting
<1>4. CASE row.status \in Waiting /\ row.delivery = "none" BY <1>4 DEF PhaseOf, Waiting
<1>5. CASE row.status = "running" /\ row.delivery = "none" BY <1>5 DEF PhaseOf, Waiting
<1>6. CASE row.status \in Terminal /\ row.delivery \in {"pending", "delivered", "failed"}
  BY <1>6 DEF PhaseOf, Waiting, Terminal
<1> QED BY <1>1, <1>2, <1>3, <1>4, <1>5, <1>6

(* What becomes of the phase when a handler writes the row.                *)
LEMMA PhaseSteps ==
  ASSUME NEW row \in Row, NEW new \in Row, Linked(row), Linked(new)
  PROVE  /\ Keeps(row, new) => PhaseOf(new) = PhaseOf(row)
         /\ Starts(row, new) => PhaseOf(row) = "accepted" /\ PhaseOf(new) = "working"
         /\ Answers(row, new) => PhaseOf(row) \in {"accepted", "working"} /\ PhaseOf(new) = "answered"
         /\ Enters(row, new) => PhaseOf(row) = "new" /\ PhaseOf(new) = "accepted"
         /\ Forgets(row, new) => PhaseOf(row) \in {"delivered", "abandoned"} /\ PhaseOf(new) = "forgotten"
<1>1. ASSUME Keeps(row, new) PROVE PhaseOf(new) = PhaseOf(row)
  <2>1. \/ row.status \in Terminal /\ row.delivery \in {"pending", "delivered", "failed"}
        \/ row.status \in {"absent", "purged", "running"} \cup Waiting
    BY DEF Linked, Row, Present, Active
  <2>2. new.delivery = row.delivery /\ (new.status = row.status \/ {row.status, new.status} \subseteq Waiting)
    BY <1>1 DEF Keeps
  <2> QED BY <2>1, <2>2, Phases
<1>2. ASSUME Starts(row, new) PROVE PhaseOf(row) = "accepted" /\ PhaseOf(new) = "working"
  BY <1>2, Phases DEF Starts
<1>3. ASSUME Answers(row, new) PROVE PhaseOf(row) \in {"accepted", "working"} /\ PhaseOf(new) = "answered"
  BY <1>3, Phases DEF Answers, Active
<1>4. ASSUME Enters(row, new) PROVE PhaseOf(row) = "new" /\ PhaseOf(new) = "accepted"
  BY <1>4, Phases DEF Enters, Waiting
<1>5. ASSUME Forgets(row, new) PROVE PhaseOf(row) \in {"delivered", "abandoned"} /\ PhaseOf(new) = "forgotten"
  BY <1>5, Phases DEF Forgets
<1> QED BY <1>1, <1>2, <1>3, <1>4, <1>5

(* A turn that goes from one phase to the next is a move of TurnReplies.   *)
LEMMA PhaseMove ==
  ASSUME NEW i \in JobId, NEW from, NEW to, posts' = posts,
         PhaseOf(jobs[i]) \in from, PhaseOf(jobs'[i]) = to,
         \A j \in JobId \ {i} : PhaseOf(jobs'[j]) = PhaseOf(jobs[j])
  PROVE  Replies!Move(i, from, to)
<1> DEFINE P == [j \in JobId |-> PhaseOf(jobs[j])]
           Q == [j \in JobId |-> PhaseOf(jobs'[j])]
<1>1. P[i] \in from OBVIOUS
<1>2. Q = [P EXCEPT ![i] = to] OBVIOUS
<1> QED BY <1>1, <1>2 DEF Replies!Move

(* No turn changes its phase.                                              *)
LEMMA PhasesStay ==
  ASSUME posts' = posts, \A j \in JobId : PhaseOf(jobs'[j]) = PhaseOf(jobs[j])
  PROVE  UNCHANGED Replies!vars
BY DEF Replies!vars

(* The rows of the table before and after the step.                        *)
LEMMA RowsLinked ==
  ASSUME EdgeInv, EdgeInv'
  PROVE  /\ \A j \in JobId : jobs[j] \in Row /\ Linked(jobs[j])
         /\ \A j \in JobId : jobs'[j] \in Row /\ Linked(jobs'[j])
<1>1. TableSound(jobs) /\ TableSound(jobs)' BY DEF EdgeInv
<1> QED BY <1>1 DEF TableSound, Sound, Linked

(* An ordinary step begins, answers or forgets turns, or shows nothing.    *)
LEMMA OrdinaryStepRefines ==
  ASSUME SlackConfigured, EdgeInv, EdgeInv', OrdinaryStep
  PROVE  Replies!Next \/ UNCHANGED Replies!vars
<1>1. posts' = posts BY DEF OrdinaryStep
<1>2. Reaches(jobs')
  <2>1. PICK t : Reaches(t) /\ ((jobs' = t /\ deliveries' = deliveries) \/ \E j \in JobId : Deliver(t, j))
    BY DEF OrdinaryStep, TableStep
  <2>2. ASSUME NEW j \in JobId, Deliver(t, j) PROVE jobs' = t
    BY <2>2 DEF Deliver, RowsAfterDeliver
  <2> QED BY <2>1, <2>2
<1>3. CASE \A j \in JobId : Keeps(jobs[j], jobs'[j]) \/ Forgets(jobs[j], jobs'[j])
  <2> DEFINE S == {j \in JobId : Forgets(jobs[j], jobs'[j])}
             P == [j \in JobId |-> PhaseOf(jobs[j])]
             Q == [j \in JobId |-> PhaseOf(jobs'[j])]
  <2>1. \A j \in S : P[j] \in {"delivered", "abandoned"} BY RowsLinked, PhaseSteps
  <2>2. Q = [j \in JobId |-> IF j \in S THEN "forgotten" ELSE P[j]]
    BY <1>3, RowsLinked, PhaseSteps
  <2>3. Replies!Forget(S) BY <1>1, <2>1, <2>2 DEF Replies!Forget, Replies!Closed
  <2>4. S \in SUBSET JobId OBVIOUS
  <2> HIDE DEF S
  <2> QED BY <2>3, <2>4 DEF Replies!Next
<1>4. ASSUME NEW i \in JobId, Starts(jobs[i], jobs'[i]) \/ Answers(jobs[i], jobs'[i]),
             \A j \in JobId \ {i} : Keeps(jobs[j], jobs'[j])
      PROVE  Replies!Next
  <2>1. \A j \in JobId \ {i} : PhaseOf(jobs'[j]) = PhaseOf(jobs[j])
    BY <1>4, RowsLinked, PhaseSteps
  <2>2. CASE Starts(jobs[i], jobs'[i])
    <3>1. PhaseOf(jobs[i]) \in {"accepted"} /\ PhaseOf(jobs'[i]) = "working"
      BY <2>2, RowsLinked, PhaseSteps
    <3>2. Replies!Move(i, {"accepted"}, "working") BY <1>1, <2>1, <3>1, PhaseMove
    <3> QED BY <3>2 DEF Replies!Next, Replies!Begin
  <2>3. CASE Answers(jobs[i], jobs'[i])
    <3>1. PhaseOf(jobs[i]) \in {"accepted", "working"} /\ PhaseOf(jobs'[i]) = "answered"
      BY <2>3, RowsLinked, PhaseSteps
    <3>2. Replies!Move(i, {"accepted", "working"}, "answered") BY <1>1, <2>1, <3>1, PhaseMove
    <3> QED BY <3>2 DEF Replies!Next, Replies!Answer
  <2> QED BY <1>4, <2>2, <2>3
<1> QED BY <1>2, <1>3, <1>4 DEF Reaches

(* The INSERT accepts the turn, if it does not throw.                      *)
LEMMA InsertTurnRefines ==
  ASSUME EdgeInv, EdgeInv', NEW task \in tasks, InsertTurn(task)
  PROVE  Replies!Next \/ UNCHANGED Replies!vars
<1>1. posts' = posts /\ task.kind = "enqueue" BY DEF InsertTurn, ghosts
<1>2. task.job \in JobId /\ task \in Task BY TaskKnown
<1>3. jobs[task.job].status = "absent" BY <1>1 DEF EdgeInv, EnqueuesSound
<1>4. CASE jobs' = jobs BY <1>1, <1>4, PhasesStay
<1>5. CASE jobs' = [jobs EXCEPT ![task.job] = Enqueued(task.event)]
  <2>1. jobs \in [JobId -> Row] BY DEF EdgeInv, TableSound
  <2>2. jobs'[task.job] = Enqueued(task.event) /\ \A k \in JobId \ {task.job} : jobs'[k] = jobs[k]
    BY <1>2, <1>5, <2>1
  <2>3. Enters(jobs[task.job], jobs'[task.job])
    <3>1. task.event \in EventId \cup {None} BY <1>2 DEF Task
    <3> QED BY <1>3, <2>2, <3>1, FreeRows
  <2>4. PhaseOf(jobs[task.job]) \in {"new"} /\ PhaseOf(jobs'[task.job]) = "accepted"
    BY <1>2, <2>3, RowsLinked, PhaseSteps
  <2>5. Replies!Move(task.job, {"new"}, "accepted") BY <1>1, <1>2, <2>2, <2>4, PhaseMove
  <2> QED BY <1>2, <2>5 DEF Replies!Next, Replies!Accept
<1> QED BY <1>4, <1>5 DEF InsertTurn

(* Until a removal, what is posted is owed.                                *)
LEMMA SlackAnswersRefines ==
  ASSUME EdgeInv, EdgeInv', ~removed, NEW j \in JobId, SlackAnswers(j)
  PROVE  Replies!Next \/ UNCHANGED Replies!vars
<1>1. jobs' = jobs /\ deliveries[j] \in {"empty", "posting"} BY DEF SlackAnswers
<1>2. PhaseOf(jobs[j]) = "answered"
  <2>1. Sound(jobs[j], deliveries[j], posts[j], lost[j], removed) BY DEF EdgeInv, TableSound
  <2>2. jobs[j].delivery = "pending" BY <1>1, <2>1 DEF Sound
  <2> QED BY <2>2, RowsLinked, Phases
<1>3. CASE posts' = posts BY <1>1, <1>3, PhasesStay
<1>4. CASE posts' = [posts EXCEPT ![j] = @ + 1]
  <2>1. Replies!Post(j) BY <1>1, <1>2, <1>4 DEF Replies!Post
  <2> QED BY <2>1 DEF Replies!Next
<1> QED BY <1>3, <1>4 DEF SlackAnswers

(* Until a removal, what is recorded is the outcome of a reply that is     *)
(* owed; it is delivered if Slack accepted it.                             *)
LEMMA RecordDeliveryRefines ==
  ASSUME EdgeInv, EdgeInv', ~removed, NEW j \in JobId, RecordDelivery(j)
  PROVE  Replies!Next \/ UNCHANGED Replies!vars
<1>1. /\ posts' = posts /\ deliveries[j] \in {"accepted", "retry", "final"}
      /\ jobs' = [jobs EXCEPT ![j] = jobs'[j]] /\ jobs'[j].status = jobs[j].status
  BY RecordedRow
<1>2. Sound(jobs[j], deliveries[j], posts[j], lost[j], removed) BY DEF EdgeInv, TableSound
<1>3. jobs[j].delivery = "pending" /\ jobs[j].status \in Terminal
      /\ (deliveries[j] = "accepted" => posts[j] > 0)
  BY <1>1, <1>2, RowsLinked DEF Sound, Linked
<1>4. PhaseOf(jobs[j]) \in {"answered"} BY <1>3, RowsLinked, Phases
<1>5. \A k \in JobId \ {j} : PhaseOf(jobs'[k]) = PhaseOf(jobs[k])
  <2>1. jobs \in [JobId -> Row] BY DEF EdgeInv, TableSound
  <2>2. \A k \in JobId \ {j} : jobs'[k] = jobs[k] BY <1>1, <2>1
  <2> QED BY <2>2
<1>6. \/ deliveries[j] = "accepted" /\ jobs'[j].delivery = "delivered"
      \/ jobs'[j].delivery = "failed"
      \/ jobs'[j].delivery = "pending"
  BY <1>3, RecordedRow DEF Present
<1>7. CASE deliveries[j] = "accepted" /\ jobs'[j].delivery = "delivered"
  <2>1. PhaseOf(jobs'[j]) = "delivered" BY <1>7, RowsLinked, Phases
  <2>2. Replies!Move(j, {"answered"}, "delivered") BY <1>1, <1>4, <1>5, <2>1, PhaseMove
  <2> QED BY <1>3, <1>7, <2>2 DEF Replies!Next, Replies!Deliver
<1>8. CASE jobs'[j].delivery = "failed"
  <2>1. PhaseOf(jobs'[j]) = "abandoned" BY <1>8, RowsLinked, Phases
  <2>2. Replies!Move(j, {"answered"}, "abandoned") BY <1>1, <1>4, <1>5, <2>1, PhaseMove
  <2> QED BY <2>2 DEF Replies!Next, Replies!Abandon
<1>9. CASE jobs'[j].delivery = "pending"
  <2>1. PhaseOf(jobs'[j]) = "answered" BY <1>9, RowsLinked, Phases
  <2> QED BY <1>1, <1>4, <1>5, <2>1, PhasesStay
<1> QED BY <1>6, <1>7, <1>8, <1>9

(* Every step maps to a step or a stutter of TurnReplies, until a removal. *)
LEMMA NextRefines ==
  ASSUME SlackConfigured, EdgeInv, EdgeInv', Next
  PROVE  removed' \/ Replies!Next \/ UNCHANGED Replies!vars
<1>1. CASE OrdinaryStep BY <1>1, OrdinaryStepRefines
<1>2. CASE PrepareForRemoval BY <1>2 DEF PrepareForRemoval
<1>3. CASE Evict BY <1>3, PhasesStay DEF Evict
<1>4. CASE \E j \in JobId, e \in EventId : EnqueueTurn(j, e)
  BY <1>4, PhasesStay DEF EnqueueTurn, ghosts
<1>5. CASE \E task \in tasks : InsertTurn(task) BY <1>5, InsertTurnRefines
<1>6. CASE \E j \in JobId : SlackAnswers(j) \/ RecordDelivery(j)
  <2>1. CASE removed
    <3>1. removed' = removed BY <1>6, RecordedRow DEF SlackAnswers
    <3> QED BY <2>1, <3>1
  <2>2. CASE ~removed BY <1>6, <2>2, SlackAnswersRefines, RecordDeliveryRefines
  <2> QED BY <2>1, <2>2
<1> QED BY <1>1, <1>2, <1>3, <1>4, <1>5, <1>6, StepKinds

(* Until the claw is removed, a coordinator with Slack implements          *)
(* TurnReplies, as the one on AWS does: stale selections, late frames,     *)
(* repeated alarms and evictions start no turn twice, answer none twice    *)
(* and post nothing that is not owed.  (Without Slack there is no post: a  *)
(* turn is finished and its delivery has failed in one step, which         *)
(* TurnReplies takes in two.)                                              *)
THEOREM EdgeRefinesReplies ==
  ASSUME SlackConfigured
  PROVE  Spec => EdgeImplementsReplies
<1>1. Init => Replies!Init
  <2> SUFFICES ASSUME Init PROVE Replies!Init OBVIOUS
  <2>1. \A j \in JobId : PhaseOf(jobs[j]) = "new"
    <3>1. \A j \in JobId : jobs[j] \in Row /\ Linked(jobs[j]) /\ jobs[j].status = "absent"
      BY FreeRows DEF Init, AbsentRow, Linked, Terminal
    <3> QED BY <3>1, Phases
  <2> QED BY <2>1 DEF Init, Replies!Init
<1>2. EdgeInv /\ EdgeInv' /\ [Next]_vars => [removed' \/ Replies!Next]_(Replies!vars)
  <2>1. ASSUME EdgeInv, EdgeInv', Next PROVE removed' \/ Replies!Next \/ UNCHANGED Replies!vars
    BY <2>1, NextRefines
  <2>2. ASSUME UNCHANGED vars PROVE UNCHANGED Replies!vars BY <2>2, PhasesStay DEF vars, ghosts
  <2> QED BY <2>1, <2>2
<1> QED BY <1>1, <1>2, EdgeInvariant, PTL DEF Spec, EdgeImplementsReplies

=============================================================================
