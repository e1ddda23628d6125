------------------------- MODULE TurnRepliesProofs -------------------------
(***************************************************************************)
(* The coordinator implements TurnReplies, for every value of its          *)
(* constants, and the action properties that follow from it.               *)
(***************************************************************************)
EXTENDS TurnCoordinatorProofs

(* A turn's phase, read off the two status columns of a well-formed row. *)
LEMMA PhaseFacts ==
  ASSUME NEW row, RowInv(row)
  PROVE  /\ PhaseOf(row) = "new" <=> row.status = "absent"
         /\ PhaseOf(row) = "accepted" <=> row.status \in Waiting
         /\ PhaseOf(row) = "working" <=> row.status = "running"
         /\ PhaseOf(row) = "forgotten" <=> row.status = "purged"
         /\ PhaseOf(row) = "answered" <=>
              row.status \in Terminal /\ row.deliveryStatus \in {"pending", "delivering"}
         /\ PhaseOf(row) = "delivered" <=>
              row.status \in Terminal /\ row.deliveryStatus = "delivered"
         /\ PhaseOf(row) = "abandoned" <=>
              row.status \in Terminal /\ row.deliveryStatus = "failed"
BY DEF RowInv, RowEnvelopes, Row, PhaseOf, Present, Active, Waiting, Terminal

(* A step that keeps every phase, posts nothing and removes nothing. *)
LEMMA Stutters ==
  ASSUME \A j \in JobId : PhaseOf(jobs'[j]) = PhaseOf(jobs[j]),
         posts' = posts, removed' = removed
  PROVE  UNCHANGED Replies!vars
BY DEF Replies!vars

(* A step that moves one turn. *)
LEMMA Moves ==
  ASSUME NEW j \in JobId, NEW from, NEW to, PhaseOf(jobs[j]) \in from,
         PhaseOf(jobs'[j]) = to,
         \A k \in JobId \ {j} : PhaseOf(jobs'[k]) = PhaseOf(jobs[k]),
         posts' = posts, removed' = removed
  PROVE  Replies!Move(j, from, to)
BY DEF Replies!Move

LEMMA EnqueueImplements ==
  ASSUME IInv, IInv', NEW j \in JobId, NEW e \in EventId, EnqueueTurn(j, e)
  PROVE  Replies!Accept(j)
<1>1. Rows /\ Rows'
  BY IInvSplit, IInvSplitNext
<1>2. PhaseOf(jobs[j]) = "new"
  BY <1>1, PhaseFacts DEF EnqueueTurn, Rows
<1>3. PhaseOf(jobs'[j]) = "accepted"
  <2>1. jobs'[j].status = "pending"
    BY <1>1 DEF EnqueueTurn, Rows, Enqueued, AbsentRow
  <2>. QED
    BY <1>1, <2>1, PhaseFacts DEF Rows, Waiting
<1>4. \A k \in JobId \ {j} : jobs'[k] = jobs[k]
  BY <1>1 DEF EnqueueTurn, Rows
<1>. QED
  BY <1>2, <1>3, <1>4, Moves DEF Replies!Accept, EnqueueTurn, control

(* Rows whose phase a step leaves alone. *)
LEMMA SamePhase ==
  ASSUME NEW old, NEW new, RowInv(old), RowInv(new),
         new.status = old.status \/ (new.status \in Waiting /\ old.status \in Waiting),
         \/ new.deliveryStatus = old.deliveryStatus
         \/ /\ new.deliveryStatus \in {"pending", "delivering"}
            /\ old.deliveryStatus \in {"pending", "delivering"}
  PROVE  PhaseOf(new) = PhaseOf(old)
BY DEF RowInv, RowEnvelopes, Row, PhaseOf, Present, Active, Waiting, Terminal

LEMMA ReleaseStutters ==
  ASSUME IInv, IInv', NEW S \in SUBSET JobId, \A j \in S : jobs[j].status = "offered",
         jobs' = jobs \/ jobs' = Update(S, Released), posts' = posts, removed' = removed
  PROVE  UNCHANGED Replies!vars
<1>1. Rows /\ Rows'
  BY IInvSplit, IInvSplitNext
<1>2. \A j \in S : Released(jobs[j]).status = "pending" /\ SameDelivery(Released(jobs[j]), jobs[j])
  BY <1>1, ReleasedRow DEF Rows
<1>3. ASSUME NEW j \in JobId
      PROVE  \/ jobs'[j] = jobs[j]
             \/ /\ jobs[j].status = "offered" /\ jobs'[j].status = "pending"
                /\ jobs'[j].deliveryStatus = jobs[j].deliveryStatus
  BY <1>2 DEF Update, SameDelivery
<1>4. \A j \in JobId : PhaseOf(jobs'[j]) = PhaseOf(jobs[j])
  BY <1>1, <1>3, SamePhase DEF Rows, Waiting
<1>. QED
  BY <1>4, Stutters

LEMMA ConnectionsStutter ==
  ASSUME IInv, IInv', Connections
  PROVE  UNCHANGED Replies!vars
<1>1. \A r : OfferedTo(r) \in SUBSET JobId /\ \A j \in OfferedTo(r) : jobs[j].status = "offered"
  BY DEF OfferedTo
<1>2. ASSUME NEW s \in Socket, NEW r \in Runtime, AttachSocket(s, r)
      PROVE  UNCHANGED Replies!vars
  BY <1>1, <1>2, ReleaseStutters DEF AttachSocket, ReleaseReplaced, control
<1>3. ASSUME NEW s \in Socket, DetachSocket(s)
      PROVE  UNCHANGED Replies!vars
  BY <1>1, <1>3, ReleaseStutters DEF DetachSocket, control
<1>4. CASE RestartRuntimeConnections
  BY <1>4, ReleaseStutters DEF RestartRuntimeConnections, control
<1>. QED
  BY <1>2, <1>3, <1>4 DEF Connections

(* A claim moves a turn within the queue, a start begins it, a completion  *)
(* answers it.                                                             *)
LEMMA ClaimStutters ==
  ASSUME IInv, IInv', NEW s \in Socket, Claim(s)
  PROVE  UNCHANGED Replies!vars
<1>1. Rows /\ Rows' /\ posts' = posts /\ removed' = removed
  BY IInvSplit, IInvSplitNext DEF Claim, control
<1>2. ASSUME NEW j \in JobId, SendOffer(s, j), jobs[j].status = "offered"
      PROVE  UNCHANGED Replies!vars
  BY <1>1, <1>2, ReleaseStutters DEF SendOffer
<1>3. ASSUME NEW j \in JobId, NEW r, jobs[j].status = "pending",
             jobs' = [jobs EXCEPT ![j] = Offered(@, r)]
      PROVE  UNCHANGED Replies!vars
  <2>1. /\ jobs'[j].status = "offered" /\ jobs'[j].deliveryStatus = jobs[j].deliveryStatus
        /\ \A k \in JobId \ {j} : jobs'[k] = jobs[k]
    BY <1>1, <1>3 DEF Rows, Offered, RowInv, Row
  <2>2. \A k \in JobId : PhaseOf(jobs'[k]) = PhaseOf(jobs[k])
    BY <1>1, <1>3, <2>1, SamePhase DEF Rows, Waiting
  <2>. QED
    BY <1>1, <2>2, Stutters
<1>4. CASE UNCHANGED jobs
  BY <1>1, <1>4, Stutters
<1>. QED
  BY <1>2, <1>3, <1>4 DEF Claim, Oldest, OwnedOffers, OfferedTo, Claimable

LEMMA StartImplements ==
  ASSUME IInv, IInv', NEW s \in Socket, NEW j \in JobId, Start(s, j)
  PROVE  Replies!Begin(j) \/ UNCHANGED Replies!vars
<1>1. Rows /\ Rows' /\ posts' = posts /\ removed' = removed
  BY IInvSplit, IInvSplitNext DEF Start, control
<1>2. CASE UNCHANGED jobs
  BY <1>1, <1>2, Stutters
<1>3. CASE jobs[j].status = "offered" /\ jobs' = [jobs EXCEPT ![j] = Started(@)]
  <2>1. jobs'[j].status = "running" /\ \A k \in JobId \ {j} : jobs'[k] = jobs[k]
    BY <1>1, <1>3, StartedRow DEF Rows
  <2>2. PhaseOf(jobs[j]) = "accepted" /\ PhaseOf(jobs'[j]) = "working"
    BY <1>1, <1>3, <2>1, PhaseFacts DEF Rows, Waiting
  <2>. QED
    BY <1>1, <2>1, <2>2, Moves DEF Replies!Begin
<1>. QED
  BY <1>2, <1>3 DEF Start, OfferedTo

(* Finishing a job answers its turn. *)
LEMMA FinishImplements ==
  ASSUME IInv, IInv', NEW j \in JobId, FinishedFrom(jobs[j], jobs'[j]),
         \A k \in JobId \ {j} : jobs'[k] = jobs[k], posts' = posts, removed' = removed
  PROVE  Replies!Answer(j)
<1>1. Rows /\ Rows'
  BY IInvSplit, IInvSplitNext
<1>2. PhaseOf(jobs'[j]) = "answered"
  BY <1>1, PhaseFacts DEF Rows, FinishedFrom
<1>3. PhaseOf(jobs[j]) \in {"accepted", "working"}
  BY <1>1, PhaseFacts DEF Rows, FinishedFrom, Active, Waiting
<1>. QED
  BY <1>2, <1>3, Moves DEF Replies!Answer

LEMMA CompleteImplements ==
  ASSUME IInv, IInv', NEW s \in Socket, NEW j \in JobId, NEW ok \in BOOLEAN,
         Complete(s, j, ok)
  PROVE  Replies!Answer(j) \/ UNCHANGED Replies!vars
<1>1. Rows /\ posts' = posts /\ removed' = removed
  BY IInvSplit DEF Complete, control
<1>2. CASE UNCHANGED jobs
  BY <1>1, <1>2, Stutters
<1>3. CASE /\ jobs[j].status = "running"
           /\ jobs' = [jobs EXCEPT ![j] = IF ok THEN Finished(@, "completed", "answer")
                                                ELSE Finished(@, "failed", "notice")]
  <2>1. FinishedFrom(jobs[j], jobs'[j])
    BY <1>1, <1>3, FinishedRow DEF Rows, FinishedFrom, Active, Terminal
  <2>2. \A k \in JobId \ {j} : jobs'[k] = jobs[k]
    BY <1>1, <1>3 DEF Rows
  <2>. QED
    BY <1>1, <2>1, <2>2, FinishImplements
<1>. QED
  BY <1>2, <1>3 DEF Complete

(* Removing the claw withdraws exactly the turns that are open. *)
LEMMA RemovalImplements ==
  ASSUME IInv, IInv', PrepareForRemoval
  PROVE  Replies!Close
<1>1. Rows /\ Rows'
  BY IInvSplit, IInvSplitNext
<1>2. \A j \in JobId : j \in Unsettled <=> PhaseOf(jobs[j]) \in Replies!Open
  BY <1>1, PhaseFacts DEF Rows, Unsettled, Replies!Open, Present, Active, Waiting, Terminal
<1>3. \A j \in JobId : jobs'[j] = IF j \in Unsettled THEN Withdrawn(jobs[j]) ELSE jobs[j]
  BY DEF PrepareForRemoval, Update
<1>4. \A j \in Unsettled : Withdrawn(jobs[j]).status = "failed"
                           /\ Withdrawn(jobs[j]).deliveryStatus = "failed"
  BY <1>1, WithdrawnRow DEF Unsettled, Rows
<1>5. \A j \in JobId : PhaseOf(jobs'[j]) =
        IF PhaseOf(jobs[j]) \in Replies!Open THEN "abandoned" ELSE PhaseOf(jobs[j])
  BY <1>1, <1>2, <1>3, <1>4, PhaseFacts DEF Rows, Terminal
<1>. QED
  BY <1>5 DEF Replies!Close, PrepareForRemoval

LEMMA AdministrationImplements ==
  ASSUME IInv, IInv', Administration \/ CleanupSweep
  PROVE  Replies!Close \/ UNCHANGED Replies!vars
<1>1. CASE PrepareForRemoval
  BY <1>1, RemovalImplements
<1>2. CASE CancelPending \/ CancelActiveTurns
  BY <1>2, Stutters DEF CancelPending, CancelActiveTurns, control
<1>3. CASE CleanupSweep
  BY <1>3, ReleaseStutters DEF CleanupSweep, StaleOffers, control
<1>. QED
  BY <1>1, <1>2, <1>3 DEF Administration

LEMMA NextJobImplements ==
  ASSUME IInv, IInv', NEW j \in JobId, UNCHANGED control,
         CancelNext(j) \/ FailNext(j) \/ ExpireNext(j) \/ DeliverNext(j)
  PROVE  Replies!Answer(j) \/ UNCHANGED Replies!vars
<1>1. Rows /\ posts' = posts /\ removed' = removed
  BY IInvSplit DEF control
<1>2. CASE UNCHANGED jobs
  BY <1>1, <1>2, Stutters
<1>3. ASSUME NEW S \in SUBSET JobId, \A k \in S : jobs[k].status \in Active,
             jobs' = Update({j} \cap S, FailedRow)
      PROVE  Replies!Answer(j) \/ UNCHANGED Replies!vars
  <2>1. \A k \in JobId : jobs'[k] = IF k = j /\ j \in S THEN FailedRow(jobs[j]) ELSE jobs[k]
    BY <1>3 DEF Update
  <2>2. CASE j \in S
    <3>1. FinishedFrom(jobs[j], jobs'[j])
      BY <1>1, <1>3, <2>1, <2>2, FailedFinishes DEF Rows
    <3>. QED
      BY <1>1, <2>1, <3>1, FinishImplements
  <2>3. CASE j \notin S
    BY <1>1, <2>1, <2>3, Stutters
  <2>. QED
    BY <2>2, <2>3
<1>4. /\ WaitingJobs \in SUBSET JobId /\ \A k \in WaitingJobs : jobs[k].status \in Active
      /\ Running \in SUBSET JobId /\ \A k \in Running : jobs[k].status \in Active
  BY DEF WaitingJobs, Running, Waiting, Active
<1>. QED
  BY <1>2, <1>3, <1>4 DEF CancelNext, FailNext, ExpireNext, DeliverNext

LEMMA EndPhaseImplements ==
  ASSUME IInv, IInv', EndPhase, UNCHANGED control
  PROVE  (\E S \in SUBSET JobId : Replies!Forget(S)) \/ UNCHANGED Replies!vars
<1>1. Rows /\ Rows' /\ posts' = posts /\ removed' = removed
  BY IInvSplit, IInvSplitNext DEF control
<1>2. CASE UNCHANGED jobs
  BY <1>1, <1>2, Stutters
<1>3. CASE jobs' = Update(Retired, Purged)
  <2>1. \A j \in JobId : jobs'[j] = IF j \in Retired THEN Purged(jobs[j]) ELSE jobs[j]
    BY <1>3 DEF Update
  <2>2. \A j \in Retired : /\ j \in JobId /\ PhaseOf(jobs[j]) \in Replies!Closed
                           /\ Purged(jobs[j]).status = "purged"
    BY <1>1, PhaseFacts, PurgedRow DEF Rows, Retired, Replies!Closed
  <2>3. \A j \in JobId : PhaseOf(jobs'[j]) = IF j \in Retired THEN "forgotten" ELSE PhaseOf(jobs[j])
    BY <1>1, <2>1, <2>2, PhaseFacts DEF Rows
  <2>4. Replies!Forget(Retired)
    BY <1>1, <2>2, <2>3 DEF Replies!Forget
  <2>5. Retired \in SUBSET JobId
    BY DEF Retired
  <2>. QED
    BY <2>4, <2>5
<1>. QED
  BY <1>2, <1>3 DEF EndPhase

(* Recording an outcome closes the turn, or leaves it owed; 'delivered' is *)
(* recorded only after a post.                                             *)
LEMMA RecordImplements ==
  ASSUME IInv, IInv', NEW stage, stage = "accepted" => dlv.stage = "accepted",
         dlv.stage \in {"accepted", "retry", "reject", "unsendable"}, Record(stage),
         posts' = posts, removed' = removed
  PROVE  \/ \E j \in JobId : Replies!Deliver(j) \/ Replies!Abandon(j)
         \/ UNCHANGED Replies!vars
<1>. DEFINE j == dlv.job
<1>1. Rows /\ Rows' /\ ControlType /\ RepliesAccounted
  BY IInvSplit, IInvSplitNext
<1>2. /\ j \in JobId /\ jobs[j].status \in Terminal
      /\ \A k \in JobId \ {j} : jobs'[k] = jobs[k]
      /\ jobs'[j] = jobs[j] \/ jobs'[j].status = jobs[j].status
  BY RecordRows
<1>3. CASE jobs' = jobs
  BY <1>3, Stutters
<1>4. CASE /\ jobs[j].deliveryStatus = "delivering"
           /\ jobs'[j].deliveryStatus \in {"pending", "delivered", "failed"}
           /\ jobs'[j].deliveryStatus = "delivered" <=> stage = "accepted"
  <2>1. PhaseOf(jobs[j]) = "answered" /\ jobs'[j].status \in Terminal
    BY <1>1, <1>2, <1>4, PhaseFacts DEF Rows
  <2>2. CASE jobs'[j].deliveryStatus = "pending"
    <3>1. PhaseOf(jobs'[j]) = "answered"
      BY <1>1, <1>2, <2>1, <2>2, PhaseFacts DEF Rows
    <3>. QED
      BY <1>2, <2>1, <3>1, Stutters
  <2>3. CASE jobs'[j].deliveryStatus = "failed"
    <3>1. PhaseOf(jobs'[j]) = "abandoned"
      BY <1>1, <1>2, <2>1, <2>3, PhaseFacts DEF Rows
    <3>. QED
      BY <1>2, <2>1, <3>1, Moves DEF Replies!Abandon
  <2>4. CASE jobs'[j].deliveryStatus = "delivered"
    <3>1. PhaseOf(jobs'[j]) = "delivered"
      BY <1>1, <1>2, <2>1, <2>4, PhaseFacts DEF Rows
    <3>2. posts[j] > 0
      <4>1. posts[j] = unacked[j] + 1 /\ unacked[j] \in Nat
        BY <1>1, <1>2, <1>4, <2>4 DEF RepliesAccounted, ControlType
      <4>. QED
        BY <4>1
    <3>. QED
      BY <1>2, <2>1, <3>1, <3>2, Moves DEF Replies!Deliver
  <2>. QED
    BY <1>4, <2>2, <2>3, <2>4
<1>. QED
  BY <1>3, <1>4, RecordRows

(* A delivery posts only what is owed by a claw that exists, and records   *)
(* 'delivered' only after a post.                                          *)
LEMMA DeliveryImplements ==
  ASSUME IInv, IInv', DeliverClaim \/ DeliverPost \/ DeliverRecord, removed' = removed
  PROVE  \/ \E j \in JobId : Replies!Post(j) \/ Replies!Deliver(j) \/ Replies!Abandon(j)
         \/ UNCHANGED Replies!vars
<1>1. /\ Rows /\ Rows' /\ OperationShape /\ ControlType /\ LeaseHeldWhilePosting
      /\ RepliesAccounted
  BY IInvSplit, IInvSplitNext
<1>. DEFINE j == dlv.job
<1>2. j \in JobId /\ ~removed
  <2>1. dlv.stage # "none"
    BY DEF DeliverClaim, DeliverPost, DeliverRecord, At
  <2>. QED
    BY <1>1, <2>1, IInvSplit, RemovalRows DEF OperationShape, NoDlv
<1>3. CASE DeliverClaim
  <2>1. posts' = posts /\ \A k \in JobId : jobs'[k] = jobs[k]
            \/ /\ jobs'[k].status = jobs[k].status
               /\ jobs'[k].deliveryStatus = "delivering"
               /\ jobs[k].deliveryStatus \in {"pending", "delivering"}
    BY <1>1, <1>2, <1>3, ClaimedRow DEF DeliverClaim, Update, Rows
  <2>2. \A k \in JobId : PhaseOf(jobs'[k]) = PhaseOf(jobs[k])
    BY <1>1, <2>1, SamePhase DEF Rows
  <2>. QED
    BY <2>1, <2>2, Stutters
<1>4. CASE DeliverPost
  <2>1. PhaseOf(jobs[j]) = "answered"
    BY <1>1, <1>2, <1>4, PhaseFacts DEF LeaseHeldWhilePosting, DeliverPost, At, Rows
  <2>2. jobs' = jobs /\ (posts' = posts \/ posts' = [posts EXCEPT ![j] = @ + 1])
    BY <1>4 DEF DeliverPost
  <2>3. CASE posts' = posts
    BY <2>2, <2>3, Stutters
  <2>4. CASE posts' = [posts EXCEPT ![j] = @ + 1]
    BY <1>2, <2>1, <2>2, <2>4 DEF Replies!Post
  <2>. QED
    BY <1>2, <2>2, <2>3, <2>4
<1>5. CASE DeliverRecord
  <2>1. posts' = posts /\ Record(dlv.stage)
        /\ dlv.stage \in {"accepted", "retry", "reject", "unsendable"}
    BY <1>5 DEF DeliverRecord
  <2>. QED
    BY <2>1, RecordImplements
<1>. QED
  BY <1>3, <1>4, <1>5

(* Faults and the clock change no phase, but for a record that was applied *)
(* although it failed.                                                     *)
LEMMA EnvironmentImplements ==
  ASSUME IInv, IInv', Fault \/ Restart \/ Tick
  PROVE  \/ \E j \in JobId : Replies!Deliver(j) \/ Replies!Abandon(j)
         \/ UNCHANGED Replies!vars
<1>1. Rows /\ Rows' /\ posts' = posts /\ removed' = removed
  BY IInvSplit, IInvSplitNext
     DEF Fault, RecordFails, OperationFails, SocketOperationFails, Crash, Restart, Tick, control
<1>2. CASE UNCHANGED jobs
  BY <1>1, <1>2, Stutters
<1>3. CASE jobs' = Update(JobId, Abandoned)
  <2>1. \A j \in JobId : jobs'[j].status = jobs[j].status
                         /\ jobs'[j].deliveryStatus = jobs[j].deliveryStatus
    BY <1>1, <1>3, AbandonedRow DEF Update, Rows
  <2>2. \A j \in JobId : PhaseOf(jobs'[j]) = PhaseOf(jobs[j])
    BY <1>1, <2>1, SamePhase DEF Rows
  <2>. QED
    BY <1>1, <2>2, Stutters
<1>4. CASE jobs' = Update(JobId, Ticked)
  <2>1. \A j \in JobId : jobs'[j].status = jobs[j].status
                         /\ jobs'[j].deliveryStatus = jobs[j].deliveryStatus
    BY <1>1, <1>4, TickedRow DEF Update, Rows, SameDelivery
  <2>2. \A j \in JobId : PhaseOf(jobs'[j]) = PhaseOf(jobs[j])
    BY <1>1, <2>1, SamePhase DEF Rows
  <2>. QED
    BY <1>1, <2>2, Stutters
<1>5. CASE RecordFails
  BY <1>1, <1>2, <1>5, RecordImplements DEF RecordFails, At
<1>6. CASE SocketOperationFails
  <2>1. CASE \E r \in Runtime : jobs' = ReleaseReplaced(r)
    <3>1. PICK r \in Runtime : jobs' = ReleaseReplaced(r)
      BY <2>1
    <3>2. /\ OfferedTo(r) \in SUBSET JobId /\ \A j \in OfferedTo(r) : jobs[j].status = "offered"
          /\ jobs' = jobs \/ jobs' = Update(OfferedTo(r), Released)
      BY <3>1 DEF OfferedTo, ReleaseReplaced
    <3>. QED
      BY <1>1, <3>2, ReleaseStutters
  <2>. QED
    BY <1>2, <1>6, <2>1 DEF SocketOperationFails
<1>. QED
  BY <1>2, <1>3, <1>4, <1>5, <1>6 DEF Fault, OperationFails, Crash, Restart, Tick

LEMMA InitImplements == Init => Replies!Init
<1>. SUFFICES ASSUME Init PROVE Replies!Init
  OBVIOUS
<1>1. \A j \in JobId : PhaseOf(jobs[j]) = "new"
  BY InitIInv, IInvSplit, PhaseFacts DEF Init, Rows, AbsentRow
<1>. QED
  BY <1>1 DEF Init, Replies!Init

LEMMA NextImplements == IInv /\ IInv' /\ [Next]_vars => [Replies!Next]_Replies!vars
<1>. SUFFICES ASSUME IInv, IInv', [Next]_vars
              PROVE  Replies!Next \/ UNCHANGED Replies!vars
  OBVIOUS
<1>1. CASE \E j \in JobId, e \in EventId : EnqueueTurn(j, e)
  BY <1>1, EnqueueImplements DEF Replies!Next
<1>2. CASE \E s \in Socket : RuntimeFrame(s)
  <2>1. PICK s \in Socket : RuntimeFrame(s)
    BY <1>2
  <2>2. CASE Heartbeat(s) \/ InvalidCompletion(s)
    BY <2>2, Stutters DEF Heartbeat, InvalidCompletion, control
  <2>. QED
    BY <2>1, <2>2, ClaimStutters, StartImplements, CompleteImplements
       DEF RuntimeFrame, Replies!Next
<1>3. CASE Connections
  BY <1>3, ConnectionsStutter
<1>4. CASE Administration \/ CleanupSweep
  BY <1>4, AdministrationImplements DEF Replies!Next
<1>5. CASE OperationStep
  <2>1. CASE Acknowledge
    BY <2>1, Stutters DEF Acknowledge, control
  <2>2. ASSUME NEW j \in JobId, UNCHANGED control,
               CancelNext(j) \/ FailNext(j) \/ ExpireNext(j) \/ DeliverNext(j)
        PROVE  Replies!Next \/ UNCHANGED Replies!vars
    BY <2>2, NextJobImplements DEF Replies!Next
  <2>3. CASE EndPhase /\ UNCHANGED control
    BY <2>3, EndPhaseImplements DEF Replies!Next
  <2>4. CASE (DeliverClaim \/ DeliverPost \/ DeliverRecord) /\ UNCHANGED removed
    BY <2>4, DeliveryImplements DEF Replies!Next
  <2>. QED
    BY <1>5, <2>1, <2>2, <2>3, <2>4 DEF OperationStep
<1>6. CASE Fault \/ Restart \/ Tick
  BY <1>6, EnvironmentImplements DEF Replies!Next
<1>7. CASE UNCHANGED vars
  BY <1>7, Stutters DEF vars
<1>. QED
  BY <1>1, <1>2, <1>3, <1>4, <1>5, <1>6, <1>7 DEF Next

(* The coordinator implements TurnReplies: every step of the coordinator   *)
(* is a step of the promised turn life cycle, or changes none of it.       *)
THEOREM Refinement == Spec => ImplementsTurnReplies
BY InitImplements, NextImplements, Invariance, PTL
   DEF Spec, ImplementsTurnReplies, Replies!Spec

(* A turn's life cycle never goes back to "accepted", and never posts for  *)
(* a removed claw.                                                         *)
LEMMA RepliesSteps ==
  ASSUME IInv, IInv', [Replies!Next]_Replies!vars
  PROVE  /\ removed => posts' = posts
         /\ \A j \in JobId : PhaseOf(jobs[j]) = "working" => PhaseOf(jobs'[j]) # "accepted"
<1>1. CASE UNCHANGED Replies!vars
  <2>1. posts' = posts /\ \A j \in JobId : PhaseOf(jobs'[j]) = PhaseOf(jobs[j])
    BY <1>1 DEF Replies!vars
  <2>. QED
    BY <2>1
<1>2. CASE \E j \in JobId : \/ Replies!Accept(j) \/ Replies!Begin(j) \/ Replies!Answer(j)
                            \/ Replies!Deliver(j) \/ Replies!Abandon(j)
  <2>1. PICK j \in JobId : \E from, to : /\ Replies!Move(j, from, to)
                                         /\ to = "accepted" => from = {"new"}
    BY <1>2 DEF Replies!Accept, Replies!Begin, Replies!Answer, Replies!Deliver, Replies!Abandon
  <2>. QED
    BY <2>1 DEF Replies!Move
<1>3. CASE \E j \in JobId : Replies!Post(j)
  BY <1>3 DEF Replies!Post
<1>4. CASE Replies!Close
  BY <1>4 DEF Replies!Close, Replies!Open
<1>5. CASE \E S \in SUBSET JobId : Replies!Forget(S)
  BY <1>5 DEF Replies!Forget
<1>. QED
  BY <1>1, <1>2, <1>3, <1>4, <1>5 DEF Replies!Next

(* No reply is posted for a removed claw, whatever was in progress when it *)
(* was removed.                                                            *)
THEOREM NoPostAfterRemovalHolds == Spec => NoPostAfterRemoval
<1>1. IInv /\ IInv' /\ [Next]_vars => [removed => posts' = posts]_vars
  BY NextImplements, RepliesSteps
<1>. QED
  BY <1>1, Invariance, PTL DEF Spec, NoPostAfterRemoval

(* A turn that started is never queued again. *)
THEOREM StartedNeverRequeuedHolds == Spec => StartedNeverRequeued
<1>1. IInv /\ IInv' /\ [Next]_vars =>
        [\A j \in JobId : jobs[j].status = "running" => jobs'[j].status \notin Waiting]_vars
  <2>. SUFFICES ASSUME IInv, IInv', [Next]_vars, NEW j \in JobId, jobs[j].status = "running"
                PROVE  jobs'[j].status \notin Waiting
    OBVIOUS
  <2>1. Rows /\ Rows'
    BY IInvSplit, IInvSplitNext
  <2>2. PhaseOf(jobs'[j]) # "accepted"
    BY <2>1, NextImplements, RepliesSteps, PhaseFacts DEF Rows
  <2>. QED
    BY <2>1, <2>2, PhaseFacts DEF Rows
<1>. QED
  BY <1>1, Invariance, PTL DEF Spec, StartedNeverRequeued

(* What a step may make of a row with an outcome: it keeps it, is deleted, *)
(* or, if its reply is still owed, is withdrawn with the claw.             *)
OutcomeKept(j) ==
  \/ jobs'[j].status \in {jobs[j].status, "purged"}
  \/ /\ removed' /\ jobs'[j].status = "failed"
     /\ jobs[j].deliveryStatus \in {"pending", "delivering"}

(* Runtimes and sockets change rows that have no outcome.                  *)
LEMMA RuntimesKeepOutcomes ==
  ASSUME IInv, Connections \/ \E s \in Socket : RuntimeFrame(s),
         NEW j \in JobId, jobs[j].status \in Terminal
  PROVE  jobs'[j] = jobs[j]
<1>1. Rows /\ jobs[j].status \notin Active
  BY IInvSplit DEF Terminal, Active
<1>2. \A r : j \notin OfferedTo(r)
  BY <1>1 DEF OfferedTo, Active
<1>3. ASSUME NEW s \in Socket, NEW r \in Runtime, AttachSocket(s, r)
      PROVE  jobs'[j] = jobs[j]
  BY <1>2, <1>3 DEF AttachSocket, ReleaseReplaced, Update
<1>4. ASSUME NEW s \in Socket, DetachSocket(s)
      PROVE  jobs'[j] = jobs[j]
  BY <1>2, <1>4 DEF DetachSocket, Update
<1>5. CASE RestartRuntimeConnections
  BY <1>1, <1>5 DEF RestartRuntimeConnections, Update, Active
<1>6. ASSUME NEW s \in Socket, Claim(s)
      PROVE  jobs'[j] = jobs[j]
  <2>1. ASSUME NEW k \in Oldest(OwnedOffers(sockets[s])), SendOffer(s, k)
        PROVE  jobs'[j] = jobs[j]
    <3>1. k # j
      BY <1>2 DEF Oldest, OwnedOffers
    <3>. QED
      BY <2>1, <3>1 DEF SendOffer, Update
  <2>2. ASSUME NEW k \in Oldest(Claimable), jobs' = [jobs EXCEPT ![k] = Offered(@, sockets[s])]
        PROVE  jobs'[j] = jobs[j]
    <3>1. k # j /\ k \in JobId
      BY <1>1 DEF Oldest, Claimable, Active
    <3>. QED
      BY <1>1, <2>2, <3>1 DEF Rows
  <2>. QED
    BY <1>6, <2>1, <2>2 DEF Claim
<1>7. ASSUME NEW s \in Socket, NEW k \in JobId, Start(s, k)
      PROVE  jobs'[j] = jobs[j]
  BY <1>1, <1>2, <1>7 DEF Start, Rows
<1>8. ASSUME NEW s \in Socket, NEW k \in JobId, NEW ok \in BOOLEAN, Complete(s, k, ok)
      PROVE  jobs'[j] = jobs[j]
  BY <1>1, <1>8 DEF Complete, Rows, Active
<1>9. ASSUME NEW s \in Socket, Heartbeat(s) \/ InvalidCompletion(s)
      PROVE  jobs'[j] = jobs[j]
  BY <1>9 DEF Heartbeat, InvalidCompletion
<1>. QED
  BY <1>3, <1>4, <1>5, <1>6, <1>7, <1>8, <1>9 DEF Connections, RuntimeFrame

(* Cancellations, failures and expiries take the turns without an outcome, *)
(* deliveries keep the outcome, the purge deletes the row.                 *)
LEMMA OperationsKeepOutcomes ==
  ASSUME IInv, OperationStep, NEW j \in JobId, jobs[j].status \in Terminal
  PROVE  jobs'[j].status \in {jobs[j].status, "purged"}
<1>1. Rows /\ jobs[j].status \notin Active
  BY IInvSplit DEF Terminal, Active
<1>2. j \notin WaitingJobs /\ j \notin Running
  BY <1>1 DEF WaitingJobs, Running, Active, Waiting
<1>3. CASE Acknowledge
  BY <1>3 DEF Acknowledge
<1>4. ASSUME NEW k \in JobId, CancelNext(k) \/ FailNext(k) \/ ExpireNext(k) \/ DeliverNext(k)
      PROVE  jobs'[j].status = jobs[j].status
  BY <1>2, <1>4 DEF CancelNext, FailNext, ExpireNext, DeliverNext, Update
<1>5. CASE EndPhase
  <2>1. jobs' = jobs \/ jobs' = Update(Retired, Purged)
    BY <1>5 DEF EndPhase
  <2>2. j \in Retired => Purged(jobs[j]).status = "purged"
    BY <1>1, PurgedRow DEF Retired, Rows
  <2>. QED
    BY <2>1, <2>2 DEF Update
<1>6. CASE DeliverClaim
  <2>1. jobs' = jobs \/ (jobs' = Update({dlv.job}, DeliveryClaimed) /\ Deliverable(jobs[dlv.job]))
    BY <1>6 DEF DeliverClaim
  <2>2. Deliverable(jobs[j]) => DeliveryClaimed(jobs[j]).status = jobs[j].status
    BY <1>1, ClaimedRow DEF Rows
  <2>. QED
    BY <2>1, <2>2 DEF Update
<1>7. CASE DeliverPost
  BY <1>7 DEF DeliverPost
<1>8. CASE DeliverRecord
  BY <1>8, RecordRows DEF DeliverRecord
<1>. QED
  BY <1>3, <1>4, <1>5, <1>6, <1>7, <1>8 DEF OperationStep

(* A fault or the clock never changes an outcome.                          *)
LEMMA EnvironmentKeepsOutcomes ==
  ASSUME IInv, Fault \/ Restart \/ Tick, NEW j \in JobId, jobs[j].status \in Terminal
  PROVE  jobs'[j].status = jobs[j].status
<1>1. Rows /\ jobs[j].status \notin Active
  BY IInvSplit DEF Terminal, Active
<1>2. \A r : j \notin OfferedTo(r)
  BY <1>1 DEF OfferedTo, Active
<1>3. CASE RecordFails
  BY <1>3, RecordRows DEF RecordFails, At
<1>4. CASE SocketOperationFails
  BY <1>2, <1>4 DEF SocketOperationFails, ReleaseReplaced, Update
<1>5. CASE Crash
  BY <1>1, <1>5, AbandonedRow DEF Crash, Update, Rows
<1>6. CASE Tick
  BY <1>1, <1>6, TickedRow DEF Tick, Update, Rows
<1>7. CASE OperationFails \/ Restart
  BY <1>7 DEF OperationFails, Restart
<1>. QED
  BY <1>3, <1>4, <1>5, <1>6, <1>7 DEF Fault

LEMMA OutcomeStep ==
  ASSUME IInv, [Next]_vars, NEW j \in JobId, jobs[j].status \in Terminal
  PROVE  OutcomeKept(j)
<1>1. Rows /\ jobs[j].status \notin Active
  BY IInvSplit DEF Terminal, Active
<1>2. ASSUME NEW k \in JobId, NEW e \in EventId, EnqueueTurn(k, e)
      PROVE  OutcomeKept(j)
  BY <1>1, <1>2 DEF EnqueueTurn, Rows, OutcomeKept, Terminal
<1>3. CASE PrepareForRemoval
  <2>1. j \in Unsettled => /\ Withdrawn(jobs[j]).status = "failed"
                           /\ jobs[j].deliveryStatus \in {"pending", "delivering"}
    BY <1>1, WithdrawnRow DEF Unsettled, Rows
  <2>. QED
    BY <1>3, <2>1 DEF PrepareForRemoval, Update, OutcomeKept
<1>4. CASE CancelPending \/ CancelActiveTurns
  BY <1>4 DEF CancelPending, CancelActiveTurns, OutcomeKept
<1>5. CASE CleanupSweep
  BY <1>1, <1>5 DEF CleanupSweep, StaleOffers, Update, OutcomeKept, Active
<1>6. CASE UNCHANGED vars
  BY <1>6 DEF vars, OutcomeKept
<1>. QED
  BY <1>2, <1>3, <1>4, <1>5, <1>6, RuntimesKeepOutcomes, OperationsKeepOutcomes,
     EnvironmentKeepsOutcomes DEF Next, Administration, OutcomeKept

(* A turn has one outcome: no late completion, sweep, cancellation or      *)
(* crash replaces it, only the removal of the claw may, while the reply is *)
(* still owed.                                                             *)
THEOREM OutcomesAreFinal == Spec => OutcomeIsFinal
<1>1. IInv /\ [Next]_vars =>
        [\A j \in JobId : jobs[j].status \in Terminal =>
           \/ jobs'[j].status \in {jobs[j].status, "purged"}
           \/ /\ removed' /\ jobs'[j].status = "failed"
              /\ jobs[j].deliveryStatus \in {"pending", "delivering"}]_vars
  BY OutcomeStep DEF OutcomeKept
<1>. QED
  BY <1>1, Invariance, PTL DEF Spec, OutcomeIsFinal

=============================================================================
