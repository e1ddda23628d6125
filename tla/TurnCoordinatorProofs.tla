----------------------- MODULE TurnCoordinatorProofs -----------------------
(***************************************************************************)
(* Proofs about TurnCoordinator, for any sets of jobs, events, sockets and *)
(* runtimes, any leases and limits, and any number of faults.              *)
(***************************************************************************)
EXTENDS TurnCoordinator, FiniteSetTheorems, TLAPS

(* What holds of every row on its own: its type, the agreement of its      *)
(* envelopes with its status columns, and its owner.                       *)
RowOwner(row) ==
  /\ row.status = "pending" => row.runtimeId = None
  /\ row.status \in {"offered", "running"} => row.runtimeId \in Runtime

RowInv(row) == row \in Row /\ RowEnvelopes(row) /\ RowOwner(row)

(* The columns that decide which queries select a row are not changed. *)
SameDelivery(new, old) ==
  new.deliveryStatus = old.deliveryStatus /\ new.deliveryOwner = old.deliveryOwner

----------------------------------------------------------------------------
(* What each UPDATE does to a row.                                         *)

(* Releasing an offer keeps the row well formed and only requeues it. *)
LEMMA ReleasedRow ==
  ASSUME NEW row, RowInv(row), row.status = "offered"
  PROVE  /\ RowInv(Released(row)) /\ Released(row).status = "pending"
         /\ SameDelivery(Released(row), row)
BY DEF RowInv, RowEnvelopes, RowOwner, Row, Released, SameDelivery,
       Waiting, Active, Terminal, Present

(* Offering a pending job hands it to one runtime. *)
LEMMA OfferedRow ==
  ASSUME NEW row, RowInv(row), row.status = "pending", NEW r \in Runtime
  PROVE  /\ RowInv(Offered(row, r)) /\ Offered(row, r).status = "offered"
         /\ Offered(row, r).runtimeId = r
         /\ SameDelivery(Offered(row, r), row)
BY DEF RowInv, RowEnvelopes, RowOwner, Row, Offered, SameDelivery,
       Waiting, Active, Terminal, Present

(* Starting an offered job keeps its runtime. *)
LEMMA StartedRow ==
  ASSUME NEW row, RowInv(row), row.status = "offered"
  PROVE  /\ RowInv(Started(row)) /\ Started(row).status = "running"
         /\ SameDelivery(Started(row), row)
BY DEF RowInv, RowEnvelopes, RowOwner, Row, Started, SameDelivery,
       Waiting, Active, Terminal, Present

(* Finishing an active job makes its reply owed. *)
LEMMA FinishedRow ==
  ASSUME NEW row, RowInv(row), row.status \in Active,
         NEW outcome \in Terminal, NEW reply,
         reply = IF outcome = "completed" THEN "answer" ELSE "notice"
  PROVE  /\ RowInv(Finished(row, outcome, reply))
         /\ Finished(row, outcome, reply).status = outcome
         /\ Finished(row, outcome, reply).deliveryStatus = "pending"
BY DEF RowInv, RowEnvelopes, RowOwner, Row, Finished,
       Waiting, Active, Terminal, Present

LEMMA FailedRowRow ==
  ASSUME NEW row, RowInv(row), row.status \in Active
  PROVE  /\ RowInv(FailedRow(row)) /\ FailedRow(row).status = "failed"
         /\ FailedRow(row).deliveryStatus = "pending"
BY FinishedRow DEF FailedRow, Terminal

(* Claiming a delivery takes the lease of a row that owes a reply. *)
LEMMA ClaimedRow ==
  ASSUME NEW row, RowInv(row), Deliverable(row)
  PROVE  /\ RowInv(DeliveryClaimed(row))
         /\ DeliveryClaimed(row).status = row.status /\ row.status \in Terminal
         /\ DeliveryClaimed(row).deliveryStatus = "delivering"
         /\ DeliveryClaimed(row).deliveryOwner = "self"
         /\ row.deliveryStatus \in {"pending", "delivering"}
BY DEF RowInv, RowEnvelopes, RowOwner, Row, DeliveryClaimed, Deliverable,
       Waiting, Active, Terminal, Present

(* Settling a delivery erases both envelopes. *)
LEMMA SettledRow ==
  ASSUME NEW row, RowInv(row), row.status \in Terminal,
         NEW outcome \in {"delivered", "failed"}
  PROVE  /\ RowInv(DeliverySettled(row, outcome))
         /\ DeliverySettled(row, outcome).status = row.status
         /\ DeliverySettled(row, outcome).deliveryStatus = outcome
BY DEF RowInv, RowEnvelopes, RowOwner, Row, DeliverySettled,
       Waiting, Active, Terminal, Present

(* Returning a delivery keeps the reply for the next attempt. *)
LEMMA RequeuedRow ==
  ASSUME NEW row, RowInv(row), row.deliveryStatus = "delivering"
  PROVE  /\ RowInv(DeliveryRequeued(row))
         /\ DeliveryRequeued(row).status = row.status
         /\ DeliveryRequeued(row).deliveryStatus = "pending"
BY DEF RowInv, RowEnvelopes, RowOwner, Row, DeliveryRequeued,
       Waiting, Active, Terminal, Present

(* Counting an attempt changes nothing else. *)
LEMMA AttemptedRow ==
  ASSUME NEW row, RowInv(row)
  PROVE  /\ RowInv(Attempted(row))
         /\ Attempted(row).status = row.status
         /\ Attempted(row).deliveryStatus = row.deliveryStatus
<1>1. row \in Row
  BY DEF RowInv
<1>2. Attempted(row) \in Row
  BY <1>1 DEF Attempted, Row
<1>3. /\ RowEnvelopes(Attempted(row)) /\ RowOwner(Attempted(row))
      /\ Attempted(row).status = row.status
      /\ Attempted(row).deliveryStatus = row.deliveryStatus
  BY <1>1 DEF Attempted, RowInv, RowEnvelopes, RowOwner, Row
<1>. QED
  BY <1>2, <1>3 DEF RowInv

(* Every outcome of a delivery keeps the job's own status, and records     *)
(* 'delivered' exactly for an accepted post.                               *)
LEMMA OutcomeRow ==
  ASSUME NEW row, RowInv(row), row.status \in Terminal,
         row.deliveryStatus = "delivering", NEW stage
  PROVE  /\ RowInv(DeliveryOutcome(stage, row))
         /\ DeliveryOutcome(stage, row).status = row.status
         /\ DeliveryOutcome(stage, row).deliveryStatus \in {"pending", "delivered", "failed"}
         /\ DeliveryOutcome(stage, row).deliveryStatus = "delivered" <=> stage = "accepted"
<1>1. CASE stage = "accepted"
  BY <1>1, SettledRow DEF DeliveryOutcome
<1>2. CASE stage = "unsendable"
  BY <1>2, SettledRow DEF DeliveryOutcome
<1>3. CASE stage # "accepted" /\ stage # "unsendable"
  <2>. DEFINE counted == Attempted(row)
  <2>1. /\ RowInv(counted) /\ counted.status = row.status
        /\ counted.deliveryStatus = "delivering"
    BY AttemptedRow
  <2>2. DeliveryOutcome(stage, row) = DeliveryRefused(counted, stage = "retry")
    BY <1>3 DEF DeliveryOutcome
  <2>. HIDE DEF counted
  <2>3. DeliveryOutcome(stage, row) \in {DeliveryRequeued(counted), DeliverySettled(counted, "failed")}
    BY <2>2 DEF DeliveryRefused
  <2>. QED
    BY <1>3, <2>1, <2>3, SettledRow, RequeuedRow
<1>. QED
  BY <1>1, <1>2, <1>3

(* Withdrawing an unsettled row closes it. *)
LEMMA WithdrawnRow ==
  ASSUME NEW row, RowInv(row), row.status \in Present
  PROVE  /\ RowInv(Withdrawn(row)) /\ Withdrawn(row).status = "failed"
         /\ Withdrawn(row).deliveryStatus = "failed"
BY DEF RowInv, RowEnvelopes, RowOwner, Row, Withdrawn, DeliverySettled,
       Waiting, Active, Terminal, Present

(* Deleting a settled row only changes its status. *)
LEMMA PurgedRow ==
  ASSUME NEW row, RowInv(row), row.status \in Terminal,
         row.deliveryStatus \in {"delivered", "failed"}
  PROVE  /\ RowInv(Purged(row)) /\ Purged(row).status = "purged"
         /\ SameDelivery(Purged(row), row)
BY DEF RowInv, RowEnvelopes, RowOwner, Row, Purged, SameDelivery,
       Waiting, Active, Terminal, Present

(* A crash changes no column but the liveness of the lease's owner. *)
LEMMA AbandonedRow ==
  ASSUME NEW row, RowInv(row)
  PROVE  /\ RowInv(Abandoned(row))
         /\ Abandoned(row).status = row.status /\ Abandoned(row).ttl = row.ttl
         /\ Abandoned(row).runtimeId = row.runtimeId
         /\ Abandoned(row).deliveryStatus = row.deliveryStatus
BY DEF RowInv, RowEnvelopes, RowOwner, Row, Abandoned,
       Waiting, Active, Terminal, Present

LEMMA TickedType ==
  ASSUME NEW row \in Row, NEW t \in Nat, NEW c \in Nat, NEW d \in Nat, NEW e \in Nat
  PROVE  [row EXCEPT !.ttl = t, !.claimedAge = c, !.deliveryAge = d, !.completedAge = e] \in Row
BY DEF Row

LEMMA AgedType ==
  ASSUME NEW a \in Nat, NEW b \in Nat
  PROVE  Aged(a, b) \in Nat
BY DEF Aged

(* The clock changes ages only, and never gives a job time back. *)
LEMMA TickedRow ==
  ASSUME NEW row, RowInv(row)
  PROVE  /\ RowInv(Ticked(row))
         /\ Ticked(row).status = row.status /\ Ticked(row).runtimeId = row.runtimeId
         /\ Ticked(row).ttl > 0 => row.ttl > 0
         /\ SameDelivery(Ticked(row), row)
<1>1. /\ row \in Row
      /\ row.ttl \in Nat /\ row.claimedAge \in Nat
      /\ row.deliveryAge \in Nat /\ row.completedAge \in Nat
  BY DEF RowInv, Row
<1>2. TtlLeft(row) \in Nat /\ (TtlLeft(row) > 0 => row.ttl > 0)
  BY <1>1 DEF TtlLeft
<1>3. ClaimAge(row) \in Nat
  BY <1>1, AgedType, ConstantsAssumption DEF ClaimAge, ConstantsAssumption
<1>4. LeaseAge(row) \in Nat
  BY <1>1, AgedType, ConstantsAssumption DEF LeaseAge, ConstantsAssumption
<1>5. CompletionAge(row) \in Nat
  BY <1>1, AgedType, ConstantsAssumption DEF CompletionAge, ConstantsAssumption
<1>6. Ticked(row) \in Row
  BY <1>1, <1>2, <1>3, <1>4, <1>5, TickedType DEF Ticked
<1>7. /\ RowEnvelopes(Ticked(row)) /\ RowOwner(Ticked(row))
      /\ Ticked(row).status = row.status /\ Ticked(row).runtimeId = row.runtimeId
      /\ Ticked(row).ttl = TtlLeft(row) /\ SameDelivery(Ticked(row), row)
  BY <1>1 DEF Ticked, RowInv, RowEnvelopes, RowOwner, Row, SameDelivery
<1>. QED
  BY <1>2, <1>6, <1>7 DEF RowInv

----------------------------------------------------------------------------
(* The invariant's state, split into rows and control.                     *)

Settled(row) == row.status \in Present =>
  row.status \notin Active /\ row.deliveryStatus \notin {"pending", "delivering"}

Startable(row, r) == row.status = "offered" /\ row.runtimeId = r /\ row.ttl > 0

(* A change of a row that no other part of the invariant notices. *)
Benign(old, new) ==
  /\ RowInv(new)
  /\ new.deliveryStatus = "delivered" <=> old.deliveryStatus = "delivered"
  /\ Settled(old) => Settled(new)
  /\ \A r \in Runtime : Startable(new, r) => Startable(old, r)

ControlType ==
  /\ removed \in BOOLEAN /\ resetGen \in Nat /\ up \in BOOLEAN
  /\ sockets \in [Socket -> Runtime \cup {None}]
  /\ op \in [call : Calls, phase : Phases, todo : SUBSET JobId,
             caller : Socket \cup {None}, job : JobId \cup {None}]
  /\ dlv \in [job : JobId \cup {None}, stage : Stages]
  /\ posts \in [JobId -> Nat] /\ unacked \in [JobId -> Nat]
  /\ faults \in Nat

OneOffer == \A r \in Runtime : \A j, k \in JobId :
              Startable(jobs[j], r) /\ Startable(jobs[k], r) => j = k

Rows == /\ jobs = [j \in JobId |-> jobs[j]]
        /\ \A j \in JobId : RowInv(jobs[j])

(* The invariant, restated in these terms. *)
LEMMA IInvSplit ==
  IInv <=> /\ Rows /\ OneOffer /\ ControlType
           /\ LeaseHeldWhilePosting /\ RepliesAccounted /\ RemovalIsFinal
           /\ OperationShape
<1>1. (jobs \in [JobId -> Row] /\ EnvelopesMatchStatus /\ OffersExclusive)
        <=> (Rows /\ OneOffer)
  BY DEF EnvelopesMatchStatus, OffersExclusive, Rows, OneOffer, RowInv, RowOwner,
         OwnedOffers, OfferedTo, Startable
<1>. QED
  BY <1>1 DEF IInv, TypeOK, ControlType

LEMMA IInvSplitNext ==
  IInv' <=> /\ Rows' /\ OneOffer' /\ ControlType'
            /\ LeaseHeldWhilePosting' /\ RepliesAccounted' /\ RemovalIsFinal'
            /\ OperationShape'
BY IInvSplit, PTL

(* Removal, in terms of rows. *)
LEMMA RemovalRows ==
  RemovalIsFinal <=> (removed => /\ \A j \in JobId : Settled(jobs[j])
                                 /\ \A s \in Socket : sockets[s] = None
                                 /\ dlv = NoDlv)
BY DEF RemovalIsFinal, Unsettled, Settled, Active, Present

(* Rows that change benignly, while nothing is posted or recorded, keep    *)
(* the invariant of the rows and of the replies.                           *)
LEMMA BenignRows ==
  ASSUME IInv, jobs' = [j \in JobId |-> jobs'[j]],
         \A j \in JobId : Benign(jobs[j], jobs'[j])
  PROVE  /\ Rows' /\ OneOffer'
         /\ (\A j \in JobId : Settled(jobs[j])) => (\A j \in JobId : Settled(jobs'[j]))
<1>1. Rows'
  BY DEF Rows, Benign
<1>2. OneOffer'
  BY IInvSplit DEF OneOffer, Benign
<1>. QED
  BY <1>1, <1>2 DEF Benign

(* A step outside a delivery that posts nothing, records no delivery and   *)
(* does not remove the claw.                                               *)
LEMMA CalmStep ==
  ASSUME IInv, dlv = NoDlv, Rows', OneOffer', ControlType', OperationShape',
         \A j \in JobId : jobs'[j].deliveryStatus = "delivered"
                            <=> jobs[j].deliveryStatus = "delivered",
         posts' = posts, unacked' = unacked, removed' = removed,
         dlv'.stage \in {"none", "claim"},
         removed => /\ \A j \in JobId : Settled(jobs'[j])
                    /\ \A s \in Socket : sockets'[s] = None
                    /\ dlv' = NoDlv
  PROVE  IInv'
<1>1. LeaseHeldWhilePosting'
  BY DEF LeaseHeldWhilePosting
<1>2. RepliesAccounted'
  BY IInvSplit DEF RepliesAccounted, NoDlv
<1>3. RemovalIsFinal'
  BY DEF RemovalIsFinal, Unsettled, Settled, Active, Present
<1>. QED
  BY <1>1, <1>2, <1>3, IInvSplitNext

(* The same for a step whose rows change benignly and that leaves the      *)
(* claw's operation, or begins one.                                        *)
LEMMA BenignStep ==
  ASSUME IInv, dlv = NoDlv, dlv' = NoDlv, jobs' = [j \in JobId |-> jobs'[j]],
         \A j \in JobId : Benign(jobs[j], jobs'[j]),
         ControlType', OperationShape',
         posts' = posts, unacked' = unacked, removed' = removed,
         removed => \A s \in Socket : sockets'[s] = None
  PROVE  IInv'
<1>1. /\ Rows' /\ OneOffer'
      /\ (\A j \in JobId : Settled(jobs[j])) => (\A j \in JobId : Settled(jobs'[j]))
  BY BenignRows
<1>2. \A j \in JobId : jobs'[j].deliveryStatus = "delivered"
                         <=> jobs[j].deliveryStatus = "delivered"
  BY DEF Benign
<1>3. removed => \A j \in JobId : Settled(jobs[j])
  BY IInvSplit, RemovalRows
<1>4. dlv'.stage \in {"none", "claim"}
  BY DEF NoDlv
<1>. QED
  BY <1>1, <1>2, <1>3, <1>4, CalmStep

(* An unchanged row changes benignly, and so does a released offer. *)
LEMMA BenignSame ==
  ASSUME NEW row, RowInv(row)
  PROVE  Benign(row, row)
BY DEF Benign

LEMMA BenignReleased ==
  ASSUME NEW row, RowInv(row), row.status = "offered"
  PROVE  Benign(row, Released(row))
BY ReleasedRow DEF Benign, SameDelivery, Settled, Startable, Present, Active, Terminal

(* A step of a process that is idle before and after. *)
LEMMA IdleStep ==
  ASSUME IInv, Idle, jobs' = [j \in JobId |-> jobs'[j]],
         \A j \in JobId : Benign(jobs[j], jobs'[j]),
         sockets' \in [Socket -> Runtime \cup {None}],
         removed => \A s \in Socket : sockets'[s] = None,
         op' = op, dlv' = dlv, UNCHANGED control
  PROVE  IInv'
<1>1. dlv = NoDlv /\ dlv' = NoDlv /\ up' = TRUE /\ op' = NoOp
  BY IInvSplit DEF Idle, OperationShape, control, ControlType
<1>2. ControlType'
  BY IInvSplit DEF ControlType, control
<1>3. OperationShape'
  BY <1>1, IInvSplit DEF OperationShape, control, NoOp, NoDlv, Idle
<1>4. posts' = posts /\ unacked' = unacked /\ removed' = removed
  BY DEF control
<1>. QED
  BY <1>1, <1>2, <1>3, <1>4, BenignStep

----------------------------------------------------------------------------
(* Sockets.                                                                *)

(* Replacing a socket's attachment, and releasing what it was offered. *)
LEMMA ReplaceRows ==
  ASSUME IInv, NEW r, jobs' = ReleaseReplaced(r)
  PROVE  jobs' = [j \in JobId |-> jobs'[j]] /\ \A j \in JobId : Benign(jobs[j], jobs'[j])
<1>1. Rows
  BY IInvSplit
<1>2. CASE jobs' = jobs
  BY <1>1, <1>2, BenignSame DEF Rows
<1>3. CASE jobs' = Update(OfferedTo(r), Released)
  BY <1>1, <1>3, BenignSame, BenignReleased DEF Rows, Update, OfferedTo
<1>. QED
  BY <1>2, <1>3 DEF ReleaseReplaced

LEMMA AttachedType ==
  ASSUME IInv, NEW s \in Socket, NEW r \in Runtime
  PROVE  Attached(s, r) \in [Socket -> Runtime \cup {None}]
BY IInvSplit DEF Attached, ControlType

LEMMA AttachSocketStep ==
  ASSUME IInv, NEW s \in Socket, NEW r \in Runtime, AttachSocket(s, r)
  PROVE  IInv'
BY ReplaceRows, AttachedType, IdleStep DEF AttachSocket

LEMMA DetachSocketStep ==
  ASSUME IInv, NEW s \in Socket, DetachSocket(s)
  PROVE  IInv'
<1>1. \A j \in JobId : RowInv(jobs[j])
  BY IInvSplit DEF Rows
<1>2. jobs' = [j \in JobId |-> jobs'[j]]
  BY DEF DetachSocket, Update
<1>3. \A j \in JobId : Benign(jobs[j], jobs'[j])
  BY <1>1, BenignSame, BenignReleased DEF DetachSocket, Update, OfferedTo
<1>4. /\ sockets' \in [Socket -> Runtime \cup {None}]
      /\ removed => \A t \in Socket : sockets'[t] = None
  BY IInvSplit, RemovalRows DEF DetachSocket, ControlType
<1>. QED
  BY <1>2, <1>3, <1>4, IdleStep DEF DetachSocket

LEMMA RestartRuntimeConnectionsStep ==
  ASSUME IInv, RestartRuntimeConnections
  PROVE  IInv'
<1>1. \A j \in JobId : RowInv(jobs[j])
  BY IInvSplit DEF Rows
<1>2. jobs' = [j \in JobId |-> jobs'[j]]
  BY DEF RestartRuntimeConnections, Update
<1>3. \A j \in JobId : Benign(jobs[j], jobs'[j])
  BY <1>1, BenignSame, BenignReleased DEF RestartRuntimeConnections, Update
<1>4. /\ sockets' \in [Socket -> Runtime \cup {None}]
      /\ \A t \in Socket : sockets'[t] = None
  BY DEF RestartRuntimeConnections
<1>. QED
  BY <1>2, <1>3, <1>4, IdleStep DEF RestartRuntimeConnections

(* A step that changes neither rows nor sockets. *)
LEMMA UnchangedStep ==
  ASSUME IInv, Idle, UNCHANGED <<jobs, sockets, op, dlv, control>>
  PROVE  IInv'
<1>1. \A j \in JobId : RowInv(jobs[j])
  BY IInvSplit DEF Rows
<1>2. jobs' = [j \in JobId |-> jobs'[j]] /\ \A j \in JobId : Benign(jobs[j], jobs'[j])
  BY <1>1, BenignSame, IInvSplit DEF Rows
<1>3. /\ sockets' \in [Socket -> Runtime \cup {None}]
      /\ removed => \A s \in Socket : sockets'[s] = None
  BY IInvSplit, RemovalRows DEF ControlType
<1>. QED
  BY <1>2, <1>3, IdleStep

----------------------------------------------------------------------------
(* Turns.                                                                  *)

LEMMA EnqueuedRow ==
  ASSUME NEW e \in EventId, NEW n \in Nat
  PROVE  /\ RowInv(Enqueued(e, n)) /\ Enqueued(e, n).status = "pending"
         /\ Enqueued(e, n).deliveryStatus = "none"
BY ConstantsAssumption
   DEF ConstantsAssumption, Enqueued, AbsentRow, RowInv, RowEnvelopes, RowOwner, Row,
       Active, Present, Terminal

LEMMA EnqueueTurnStep ==
  ASSUME IInv, NEW j \in JobId, NEW e \in EventId, EnqueueTurn(j, e)
  PROVE  IInv'
<1>. DEFINE n == Cardinality({k \in JobId : jobs[k].status # "absent"})
            row == Enqueued(e, n)
<1>1. n \in Nat
  BY FS_Subset, FS_CardinalityType, ConstantsAssumption DEF ConstantsAssumption
<1>2. jobs' = [jobs EXCEPT ![j] = row]
  BY DEF EnqueueTurn
<1>. HIDE DEF n
<1>3. RowInv(row) /\ row.status = "pending" /\ row.deliveryStatus = "none"
  BY <1>1, EnqueuedRow
<1>. HIDE DEF row
<1>4. Rows /\ OneOffer /\ OperationShape /\ ControlType
  BY IInvSplit
<1>5. dlv = NoDlv /\ dlv' = NoDlv
  BY <1>4 DEF EnqueueTurn, Idle, OperationShape
<1>6. Rows'
  BY <1>2, <1>3, <1>4 DEF Rows
<1>7. OneOffer'
  BY <1>2, <1>3, <1>4 DEF Rows, OneOffer, Startable
<1>8. ControlType'
  BY <1>4 DEF EnqueueTurn, ControlType, control
<1>9. OperationShape'
  BY <1>4, <1>5 DEF EnqueueTurn, OperationShape, Idle, control, NoOp, NoDlv
<1>10. \A k \in JobId : jobs'[k].deliveryStatus = "delivered"
                          <=> jobs[k].deliveryStatus = "delivered"
  <2>1. jobs[j].deliveryStatus # "delivered"
    BY <1>4 DEF EnqueueTurn, Rows, RowInv, RowEnvelopes
  <2>. QED
    BY <2>1, <1>2, <1>3, <1>4 DEF Rows
<1>11. ~removed /\ removed' = removed /\ posts' = posts /\ unacked' = unacked
  BY DEF EnqueueTurn, control
<1>12. dlv'.stage \in {"none", "claim"}
  BY <1>5 DEF NoDlv
<1>. QED
  BY <1>5, <1>6, <1>7, <1>8, <1>9, <1>10, <1>11, <1>12, CalmStep

LEMMA ClaimStep ==
  ASSUME IInv, NEW s \in Socket, Claim(s)
  PROVE  IInv'
<1>. DEFINE r == sockets[s]
<1>1. Rows /\ OneOffer /\ OperationShape /\ ControlType /\ r \in Runtime
  BY IInvSplit DEF Claim, ControlType
<1>2. CASE \E j \in Oldest(OwnedOffers(r)) : SendOffer(s, j)
  <2>1. PICK j \in OwnedOffers(r) : SendOffer(s, j)
    BY <1>2 DEF Oldest
  <2>2. j \in JobId /\ jobs[j].status = "offered"
    BY <2>1 DEF OwnedOffers, OfferedTo
  <2>3. jobs' = [k \in JobId |-> jobs'[k]] /\ \A k \in JobId : Benign(jobs[k], jobs'[k])
    BY <1>1, <2>1, <2>2, BenignSame, BenignReleased DEF SendOffer, Update, Rows
  <2>4. removed => \A t \in Socket : sockets'[t] = None
    BY IInvSplit, RemovalRows DEF Claim
  <2>. QED
    BY <1>1, <2>3, <2>4, IdleStep DEF Claim, ControlType
<1>3. CASE /\ OwnedOffers(r) = {}
           /\ \E j \in Oldest(Claimable) : jobs' = [jobs EXCEPT ![j] = Offered(@, r)]
  <2>1. PICK j \in JobId : /\ jobs[j].status = "pending"
                           /\ jobs' = [jobs EXCEPT ![j] = Offered(jobs[j], r)]
    BY <1>3 DEF Oldest, Claimable
  <2>2. /\ RowInv(Offered(jobs[j], r)) /\ Offered(jobs[j], r).status = "offered"
        /\ Offered(jobs[j], r).runtimeId = r
        /\ SameDelivery(Offered(jobs[j], r), jobs[j])
    BY <1>1, <2>1, OfferedRow DEF Rows
  <2>3. \A k \in JobId : jobs'[k] = IF k = j THEN Offered(jobs[j], r) ELSE jobs[k]
    BY <1>1, <2>1 DEF Rows
  <2>4. Rows'
    BY <1>1, <2>1, <2>2, <2>3 DEF Rows
  <2>5. \A k \in JobId : ~Startable(jobs[k], r)
    BY <1>3 DEF OwnedOffers, OfferedTo, Startable
  <2>6. OneOffer'
    BY <1>1, <2>2, <2>3, <2>5 DEF OneOffer, Startable
  <2>7. ~removed /\ removed' = removed /\ posts' = posts /\ unacked' = unacked
    BY <1>1, IInvSplit, RemovalRows, ConstantsAssumption
       DEF Claim, control, ConstantsAssumption
  <2>8. dlv = NoDlv /\ dlv' = NoDlv /\ dlv'.stage = "none"
    BY <1>1 DEF Claim, Idle, OperationShape, NoDlv
  <2>9. ControlType' /\ OperationShape'
    BY <1>1, <2>8 DEF Claim, control, ControlType, OperationShape, Idle, NoOp
  <2>10. \A k \in JobId : jobs'[k].deliveryStatus = "delivered"
                            <=> jobs[k].deliveryStatus = "delivered"
    BY <2>2, <2>3 DEF SameDelivery
  <2>. QED
    BY <2>4, <2>6, <2>7, <2>8, <2>9, <2>10, CalmStep
<1>4. CASE UNCHANGED jobs
  BY <1>4, UnchangedStep DEF Claim
<1>. QED
  BY <1>2, <1>3, <1>4 DEF Claim

LEMMA StartStep ==
  ASSUME IInv, NEW s \in Socket, NEW j \in JobId, Start(s, j)
  PROVE  IInv'
<1>1. CASE UNCHANGED jobs
  BY <1>1, UnchangedStep DEF Start
<1>2. CASE jobs[j].status = "offered" /\ jobs' = [jobs EXCEPT ![j] = Started(@)]
  <2>1. Rows
    BY IInvSplit
  <2>2. /\ RowInv(Started(jobs[j])) /\ Started(jobs[j]).status = "running"
        /\ SameDelivery(Started(jobs[j]), jobs[j])
    BY <1>2, <2>1, StartedRow DEF Rows
  <2>3. Benign(jobs[j], Started(jobs[j]))
    BY <1>2, <2>2 DEF Benign, SameDelivery, Settled, Startable, Active, Present
  <2>4. jobs' = [k \in JobId |-> jobs'[k]] /\ \A k \in JobId : Benign(jobs[k], jobs'[k])
    BY <1>2, <2>1, <2>3, BenignSame DEF Rows
  <2>5. /\ sockets' \in [Socket -> Runtime \cup {None}]
        /\ removed => \A t \in Socket : sockets'[t] = None
    BY IInvSplit, RemovalRows DEF Start, ControlType
  <2>. QED
    BY <2>4, <2>5, IdleStep DEF Start
<1>. QED
  BY <1>1, <1>2 DEF Start, OfferedTo

(* An active job that is finished, successfully or not. *)
FinishedFrom(old, new) ==
  /\ old.status \in Active
  /\ RowInv(new) /\ new.status \in Terminal /\ new.deliveryStatus = "pending"

(* Finishing active jobs keeps the invariant of the rows. *)
LEMMA FinishRows ==
  ASSUME IInv, jobs' = [k \in JobId |-> jobs'[k]],
         \A k \in JobId : jobs'[k] = jobs[k] \/ FinishedFrom(jobs[k], jobs'[k])
  PROVE  /\ Rows' /\ OneOffer'
         /\ \A k \in JobId : jobs'[k].deliveryStatus = "delivered"
                              <=> jobs[k].deliveryStatus = "delivered"
<1>1. Rows /\ OneOffer
  BY IInvSplit
<1>2. Rows'
  BY <1>1 DEF Rows, FinishedFrom
<1>3. OneOffer'
  BY <1>1 DEF OneOffer, FinishedFrom, Startable, Terminal
<1>4. \A k \in JobId : FinishedFrom(jobs[k], jobs'[k]) =>
        jobs[k].deliveryStatus = "none" /\ jobs'[k].deliveryStatus = "pending"
  BY <1>1 DEF Rows, RowInv, RowEnvelopes, FinishedFrom
<1>. QED
  BY <1>2, <1>3, <1>4

(* A job that is failed or expired is finished. *)
LEMMA FailedFinishes ==
  ASSUME NEW row, RowInv(row), row.status \in Active
  PROVE  FinishedFrom(row, FailedRow(row))
BY FailedRowRow DEF FinishedFrom, Terminal

LEMMA CompleteStep ==
  ASSUME IInv, NEW s \in Socket, NEW j \in JobId, NEW ok \in BOOLEAN, Complete(s, j, ok)
  PROVE  IInv'
<1>1. Rows /\ OneOffer /\ OperationShape /\ ControlType /\ dlv = NoDlv
  BY IInvSplit DEF Complete, Idle, OperationShape
<1>2. ~removed /\ removed' = removed /\ posts' = posts /\ unacked' = unacked
  BY IInvSplit, RemovalRows DEF Complete, control
<1>. DEFINE call(phase) == op' = [NoOp EXCEPT !.call = "complete", !.phase = phase,
                                             !.caller = s, !.job = j]
            target == [job |-> j, stage |-> "claim"]
<1>3. ASSUME NEW phase \in {"ack", "reack"}, call(phase), dlv' \in {target, NoDlv},
             jobs'[j].status \in Terminal
      PROVE  /\ ControlType' /\ OperationShape'
             /\ dlv'.stage \in {"none", "claim"}
  <2>1. op' = [call |-> "complete", phase |-> phase, todo |-> {}, caller |-> s, job |-> j]
    BY <1>3 DEF NoOp
  <2>2. dlv'.stage \in {"none", "claim"} /\ (dlv'.stage = "none" => dlv' = NoDlv)
        /\ (dlv'.stage # "none" => dlv'.job = j)
        /\ dlv' \in [job : JobId \cup {None}, stage : Stages]
    BY <1>3 DEF NoDlv, Stages
  <2>3. op' \in [call : Calls, phase : Phases, todo : SUBSET JobId,
                 caller : Socket \cup {None}, job : JobId \cup {None}]
    BY <2>1 DEF Calls, Phases
  <2>4. ControlType'
    BY <2>2, <2>3, <1>1 DEF ControlType, Complete, control
  <2>5. OperationShape'
    BY <2>1, <2>2, <1>2, <1>3 DEF OperationShape, Complete, control, Idle, NoOp
  <2>. QED
    BY <2>2, <2>4, <2>5
<1>4. CASE UNCHANGED <<jobs, op, dlv>>
  BY <1>4, UnchangedStep DEF Complete
<1>5. CASE /\ jobs[j].status \in Terminal /\ UNCHANGED jobs
           /\ call("reack") /\ dlv' \in {target, NoDlv}
  <2>1. Rows' /\ OneOffer'
    BY <1>1, <1>5 DEF Rows, OneOffer
  <2>. QED
    BY <1>1, <1>2, <1>3, <1>5, <2>1, CalmStep
<1>6. CASE /\ jobs[j].status = "running"
           /\ jobs' = [jobs EXCEPT ![j] = IF ok THEN Finished(@, "completed", "answer")
                                                ELSE Finished(@, "failed", "notice")]
           /\ call("ack") /\ dlv' = target
  <2>1. FinishedFrom(jobs[j], jobs'[j])
    BY <1>1, <1>6, FinishedRow DEF Rows, FinishedFrom, Active, Terminal
  <2>2. /\ jobs' = [k \in JobId |-> jobs'[k]]
        /\ \A k \in JobId : jobs'[k] = jobs[k] \/ FinishedFrom(jobs[k], jobs'[k])
    BY <1>1, <1>6, <2>1 DEF Rows
  <2>3. /\ Rows' /\ OneOffer'
        /\ \A k \in JobId : jobs'[k].deliveryStatus = "delivered"
                              <=> jobs[k].deliveryStatus = "delivered"
    BY <2>2, FinishRows
  <2>4. jobs'[j].status \in Terminal
    BY <2>1 DEF FinishedFrom
  <2>. QED
    BY <1>1, <1>2, <1>3, <1>6, <2>3, <2>4, CalmStep
<1>. QED
  BY <1>4, <1>5, <1>6 DEF Complete

----------------------------------------------------------------------------
(* Administration and the sweep.                                           *)

(* Beginning an operation over a set of jobs, none of which the claw has   *)
(* left when it is removed.                                                *)
LEMMA BeginStep ==
  ASSUME IInv, Idle, NEW call \in Calls, NEW phase \in {"cancel", "fail"},
         NEW todo \in SUBSET JobId, removed => todo = {},
         Begin(call, phase, todo), jobs' = [j \in JobId |-> jobs'[j]],
         \A j \in JobId : Benign(jobs[j], jobs'[j]),
         resetGen' \in Nat,
         UNCHANGED <<sockets, dlv, removed, up, posts, unacked, faults>>
  PROVE  IInv'
<1>1. OperationShape /\ ControlType /\ dlv = NoDlv /\ dlv' = NoDlv
  BY IInvSplit DEF Idle, OperationShape
<1>2. op' = [call |-> call, phase |-> phase, todo |-> todo, caller |-> None, job |-> None]
  BY DEF Begin, NoOp
<1>3. ControlType'
  BY <1>1, <1>2 DEF ControlType, Phases
<1>4. OperationShape'
  BY <1>1, <1>2 DEF OperationShape, Idle, NoDlv
<1>5. removed => \A s \in Socket : sockets'[s] = None
  BY IInvSplit, RemovalRows
<1>. QED
  BY <1>1, <1>3, <1>4, <1>5, BenignStep

LEMMA CancelStep ==
  ASSUME IInv, CancelPending \/ CancelActiveTurns
  PROVE  IInv'
<1>1. Rows /\ ControlType
  BY IInvSplit
<1>2. jobs' = [j \in JobId |-> jobs'[j]] /\ \A j \in JobId : Benign(jobs[j], jobs'[j])
  BY <1>1, BenignSame DEF Rows, CancelPending, CancelActiveTurns
<1>3. WaitingJobs \in SUBSET JobId /\ (removed => WaitingJobs = {})
  BY IInvSplit, RemovalRows DEF WaitingJobs, Settled, Waiting, Active, Present
<1>4. resetGen' \in Nat
  BY <1>1 DEF ControlType, CancelPending, CancelActiveTurns, control
<1>5. CASE CancelPending
  BY <1>2, <1>3, <1>4, <1>5, BeginStep DEF CancelPending, Calls, control
<1>6. CASE CancelActiveTurns
  BY <1>2, <1>3, <1>4, <1>6, BeginStep DEF CancelActiveTurns, Calls, control
<1>. QED
  BY <1>5, <1>6

LEMMA CleanupSweepStep ==
  ASSUME IInv, CleanupSweep
  PROVE  IInv'
<1>1. Rows /\ ControlType
  BY IInvSplit
<1>2. jobs' = [j \in JobId |-> jobs'[j]] /\ \A j \in JobId : Benign(jobs[j], jobs'[j])
  BY <1>1, BenignSame, BenignReleased DEF Rows, CleanupSweep, Update, StaleOffers
<1>3. Stalled \in SUBSET JobId /\ (removed => Stalled = {})
  BY IInvSplit, RemovalRows DEF Stalled, Running, Settled, Active, Present
<1>. QED
  BY <1>1, <1>2, <1>3, BeginStep DEF CleanupSweep, Calls, control, ControlType

(* The transaction of a removal leaves nothing unsettled. *)
LEMMA PrepareForRemovalStep ==
  ASSUME IInv, PrepareForRemoval
  PROVE  IInv'
<1>1. Rows /\ OneOffer /\ OperationShape /\ ControlType /\ dlv = NoDlv
  BY IInvSplit DEF PrepareForRemoval, Idle, OperationShape
<1>2. \A j \in JobId : jobs'[j] = IF j \in Unsettled THEN Withdrawn(jobs[j]) ELSE jobs[j]
  BY DEF PrepareForRemoval, Update
<1>3. \A j \in Unsettled : /\ RowInv(Withdrawn(jobs[j])) /\ Withdrawn(jobs[j]).status = "failed"
                           /\ Withdrawn(jobs[j]).deliveryStatus = "failed"
                           /\ jobs[j].deliveryStatus # "delivered"
  <2>. SUFFICES ASSUME NEW j \in Unsettled
                PROVE  RowInv(jobs[j]) /\ jobs[j].status \in Present
                       /\ jobs[j].deliveryStatus # "delivered"
    BY WithdrawnRow
  <2>. QED
    BY <1>1 DEF Unsettled, Rows, RowInv, RowEnvelopes
<1>4. Rows' /\ \A j \in JobId : Settled(jobs'[j])
  <2>1. jobs' = [j \in JobId |-> jobs'[j]]
    BY DEF PrepareForRemoval, Update
  <2>2. \A j \in JobId : RowInv(jobs'[j])
    BY <1>1, <1>2, <1>3 DEF Rows
  <2>3. \A j \in JobId : Settled(jobs'[j])
    BY <1>2, <1>3 DEF Settled, Unsettled, Active, Present
  <2>. QED
    BY <2>1, <2>2, <2>3 DEF Rows
<1>5. OneOffer'
  BY <1>4 DEF OneOffer, Startable, Settled, Present, Active
<1>6. dlv' = NoDlv /\ op' = NoOp /\ up' /\ sockets' = [s \in Socket |-> None] /\ removed'
  BY <1>1 DEF PrepareForRemoval, Idle
<1>7. ControlType'
  BY <1>1, <1>6 DEF ControlType, PrepareForRemoval
<1>8. OperationShape'
  BY <1>6 DEF OperationShape, NoOp, NoDlv
<1>9. LeaseHeldWhilePosting'
  BY <1>6 DEF LeaseHeldWhilePosting, NoDlv
<1>10. RepliesAccounted'
  <2>1. \A j \in JobId : jobs'[j].deliveryStatus = "delivered"
                           <=> jobs[j].deliveryStatus = "delivered"
    BY <1>2, <1>3
  <2>. QED
    BY <1>1, <1>6, <2>1, IInvSplit DEF RepliesAccounted, PrepareForRemoval, NoDlv
<1>11. RemovalIsFinal'
  BY <1>4, <1>6 DEF RemovalIsFinal, Unsettled, Settled, Active, Present
<1>. QED
  BY <1>4, <1>5, <1>7, <1>8, <1>9, <1>10, <1>11, IInvSplitNext

----------------------------------------------------------------------------
(* The steps of a running operation.                                       *)

OpType == [call : Calls, phase : Phases, todo : SUBSET JobId,
           caller : Socket \cup {None}, job : JobId \cup {None}]

(* A step of a loop over jobs: it finishes the job or leaves it, and may   *)
(* go on to deliver it.                                                    *)
LEMMA LoopStep ==
  ASSUME IInv, NEW phase \in {"cancel", "fail", "expire", "deliver"}, Step(phase),
         NEW j \in JobId, j \in op.todo, Done(j),
         jobs' = [k \in JobId |-> jobs'[k]],
         \A k \in JobId : jobs'[k] = jobs[k] \/ FinishedFrom(jobs[k], jobs'[k]),
         dlv' \in {NoDlv, [job |-> j, stage |-> "claim"]},
         UNCHANGED <<sockets, control>>
  PROVE  IInv'
<1>1. Rows /\ OneOffer /\ OperationShape /\ ControlType /\ dlv = NoDlv
  BY IInvSplit DEF Step
<1>2. ~removed /\ removed' = removed /\ posts' = posts /\ unacked' = unacked
  BY <1>1 DEF OperationShape, control
<1>3. /\ Rows' /\ OneOffer'
      /\ \A k \in JobId : jobs'[k].deliveryStatus = "delivered"
                            <=> jobs[k].deliveryStatus = "delivered"
  BY FinishRows
<1>4. op' \in OpType /\ op'.phase = phase
  BY <1>1 DEF Done, ControlType, OpType, Step
<1>5. /\ dlv' \in [job : JobId \cup {None}, stage : Stages]
      /\ dlv'.stage \in {"none", "claim"}
      /\ IF dlv'.stage = "none" THEN dlv' = NoDlv ELSE dlv'.job \in JobId
  BY DEF NoDlv, Stages
<1>6. ControlType'
  BY <1>1, <1>4, <1>5 DEF ControlType, OpType, control
<1>7. OperationShape'
  BY <1>2, <1>4, <1>5 DEF OperationShape, Step, control, NoOp
<1>. QED
  BY <1>1, <1>2, <1>3, <1>5, <1>6, <1>7, CalmStep

LEMMA NextJobStep ==
  ASSUME IInv, NEW j \in JobId,
         CancelNext(j) \/ FailNext(j) \/ ExpireNext(j) \/ DeliverNext(j),
         UNCHANGED <<sockets, control>>
  PROVE  IInv'
<1>1. Rows
  BY IInvSplit
<1>2. ASSUME NEW S \in SUBSET JobId, \A k \in S : jobs[k].status \in Active,
             jobs' = Update({j} \cap S, FailedRow)
      PROVE  /\ jobs' = [k \in JobId |-> jobs'[k]]
             /\ \A k \in JobId : jobs'[k] = jobs[k] \/ FinishedFrom(jobs[k], jobs'[k])
  BY <1>1, <1>2, FailedFinishes DEF Update, Rows
<1>3. /\ WaitingJobs \in SUBSET JobId /\ \A k \in WaitingJobs : jobs[k].status \in Active
      /\ Running \in SUBSET JobId /\ \A k \in Running : jobs[k].status \in Active
  BY DEF WaitingJobs, Running, Waiting, Active
<1>4. CASE CancelNext(j)
  BY <1>2, <1>3, <1>4, LoopStep DEF CancelNext, Step
<1>5. CASE FailNext(j)
  BY <1>2, <1>3, <1>5, LoopStep DEF FailNext, Deliver
<1>6. CASE ExpireNext(j)
  BY <1>2, <1>3, <1>6, LoopStep DEF ExpireNext, Deliver
<1>7. CASE DeliverNext(j)
  BY <1>1, <1>7, LoopStep DEF DeliverNext, Deliver, Rows
<1>. QED
  BY <1>4, <1>5, <1>6, <1>7

(* The end of a phase: the operation goes on to the next, over jobs that   *)
(* exist only if the claw does, or ends.                                   *)
LEMMA EndPhaseStep ==
  ASSUME IInv, EndPhase, UNCHANGED <<sockets, control>>
  PROVE  IInv'
<1>1. Rows /\ OneOffer /\ OperationShape /\ ControlType /\ dlv = NoDlv /\ up
  BY IInvSplit DEF EndPhase, Step
<1>2. removed => /\ \A j \in JobId : Settled(jobs[j])
                 /\ \A s \in Socket : sockets'[s] = None
  BY IInvSplit, RemovalRows
<1>3. jobs' = [j \in JobId |-> jobs'[j]] /\ \A j \in JobId : Benign(jobs[j], jobs'[j])
  <2>1. ASSUME NEW j \in Retired
        PROVE  Benign(jobs[j], Purged(jobs[j]))
    <3>1. j \in JobId /\ jobs[j].status \in Terminal /\ jobs[j].deliveryStatus \in {"delivered", "failed"}
      BY <2>1 DEF Retired
    <3>2. RowInv(jobs[j])
      BY <1>1, <3>1 DEF Rows
    <3>. QED
      BY <3>1, <3>2, PurgedRow DEF Benign, SameDelivery, Settled, Startable, Present, Active, Terminal
  <2>2. CASE UNCHANGED jobs
    BY <1>1, <2>2, BenignSame DEF Rows
  <2>3. CASE jobs' = Update(Retired, Purged)
    BY <1>1, <2>1, <2>3, BenignSame DEF Rows, Update
  <2>. QED
    BY <2>2, <2>3 DEF EndPhase
<1>4. \/ op' = NoOp
      \/ \E phase \in {"fail", "expire", "deliver"}, todo \in {Running, Expired, Undelivered} :
           Enter(phase, todo)
  BY DEF EndPhase
<1>5. op' \in OpType /\ (removed => op'.todo = {}) /\ op'.phase \notin {"ack", "reack"}
  <2>1. CASE op' = NoOp
    BY <2>1 DEF NoOp, OpType, Calls, Phases
  <2>2. CASE \E phase \in {"fail", "expire", "deliver"}, todo \in {Running, Expired, Undelivered} :
               Enter(phase, todo)
    <3>1. PICK phase \in {"fail", "expire", "deliver"}, todo \in {Running, Expired, Undelivered} :
               Enter(phase, todo)
      BY <2>2
    <3>2. todo \in SUBSET JobId
      BY <3>1 DEF Running, Expired, WaitingJobs, Undelivered
    <3>3. removed => todo = {}
      BY <1>2, <3>1 DEF Running, Expired, WaitingJobs, Waiting, Undelivered, Deliverable,
                        Settled, Active, Present, Terminal
    <3>. QED
      BY <1>1, <3>1, <3>2, <3>3 DEF Enter, ControlType, OpType, Phases
  <2>. QED
    BY <1>4, <2>1, <2>2
<1>6. dlv' = NoDlv
  BY <1>1 DEF EndPhase
<1>7. ControlType'
  BY <1>1, <1>5, <1>6 DEF ControlType, OpType, control
<1>8. OperationShape'
  BY <1>1, <1>5, <1>6 DEF OperationShape, control, NoDlv
<1>. QED
  BY <1>1, <1>2, <1>3, <1>6, <1>7, <1>8, BenignStep DEF control

LEMMA AcknowledgeStep ==
  ASSUME IInv, Acknowledge
  PROVE  IInv'
<1>1. Rows /\ ControlType /\ OperationShape /\ dlv = NoDlv /\ up
  BY IInvSplit DEF Acknowledge, Step
<1>2. jobs' = [j \in JobId |-> jobs'[j]] /\ \A j \in JobId : Benign(jobs[j], jobs'[j])
  BY <1>1, BenignSame DEF Rows, Acknowledge
<1>3. removed => \A s \in Socket : sockets'[s] = None
  BY IInvSplit, RemovalRows DEF Acknowledge
<1>4. dlv' = NoDlv /\ op' = NoOp
  BY <1>1 DEF Acknowledge
<1>5. ControlType'
  BY <1>1, <1>4 DEF ControlType, Acknowledge, control, NoOp, Calls, Phases
<1>6. OperationShape'
  BY <1>1, <1>4 DEF OperationShape, Acknowledge, control, NoOp, NoDlv
<1>. QED
  BY <1>1, <1>2, <1>3, <1>4, <1>5, <1>6, BenignStep DEF Acknowledge, control

----------------------------------------------------------------------------
(* Deliveries.                                                             *)

(* What every step of a delivery shares: it changes rows of finished jobs  *)
(* only, and stays within its operation.                                   *)
LEMMA DeliveryStep ==
  ASSUME IInv, up, dlv.stage # "none",
         jobs' = [j \in JobId |-> jobs'[j]],
         \A j \in JobId : \/ jobs'[j] = jobs[j]
                          \/ /\ RowInv(jobs'[j]) /\ jobs[j].status \in Terminal
                             /\ jobs'[j].status = jobs[j].status,
         dlv' = NoDlv \/ \E stage \in Stages \ {"none"} : GoTo(stage),
         posts' \in [JobId -> Nat], unacked' \in [JobId -> Nat], faults' \in Nat,
         UNCHANGED <<sockets, op, removed, resetGen, up>>,
         LeaseHeldWhilePosting', RepliesAccounted'
  PROVE  IInv'
<1>1. Rows /\ OneOffer /\ OperationShape /\ ControlType
  BY IInvSplit
<1>2. dlv.job \in JobId /\ op # NoOp /\ ~removed
  BY <1>1, IInvSplit, RemovalRows DEF OperationShape, NoDlv
<1>3. /\ dlv' \in [job : JobId \cup {None}, stage : Stages]
      /\ IF dlv'.stage = "none" THEN dlv' = NoDlv ELSE dlv'.job \in JobId
  <2>1. CASE dlv' = NoDlv
    BY <2>1 DEF NoDlv, Stages
  <2>2. CASE \E stage \in Stages \ {"none"} : GoTo(stage)
    BY <1>1, <1>2, <2>2 DEF GoTo, ControlType
  <2>. QED
    BY <2>1, <2>2
<1>4. Rows'
  BY <1>1 DEF Rows
<1>5. OneOffer'
  BY <1>1 DEF OneOffer, Startable, Terminal
<1>6. ControlType'
  BY <1>1, <1>3 DEF ControlType
<1>7. OperationShape'
  BY <1>1, <1>2, <1>3 DEF OperationShape
<1>8. RemovalIsFinal'
  BY <1>2 DEF RemovalIsFinal
<1>. QED
  BY <1>4, <1>5, <1>6, <1>7, <1>8, IInvSplitNext

LEMMA DeliverClaimStep ==
  ASSUME IInv, DeliverClaim,
         UNCHANGED <<sockets, op, removed, resetGen, up, faults>>
  PROVE  IInv'
<1>1. Rows /\ OperationShape /\ ControlType /\ up /\ dlv.stage = "claim"
  BY IInvSplit DEF DeliverClaim, At
<1>2. dlv.job \in JobId
  BY <1>1 DEF OperationShape
<1>3. posts' = posts /\ unacked' = unacked
  BY DEF DeliverClaim
<1>. DEFINE j == dlv.job
<1>4. CASE Deliverable(jobs[j])
  <2>1. /\ jobs' = Update({j}, DeliveryClaimed)
        /\ GoTo(IF SlackConfigured THEN "post" ELSE "unsendable")
    BY <1>4 DEF DeliverClaim
  <2>2. /\ RowInv(DeliveryClaimed(jobs[j]))
        /\ DeliveryClaimed(jobs[j]).status = jobs[j].status /\ jobs[j].status \in Terminal
        /\ DeliveryClaimed(jobs[j]).deliveryStatus = "delivering"
        /\ DeliveryClaimed(jobs[j]).deliveryOwner = "self"
        /\ jobs[j].deliveryStatus \in {"pending", "delivering"}
    BY <1>1, <1>2, <1>4, ClaimedRow DEF Rows
  <2>3. \A k \in JobId : jobs'[k] = IF k = j THEN DeliveryClaimed(jobs[j]) ELSE jobs[k]
    BY <2>1 DEF Update
  <2>4. jobs' = [k \in JobId |-> jobs'[k]]
    BY <2>1 DEF Update
  <2>5. dlv'.job = j /\ dlv'.stage \in {"post", "unsendable"}
    BY <1>1, <2>1 DEF GoTo, ControlType
  <2>6. LeaseHeldWhilePosting'
    BY <1>2, <2>2, <2>3, <2>5 DEF LeaseHeldWhilePosting
  <2>7. RepliesAccounted'
    BY <1>1, <1>3, <2>2, <2>3, <2>5, IInvSplit DEF RepliesAccounted
  <2>8. \E stage \in Stages \ {"none"} : GoTo(stage)
    BY <2>1 DEF Stages
  <2>. QED
    BY <1>1, <1>3, <2>2, <2>3, <2>4, <2>6, <2>7, <2>8, DeliveryStep DEF ControlType
<1>5. CASE ~Deliverable(jobs[j])
  <2>1. dlv' = NoDlv /\ jobs' = jobs
    BY <1>5 DEF DeliverClaim
  <2>2. LeaseHeldWhilePosting'
    BY <2>1 DEF LeaseHeldWhilePosting, NoDlv
  <2>3. RepliesAccounted'
    BY <1>1, <1>3, <2>1, IInvSplit DEF RepliesAccounted, NoDlv
  <2>. QED
    BY <1>1, <1>3, <2>1, <2>2, <2>3, DeliveryStep DEF ControlType, Rows
<1>. QED
  BY <1>4, <1>5

LEMMA DeliverPostStep ==
  ASSUME IInv, DeliverPost,
         UNCHANGED <<sockets, op, removed, resetGen, up, faults>>
  PROVE  IInv'
<1>1. /\ Rows /\ OperationShape /\ ControlType /\ up /\ dlv.stage = "post"
      /\ LeaseHeldWhilePosting /\ RepliesAccounted
  BY IInvSplit DEF DeliverPost, At
<1>. DEFINE j == dlv.job
<1>2. /\ j \in JobId /\ jobs' = jobs
      /\ jobs[j].deliveryStatus = "delivering"
      /\ posts \in [JobId -> Nat] /\ unacked \in [JobId -> Nat]
  BY <1>1 DEF OperationShape, DeliverPost, LeaseHeldWhilePosting, ControlType
<1>3. PICK stage \in {"accepted", "retry", "reject"} : GoTo(stage)
  BY DEF DeliverPost
<1>4. dlv'.job = j /\ dlv'.stage = stage
  BY <1>1, <1>3 DEF GoTo, ControlType
<1>5. LeaseHeldWhilePosting'
  BY <1>1, <1>2, <1>4 DEF LeaseHeldWhilePosting
<1>6. /\ RepliesAccounted' /\ posts' \in [JobId -> Nat] /\ unacked' \in [JobId -> Nat]
  <2>1. posts[j] \in Nat /\ unacked[j] \in Nat /\ posts[j] = unacked[j]
    BY <1>1, <1>2 DEF RepliesAccounted
  <2>2. CASE /\ dlv'.stage = "accepted" /\ UNCHANGED unacked
             /\ posts' = [posts EXCEPT ![j] = @ + 1]
    BY <1>1, <1>2, <1>4, <2>1, <2>2 DEF RepliesAccounted
  <2>3. CASE /\ dlv'.stage = "retry" /\ unacked' = [unacked EXCEPT ![j] = @ + 1]
             /\ posts' = [posts EXCEPT ![j] = @ + 1]
    BY <1>1, <1>2, <1>4, <2>1, <2>3 DEF RepliesAccounted
  <2>4. CASE dlv'.stage \in {"retry", "reject"} /\ UNCHANGED <<posts, unacked>>
    BY <1>1, <1>2, <1>4, <2>1, <2>4 DEF RepliesAccounted
  <2>5. \A t \in Stages : GoTo(t) => dlv'.stage = t
    BY <1>1 DEF GoTo, ControlType
  <2>. QED
    BY <2>2, <2>3, <2>4, <2>5 DEF DeliverPost, Stages
<1>. QED
  BY <1>1, <1>2, <1>3, <1>5, <1>6, DeliveryStep DEF ControlType, Rows, Stages

(* What recording an outcome does: it settles or requeues the row whose    *)
(* lease is held, and touches nothing when it was recorded before.         *)
LEMMA RecordRows ==
  ASSUME IInv, NEW stage, dlv.stage \in {"accepted", "retry", "reject", "unsendable"},
         Record(stage)
  PROVE  /\ jobs' = [k \in JobId |-> jobs'[k]]
         /\ \A k \in JobId : \/ jobs'[k] = jobs[k]
                             \/ /\ RowInv(jobs'[k]) /\ jobs[k].status \in Terminal
                                /\ jobs'[k].status = jobs[k].status
         /\ dlv.job \in JobId /\ jobs[dlv.job].status \in Terminal
         /\ \A k \in JobId \ {dlv.job} : jobs'[k] = jobs[k]
         /\ \/ /\ jobs[dlv.job].deliveryStatus = "delivering"
               /\ jobs'[dlv.job].deliveryStatus \in {"pending", "delivered", "failed"}
               /\ jobs'[dlv.job].deliveryStatus = "delivered" <=> stage = "accepted"
            \/ /\ jobs[dlv.job].deliveryStatus = "delivered" /\ dlv.stage = "retry"
               /\ jobs' = jobs
<1>1. /\ Rows /\ OperationShape /\ LeaseHeldWhilePosting
  BY IInvSplit
<1>. DEFINE j == dlv.job
            row == DeliveryOutcome(stage, jobs[j])
<1>2. /\ j \in JobId /\ jobs[j].status \in Terminal
      /\ \/ jobs[j].deliveryStatus = "delivering" /\ jobs[j].deliveryOwner = "self"
         \/ dlv.stage = "retry" /\ jobs[j].deliveryStatus = "delivered"
  BY <1>1 DEF OperationShape, LeaseHeldWhilePosting
<1>3. CASE jobs[j].deliveryStatus = "delivering" /\ jobs[j].deliveryOwner = "self"
  <2>1. /\ jobs' = [k \in JobId |-> jobs'[k]]
        /\ \A k \in JobId : jobs'[k] = IF k = j THEN row ELSE jobs[k]
    BY <1>2, <1>3 DEF Record, Update, Held, Present
  <2>2. /\ RowInv(row) /\ row.status = jobs[j].status
        /\ row.deliveryStatus \in {"pending", "delivered", "failed"}
        /\ row.deliveryStatus = "delivered" <=> stage = "accepted"
    BY <1>1, <1>2, <1>3, OutcomeRow DEF Rows
  <2>. HIDE DEF row
  <2>. QED
    BY <1>2, <1>3, <2>1, <2>2
<1>4. CASE dlv.stage = "retry" /\ jobs[j].deliveryStatus = "delivered"
  <2>1. jobs' = jobs
    BY <1>1, <1>4 DEF Record, Update, Held, Rows
  <2>. QED
    BY <1>1, <1>2, <1>4, <2>1 DEF Rows
<1>. QED
  BY <1>2, <1>3, <1>4

LEMMA DeliverRecordStep ==
  ASSUME IInv, DeliverRecord,
         UNCHANGED <<sockets, op, removed, resetGen, up, faults>>
  PROVE  IInv'
<1>1. /\ ControlType /\ up /\ RepliesAccounted
      /\ dlv.stage \in {"accepted", "retry", "reject", "unsendable"} /\ Record(dlv.stage)
  BY IInvSplit DEF DeliverRecord
<1>2. dlv' = NoDlv /\ posts' = posts /\ unacked' = unacked
  BY DEF DeliverRecord
<1>3. LeaseHeldWhilePosting'
  BY <1>2 DEF LeaseHeldWhilePosting, NoDlv
<1>4. RepliesAccounted'
  BY <1>1, <1>2, RecordRows DEF RepliesAccounted, NoDlv
<1>. QED
  BY <1>1, <1>2, <1>3, <1>4, RecordRows, DeliveryStep DEF ControlType

----------------------------------------------------------------------------
(* Faults and time.                                                        *)

LEMMA RecordFailsStep ==
  ASSUME IInv, RecordFails
  PROVE  IInv'
<1>1. /\ Rows /\ OperationShape /\ ControlType /\ up /\ dlv.stage = "accepted"
      /\ LeaseHeldWhilePosting /\ RepliesAccounted
  BY IInvSplit DEF RecordFails, At
<1>2. /\ dlv.job \in JobId /\ posts' = posts
      /\ jobs[dlv.job].deliveryStatus = "delivering" /\ jobs[dlv.job].status \in Terminal
      /\ unacked \in [JobId -> Nat] /\ posts \in [JobId -> Nat] /\ faults' \in Nat
  BY <1>1 DEF OperationShape, RecordFails, LeaseHeldWhilePosting, ControlType
<1>3. dlv'.job = dlv.job /\ dlv'.stage = "retry" /\ GoTo("retry")
  BY <1>1 DEF RecordFails, GoTo, ControlType
<1>4. CASE unacked' = Forget(dlv.job) /\ jobs' = jobs
  <2>1. LeaseHeldWhilePosting'
    BY <1>1, <1>3, <1>4 DEF LeaseHeldWhilePosting
  <2>2. RepliesAccounted' /\ unacked' \in [JobId -> Nat]
    BY <1>1, <1>2, <1>3, <1>4 DEF RepliesAccounted, Forget
  <2>. QED
    BY <1>1, <1>2, <1>3, <1>4, <2>1, <2>2, DeliveryStep DEF Rows, RecordFails, Stages
<1>5. CASE Record("accepted") /\ unacked' = unacked
  <2>1. /\ jobs' = [k \in JobId |-> jobs'[k]]
        /\ \A k \in JobId : \/ jobs'[k] = jobs[k]
                            \/ /\ RowInv(jobs'[k]) /\ jobs[k].status \in Terminal
                               /\ jobs'[k].status = jobs[k].status
        /\ \A k \in JobId \ {dlv.job} : jobs'[k] = jobs[k]
        /\ jobs'[dlv.job].deliveryStatus = "delivered"
    BY <1>1, <1>2, <1>5, RecordRows
  <2>2. LeaseHeldWhilePosting'
    BY <1>2, <1>3, <2>1 DEF LeaseHeldWhilePosting
  <2>3. RepliesAccounted'
    BY <1>1, <1>2, <1>3, <1>5, <2>1 DEF RepliesAccounted
  <2>. QED
    BY <1>1, <1>2, <1>3, <1>5, <2>1, <2>2, <2>3, DeliveryStep DEF RecordFails, Stages
<1>. QED
  BY <1>4, <1>5 DEF RecordFails

(* An operation that stops where it is leaves nothing but rows behind. *)
LEMMA StopStep ==
  ASSUME IInv, op' = NoOp, dlv' = NoDlv, jobs' = [j \in JobId |-> jobs'[j]],
         \A j \in JobId : Benign(jobs[j], jobs'[j]),
         posts' = posts, removed' = removed, resetGen' = resetGen, up' \in BOOLEAN,
         unacked' = IF dlv.stage = "accepted" THEN Forget(dlv.job) ELSE unacked,
         faults' \in Nat, sockets' \in [Socket -> Runtime \cup {None}],
         removed \/ ~up' => \A s \in Socket : sockets'[s] = None
  PROVE  IInv'
<1>1. /\ Rows /\ OperationShape /\ ControlType /\ LeaseHeldWhilePosting /\ RepliesAccounted
      /\ (removed => \A j \in JobId : Settled(jobs[j]))
  BY IInvSplit, RemovalRows
<1>2. /\ Rows' /\ OneOffer'
      /\ (\A j \in JobId : Settled(jobs[j])) => (\A j \in JobId : Settled(jobs'[j]))
  BY BenignRows
<1>3. \A j \in JobId : jobs'[j].deliveryStatus = "delivered"
                         <=> jobs[j].deliveryStatus = "delivered"
  BY DEF Benign
<1>4. LeaseHeldWhilePosting'
  BY DEF LeaseHeldWhilePosting, NoDlv
<1>5. RepliesAccounted' /\ unacked' \in [JobId -> Nat]
  <2>1. unacked \in [JobId -> Nat] /\ posts \in [JobId -> Nat]
    BY <1>1 DEF ControlType
  <2>2. CASE dlv.stage # "accepted"
    BY <1>1, <1>3, <2>1, <2>2 DEF RepliesAccounted, NoDlv
  <2>3. CASE dlv.stage = "accepted"
    <3>1. dlv.job \in JobId /\ jobs[dlv.job].deliveryStatus = "delivering"
      BY <1>1, <2>3 DEF OperationShape, LeaseHeldWhilePosting
    <3>2. unacked' = [unacked EXCEPT ![dlv.job] = @ + 1]
      BY <2>3 DEF Forget
    <3>. QED
      BY <1>1, <1>3, <2>1, <2>3, <3>1, <3>2 DEF RepliesAccounted, NoDlv
  <2>. QED
    BY <2>2, <2>3
<1>6. ControlType'
  BY <1>1, <1>5 DEF ControlType, NoOp, NoDlv, Calls, Phases, Stages
<1>7. OperationShape'
  BY DEF OperationShape, NoOp, NoDlv
<1>8. RemovalIsFinal'
  BY <1>1, <1>2 DEF RemovalIsFinal, Unsettled, Settled, Active, Present
<1>. QED
  BY <1>2, <1>4, <1>5, <1>6, <1>7, <1>8, IInvSplitNext

LEMMA OperationFailsStep ==
  ASSUME IInv, OperationFails
  PROVE  IInv'
<1>1. Rows /\ ControlType /\ (removed => \A s \in Socket : sockets[s] = None)
  BY IInvSplit, RemovalRows
<1>2. jobs' = [j \in JobId |-> jobs'[j]] /\ \A j \in JobId : Benign(jobs[j], jobs'[j])
  BY <1>1, BenignSame DEF Rows, OperationFails
<1>. QED
  BY <1>1, <1>2, StopStep DEF OperationFails, ControlType

LEMMA SocketOperationFailsStep ==
  ASSUME IInv, SocketOperationFails
  PROVE  IInv'
<1>1. /\ Rows /\ ControlType /\ op' = NoOp /\ dlv = NoDlv /\ dlv' = NoDlv /\ up'
      /\ (removed => \A s \in Socket : sockets[s] = None)
  BY IInvSplit, RemovalRows DEF SocketOperationFails, Idle, OperationShape
<1>2. jobs' = jobs \/ \E r \in Runtime : jobs' = ReleaseReplaced(r)
  BY DEF SocketOperationFails
<1>3. jobs' = [j \in JobId |-> jobs'[j]] /\ \A j \in JobId : Benign(jobs[j], jobs'[j])
  BY <1>1, <1>2, BenignSame, ReplaceRows DEF Rows
<1>4. /\ sockets' \in [Socket -> Runtime \cup {None}]
      /\ removed => \A s \in Socket : sockets'[s] = None
  <2>1. CASE \E s \in Socket : sockets' = [sockets EXCEPT ![s] = None]
    BY <1>1, <2>1 DEF ControlType
  <2>2. CASE sockets' = [s \in Socket |-> None]
    BY <2>2
  <2>3. CASE ~removed /\ \E s \in Socket, r \in Runtime :
               sockets' \in {Attached(s, r), [Attached(s, r) EXCEPT ![s] = None]}
    BY <2>3, AttachedType
  <2>. QED
    BY <2>1, <2>2, <2>3 DEF SocketOperationFails
<1>5. /\ posts' = posts /\ removed' = removed /\ resetGen' = resetGen
      /\ unacked' = IF dlv.stage = "accepted" THEN Forget(dlv.job) ELSE unacked
      /\ faults' \in Nat
  BY <1>1 DEF SocketOperationFails, ControlType, NoDlv
<1>6. up' \in BOOLEAN
  BY <1>1 DEF SocketOperationFails, ControlType
<1>. QED
  BY <1>1, <1>3, <1>4, <1>5, <1>6, StopStep

LEMMA CrashStep ==
  ASSUME IInv, Crash
  PROVE  IInv'
<1>1. Rows /\ ControlType
  BY IInvSplit
<1>2. \A j \in JobId : Benign(jobs[j], Abandoned(jobs[j]))
  BY <1>1, AbandonedRow DEF Rows, Benign, Settled, Startable
<1>3. jobs' = [j \in JobId |-> jobs'[j]] /\ \A j \in JobId : Benign(jobs[j], jobs'[j])
  BY <1>2 DEF Crash, Update
<1>4. /\ op' = NoOp /\ dlv' = NoDlv /\ posts' = posts /\ removed' = removed
      /\ resetGen' = resetGen /\ faults' \in Nat
      /\ sockets' \in [Socket -> Runtime \cup {None}]
      /\ \A s \in Socket : sockets'[s] = None
      /\ unacked' = IF dlv.stage = "accepted" THEN Forget(dlv.job) ELSE unacked
  BY <1>1 DEF Crash, ControlType
<1>5. up' \in BOOLEAN
  BY Zenon DEF Crash
<1>. QED
  BY <1>3, <1>4, <1>5, StopStep

LEMMA RestartStep ==
  ASSUME IInv, Restart
  PROVE  IInv'
<1>1. Rows /\ ControlType /\ OperationShape /\ op = NoOp /\ dlv = NoDlv
  BY IInvSplit DEF Restart, OperationShape
<1>2. jobs' = [j \in JobId |-> jobs'[j]] /\ \A j \in JobId : Benign(jobs[j], jobs'[j])
  BY <1>1, BenignSame DEF Rows, Restart
<1>3. removed \/ ~up' => \A s \in Socket : sockets'[s] = None
  BY IInvSplit, RemovalRows DEF Restart
<1>. QED
  BY <1>1, <1>2, <1>3, StopStep DEF Restart, ControlType, NoDlv

LEMMA TickStep ==
  ASSUME IInv, Tick
  PROVE  IInv'
<1>1. Rows /\ ControlType /\ OperationShape /\ op = NoOp /\ dlv = NoDlv
  BY IInvSplit DEF Tick, OperationShape
<1>2. \A j \in JobId : Benign(jobs[j], Ticked(jobs[j]))
  BY <1>1, TickedRow DEF Rows, Benign, SameDelivery, Settled, Startable
<1>3. jobs' = [j \in JobId |-> jobs'[j]] /\ \A j \in JobId : Benign(jobs[j], jobs'[j])
  BY <1>2 DEF Tick, Update
<1>4. removed \/ ~up' => \A s \in Socket : sockets'[s] = None
  BY <1>1, IInvSplit, RemovalRows DEF Tick, control, OperationShape
<1>. QED
  BY <1>1, <1>3, <1>4, StopStep DEF Tick, control, ControlType, NoDlv

LEMMA StutterStep ==
  ASSUME IInv, UNCHANGED vars
  PROVE  IInv'
BY DEF vars, IInv, TypeOK, EnvelopesMatchStatus, OffersExclusive, OwnedOffers, OfferedTo,
       LeaseHeldWhilePosting, RepliesAccounted, RemovalIsFinal, Unsettled, OperationShape

----------------------------------------------------------------------------
(* The invariant holds of every reachable state.                           *)

LEMMA InitIInv == Init => IInv
<1>. SUFFICES ASSUME Init PROVE IInv
  OBVIOUS
<1>1. RowInv(AbsentRow) /\ AbsentRow.status = "absent" /\ AbsentRow.deliveryStatus = "none"
  BY DEF AbsentRow, RowInv, RowEnvelopes, RowOwner, Row, Active, Present, Terminal
<1>2. \A j \in JobId : jobs[j] = AbsentRow
  BY DEF Init
<1>3. Rows
  BY <1>1, <1>2 DEF Init, Rows
<1>4. OneOffer
  BY <1>1, <1>2 DEF OneOffer, Startable
<1>5. ControlType
  BY DEF Init, ControlType, NoOp, NoDlv, Calls, Phases, Stages
<1>6. LeaseHeldWhilePosting /\ RemovalIsFinal /\ OperationShape
  BY DEF Init, LeaseHeldWhilePosting, RemovalIsFinal, OperationShape, NoOp, NoDlv
<1>7. RepliesAccounted
  BY <1>1, <1>2 DEF Init, RepliesAccounted, NoDlv
<1>. QED
  BY <1>3, <1>4, <1>5, <1>6, <1>7, IInvSplit

LEMMA NextIInv == IInv /\ [Next]_vars => IInv'
<1>. SUFFICES ASSUME IInv, [Next]_vars PROVE IInv'
  OBVIOUS
<1>1. CASE \E j \in JobId, e \in EventId : EnqueueTurn(j, e)
  BY <1>1, EnqueueTurnStep
<1>2. CASE \E s \in Socket : RuntimeFrame(s)
  <2>1. PICK s \in Socket : RuntimeFrame(s)
    BY <1>2
  <2>2. CASE Heartbeat(s) \/ InvalidCompletion(s)
    BY <2>2, UnchangedStep DEF Heartbeat, InvalidCompletion
  <2>. QED
    BY <2>1, <2>2, ClaimStep, StartStep, CompleteStep DEF RuntimeFrame
<1>3. CASE Connections
  BY <1>3, AttachSocketStep, DetachSocketStep, RestartRuntimeConnectionsStep DEF Connections
<1>4. CASE Administration
  BY <1>4, CancelStep, PrepareForRemovalStep DEF Administration
<1>5. CASE CleanupSweep
  BY <1>5, CleanupSweepStep
<1>6. CASE OperationStep
  BY <1>6, AcknowledgeStep, NextJobStep, EndPhaseStep, DeliverClaimStep, DeliverPostStep,
     DeliverRecordStep DEF OperationStep
<1>7. CASE Fault
  BY <1>7, RecordFailsStep, OperationFailsStep, SocketOperationFailsStep,
     CrashStep DEF Fault
<1>8. CASE Restart
  BY <1>8, RestartStep
<1>9. CASE Tick
  BY <1>9, TickStep
<1>10. CASE UNCHANGED vars
  BY <1>10, StutterStep
<1>. QED
  BY <1>1, <1>2, <1>3, <1>4, <1>5, <1>6, <1>7, <1>8, <1>9, <1>10 DEF Next

(* The inductive invariant holds of every behaviour of the coordinator.    *)
THEOREM Invariance == Spec => []IInv
BY InitIInv, NextIInv, PTL DEF Spec

(* Every row and every variable keeps its type. *)
THEOREM TypeCorrect == Spec => []TypeOK
<1>1. IInv => TypeOK
  BY DEF IInv
<1>. QED
  BY <1>1, Invariance, PTL

(* Prompts and replies are stored exactly while the status columns call    *)
(* for them, whatever crashes between the coordinator's writes.            *)
THEOREM EnvelopesCorrect == Spec => []EnvelopesMatchStatus
<1>1. IInv => EnvelopesMatchStatus
  BY DEF IInv
<1>. QED
  BY <1>1, Invariance, PTL

(* A runtime holds at most one offer that it may start, and ownership is   *)
(* recorded exactly for jobs that are handed out.                          *)
THEOREM OffersCorrect == Spec => []OffersExclusive
<1>1. IInv => OffersExclusive
  BY DEF IInv
<1>. QED
  BY <1>1, Invariance, PTL

(* A delivery's outcome is recorded on a row whose lease is still held. *)
THEOREM LeaseCorrect == Spec => []LeaseHeldWhilePosting
<1>1. IInv => LeaseHeldWhilePosting
  BY DEF IInv
<1>. QED
  BY <1>1, Invariance, PTL

(* A reply is posted more than once only if an acceptance was lost, and    *)
(* is recorded as delivered only if Slack accepted it.                     *)
THEOREM RepliesCorrect == Spec => []RepliesAccounted
<1>1. IInv => RepliesAccounted
  BY DEF IInv
<1>. QED
  BY <1>1, Invariance, PTL

(* After the tombstone no job is waiting, running or owed, and no runtime  *)
(* is attached.                                                            *)
THEOREM RemovalCorrect == Spec => []RemovalIsFinal
<1>1. IInv => RemovalIsFinal
  BY DEF IInv
<1>. QED
  BY <1>1, Invariance, PTL

=============================================================================
