------------------------------ MODULE AuditTrail ------------------------------
(***************************************************************************)
(* The way of an audit event to the archive: GovernanceController records  *)
(* it and sends it to a queue (#emit); a consumer archives a batch and     *)
(* deletes from the queue what it archived (aws/audit-poller.ts, and       *)
(* worker/index.ts on Cloudflare).  Queues deliver at least once: a        *)
(* message comes back when its consumer is late or dies.  Two consumers    *)
(* run at once while one deployment replaces another.                      *)
(***************************************************************************)
EXTENDS Integers, FiniteSets

CONSTANTS Event, Malformed, \* audit events; messages of the queue that are none
          Poller,
          MaxDeliveries \* maxReceiveCount of the queue: then a message is set aside

ASSUME AuditAssumption == Event \cap Malformed = {} /\ MaxDeliveries \in Nat \ {0}

Message == Event \cup Malformed

VARIABLES
  trail,    \* the audit events of the registry
  queue,    \* what became of each message: "none", "queued", "deleted" or "aside"
  taken,    \* how often it was delivered
  hidden,   \* messages not visible to a receive
  pollers,  \* the batch of each consumer, and what of it failed to be archived
  archive   \* the objects: of an event, by name

auditVars == <<trail, queue, taken, hidden, pollers, archive>>

Resting == [at |-> "receive", batch |-> {}, retained |-> {}]

AuditInit ==
  /\ trail = {} /\ queue = [m \in Message |-> "none"] /\ taken = [m \in Message |-> 0]
  /\ hidden = {} /\ pollers = [p \in Poller |-> Resting] /\ archive = {}

(* audit, then #emit: if sending fails the event stays in the registry      *)
(* only, and the caller is told.                                            *)
Emit(m) ==
  /\ queue[m] = "none" /\ m \notin trail
  /\ trail' = trail \cup ({m} \cap Event)
  /\ \/ queue' = [queue EXCEPT ![m] = "queued"]
     \/ m \in Event /\ UNCHANGED queue
  /\ UNCHANGED <<taken, hidden, pollers, archive>>

(* ReceiveMessage of pollOnce; what came too often is set aside. *)
Receive(p) ==
  /\ pollers[p].at = "receive"
  /\ LET visible == {m \in Message : queue[m] = "queued"} \ hidden
         worn == {m \in visible : taken[m] >= MaxDeliveries}
     IN /\ visible # {}
        /\ \E batch \in SUBSET (visible \ worn) :
             /\ batch # {} \/ worn # {}
             /\ queue' = [m \in Message |-> IF m \in worn THEN "aside" ELSE queue[m]]
             /\ taken' = [m \in Message |-> IF m \in batch THEN taken[m] + 1 ELSE taken[m]]
             /\ hidden' = hidden \cup batch
             /\ pollers' = IF batch = {} THEN pollers
                           ELSE [pollers EXCEPT ![p] = [at |-> "archive", batch |-> batch, retained |-> {}]]
  /\ UNCHANGED <<trail, archive>>

(* The key of archiveAuditEvent says when and by which id the event was     *)
(* recorded, not how it came.                                               *)
ArchiveName(m) == 0

(* archiveAuditBatch: each record on its own; the malformed ones fail. *)
ArchiveBatch(p) ==
  /\ pollers[p].at = "archive"
  /\ \E failed \in SUBSET pollers[p].batch :
       /\ Malformed \cap pollers[p].batch \subseteq failed
       /\ archive' = archive \cup {[of |-> m, name |-> ArchiveName(m)] : m \in pollers[p].batch \ failed}
       /\ pollers' = [pollers EXCEPT ![p] = [@ EXCEPT !.at = "delete", !.retained = failed]]
  /\ UNCHANGED <<trail, queue, taken, hidden>>

(* Mutant: the batch is deleted unless all of it failed. *)
WholeBatch(b) == IF b.retained = b.batch THEN {} ELSE b.batch

(* deletionEntries, whose ids tell the records of the batch apart. *)
Deletable(b) == b.batch \ b.retained

(* DeleteMessageBatch, some of which may fail; a receipt that is too old    *)
(* deletes or fails.                                                        *)
DeleteBatch(p) ==
  /\ pollers[p].at = "delete"
  /\ \E done \in SUBSET {m \in Deletable(pollers[p]) : queue[m] = "queued"} :
       /\ queue' = [m \in Message |-> IF m \in done THEN "deleted" ELSE queue[m]]
       /\ hidden' = hidden \ done
  /\ pollers' = [pollers EXCEPT ![p] = Resting]
  /\ UNCHANGED <<trail, taken, archive>>

(* The visibility timeout of a message passes, whoever still handles it. *)
Reappear(m) ==
  /\ m \in hidden /\ hidden' = hidden \ {m}
  /\ UNCHANGED <<trail, queue, taken, pollers, archive>>

(* pollOnce throws, is aborted by stop, or dies with its process. *)
PollFails(p) ==
  /\ pollers[p].at # "receive" /\ pollers' = [pollers EXCEPT ![p] = Resting]
  /\ \E archived \in SUBSET pollers[p].batch :
       /\ archived \subseteq (IF pollers[p].at = "archive" THEN Event ELSE {})
       /\ archive' = archive \cup {[of |-> m, name |-> ArchiveName(m)] : m \in archived}
  /\ UNCHANGED <<trail, queue, taken, hidden>>

(* An operator sends back what was set aside. *)
Redrive(m) ==
  /\ queue[m] = "aside" /\ queue' = [queue EXCEPT ![m] = "queued"]
  /\ taken' = [taken EXCEPT ![m] = 0]
  /\ UNCHANGED <<trail, hidden, pollers, archive>>

AuditNext ==
  \/ \E m \in Message : Emit(m) \/ Reappear(m) \/ Redrive(m)
  \/ \E p \in Poller : Receive(p) \/ ArchiveBatch(p) \/ DeleteBatch(p) \/ PollFails(p)

AuditSpec == AuditInit /\ [][AuditNext]_auditVars

----------------------------------------------------------------------------
(* No queued event is lost or doubled on its way: what leaves the queue is  *)
(* archived, in one object however often it was delivered, and what cannot  *)
(* be archived stays (pollOnce, archiveAuditBatch, archiveAuditEvent).      *)
AuditKept ==
  /\ \A m \in Message : queue[m] = "deleted" => \E o \in archive : o.of = m
  /\ \A o, q \in archive : o.of = q.of => o = q
  /\ {o.of : o \in archive} \subseteq trail

=============================================================================
