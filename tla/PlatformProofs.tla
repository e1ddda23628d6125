--------------------------- MODULE PlatformProofs ---------------------------
(***************************************************************************)
(* What keeps a claw's platform honest, for any number of claws, events,   *)
(* installers, sessions and steps: the invariants of the modules that      *)
(* MCPlatform runs side by side.  Each part has a section of its own: its  *)
(* inductive invariant, and one lemma that every step preserves it.        *)
(***************************************************************************)
EXTENDS Wakeups, AuditTrail, ModelRouting, Installer, NodeControl, NodeRetirement,
        CoordinatorDirectory, FiniteSetTheorems, WellFoundedInduction, TLAPS

(***************************************************************************)
(* Wake-ups.                                                               *)
(***************************************************************************)
WakeupInv == timer \in Int /\ ending \in Nat /\ WakeupHonoured

(* A process that is up never schedules in vain.                           *)
LEMMA ScheduledArms ==
  ASSUME NEW delay \in Nat, timer \in Int
  PROVE  /\ Scheduled(delay) \in Int
         /\ process = "up" => Scheduled(delay) # Unarmed
  BY DEF Scheduled, Unarmed

LEMMA WakeupInductive ==
  ASSUME WakeupInv, [WakeupNext]_wakeupVars
  PROVE  WakeupInv'
<1> USE DEF WakeupInv, WakeupHonoured, Attended
<1>0. Soon \in Nat /\ Later \in Nat /\ Later # 0
  BY WakeupAssumption
<1>1. ASSUME NEW c \in Claw, CreateClaw(c) PROVE WakeupInv'
  BY <1>1 DEF CreateClaw, Unarmed
<1>2. ASSUME NEW c \in Claw, RequestWakeup(c) PROVE WakeupInv'
  BY <1>0, <1>2, ScheduledArms DEF RequestWakeup
<1>3. ASSUME NEW c \in Claw, Reconcile(c) PROVE WakeupInv'
  BY <1>3 DEF Reconcile, Unarmed
<1>4. CASE Fire
  BY <1>4 DEF Fire, Unarmed
<1>5. CASE PassEnds
  BY <1>5 DEF PassEnds, Unarmed
<1>6. CASE PassFails
  BY <1>0, <1>6, ScheduledArms DEF PassFails, Retried, Unarmed
<1>7. CASE AlarmEnds
  <2>1. timer' \in Int /\ ending' \in Nat
    BY <1>0, <1>7, ScheduledArms DEF AlarmEnds
  <2>2. live # {} /\ process = "up" => timer' # Unarmed
    BY <1>0, <1>7, ScheduledArms DEF AlarmEnds
  <2>3. WakeupHonoured'
    BY <1>7, <2>2 DEF AlarmEnds, Unarmed
  <2> QED BY <2>1, <2>3
<1>8. CASE Tick
  BY <1>8 DEF Tick, Unarmed
<1>9. CASE ProcessCrashes \/ Drained
  BY <1>9 DEF ProcessCrashes, Drained, Dies, Unarmed
<1>10. CASE StopProcess
  BY <1>10 DEF StopProcess, Unarmed
<1>11. CASE StartProcess
  BY <1>11 DEF StartProcess, Unarmed
<1>12. CASE UNCHANGED wakeupVars
  BY <1>12 DEF wakeupVars, Unarmed
<1>13. ASSUME NEW c \in Claw, CreateFails(c) PROVE WakeupInv'
  BY <1>13 DEF CreateFails, Unarmed
<1> QED
  BY <1>1, <1>2, <1>3, <1>4, <1>5, <1>6, <1>7, <1>8, <1>9, <1>10, <1>11, <1>12, <1>13 DEF WakeupNext

(* While a claw is left a round of reconcileAll will come, on either       *)
(* platform and whatever crashes, stops or fails, unless the request that  *)
(* created it broke off before its #schedule and nothing has armed a       *)
(* wake-up since (#schedule, alarm, CoalescingScheduler).                  *)
THEOREM WakeupsKept == WakeupSpec => []WakeupHonoured
<1>1. WakeupInit => WakeupInv
  BY DEF WakeupInit, WakeupInv, WakeupHonoured, Attended, Unarmed
<1>2. WakeupInv /\ [WakeupNext]_wakeupVars => WakeupInv'
  BY WakeupInductive
<1>3. WakeupInv => WakeupHonoured
  BY DEF WakeupInv
<1> QED
  BY <1>1, <1>2, <1>3, PTL DEF WakeupSpec

(***************************************************************************)
(* The audit trail.                                                        *)
(***************************************************************************)
Batch == [at : {"receive", "archive", "delete"}, batch : SUBSET Message, retained : SUBSET Message]

AuditTypes ==
  /\ trail \subseteq Event
  /\ queue \in [Message -> {"none", "queued", "deleted", "aside"}]
  /\ pollers \in [Poller -> Batch]

Archived(m) == \E o \in archive : o.of = m

(* An event is recorded before it is sent, and archived under its own name.*)
ArchiveSound ==
  /\ \A m \in Event : queue[m] # "none" => m \in trail
  /\ \A o \in archive : o.of \in trail /\ o = [of |-> o.of, name |-> ArchiveName(o.of)]

(* What a consumer is about to delete is archived.                         *)
BatchSound(p) ==
  /\ \A m \in pollers[p].batch : queue[m] # "none"
  /\ pollers[p].at = "delete" =>
       /\ Malformed \cap pollers[p].batch \subseteq pollers[p].retained
       /\ \A m \in Deletable(pollers[p]) : Archived(m)

DeletedArchived == \A m \in Message : queue[m] = "deleted" => Archived(m)

AuditInv == AuditTypes /\ ArchiveSound /\ (\A p \in Poller : BatchSound(p)) /\ DeletedArchived

LEMMA AuditInit_Inv == AuditInit => AuditInv
  BY DEF AuditInit, AuditInv, AuditTypes, Batch, Message, Resting, ArchiveSound, BatchSound,
         DeletedArchived

(* Archiving some of the events of a batch keeps the archive sound.        *)
LEMMA ArchiveGrows ==
  ASSUME AuditInv, NEW p \in Poller, NEW done \in SUBSET (pollers[p].batch \cap Event),
         archive' = archive \cup {[of |-> m, name |-> ArchiveName(m)] : m \in done},
         UNCHANGED <<trail, queue>>
  PROVE  ArchiveSound' /\ (\A m : Archived(m) => Archived(m)') /\ (\A m \in done : Archived(m)')
<1>1. \A m \in done : m \in trail
  BY DEF AuditInv, ArchiveSound, BatchSound
<1>2. ASSUME NEW o \in archive' PROVE o.of \in trail /\ o = [of |-> o.of, name |-> ArchiveName(o.of)]
  <2>1. CASE o \in archive
    BY <2>1 DEF AuditInv, ArchiveSound
  <2>2. CASE o \notin archive
    <3>1. PICK m \in done : o = [of |-> m, name |-> ArchiveName(m)]
      BY <1>2, <2>2
    <3> QED BY <1>1, <3>1
  <2> QED BY <2>1, <2>2
<1>3. ArchiveSound'
  BY <1>2 DEF AuditInv, ArchiveSound, ArchiveName
<1>4. \A m : Archived(m) => Archived(m)'
  BY DEF Archived
<1>5. ASSUME NEW m \in done PROVE Archived(m)'
  <2>1. [of |-> m, name |-> ArchiveName(m)] \in archive'
    BY <1>5
  <2>2. [of |-> m, name |-> ArchiveName(m)].of = m
    OBVIOUS
  <2> QED BY <2>1, <2>2 DEF Archived
<1> QED BY <1>3, <1>4, <1>5

LEMMA EmitSafe ==
  ASSUME AuditInv, NEW m \in Message, Emit(m)
  PROVE  AuditInv'
  BY DEF AuditInv, AuditTypes, Batch, ArchiveSound, BatchSound, DeletedArchived, Archived, Deletable,
         ArchiveName, Message, Emit

LEMMA ReceiveSafe ==
  ASSUME AuditInv, NEW p \in Poller, Receive(p)
  PROVE  AuditInv'
<1> DEFINE visible == {m \in Message : queue[m] = "queued"} \ hidden
           worn == {m \in visible : taken[m] >= MaxDeliveries}
<1>1. PICK batch \in SUBSET (visible \ worn) :
        /\ queue' = [m \in Message |-> IF m \in worn THEN "aside" ELSE queue[m]]
        /\ pollers' = IF batch = {} THEN pollers
                      ELSE [pollers EXCEPT ![p] = [at |-> "archive", batch |-> batch, retained |-> {}]]
  BY DEF Receive
<1>2. worn \subseteq Message /\ (\A m \in worn : queue[m] = "queued")
      /\ batch \subseteq Message /\ (\A m \in batch : queue[m] = "queued")
  OBVIOUS
<1> HIDE DEF visible, worn
<1>3. UNCHANGED <<trail, archive>> /\ \A m : Archived(m)' <=> Archived(m)
  BY DEF Receive, Archived
<1>4. AuditTypes'
  <2>1. [at |-> "archive", batch |-> batch, retained |-> {}] \in Batch
    BY <1>2 DEF Batch
  <2> QED BY <1>1, <1>2, <1>3, <2>1 DEF AuditInv, AuditTypes
<1>5. \A m \in Message : /\ queue'[m] = "none" <=> queue[m] = "none"
                         /\ queue'[m] = "deleted" <=> queue[m] = "deleted"
  BY <1>1, <1>2
<1>6. ArchiveSound' /\ DeletedArchived'
  BY <1>3, <1>5 DEF AuditInv, ArchiveSound, DeletedArchived, ArchiveName, Message
<1>7. ASSUME NEW q \in Poller PROVE BatchSound(q)'
  <2>1. pollers[q] \in Batch /\ BatchSound(q)
    BY <1>7 DEF AuditInv, AuditTypes
  <2>2. CASE pollers'[q] = pollers[q]
    BY <1>3, <1>5, <2>1, <2>2 DEF BatchSound, Batch, Deletable
  <2>3. CASE pollers'[q] = [at |-> "archive", batch |-> batch, retained |-> {}]
    <3>1. pollers'[q].batch = batch /\ pollers'[q].at = "archive"
      BY <2>3
    <3>2. \A m \in batch : queue'[m] # "none"
      BY <1>2, <1>5
    <3> QED BY <3>1, <3>2 DEF BatchSound
  <2>4. pollers'[q] = pollers[q] \/ pollers'[q] = [at |-> "archive", batch |-> batch, retained |-> {}]
    BY <1>1, <1>7 DEF AuditInv, AuditTypes
  <2> QED BY <2>2, <2>3, <2>4
<1> QED BY <1>4, <1>6, <1>7 DEF AuditInv

LEMMA ArchiveBatchSafe ==
  ASSUME AuditInv, NEW p \in Poller, ArchiveBatch(p)
  PROVE  AuditInv'
<1>1. PICK failed \in SUBSET pollers[p].batch :
        /\ Malformed \cap pollers[p].batch \subseteq failed
        /\ archive' = archive \cup {[of |-> m, name |-> ArchiveName(m)] : m \in pollers[p].batch \ failed}
        /\ pollers' = [pollers EXCEPT ![p] = [@ EXCEPT !.at = "delete", !.retained = failed]]
  BY DEF ArchiveBatch
<1>2. UNCHANGED <<trail, queue>> /\ pollers[p] \in Batch /\ \A q \in Poller : pollers[q] \in Batch
  BY DEF ArchiveBatch, AuditInv, AuditTypes
<1>3. pollers[p].batch \ failed \subseteq pollers[p].batch \cap Event
  BY <1>1, <1>2 DEF Batch, Message
<1>4. /\ ArchiveSound' /\ (\A m : Archived(m) => Archived(m)')
      /\ \A m \in pollers[p].batch \ failed : Archived(m)'
  BY <1>1, <1>2, <1>3, ArchiveGrows
<1>5. /\ pollers'[p].at = "delete" /\ pollers'[p].batch = pollers[p].batch
      /\ pollers'[p].retained = failed /\ pollers'[p] \in Batch
      /\ \A q \in Poller \ {p} : pollers'[q] = pollers[q]
      /\ DOMAIN pollers' = Poller
  BY <1>1, <1>2 DEF Batch, AuditInv, AuditTypes
<1>6. AuditTypes'
  <2>1. pollers' \in [Poller -> Batch]
    BY <1>1, <1>2, <1>5 DEF AuditInv, AuditTypes
  <2> QED BY <1>2, <2>1 DEF AuditInv, AuditTypes
<1>7. DeletedArchived'
  BY <1>2, <1>4 DEF AuditInv, DeletedArchived
<1>8. BatchSound(p)'
  BY <1>1, <1>2, <1>4, <1>5 DEF AuditInv, BatchSound, Deletable
<1>9. ASSUME NEW q \in Poller, q # p PROVE BatchSound(q)'
  <2>1. BatchSound(q) /\ pollers'[q] = pollers[q]
    BY <1>5, <1>9 DEF AuditInv
  <2> QED BY <1>2, <1>4, <2>1 DEF BatchSound, Deletable
<1> QED BY <1>4, <1>6, <1>7, <1>8, <1>9 DEF AuditInv

LEMMA DeleteBatchSafe ==
  ASSUME AuditInv, NEW p \in Poller, DeleteBatch(p)
  PROVE  AuditInv'
<1>1. PICK done \in SUBSET {m \in Deletable(pollers[p]) : queue[m] = "queued"} :
        queue' = [m \in Message |-> IF m \in done THEN "deleted" ELSE queue[m]]
  BY DEF DeleteBatch
<1>2. /\ pollers[p].at = "delete" /\ pollers' = [pollers EXCEPT ![p] = Resting]
      /\ UNCHANGED <<trail, archive>> /\ (\A m : Archived(m)' <=> Archived(m))
      /\ \A q \in Poller : pollers[q] \in Batch
  BY DEF DeleteBatch, Archived, AuditInv, AuditTypes
<1>3. \A m \in done : Archived(m) /\ queue[m] = "queued"
  BY <1>2 DEF AuditInv, BatchSound
<1>4. AuditTypes'
  <2>1. Resting \in Batch
    BY DEF Resting, Batch
  <2> QED BY <1>1, <1>2, <2>1 DEF AuditInv, AuditTypes
<1>5. \A m \in Message : queue'[m] = "none" <=> queue[m] = "none"
  BY <1>1, <1>3
<1>6. ArchiveSound' /\ DeletedArchived'
  BY <1>1, <1>2, <1>3, <1>5 DEF AuditInv, ArchiveSound, DeletedArchived, ArchiveName, Message
<1>7. ASSUME NEW q \in Poller PROVE BatchSound(q)'
  BY <1>2, <1>5, <1>7 DEF AuditInv, AuditTypes, BatchSound, Batch, Deletable, Resting
<1> QED BY <1>4, <1>6, <1>7 DEF AuditInv

LEMMA PollFailsSafe ==
  ASSUME AuditInv, NEW p \in Poller, PollFails(p)
  PROVE  AuditInv'
<1>1. PICK archived \in SUBSET pollers[p].batch :
        /\ archived \subseteq (IF pollers[p].at = "archive" THEN Event ELSE {})
        /\ archive' = archive \cup {[of |-> m, name |-> ArchiveName(m)] : m \in archived}
  BY DEF PollFails
<1>2. /\ UNCHANGED <<trail, queue>> /\ pollers' = [pollers EXCEPT ![p] = Resting]
      /\ \A q \in Poller : pollers[q] \in Batch
  BY DEF PollFails, AuditInv, AuditTypes
<1>3. ArchiveSound' /\ \A m : Archived(m) => Archived(m)'
  BY <1>1, <1>2, ArchiveGrows
<1>4. AuditTypes'
  BY <1>2 DEF AuditInv, AuditTypes, Resting, Batch
<1>5. DeletedArchived'
  BY <1>2, <1>3 DEF AuditInv, DeletedArchived
<1>6. ASSUME NEW q \in Poller PROVE BatchSound(q)'
  BY <1>2, <1>3, <1>6 DEF AuditInv, AuditTypes, BatchSound, Batch, Deletable, Resting
<1> QED BY <1>3, <1>4, <1>5, <1>6 DEF AuditInv

LEMMA AuditInductive ==
  ASSUME AuditInv, [AuditNext]_auditVars
  PROVE  AuditInv'
<1>1. ASSUME NEW m \in Message, Reappear(m) \/ Redrive(m) PROVE AuditInv'
  BY <1>1 DEF AuditInv, AuditTypes, Batch, ArchiveSound, BatchSound, DeletedArchived, Archived,
              Deletable, ArchiveName, Message, Reappear, Redrive
<1>2. CASE UNCHANGED auditVars
  BY <1>2 DEF AuditInv, AuditTypes, ArchiveSound, BatchSound, DeletedArchived, Archived, Deletable,
              ArchiveName, auditVars
<1> QED
  BY <1>1, <1>2, EmitSafe, ReceiveSafe, ArchiveBatchSafe, DeleteBatchSafe, PollFailsSafe DEF AuditNext

(* No audit event that was sent is lost or doubled on its way to the       *)
(* archive, however often the queue delivers it and whichever consumer     *)
(* dies (pollOnce, archiveAuditBatch, archiveAuditEvent).                  *)
THEOREM AuditTrailKept == AuditSpec => []AuditKept
<1>1. AuditInit => AuditInv
  BY AuditInit_Inv
<1>2. AuditInv /\ [AuditNext]_auditVars => AuditInv'
  BY AuditInductive
<1>3. AuditInv => AuditKept
  BY DEF AuditInv, ArchiveSound, DeletedArchived, Archived, AuditKept, ArchiveName
<1> QED
  BY <1>1, <1>2, <1>3, PTL DEF AuditSpec

(***************************************************************************)
(* The routing of a claw's inference.                                      *)
(***************************************************************************)
(* ClawRouter refuses a disabled claw's key, or serves the claw's scope to *)
(* the key of its generation.                                              *)
Routed(claw) ==
  /\ credential = CredentialOf(claw) /\ policy.enabled = claw.enabled
  /\ claw.enabled => policy.scope = claw.scope

(* What was read back stays so until ClawRouter is changed; the cache      *)
(* holds nothing else.                                                     *)
RoutingInv ==
  ~disturbed => /\ observation # None => Routed(observation)
                /\ cache # None => Routed(cache.fingerprint)

LEMMA RoutingInductive ==
  ASSUME RoutingInv, [RoutingNext]_routingVars
  PROVE  RoutingInv'
<1> USE DEF RoutingInv, Routed
<1>1. CASE Begin
  BY <1>1 DEF Begin, Observe, Fingerprint, CredentialOf
<1>2. CASE PutPolicy
  BY <1>2 DEF PutPolicy
<1>3. CASE PutCredential
  <2>1. CASE Converges /\ ~reconcile.claw.enabled /\ policy.enabled = reconcile.claw.enabled
    <3> DEFINE claw == reconcile.claw
    <3>1. /\ credential' = CredentialOf(claw) /\ policy' = policy
          /\ observation' = claw /\ cache'.fingerprint = claw
      BY <1>3, <2>1 DEF PutCredential, Converges, Observe, Fingerprint
    <3> QED BY <2>1, <3>1 DEF CredentialOf
  <2>2. CASE disturbed' = TRUE
    BY <2>2
  <2> QED BY <1>3, <2>1, <2>2 DEF PutCredential
<1>4. CASE InspectKey
  <2>1. CASE Converges /\ Verified(reconcile.claw)
    <3> DEFINE claw == reconcile.claw
    <3>1. /\ credential' = CredentialOf(claw) /\ policy' = PolicyOf(claw)
          /\ observation' = claw /\ cache'.fingerprint = claw
      BY <1>4, <2>1 DEF InspectKey, Converges, Observe, Fingerprint, Verified
    <3>2. policy'.enabled = claw.enabled /\ policy'.scope = claw.scope
      BY <3>1 DEF PolicyOf
    <3> QED BY <3>1, <3>2 DEF CredentialOf
  <2>2. CASE UNCHANGED <<observation, cache, disturbed>>
    BY <1>4, <2>2 DEF InspectKey, CredentialOf
  <2> QED BY <1>4, <2>1, <2>2 DEF InspectKey
<1>5. CASE RequestFails \/ CacheLapses \/ WantedChanges
  BY <1>5 DEF RequestFails, CacheLapses, WantedChanges, CredentialOf
<1>6. ASSUME NEW r \in lost, PutLandsLate(r) PROVE RoutingInv'
  BY <1>6 DEF PutLandsLate
<1>7. CASE UNCHANGED routingVars
  BY <1>7 DEF routingVars, CredentialOf
<1> QED
  BY <1>1, <1>2, <1>3, <1>4, <1>5, <1>6, <1>7 DEF RoutingNext

(* What a reconciliation observes of ClawRouter holds there until a PUT    *)
(* lands after the read back, from the cache too (reconcile, #credential). *)
THEOREM RoutingHonest == RoutingSpec => []RouterHonest
<1>1. RoutingInit => RoutingInv
  BY DEF RoutingInit, RoutingInv
<1>2. RoutingInv /\ [RoutingNext]_routingVars => RoutingInv'
  BY RoutingInductive
<1>3. RoutingInv => RouterHonest
  BY DEF RoutingInv, Routed, RouterHonest
<1> QED
  BY <1>1, <1>2, <1>3, PTL DEF RoutingSpec

(***************************************************************************)
(* The minute's sweep.                                                     *)
(***************************************************************************)
SweepRecord ==
  [on : BOOLEAN, queried : BOOLEAN, cursor : Nat, pages : Nat, page : SUBSET Claws, short : BOOLEAN]

SweepTypes == due \subseteq Claws /\ owed \subseteq due /\ sweep \in SweepRecord

Beyond == {c \in Claws : c > sweep.cursor}

(* What a sweep still owes is ahead of its cursor or on the page it works  *)
(* through, and on the page alone when the page is the last.               *)
SweepInv ==
  /\ SweepTypes
  /\ sweep.queried => sweep.on
  /\ sweep.on /\ ~sweep.queried => owed \subseteq Beyond
  /\ sweep.queried => owed \subseteq sweep.page \cup Beyond
  /\ sweep.queried /\ sweep.short => owed \subseteq sweep.page
  /\ SweepComplete

LEMMA LeastNatural ==
  ASSUME NEW T \in SUBSET Nat, T # {}
  PROVE  \E m \in T : \A n \in T : m <= n
<1>1. PICK m \in T : \A n \in T : ~(<<n, m>> \in OpToRel(<, Nat))
  BY NatLessThanWellFounded, WFMin, Zenon
<1>2. \A n \in T : <<n, m>> \in OpToRel(<, Nat) <=> n < m
  BY DEF OpToRel
<1>3. \A n \in T : ~(n < m)
  BY <1>1, <1>2, Zenon
<1>4. \A n \in T : n \in Nat /\ m \in Nat
  OBVIOUS
<1> QED BY <1>3, <1>4

(* A page has the first rows: those it leaves out are beyond it, and it    *)
(* leaves none out unless it is full.                                      *)
LEMMA PageCovers ==
  ASSUME NEW rows \in SUBSET Claws
  PROVE  /\ FirstPage(rows) \subseteq rows
         /\ \A c \in rows \ FirstPage(rows) : \A d \in FirstPage(rows) : d < c
         /\ Cardinality(FirstPage(rows)) < PageLimit => FirstPage(rows) = rows
<1> DEFINE Before(c) == {d \in rows : d < c}
<1>1. PageLimit \in Nat /\ LastClaw \in Nat /\ rows \subseteq Int
  BY DirectoryAssumption DEF Claws
<1>2. IsFiniteSet(rows)
  <2>1. IsFiniteSet(1 .. LastClaw)
    BY <1>1, FS_Interval
  <2> QED BY <2>1, FS_Subset DEF Claws
<1>3. FirstPage(rows) \subseteq rows /\ \A c \in rows : c \in FirstPage(rows) <=> Cardinality(Before(c)) < PageLimit
  BY DEF FirstPage
<1>4. ASSUME NEW T \in SUBSET rows
      PROVE  IsFiniteSet(T) /\ Cardinality(T) \in Nat
  BY <1>2, <1>4, FS_Subset, FS_CardinalityType
<1>5. ASSUME NEW c \in rows \ FirstPage(rows), NEW d \in FirstPage(rows)
      PROVE  d < c
  <2>0. c \in rows /\ d \in rows /\ c \in Int /\ d \in Int
    <3>1. c \in rows /\ d \in rows
      BY <1>3, <1>5
    <3> QED BY <1>1, <3>1
  <2>1. SUFFICES ASSUME c <= d PROVE FALSE
    BY <2>0
  <2>2. Before(c) \subseteq Before(d) /\ Before(d) \subseteq rows
    <3>1. \A e \in rows : e \in Int
      BY <1>1
    <3>2. \A e \in rows : e < c => e < d
      BY <2>0, <2>1, <3>1
    <3> QED BY <3>2
  <2>3. Cardinality(Before(c)) <= Cardinality(Before(d))
    <3>1. IsFiniteSet(Before(d))
      BY <1>4, <2>2
    <3> HIDE DEF Before
    <3> QED BY <2>2, <3>1, FS_Subset
  <2>4. Cardinality(Before(c)) \in Nat /\ Cardinality(Before(d)) \in Nat
    BY <1>4, <2>2
  <2> HIDE DEF Before
  <2>5. Cardinality(Before(d)) < PageLimit /\ ~(Cardinality(Before(c)) < PageLimit)
    BY <1>3, <1>5, <2>0
  <2> QED BY <1>1, <2>3, <2>4, <2>5
<1>6. ASSUME Cardinality(FirstPage(rows)) < PageLimit, FirstPage(rows) # rows PROVE FALSE
  <2>1. rows \ FirstPage(rows) # {} /\ rows \ FirstPage(rows) \subseteq Nat
    <3>1. rows \subseteq Nat
      BY <1>1 DEF Claws
    <3> QED BY <1>3, <1>6, <3>1
  <2>2. PICK m \in rows \ FirstPage(rows) : \A n \in rows \ FirstPage(rows) : m <= n
    BY <2>1, LeastNatural
  <2>3. Before(m) \subseteq FirstPage(rows)
    <3>1. m \in rows /\ \A n \in rows : n \in Int
      BY <1>1
    <3>2. ASSUME NEW n \in rows, n < m, n \notin FirstPage(rows) PROVE FALSE
      <4>1. m <= n
        BY <2>2, <3>2
      <4> QED BY <3>1, <3>2, <4>1
    <3> QED BY <3>2
  <2>4. Cardinality(Before(m)) <= Cardinality(FirstPage(rows))
    <3>1. IsFiniteSet(FirstPage(rows))
      BY <1>3, <1>4
    <3> HIDE DEF Before
    <3> QED BY <2>3, <3>1, FS_Subset
  <2>5. Cardinality(Before(m)) \in Nat /\ Cardinality(FirstPage(rows)) \in Nat
    BY <1>3, <1>4
  <2> HIDE DEF Before
  <2> QED BY <1>1, <1>3, <1>6, <2>2, <2>4, <2>5
<1> QED BY <1>3, <1>5, <1>6

LEMMA QueriedTyped ==
  ASSUME NEW s \in SweepRecord, NEW page \in SUBSET Claws, NEW cursor \in Nat, NEW last \in BOOLEAN
  PROVE  [s EXCEPT !.queried = TRUE, !.page = page, !.pages = @ + 1, !.cursor = cursor, !.short = last]
           \in SweepRecord
<1>1. s.pages + 1 \in Nat
  BY DEF SweepRecord
<1> DEFINE pages == s.pages + 1
<1> HIDE DEF pages
<1>2. [s EXCEPT !.queried = TRUE, !.page = page, !.pages = pages, !.cursor = cursor, !.short = last]
        \in SweepRecord
  BY <1>1, Zenon DEF SweepRecord, pages
<1> QED BY <1>2 DEF pages

LEMMA QueryPageSafe ==
  ASSUME SweepInv, QueryPage
  PROVE  SweepInv'
<1> DEFINE page == FirstPage(RowsLeft)
<1>1. PICK cursor \in IF page = {} THEN {sweep.cursor} ELSE {c \in page : \A d \in page : d <= c} :
        sweep' = [sweep EXCEPT !.queried = TRUE, !.page = page, !.pages = @ + 1,
                               !.cursor = cursor, !.short = Cardinality(page) < PageLimit]
  BY DEF QueryPage
<1>2. RowsLeft \subseteq Claws /\ owed \subseteq RowsLeft /\ sweep \in SweepRecord /\ sweep.on
  BY DEF SweepInv, SweepTypes, RowsLeft, QueryPage, Beyond
<1>3. /\ page \subseteq RowsLeft
      /\ \A c \in RowsLeft \ page : \A d \in page : d < c
      /\ Cardinality(page) < PageLimit => page = RowsLeft
  BY <1>2, PageCovers
<1> HIDE DEF page
<1>4. /\ sweep'.queried /\ sweep'.on /\ sweep'.page = page /\ sweep'.cursor = cursor
      /\ sweep'.short <=> Cardinality(page) < PageLimit
      /\ UNCHANGED <<due, owed, outcome>>
  BY <1>1, <1>2 DEF SweepRecord, QueryPage
<1>5. cursor \in Nat
  BY <1>1, <1>2, <1>3, DirectoryAssumption DEF SweepRecord, Claws
<1>6. \A c \in RowsLeft \ page : c > cursor
  <2>1. CASE page = {}
    BY <1>1, <2>1 DEF RowsLeft
  <2>2. CASE page # {}
    <3>1. cursor \in page
      BY <1>1, <2>2
    <3> QED BY <1>2, <1>3, <1>5, <3>1, DirectoryAssumption DEF Claws
  <2> QED BY <2>1, <2>2
<1>7. SweepTypes'
  <2> DEFINE last == Cardinality(page) < PageLimit
  <2>1. last \in BOOLEAN /\ page \in SUBSET Claws
    BY <1>2, <1>3
  <2>2. sweep' = [sweep EXCEPT !.queried = TRUE, !.page = page, !.pages = @ + 1,
                               !.cursor = cursor, !.short = last]
    BY <1>1
  <2> HIDE DEF last
  <2>3. sweep' \in SweepRecord
    BY <1>2, <1>5, <2>1, <2>2, QueriedTyped
  <2> QED BY <1>4, <2>3 DEF SweepInv, SweepTypes
<1>8. owed' \subseteq sweep'.page \cup Beyond'
  BY <1>2, <1>4, <1>6 DEF Beyond
<1>9. sweep'.short => owed' \subseteq sweep'.page
  BY <1>2, <1>3, <1>4
<1> QED BY <1>4, <1>7, <1>8, <1>9 DEF SweepInv, SweepComplete

LEMMA SweepClawSafe ==
  ASSUME SweepInv, SweepClaw
  PROVE  SweepInv'
<1>1. PICK c \in sweep.page :
        /\ sweep' = [sweep EXCEPT !.page = @ \ {c}]
        /\ due' \in {due, due \ {c}} /\ owed' = owed \ {c}
  BY DEF SweepClaw
<1>2. sweep \in SweepRecord /\ outcome' = outcome
  BY DEF SweepInv, SweepTypes, SweepClaw
<1>3. /\ sweep'.page = sweep.page \ {c} /\ sweep' \in SweepRecord
      /\ sweep'.on = sweep.on /\ sweep'.queried = sweep.queried /\ sweep'.short = sweep.short
      /\ Beyond' = Beyond
  BY <1>1, <1>2 DEF SweepRecord, Beyond
<1>4. due' \subseteq Claws /\ owed' \subseteq due'
  BY <1>1 DEF SweepInv, SweepTypes
<1> QED BY <1>1, <1>2, <1>3, <1>4 DEF SweepInv, SweepTypes, SweepComplete

LEMMA SweepInductive ==
  ASSUME SweepInv, [DirectoryNext]_directoryVars
  PROVE  SweepInv'
<1>1. ASSUME NEW c \in Claws, DueChanges(c) PROVE SweepInv'
  <2>1. /\ due' \subseteq Claws /\ owed' \subseteq due' /\ owed' \subseteq owed
        /\ UNCHANGED <<sweep, outcome>> /\ Beyond' = Beyond
    BY <1>1 DEF DueChanges, SweepInv, SweepTypes, Beyond
  <2> QED BY <2>1 DEF SweepInv, SweepTypes, SweepComplete
<1>2. CASE SweepBegins
  <2>1. /\ sweep' \in SweepRecord /\ sweep'.on /\ ~sweep'.queried /\ sweep'.cursor = 0
        /\ owed' = due /\ due' = due /\ outcome' = "none"
    BY <1>2 DEF SweepBegins, NoSweep, SweepRecord, FirstCursor
  <2>2. owed' \subseteq Beyond'
    BY <2>1, DirectoryAssumption DEF SweepInv, SweepTypes, Beyond, Claws
  <2> QED BY <2>1, <2>2 DEF SweepInv, SweepTypes, SweepComplete
<1>3. CASE PageSwept
  <2>1. CASE sweep.short
    <3>1. sweep' = NoSweep /\ owed = {} /\ UNCHANGED <<due, owed>>
      BY <1>3, <2>1 DEF PageSwept, SweepInv
    <3> QED BY <3>1 DEF SweepInv, SweepTypes, SweepComplete, NoSweep, SweepRecord, FirstCursor
  <2>2. CASE ~sweep.short
    <3>1. /\ sweep' = [sweep EXCEPT !.queried = FALSE] /\ UNCHANGED <<due, owed, outcome>>
          /\ sweep.queried /\ sweep.page = {}
      BY <1>3, <2>2 DEF PageSwept
    <3>2. sweep' \in SweepRecord /\ ~sweep'.queried /\ Beyond' = Beyond
      BY <3>1 DEF SweepInv, SweepTypes, SweepRecord, Beyond
    <3> QED BY <3>1, <3>2 DEF SweepInv, SweepTypes, SweepComplete
  <2> QED BY <2>1, <2>2
<1>4. CASE SweepFails
  BY <1>4 DEF SweepFails, SweepInv, SweepTypes, SweepComplete, NoSweep, SweepRecord, FirstCursor
<1>5. CASE UNCHANGED directoryVars
  BY <1>5 DEF directoryVars, SweepInv, SweepTypes, SweepComplete, Beyond
<1> QED
  BY <1>1, <1>2, <1>3, <1>4, <1>5, QueryPageSafe, SweepClawSafe DEF DirectoryNext

(* A sweep that does not fail has swept every claw that was due all along, *)
(* however many pages it takes and whichever claws come and go between     *)
(* them (cleanupSweep of the directory).                                   *)
THEOREM SweepLeavesNone == DirectorySpec => []SweepComplete
<1>1. DirectoryInit => SweepInv
  BY DEF DirectoryInit, SweepInv, SweepTypes, SweepComplete, NoSweep, SweepRecord, FirstCursor
<1>2. SweepInv /\ [DirectoryNext]_directoryVars => SweepInv'
  BY SweepInductive
<1>3. SweepInv => SweepComplete
  BY DEF SweepInv
<1> QED
  BY <1>1, <1>2, <1>3, PTL DEF DirectorySpec

(***************************************************************************)
(* The evidence of a removal.                                              *)
(***************************************************************************)
Scan == [at : {"idle", "reading", "drained"}, page : Nat, offset : Nat, active : Nat]

Revocation == [at : {"idle", "listing", "revoking", "absent"}, reject : SUBSET Request, remove : BOOLEAN]

Node == [paired : BOOLEAN, pending : SUBSET Request, own : BOOLEAN]

RetirementTypes ==
  sessions \in Seq(Session) /\ scan \in Scan /\ node \in Node /\ revoking \in Revocation

(* A run belongs to a session of the list.                                 *)
BusyListed == \A s \in busy : \E i \in DOMAIN sessions : sessions[i] = s

(* The scan counted every run of the sessions it has read.                 *)
ScanSound ==
  scan.at = "reading" /\ ~moved =>
    /\ scan.offset <= Len(sessions)
    /\ scan.active = 0 => \A i \in 1 .. scan.offset : sessions[i] \notin busy

RetirementInv == RetirementTypes /\ BusyListed /\ ScanSound /\ RetirementHonest

(* The counts of a page: the page has the next rows of the list, and its   *)
(* count is zero only if none of them runs.                                *)
LEMMA PageOfSessions ==
  ASSUME sessions \in Seq(Session), NEW offset \in Nat
  PROVE  /\ Len(Rows(offset)) \in Nat
         /\ offset <= Len(sessions) =>
              /\ offset + Len(Rows(offset)) <= Len(sessions)
              /\ Len(Rows(offset)) < PageSize => offset + Len(Rows(offset)) = Len(sessions)
              /\ \A i \in 1 .. Len(Rows(offset)) : Rows(offset)[i] = sessions[offset + i]
         /\ DOMAIN Rows(offset) = 1 .. Len(Rows(offset))
<1>1. PageSize \in Nat \ {0} /\ Len(sessions) \in Nat
  BY RetirementAssumption
<1> DEFINE last == IF offset + PageSize < Len(sessions) THEN offset + PageSize ELSE Len(sessions)
<1>2. Rows(offset) = SubSeq(sessions, offset + 1, last) /\ last \in Nat /\ last <= Len(sessions)
  BY <1>1 DEF Rows
<1>3. offset <= Len(sessions) => offset <= last
  BY <1>1
<1>4. last - offset < PageSize => last = Len(sessions) \/ ~(offset <= Len(sessions))
  BY <1>1
<1> HIDE DEF last
<1>5. /\ SubSeq(sessions, offset + 1, last) \in Seq(Session)
      /\ offset <= last => /\ Len(SubSeq(sessions, offset + 1, last)) = last - offset
                           /\ \A i \in 1 .. last - offset :
                                SubSeq(sessions, offset + 1, last)[i] = sessions[offset + i]
  BY <1>1, <1>2
<1>6. Len(Rows(offset)) \in Nat /\ DOMAIN Rows(offset) = 1 .. Len(Rows(offset))
  BY <1>2, <1>5
<1> QED BY <1>1, <1>2, <1>3, <1>4, <1>5, <1>6

LEMMA NoneCounted ==
  ASSUME sessions \in Seq(Session), NEW offset \in Nat
  PROVE  LET found == {i \in DOMAIN Rows(offset) : Rows(offset)[i] \in busy}
         IN Cardinality(found) \in Nat /\ (Cardinality(found) = 0 => found = {})
<1>1. DOMAIN Rows(offset) = 1 .. Len(Rows(offset)) /\ Len(Rows(offset)) \in Nat
  BY PageOfSessions
<1>2. IsFiniteSet(DOMAIN Rows(offset))
  BY <1>1, FS_Interval
<1> DEFINE found == {i \in DOMAIN Rows(offset) : Rows(offset)[i] \in busy}
<1>3. IsFiniteSet(found)
  <2>1. found \subseteq DOMAIN Rows(offset)
    OBVIOUS
  <2> HIDE DEF found
  <2> QED BY <1>2, <2>1, FS_Subset
<1>4. Cardinality(found) \in Nat /\ (Cardinality(found) = 0 => found = {})
  <2> HIDE DEF found
  <2> QED BY <1>3, FS_CardinalityType, FS_EmptySet
<1> QED BY <1>4

LEMMA ReadPageSafe ==
  ASSUME RetirementInv, ReadPage
  PROVE  RetirementInv'
<1> DEFINE rows == Rows(scan.offset)
           found == {i \in DOMAIN rows : rows[i] \in busy}
           active == scan.active + Cardinality(found)
<1>1. PICK total \in BOOLEAN :
        scan' = IF LastPage(scan.offset, rows, total)
                THEN [NoScan EXCEPT !.at = IF active = 0 THEN "drained" ELSE "idle"]
                ELSE IF rows = <<>> \/ scan.page + 1 = MaxPages THEN NoScan
                ELSE [scan EXCEPT !.page = @ + 1, !.offset = @ + Len(rows), !.active = active]
  BY DEF ReadPage
<1>2. /\ scan.at = "reading" /\ scan \in Scan /\ sessions \in Seq(Session)
      /\ UNCHANGED <<sessions, busy, node, revoking, moved, returned>>
  BY DEF ReadPage, RetirementInv, RetirementTypes
<1>3. /\ scan.offset \in Nat /\ scan.active \in Nat /\ scan.page \in Nat /\ Len(sessions) \in Nat
      /\ Cardinality(found) \in Nat /\ (Cardinality(found) = 0 => found = {})
  BY <1>2, NoneCounted DEF Scan
<1>4. /\ Len(rows) \in Nat /\ DOMAIN rows = 1 .. Len(rows)
      /\ scan.offset <= Len(sessions) =>
           /\ scan.offset + Len(rows) <= Len(sessions)
           /\ Len(rows) < PageSize => scan.offset + Len(rows) = Len(sessions)
           /\ \A i \in 1 .. Len(rows) : rows[i] = sessions[scan.offset + i]
  BY <1>2, <1>3, PageOfSessions
<1>5. ~moved => /\ scan.offset + Len(rows) <= Len(sessions)
                /\ Len(rows) < PageSize => scan.offset + Len(rows) = Len(sessions)
                /\ active = 0 => \A i \in 1 .. scan.offset + Len(rows) : sessions[i] \notin busy
  <2>1. SUFFICES ASSUME ~moved
                 PROVE  /\ scan.offset + Len(rows) <= Len(sessions)
                        /\ Len(rows) < PageSize => scan.offset + Len(rows) = Len(sessions)
                        /\ active = 0 => \A i \in 1 .. scan.offset + Len(rows) : sessions[i] \notin busy
    OBVIOUS
  <2>2. /\ scan.offset <= Len(sessions)
        /\ scan.active = 0 => \A i \in 1 .. scan.offset : sessions[i] \notin busy
    BY <1>2, <2>1 DEF RetirementInv, ScanSound
  <2>3. ASSUME active = 0, NEW i \in 1 .. scan.offset + Len(rows) PROVE sessions[i] \notin busy
    <3>1. scan.active = 0 /\ found = {}
      <4> HIDE DEF found
      <4> QED BY <1>3, <2>3
    <3>2. CASE i <= scan.offset
      BY <1>3, <1>4, <2>2, <2>3, <3>1, <3>2
    <3>3. CASE i > scan.offset
      <4>1. i - scan.offset \in 1 .. Len(rows) /\ scan.offset + (i - scan.offset) = i
        BY <1>3, <1>4, <2>3, <3>3
      <4>2. rows[i - scan.offset] = sessions[i] /\ i - scan.offset \in DOMAIN rows
        BY <1>4, <2>2, <4>1
      <4> QED BY <3>1, <4>2
    <3> QED BY <1>3, <1>4, <2>3, <3>2, <3>3
  <2> QED BY <1>4, <2>2, <2>3
<1>6. active \in Nat
  <2> HIDE DEF found
  <2> QED BY <1>3
<1> HIDE DEF rows, found, active
<1>7. scan' \in Scan
  <2>1. NoScan \in Scan /\ [NoScan EXCEPT !.at = "drained"] \in Scan /\ [NoScan EXCEPT !.at = "idle"] \in Scan
    BY DEF Scan, NoScan
  <2>2. scan.page + 1 \in Nat /\ scan.offset + Len(rows) \in Nat
    BY <1>3, <1>4
  <2>3. [scan EXCEPT !.page = @ + 1, !.offset = @ + Len(rows), !.active = active] \in Scan
    BY <1>2, <1>6, <2>2 DEF Scan
  <2> QED BY <1>1, <2>1, <2>3
<1>8. scan'.at = "reading" => scan'.offset = scan.offset + Len(rows) /\ scan'.active = active
  BY <1>1, <1>2 DEF Scan, NoScan
<1>9. ScanSound'
  BY <1>2, <1>5, <1>8 DEF ScanSound
<1>10. scan'.at = "drained" /\ ~moved' => busy' = {}
  <2>1. SUFFICES ASSUME scan'.at = "drained", ~moved PROVE busy = {}
    BY <1>2
  <2>2. active = 0 /\ LastPage(scan.offset, rows, total)
    BY <1>1, <1>2, <2>1 DEF Scan, NoScan
  <2>3. scan.offset + Len(rows) = Len(sessions)
    BY <1>3, <1>4, <1>5, <2>1, <2>2 DEF LastPage
  <2>4. \A i \in DOMAIN sessions : sessions[i] \notin busy
    BY <1>2, <1>5, <2>1, <2>2, <2>3
  <2> QED BY <2>4 DEF RetirementInv, BusyListed
<1> QED
  BY <1>2, <1>7, <1>9, <1>10 DEF RetirementInv, RetirementTypes, BusyListed, RetirementHonest, Known

(* A function on 1 .. n is a sequence of length n. *)
LEMMA ListOfFunction ==
  ASSUME NEW S, NEW n \in Nat, NEW f \in [1 .. n -> S]
  PROVE  f \in Seq(S) /\ Len(f) = n /\ DOMAIN f = 1 .. n
<1>1. f \in Seq(S)
  OBVIOUS
<1>2. Len(f) = n
  OBVIOUS
<1>. QED
  BY <1>1, <1>2

LEMMA SessionsMoveSafe ==
  ASSUME RetirementInv, SessionsMove
  PROVE  RetirementInv'
<1>1. PICK i \in DOMAIN sessions :
        \/ sessions' = <<sessions[i]>> \o SessionsWithout(i) /\ busy' = busy \cup {sessions[i]}
        \/ sessions' = SessionsWithout(i) /\ busy' = busy \ {sessions[i]}
  BY DEF SessionsMove
<1>2. moved' /\ UNCHANGED <<scan, node, revoking, returned>>
  BY DEF SessionsMove
<1>3. sessions \in Seq(Session) /\ Len(sessions) \in Nat /\ DOMAIN sessions = 1 .. Len(sessions)
      /\ i \in 1 .. Len(sessions) /\ sessions[i] \in Session
  BY DEF RetirementInv, RetirementTypes
<1> DEFINE others == SessionsWithout(i)
<1>4. /\ Len(sessions) - 1 \in Nat
      /\ \A j \in 1 .. Len(sessions) - 1 : (IF j < i THEN j ELSE j + 1) \in 1 .. Len(sessions)
  BY <1>3
<1>5. others \in [1 .. Len(sessions) - 1 -> Session]
  BY <1>3, <1>4 DEF SessionsWithout
<1>6. others \in Seq(Session) /\ Len(others) = Len(sessions) - 1 /\ DOMAIN others = 1 .. Len(sessions) - 1
  <2> HIDE DEF others
  <2>1. Len(sessions) - 1 \in Nat
    BY <1>4
  <2> QED BY <1>5, <2>1, ListOfFunction
<1>7. ASSUME NEW s \in busy, s # sessions[i]
      PROVE  \E j \in DOMAIN others : others[j] = s
  <2>1. PICK k \in 1 .. Len(sessions) : sessions[k] = s
    BY <1>3, <1>7 DEF RetirementInv, BusyListed
  <2>2. k # i /\ k \in Int /\ i \in Int
    BY <1>3, <1>7, <2>1
  <2>3. CASE k < i
    <3>1. k \in 1 .. Len(sessions) - 1
      BY <1>3, <2>2, <2>3
    <3>2. others[k] = sessions[k]
      BY <2>3, <3>1 DEF SessionsWithout
    <3> QED BY <1>6, <2>1, <3>1, <3>2
  <2>4. CASE k > i
    <3>1. k - 1 \in 1 .. Len(sessions) - 1 /\ ~(k - 1 < i) /\ (k - 1) + 1 = k
      BY <1>3, <2>2, <2>4
    <3>2. others[k - 1] = sessions[k]
      BY <3>1 DEF SessionsWithout
    <3> QED BY <1>6, <2>1, <3>1, <3>2
  <2> QED BY <2>2, <2>3, <2>4
<1> HIDE DEF others
<1>8. CASE sessions' = <<sessions[i]>> \o others /\ busy' = busy \cup {sessions[i]}
  <2>1. <<sessions[i]>> \in Seq(Session) /\ Len(<<sessions[i]>>) = 1
    BY <1>3
  <2>2. /\ sessions' \in Seq(Session) /\ DOMAIN sessions' = 1 .. Len(others) + 1 /\ sessions'[1] = sessions[i]
        /\ \A j \in DOMAIN others : j + 1 \in DOMAIN sessions' /\ sessions'[j + 1] = others[j]
    <3>1. sessions' \in Seq(Session) /\ Len(sessions') = 1 + Len(others) /\ sessions'[1] = sessions[i]
      BY <1>6, <1>8, <2>1
    <3>2. ASSUME NEW j \in DOMAIN others
          PROVE  j + 1 \in 1 .. Len(others) + 1 /\ sessions'[j + 1] = others[j]
      <4>1. j \in 1 .. Len(others) /\ Len(others) \in Nat
        BY <1>4, <1>6, <3>2
      <4>2. j + 1 \in 1 .. Len(others) + 1 /\ j + 1 > 1 /\ (j + 1) - 1 = j
        BY <4>1
      <4> QED BY <1>6, <1>8, <2>1, <4>1, <4>2
    <3>3. DOMAIN sessions' = 1 .. Len(others) + 1
      BY <1>4, <1>6, <3>1
    <3> QED BY <3>1, <3>2, <3>3
  <2>3. BusyListed'
    <3>1. ASSUME NEW s \in busy' PROVE \E j \in DOMAIN sessions' : sessions'[j] = s
      <4>1. CASE s = sessions[i]
        <5>1. 1 \in DOMAIN sessions'
          BY <1>4, <1>6, <2>2
        <5> QED BY <2>2, <4>1, <5>1
      <4>2. CASE s # sessions[i]
        <5>1. PICK j \in DOMAIN others : others[j] = s
          BY <1>7, <1>8, <3>1, <4>2
        <5> QED BY <2>2, <5>1
      <4> QED BY <4>1, <4>2
    <3> QED BY <3>1 DEF BusyListed
  <2> QED BY <1>2, <2>2, <2>3 DEF RetirementInv, RetirementTypes, ScanSound, RetirementHonest, Known
<1>9. CASE sessions' = others /\ busy' = busy \ {sessions[i]}
  <2>1. BusyListed'
    BY <1>7, <1>9 DEF BusyListed
  <2> QED BY <1>2, <1>6, <1>9, <2>1 DEF RetirementInv, RetirementTypes, ScanSound, RetirementHonest, Known
<1> QED BY <1>1, <1>8, <1>9 DEF others

(* A step of the pairing leaves the scan alone.                            *)
LEMMA PairingFrame ==
  ASSUME RetirementInv, UNCHANGED <<sessions, busy, scan, moved>>,
         node' \in Node, revoking' \in Revocation,
         revoking'.at = "absent" => ~Known' \/ returned'
  PROVE  RetirementInv'
  BY DEF RetirementInv, RetirementTypes, BusyListed, ScanSound, RetirementHonest

LEMMA PairingTyped ==
  ASSUME RetirementInv, NEW r \in Request
  PROVE  /\ NotRevoking \in Revocation /\ NotRevoking.at = "idle"
         /\ [revoking EXCEPT !.reject = @ \ {r}] \in Revocation
         /\ [revoking EXCEPT !.reject = @ \ {r}].at = revoking.at
         /\ [node EXCEPT !.pending = @ \ {r}] \in Node
  BY DEF RetirementInv, RetirementTypes, Revocation, Node, NotRevoking

LEMMA RetirementInductive ==
  ASSUME RetirementInv, [RetirementNext]_retirementVars
  PROVE  RetirementInv'
<1> USE DEF RetirementInv, RetirementTypes, BusyListed, ScanSound, RetirementHonest
<1>1. CASE DrainBegins
  BY <1>1 DEF DrainBegins, NoScan, Scan, Known
<1>2. CASE ScanFails
  BY <1>2 DEF ScanFails, NoScan, Scan, Known
<1>3. ASSUME NEW s \in Session, RunEnds(s) PROVE RetirementInv'
  BY <1>3 DEF RunEnds, Known
<1>4. CASE RevokeBegins \/ ListPairings \/ RevokeFails
  <2>1. UNCHANGED <<sessions, busy, scan, moved, node>> /\ node \in Node
    BY <1>4 DEF RevokeBegins, ListPairings, RevokeFails
  <2>2. /\ NotRevoking \in Revocation /\ NotRevoking.at = "idle"
        /\ [NotRevoking EXCEPT !.at = "listing"] \in Revocation
        /\ [NotRevoking EXCEPT !.at = "listing"].at = "listing"
        /\ [at |-> "revoking", reject |-> node.pending, remove |-> node.paired] \in Revocation
        /\ [at |-> "revoking", reject |-> node.pending, remove |-> node.paired].at = "revoking"
    BY <2>1 DEF NotRevoking, Revocation, Node
  <2>3. revoking' \in Revocation /\ revoking'.at # "absent"
    BY <1>4, <2>2 DEF RevokeBegins, ListPairings, RevokeFails
  <2> QED BY <2>1, <2>3, PairingFrame
<1>5. CASE RejectPending
  <2>1. PICK r \in revoking.reject :
          IF r \in node.pending
          THEN /\ node' = [node EXCEPT !.pending = @ \ {r}]
               /\ revoking' \in {[revoking EXCEPT !.reject = @ \ {r}], NotRevoking}
          ELSE revoking' = NotRevoking /\ UNCHANGED node
    BY <1>5 DEF RejectPending
  <2>2. r \in Request
    BY DEF Revocation
  <2>3. node' \in Node /\ revoking' \in Revocation /\ revoking'.at # "absent"
    BY <1>5, <2>1, <2>2, PairingTyped DEF RejectPending
  <2>4. UNCHANGED <<sessions, busy, scan, moved>>
    BY <1>5 DEF RejectPending
  <2> QED BY <2>3, <2>4, PairingFrame
<1>6. CASE RemovePaired
  <2>1. /\ NotRevoking \in Revocation /\ NotRevoking.at = "idle"
        /\ [revoking EXCEPT !.remove = FALSE] \in Revocation
        /\ [revoking EXCEPT !.remove = FALSE].at = revoking.at
        /\ [node EXCEPT !.paired = FALSE] \in Node
    BY DEF NotRevoking, Revocation, Node
  <2>2. node' \in Node /\ revoking' \in Revocation /\ revoking'.at # "absent"
    BY <1>6, <2>1 DEF RemovePaired
  <2>3. UNCHANGED <<sessions, busy, scan, moved>>
    BY <1>6 DEF RemovePaired
  <2> QED BY <2>2, <2>3, PairingFrame
<1>7. CASE ConfirmAbsent
  BY <1>7 DEF ConfirmAbsent, AbsentNow, NotRevoking, Revocation, Known
<1>8. ASSUME NEW r \in Request, AsksToPair(r) \/ IsPaired(r) PROVE RetirementInv'
  <2>1. /\ \A own \in BOOLEAN : [node EXCEPT !.pending = @ \cup {r}, !.own = own] \in Node
        /\ [node EXCEPT !.paired = TRUE, !.pending = @ \ {r}] \in Node
    BY <1>8 DEF Node
  <2>2. UNCHANGED <<sessions, busy, scan, revoking>> /\ (AsksToPair(r) \/ UNCHANGED <<moved, returned>>)
    BY <1>8 DEF AsksToPair, IsPaired
  <2>3. moved' = moved
    BY <1>8 DEF AsksToPair, IsPaired
  <2>4. node' \in Node
    BY <1>8, <2>1 DEF AsksToPair, IsPaired
  <2>5. returned' \/ (returned' = returned /\ Known)
    BY <1>8 DEF AsksToPair, IsPaired, Known
  <2>6. revoking'.at = "absent" => ~Known' \/ returned'
    BY <2>2, <2>5
  <2> QED BY <2>2, <2>3, <2>4, <2>6, PairingFrame
<1>9. CASE UNCHANGED retirementVars
  BY <1>9 DEF retirementVars, Known
<1> QED
  BY <1>1, <1>2, <1>3, <1>4, <1>5, <1>6, <1>7, <1>8, <1>9, ReadPageSafe, SessionsMoveSafe
     DEF RetirementNext

LEMMA RetirementInit_Inv == RetirementInit => RetirementInv
<1> SUFFICES ASSUME RetirementInit PROVE RetirementInv
  OBVIOUS
<1>1. Cardinality(Session) \in Nat
  BY RetirementAssumption, FS_CardinalityType
<1>2. PICK list \in {<<>>} \cup [1 .. Cardinality(Session) -> Session] :
        sessions = list /\ busy \in SUBSET {list[i] : i \in DOMAIN list}
  BY DEF RetirementInit
<1>3. sessions \in Seq(Session)
  <2>1. CASE list = <<>>
    BY <1>2, <2>1
  <2>2. CASE list \in [1 .. Cardinality(Session) -> Session]
    <3> DEFINE n == Cardinality(Session)
    <3>1. n \in Nat /\ list \in [1 .. n -> Session]
      BY <1>1, <2>2
    <3> HIDE DEF n
    <3> QED BY <1>2, <3>1
  <2> QED BY <1>2, <2>1, <2>2
<1>4. BusyListed
  BY <1>2 DEF BusyListed
<1> QED
  BY <1>3, <1>4 DEF RetirementInit, RetirementInv, RetirementTypes, ScanSound, RetirementHonest,
                    NoScan, Scan, NotRevoking, Revocation, Node

(* A child reported drained has no active run, however many pages its      *)
(* sessions take, unless the list moved under the scan; a pairing reported *)
(* absent is, until the node asks again (probeActiveChildRuns,             *)
(* revokePairing).                                                         *)
THEOREM RemovalEvidenceHonest == RetirementSpec => []RetirementHonest
<1>1. RetirementInit => RetirementInv
  BY RetirementInit_Inv
<1>2. RetirementInv /\ [RetirementNext]_retirementVars => RetirementInv'
  BY RetirementInductive
<1>3. RetirementInv => RetirementHonest
  BY DEF RetirementInv
<1> QED
  BY <1>1, <1>2, <1>3, PTL DEF RetirementSpec

(***************************************************************************)
(* The installation of a claw's runtime.                                   *)
(***************************************************************************)
Key == [policy : BootPolicy \cup {NoPolicy}, epoch : 0 .. MaxEpoch]
Stage == {"ended", "script", "credentials", "spec", "fetched", "replacing", "starting", "marking", "keying"}
Fetched == {"fetched", "replacing", "starting", "marking", "keying"}
Job == [at : Stage, of : Key, got : Key]

InstallerTypes ==
  /\ goal \in Goal /\ jobs \in [Installer -> Job]
  /\ installed \in Key /\ vouched \in Key /\ keyMark \in 0 .. MaxEpoch /\ settled \in BOOLEAN

(* An installer is of a desired state there was, and installs that one:    *)
(* the spec and the credentials are refused once it has changed.           *)
JobSound(i) ==
  /\ jobs[i].at # "ended" => jobs[i].of \in Goal /\ jobs[i].of.epoch <= goal.epoch
  /\ jobs[i].at = "spec" => jobs[i].got.epoch = jobs[i].of.epoch
  /\ jobs[i].at \in Fetched => jobs[i].got = jobs[i].of

(* The job that last began to replace the runtime is alone with it until   *)
(* it has written its markers; nothing vouches for the runtime till then.  *)
OwnerSound(i) ==
  /\ jobs[i].at = "replacing" => owner \subseteq {i}
  /\ owner = {i} /\ jobs[i].at \in Fetched \ {"fetched"} => ~settled /\ vouched = Torn
  /\ owner = {i} /\ jobs[i].at \in {"starting", "marking", "keying"} => installed = jobs[i].got
  /\ owner = {i} /\ jobs[i].at = "keying" => readyMark = jobs[i].of.policy

(* An installation that ended alone has the markers of what it installed.  *)
SettledSound ==
  settled => /\ installed.policy = readyMark /\ installed.epoch = keyMark
             /\ 1 <= keyMark /\ keyMark <= goal.epoch
             /\ \A i \in Installer : jobs[i].at # "replacing"

InstallerInv ==
  /\ InstallerTypes
  /\ \A i \in Installer : JobSound(i) /\ OwnerSound(i)
  /\ owner = {} => ~settled /\ vouched = Torn
  /\ SettledSound
  /\ ReadinessHonest

LEMMA KeyFacts ==
  /\ MaxEpoch \in Nat \ {0}
  /\ Torn \in Key /\ Ended \in Job /\ Ended.at = "ended" /\ Goal \subseteq Key
  /\ \A g \in Goal : /\ g.policy \in BootPolicy /\ g.epoch \in Nat /\ 1 <= g.epoch /\ g.epoch <= MaxEpoch
                     /\ g # Torn
  /\ \A k \in Key : k.policy \in BootPolicy \cup {NoPolicy} /\ k.epoch \in Nat /\ k.epoch <= MaxEpoch
  /\ \A k, l \in Key : k.policy = l.policy /\ k.epoch = l.epoch => k = l
<1>1. MaxEpoch \in Nat \ {0}
  BY InstallerAssumption
<1>2. Torn \in Key /\ Ended \in Job /\ Ended.at = "ended" /\ Goal \subseteq Key
  BY <1>1 DEF Torn, Ended, Key, Job, Stage, Goal
<1>3. \A g \in Goal : g.policy \in BootPolicy /\ g.epoch \in Nat /\ 1 <= g.epoch /\ g.epoch <= MaxEpoch
  BY <1>1 DEF Goal
<1>4. \A k \in Key : k.policy \in BootPolicy \cup {NoPolicy} /\ k.epoch \in Nat /\ k.epoch <= MaxEpoch
  BY <1>1 DEF Key
<1>5. \A k, l \in Key : k.policy = l.policy /\ k.epoch = l.epoch => k = l
  BY DEF Key
<1>6. \A g \in Goal : g # Torn
  BY <1>3 DEF Torn
<1> QED BY <1>1, <1>2, <1>3, <1>4, <1>5, <1>6

(* A job that goes on, without replacing the runtime, disturbs no other.   *)
LEMMA JobGoesOn ==
  ASSUME InstallerInv, NEW i \in Installer,
         UNCHANGED <<goal, installed, readyMark, keyMark, vouched, owner, settled>>,
         jobs' \in [Installer -> Job], \A k \in Installer \ {i} : jobs'[k] = jobs[k],
         JobSound(i)', OwnerSound(i)', jobs'[i].at # "replacing"
  PROVE  InstallerInv'
<1>1. ASSUME NEW k \in Installer PROVE JobSound(k)' /\ OwnerSound(k)'
  <2>1. CASE k = i
    BY <2>1
  <2>2. CASE k # i
    BY <1>1, <2>2 DEF InstallerInv, JobSound, OwnerSound
  <2> QED BY <2>1, <2>2
<1>2. InstallerTypes' /\ SettledSound'
  BY DEF InstallerInv, InstallerTypes, SettledSound
<1> QED BY <1>1, <1>2 DEF InstallerInv, ReadinessHonest

LEMMA FetchScriptSafe ==
  ASSUME InstallerInv, NEW i \in Installer, FetchScript(i)
  PROVE  InstallerInv'
<1>1. /\ UNCHANGED <<goal, installed, readyMark, keyMark, vouched, owner, settled>>
      /\ jobs[i] \in Job /\ jobs[i].of \in Goal /\ goal \in Goal /\ jobs \in [Installer -> Job]
  BY DEF FetchScript, InstallerInv, InstallerTypes, JobSound
<1>2. jobs' = [jobs EXCEPT ![i] = [jobs[i] EXCEPT !.at = "credentials", !.of = [@ EXCEPT !.epoch = goal.epoch]]]
  BY <1>1 DEF FetchScript
<1>3. [jobs[i].of EXCEPT !.epoch = goal.epoch] \in Goal
  BY <1>1 DEF Goal
<1>4. [jobs[i].of EXCEPT !.epoch = goal.epoch] \in Key /\ [jobs[i].of EXCEPT !.epoch = goal.epoch].epoch = goal.epoch
  BY <1>1, <1>3, KeyFacts DEF Goal
<1>5. /\ jobs'[i].at = "credentials" /\ jobs'[i].of = [jobs[i].of EXCEPT !.epoch = goal.epoch]
      /\ jobs'[i] \in Job /\ jobs' \in [Installer -> Job] /\ \A k \in Installer \ {i} : jobs'[k] = jobs[k]
  BY <1>1, <1>2, <1>4 DEF Job, Stage
<1>6. JobSound(i)' /\ OwnerSound(i)'
  BY <1>1, <1>3, <1>4, <1>5, KeyFacts DEF JobSound, OwnerSound, Fetched
<1> QED BY <1>1, <1>5, <1>6, JobGoesOn

LEMMA FetchCredentialsSafe ==
  ASSUME InstallerInv, NEW i \in Installer, FetchCredentials(i)
  PROVE  InstallerInv'
<1>1. /\ UNCHANGED <<goal, installed, readyMark, keyMark, vouched, owner, settled>>
      /\ jobs[i] \in Job /\ goal \in Goal /\ jobs \in [Installer -> Job] /\ JobSound(i)
      /\ jobs[i].at = "credentials" /\ jobs[i].of.epoch = goal.epoch
  BY DEF FetchCredentials, InstallerInv, InstallerTypes
<1>2. jobs' = [jobs EXCEPT ![i] = [jobs[i] EXCEPT !.at = "spec", !.got = [@ EXCEPT !.epoch = goal.epoch]]]
  BY <1>1 DEF FetchCredentials
<1>3. [jobs[i].got EXCEPT !.epoch = goal.epoch] \in Key /\ [jobs[i].got EXCEPT !.epoch = goal.epoch].epoch = goal.epoch
  BY <1>1, KeyFacts DEF Key, Job
<1>4. /\ jobs'[i].at = "spec" /\ jobs'[i].of = jobs[i].of /\ jobs'[i].got.epoch = goal.epoch
      /\ jobs'[i] \in Job /\ jobs' \in [Installer -> Job] /\ \A k \in Installer \ {i} : jobs'[k] = jobs[k]
  BY <1>1, <1>2, <1>3 DEF Job, Stage
<1>5. JobSound(i)' /\ OwnerSound(i)'
  BY <1>1, <1>4 DEF JobSound, OwnerSound, Fetched
<1> QED BY <1>1, <1>4, <1>5, JobGoesOn

LEMMA FetchSpecSafe ==
  ASSUME InstallerInv, NEW i \in Installer, FetchSpec(i)
  PROVE  InstallerInv'
<1>1. /\ UNCHANGED <<goal, installed, readyMark, keyMark, vouched, owner, settled>>
      /\ jobs[i] \in Job /\ goal \in Goal /\ jobs \in [Installer -> Job] /\ JobSound(i)
      /\ jobs[i].at = "spec" /\ jobs[i].of.policy = goal.policy
  BY DEF FetchSpec, SpecServed, InstallerInv, InstallerTypes
<1>2. jobs' = [jobs EXCEPT ![i] = [jobs[i] EXCEPT !.at = "fetched", !.got = [@ EXCEPT !.policy = goal.policy]]]
  BY <1>1 DEF FetchSpec
<1>3. [jobs[i].got EXCEPT !.policy = goal.policy] = jobs[i].of
  <2> DEFINE got == [jobs[i].got EXCEPT !.policy = goal.policy]
  <2>1. jobs[i].got \in Key /\ jobs[i].of \in Key /\ jobs[i].got.epoch = jobs[i].of.epoch
    BY <1>1 DEF JobSound, Job
  <2>2. got \in Key /\ got.policy = goal.policy /\ got.epoch = jobs[i].got.epoch
    BY <1>1, <2>1, KeyFacts DEF Key
  <2> HIDE DEF got
  <2>3. got = jobs[i].of
    BY <1>1, <2>1, <2>2, KeyFacts
  <2> QED BY <2>3 DEF got
<1>4. /\ jobs'[i].at = "fetched" /\ jobs'[i].of = jobs[i].of /\ jobs'[i].got = jobs[i].of
      /\ jobs'[i] \in Job /\ jobs' \in [Installer -> Job] /\ \A k \in Installer \ {i} : jobs'[k] = jobs[k]
  BY <1>1, <1>2, <1>3 DEF Job, Stage
<1>5. JobSound(i)' /\ OwnerSound(i)'
  BY <1>1, <1>4 DEF JobSound, OwnerSound, Fetched
<1> QED BY <1>1, <1>4, <1>5, JobGoesOn

LEMMA BeginReplacingSafe ==
  ASSUME InstallerInv, NEW i \in Installer, BeginReplacing(i)
  PROVE  InstallerInv'
<1>1. /\ UNCHANGED <<goal, readyMark, keyMark>> /\ installed' = Torn /\ owner' = {i}
      /\ settled' = FALSE /\ vouched' = Torn /\ jobs[i].at = "fetched"
      /\ jobs' = [j \in Installer |-> IF j = i THEN [jobs[i] EXCEPT !.at = "replacing"]
                                      ELSE IF jobs[j].at = "replacing" THEN Ended ELSE jobs[j]]
      /\ jobs \in [Installer -> Job] /\ \A k \in Installer : JobSound(k) /\ jobs[k] \in Job
  BY DEF BeginReplacing, InstallerInv, InstallerTypes
<1>2. /\ jobs'[i].at = "replacing" /\ jobs'[i].of = jobs[i].of /\ jobs'[i].got = jobs[i].got
      /\ jobs'[i] \in Job
  BY <1>1 DEF Job, Stage
<1>3. \A k \in Installer \ {i} : jobs'[k] = Ended \/ (jobs'[k] = jobs[k] /\ jobs[k].at # "replacing")
  BY <1>1
<1>4. jobs' \in [Installer -> Job]
  BY <1>1, <1>2, <1>3, KeyFacts
<1>5. InstallerTypes'
  BY <1>1, <1>4, KeyFacts DEF InstallerInv, InstallerTypes
<1>6. ASSUME NEW k \in Installer PROVE JobSound(k)' /\ OwnerSound(k)'
  <2>1. CASE k = i
    BY <1>1, <1>2, <2>1 DEF JobSound, OwnerSound, Fetched
  <2>2. CASE k # i
    BY <1>1, <1>3, <1>6, <2>2, KeyFacts DEF JobSound, OwnerSound, Fetched
  <2> QED BY <2>1, <2>2
<1> QED BY <1>1, <1>5, <1>6 DEF InstallerInv, SettledSound, ReadinessHonest

LEMMA EndReplacingSafe ==
  ASSUME InstallerInv, NEW i \in Installer, EndReplacing(i)
  PROVE  InstallerInv'
<1>1. /\ UNCHANGED <<goal, readyMark, keyMark, vouched, owner, settled>> /\ installed' = jobs[i].got
      /\ jobs[i].at = "replacing" /\ jobs' = [jobs EXCEPT ![i] = [jobs[i] EXCEPT !.at = "starting"]]
      /\ jobs \in [Installer -> Job] /\ \A k \in Installer : JobSound(k) /\ OwnerSound(k) /\ jobs[k] \in Job
  BY DEF EndReplacing, Goes, InstallerInv, InstallerTypes
<1>2. /\ jobs'[i].at = "starting" /\ jobs'[i].of = jobs[i].of /\ jobs'[i].got = jobs[i].got
      /\ jobs' \in [Installer -> Job] /\ \A k \in Installer \ {i} : jobs'[k] = jobs[k]
  BY <1>1 DEF Job, Stage
<1>3. owner \subseteq {i} /\ ~settled /\ vouched = Torn
  <2>1. owner = {} \/ owner = {i}
    BY <1>1 DEF OwnerSound
  <2> QED BY <1>1, <2>1 DEF OwnerSound, Fetched, InstallerInv
<1>4. InstallerTypes'
  BY <1>1, <1>2 DEF InstallerInv, InstallerTypes, Job
<1>5. ASSUME NEW k \in Installer PROVE JobSound(k)' /\ OwnerSound(k)'
  <2>1. CASE k = i
    BY <1>1, <1>2, <1>3, <2>1 DEF JobSound, OwnerSound, Fetched
  <2>2. CASE k # i
    BY <1>1, <1>2, <1>3, <1>5, <2>2 DEF JobSound, OwnerSound
  <2> QED BY <2>1, <2>2
<1> QED BY <1>1, <1>3, <1>4, <1>5 DEF InstallerInv, SettledSound, ReadinessHonest

LEMMA ServiceReadySafe ==
  ASSUME InstallerInv, NEW i \in Installer, ServiceReady(i)
  PROVE  InstallerInv'
<1>1. /\ UNCHANGED <<goal, installed, readyMark, keyMark, vouched, owner, settled>>
      /\ jobs[i].at = "starting" /\ jobs' = [jobs EXCEPT ![i] = [jobs[i] EXCEPT !.at = "marking"]]
      /\ jobs \in [Installer -> Job] /\ JobSound(i) /\ OwnerSound(i) /\ jobs[i] \in Job
  BY DEF ServiceReady, Goes, InstallerInv, InstallerTypes
<1>2. /\ jobs'[i].at = "marking" /\ jobs'[i].of = jobs[i].of /\ jobs'[i].got = jobs[i].got
      /\ jobs' \in [Installer -> Job] /\ \A k \in Installer \ {i} : jobs'[k] = jobs[k]
  BY <1>1 DEF Job, Stage
<1>3. JobSound(i)' /\ OwnerSound(i)'
  BY <1>1, <1>2 DEF JobSound, OwnerSound, Fetched
<1> QED BY <1>1, <1>2, <1>3, JobGoesOn

LEMMA MarkReadySafe ==
  ASSUME InstallerInv, NEW i \in Installer, MarkReady(i)
  PROVE  InstallerInv'
<1>1. /\ UNCHANGED <<goal, installed, keyMark>> /\ readyMark' = jobs[i].of.policy /\ Marks(i, FALSE)
      /\ jobs[i].at = "marking" /\ jobs' = [jobs EXCEPT ![i] = [jobs[i] EXCEPT !.at = "keying"]]
      /\ jobs \in [Installer -> Job] /\ \A k \in Installer : JobSound(k) /\ OwnerSound(k) /\ jobs[k] \in Job
  BY DEF MarkReady, Goes, InstallerInv, InstallerTypes
<1>2. /\ jobs'[i].at = "keying" /\ jobs'[i].of = jobs[i].of /\ jobs'[i].got = jobs[i].got
      /\ jobs' \in [Installer -> Job] /\ \A k \in Installer \ {i} : jobs'[k] = jobs[k]
  BY <1>1 DEF Job, Stage
<1>3. /\ settled' = FALSE /\ vouched' = Torn
      /\ (owner' = owner /\ owner = {i}) \/ owner' = {}
  <2>1. CASE owner = {i}
    BY <1>1, <2>1 DEF Marks, OwnerSound, Fetched
  <2>2. CASE owner # {i}
    BY <1>1, <2>2 DEF Marks
  <2> QED BY <2>1, <2>2
<1>4. InstallerTypes'
  BY <1>1, <1>2, <1>3, KeyFacts DEF InstallerInv, InstallerTypes
<1>5. ASSUME NEW k \in Installer PROVE JobSound(k)' /\ OwnerSound(k)'
  <2>1. CASE k = i
    BY <1>1, <1>2, <1>3, <2>1 DEF JobSound, OwnerSound, Fetched
  <2>2. CASE k # i
    BY <1>1, <1>2, <1>3, <1>5, <2>2 DEF JobSound, OwnerSound
  <2> QED BY <2>1, <2>2
<1> QED BY <1>3, <1>4, <1>5 DEF InstallerInv, SettledSound, ReadinessHonest

LEMMA MarkKeySafe ==
  ASSUME InstallerInv, NEW i \in Installer, MarkKey(i)
  PROVE  InstallerInv'
<1>1. /\ UNCHANGED <<goal, installed, readyMark>> /\ keyMark' = jobs[i].of.epoch /\ Marks(i, TRUE)
      /\ jobs[i].at = "keying" /\ jobs' = [jobs EXCEPT ![i] = Ended]
      /\ jobs \in [Installer -> Job] /\ \A k \in Installer : JobSound(k) /\ OwnerSound(k) /\ jobs[k] \in Job
      /\ goal \in Goal
  BY DEF MarkKey, InstallerInv, InstallerTypes
<1>2. /\ jobs'[i] = Ended /\ jobs' \in [Installer -> Job]
      /\ \A k \in Installer \ {i} : jobs'[k] = jobs[k]
  BY <1>1, KeyFacts
<1>3. /\ jobs[i].of \in Goal /\ jobs[i].of.epoch <= goal.epoch /\ jobs[i].got = jobs[i].of
      /\ 1 <= jobs[i].of.epoch /\ jobs[i].of.epoch \in 0 .. MaxEpoch
  BY <1>1, KeyFacts DEF JobSound, Fetched
<1>4. CASE owner = {i}
  <2>1. /\ settled' = TRUE /\ UNCHANGED <<vouched, owner>> /\ vouched = Torn
        /\ installed = jobs[i].of /\ readyMark = jobs[i].of.policy
    BY <1>1, <1>3, <1>4 DEF Marks, OwnerSound, Fetched
  <2>2. \A k \in Installer : jobs'[k].at # "replacing"
    BY <1>1, <1>2, <1>4, KeyFacts DEF OwnerSound
  <2>3. SettledSound'
    BY <1>1, <1>3, <2>1, <2>2 DEF SettledSound
  <2>4. ASSUME NEW k \in Installer PROVE JobSound(k)' /\ OwnerSound(k)'
    <3>1. CASE k = i
      BY <1>2, <3>1, KeyFacts DEF JobSound, OwnerSound, Fetched
    <3>2. CASE k # i
      BY <1>1, <1>2, <1>4, <2>1, <2>4, <3>2 DEF JobSound, OwnerSound
    <3> QED BY <3>1, <3>2
  <2>5. InstallerTypes'
    BY <1>1, <1>2, <1>3, <2>1 DEF InstallerInv, InstallerTypes
  <2> QED BY <1>4, <2>1, <2>3, <2>4, <2>5 DEF InstallerInv, ReadinessHonest
<1>5. CASE owner # {i}
  <2>1. settled' = FALSE /\ vouched' = Torn /\ owner' = {}
    BY <1>1, <1>5 DEF Marks
  <2>2. ASSUME NEW k \in Installer PROVE JobSound(k)' /\ OwnerSound(k)'
    <3>1. CASE k = i
      BY <1>2, <3>1, KeyFacts DEF JobSound, OwnerSound, Fetched
    <3>2. CASE k # i
      BY <1>1, <1>2, <2>1, <2>2, <3>2 DEF JobSound, OwnerSound
    <3> QED BY <3>1, <3>2
  <2>3. InstallerTypes'
    BY <1>1, <1>2, <1>3, <2>1, KeyFacts DEF InstallerInv, InstallerTypes
  <2> QED BY <2>1, <2>2, <2>3 DEF InstallerInv, SettledSound, ReadinessHonest
<1> QED BY <1>4, <1>5

LEMMA JobDiesSafe ==
  ASSUME InstallerInv, NEW i \in Installer, JobDies(i)
  PROVE  InstallerInv'
<1>1. /\ UNCHANGED <<goal, installed, readyMark, keyMark, vouched, owner, settled>>
      /\ jobs' = [jobs EXCEPT ![i] = Ended] /\ jobs \in [Installer -> Job]
  BY DEF JobDies, InstallerInv, InstallerTypes
<1>2. /\ jobs'[i] = Ended /\ jobs' \in [Installer -> Job] /\ \A k \in Installer \ {i} : jobs'[k] = jobs[k]
  BY <1>1, KeyFacts
<1>3. JobSound(i)' /\ OwnerSound(i)'
  BY <1>2, KeyFacts DEF JobSound, OwnerSound, Fetched
<1> QED BY <1>1, <1>2, <1>3, KeyFacts, JobGoesOn

(* A desired state is reported ready off the markers of an installation    *)
(* that ended alone, hence of itself.                                      *)
LEMMA ReportReadySafe ==
  ASSUME InstallerInv, ReportReady
  PROVE  InstallerInv'
<1>1. /\ UNCHANGED <<goal, jobs, installed, readyMark, keyMark, owner, settled>> /\ ReadyCheck(goal)
      /\ vouched' = vouched \/ vouched' = IF settled THEN goal ELSE Torn
  BY DEF ReportReady, ReportsReady
<1>2. ASSUME settled PROVE installed = goal
  <2>1. /\ installed.policy = readyMark /\ installed.epoch = keyMark
        /\ 1 <= keyMark /\ keyMark <= goal.epoch /\ keyMark \in Nat
    BY <1>2, KeyFacts DEF InstallerInv, InstallerTypes, SettledSound
  <2>2. goal \in Goal /\ goal \in Key /\ installed \in Key /\ goal.epoch \in Nat
    BY KeyFacts DEF InstallerInv, InstallerTypes
  <2>3. readyMark = goal.policy /\ (goal.epoch > 1 => keyMark = goal.epoch)
    BY <1>1 DEF ReadyCheck
  <2>4. keyMark = goal.epoch
    BY <2>1, <2>2, <2>3
  <2> QED BY <2>1, <2>2, <2>3, <2>4, KeyFacts
<1>3. vouched' \in Key /\ ReadinessHonest'
  BY <1>1, <1>2, KeyFacts DEF InstallerInv, InstallerTypes, ReadinessHonest
<1>4. ~settled => vouched' = vouched \/ vouched' = Torn
  BY <1>1
<1>5. InstallerTypes' /\ SettledSound'
  BY <1>1, <1>3 DEF InstallerInv, InstallerTypes, SettledSound
<1>6. \A k \in Installer : JobSound(k)' /\ OwnerSound(k)'
  BY <1>1, <1>4 DEF InstallerInv, JobSound, OwnerSound
<1> QED BY <1>1, <1>3, <1>4, <1>5, <1>6 DEF InstallerInv

(* An installer is launched, in the place of one that ended.               *)
LEMMA LaunchSafe ==
  ASSUME InstallerInv, LaunchOver \/ Launch
  PROVE  InstallerInv'
<1>1. UNCHANGED <<goal, installed, readyMark, keyMark, vouched, owner, settled>>
  BY DEF LaunchOver, Launch
<1>2. /\ jobs \in [Installer -> Job] /\ goal \in Goal
      /\ \A k \in Installer : JobSound(k) /\ OwnerSound(k) /\ jobs[k] \in Job
  BY DEF InstallerInv, InstallerTypes
<1> DEFINE killed == [j \in Installer |-> IF jobs[j].at = "replacing" THEN Ended ELSE jobs[j]]
<1>3. PICK others \in {killed, jobs} : Launched(others)
  BY DEF LaunchOver, Launch
<1>4. PICK i \in Installer :
        others[i].at = "ended" /\ jobs' = [others EXCEPT ![i] = [at |-> "script", of |-> goal, got |-> Torn]]
  BY <1>3 DEF Launched
<1>5. others \in [Installer -> Job] /\ \A k \in Installer : others[k] \in {jobs[k], Ended}
  BY <1>2, <1>3, KeyFacts
<1>6. [at |-> "script", of |-> goal, got |-> Torn] \in Job
  BY <1>2, KeyFacts DEF Job, Stage
<1>7. /\ jobs' \in [Installer -> Job]
      /\ \A k \in Installer : jobs'[k] \in {jobs[k], Ended, [at |-> "script", of |-> goal, got |-> Torn]}
  BY <1>4, <1>5, <1>6
<1>8. goal.epoch <= goal.epoch
  BY <1>2, KeyFacts
<1>9. ASSUME NEW k \in Installer PROVE /\ JobSound(k)' /\ OwnerSound(k)'
                                       /\ jobs'[k].at = "replacing" => jobs[k].at = "replacing"
  <2>1. CASE jobs'[k] = jobs[k]
    BY <1>1, <1>2, <1>9, <2>1 DEF JobSound, OwnerSound
  <2>2. CASE jobs'[k] = Ended
    BY <1>1, <2>2, KeyFacts DEF JobSound, OwnerSound, Fetched
  <2>3. CASE jobs'[k] = [at |-> "script", of |-> goal, got |-> Torn]
    BY <1>1, <1>2, <1>8, <2>3 DEF JobSound, OwnerSound, Fetched
  <2> QED BY <1>7, <1>9, <2>1, <2>2, <2>3
<1>10. InstallerTypes' /\ SettledSound'
  BY <1>1, <1>7, <1>9 DEF InstallerInv, InstallerTypes, SettledSound
<1> QED BY <1>1, <1>9, <1>10 DEF InstallerInv, ReadinessHonest

LEMMA GoalChangesSafe ==
  ASSUME InstallerInv, GoalChanges
  PROVE  InstallerInv'
<1>1. /\ UNCHANGED <<jobs, installed, readyMark, keyMark, vouched, owner, settled>> /\ goal \in Goal
      /\ \A k \in Installer : JobSound(k) /\ OwnerSound(k) /\ jobs[k] \in Job
  BY DEF GoalChanges, InstallerInv, InstallerTypes
<1>2. goal' \in Goal /\ goal.epoch <= goal'.epoch /\ goal.epoch \in Nat /\ goal'.epoch \in Nat
  <2>1. CASE \E p \in BootPolicy \ {goal.policy} : goal' = [goal EXCEPT !.policy = p]
    BY <1>1, <2>1, KeyFacts DEF Goal
  <2>2. CASE goal.epoch < MaxEpoch /\ goal' = [goal EXCEPT !.epoch = @ + 1]
    BY <1>1, <2>2, KeyFacts DEF Goal
  <2> QED BY <2>1, <2>2 DEF GoalChanges
<1>3. ASSUME NEW k \in Installer PROVE JobSound(k)' /\ OwnerSound(k)'
  <2>1. jobs[k].at # "ended" => jobs[k].of.epoch <= goal'.epoch
    BY <1>1, <1>2, <1>3, KeyFacts DEF JobSound
  <2> QED BY <1>1, <1>3, <2>1 DEF JobSound, OwnerSound
<1>4. SettledSound'
  BY <1>1, <1>2, KeyFacts DEF InstallerInv, InstallerTypes, SettledSound
<1>5. InstallerTypes'
  BY <1>1, <1>2 DEF InstallerInv, InstallerTypes
<1> QED BY <1>1, <1>3, <1>4, <1>5 DEF InstallerInv, ReadinessHonest

LEMMA InstallerInductive ==
  ASSUME InstallerInv, [InstallerNext]_installerVars
  PROVE  InstallerInv'
<1>1. CASE UNCHANGED installerVars
  BY <1>1 DEF installerVars, InstallerInv, InstallerTypes, JobSound, OwnerSound, SettledSound, ReadinessHonest
<1> QED
  BY <1>1, FetchScriptSafe, FetchCredentialsSafe, FetchSpecSafe, BeginReplacingSafe, EndReplacingSafe,
     ServiceReadySafe, MarkReadySafe, MarkKeySafe, JobDiesSafe, ReportReadySafe, LaunchSafe,
     GoalChangesSafe DEF InstallerNext

LEMMA InstallerInit_Inv == InstallerInit => InstallerInv
<1> SUFFICES ASSUME InstallerInit PROVE InstallerInv
  OBVIOUS
<1>1. InstallerTypes
  <2>1. goal \in Goal /\ installed \in Key /\ vouched \in Key
    BY KeyFacts DEF InstallerInit
  <2>2. jobs \in [Installer -> Job]
    BY KeyFacts DEF InstallerInit
  <2>3. keyMark \in 0 .. MaxEpoch /\ settled \in BOOLEAN
    <3>1. keyMark = 0 /\ settled = FALSE
      BY DEF InstallerInit
    <3>2. 0 \in 0 .. MaxEpoch
      BY KeyFacts
    <3> QED BY <3>1, <3>2
  <2> QED BY <2>1, <2>2, <2>3 DEF InstallerTypes
<1>2. \A i \in Installer : JobSound(i) /\ OwnerSound(i)
  BY KeyFacts DEF InstallerInit, JobSound, OwnerSound, Fetched
<1> QED BY <1>1, <1>2 DEF InstallerInit, InstallerInv, SettledSound, ReadinessHonest

(* A claw reported ready runs the policy and the credentials it was        *)
(* reported for, whichever installers overlap, die or are killed, unless   *)
(* one was left unfinished or wrote its markers after another had begun    *)
(* (bootstrapStatusCommand, handleBootstrap, managedRuntimeBlock).         *)
THEOREM ReadyMeansInstalled == InstallerSpec => []ReadinessHonest
<1>1. InstallerInit => InstallerInv
  BY InstallerInit_Inv
<1>2. InstallerInv /\ [InstallerNext]_installerVars => InstallerInv'
  BY InstallerInductive
<1>3. InstallerInv => ReadinessHonest
  BY DEF InstallerInv
<1> QED
  BY <1>1, <1>2, <1>3, PTL DEF InstallerSpec

(***************************************************************************)
(* The parent's control of a child.                                        *)
(***************************************************************************)
Applicable == Policy \cup {Absent}
Child ==
  [spec : Spec, flags : [Channel -> Flag], disabled : BOOLEAN, saved : [Channel -> Flag],
   appliedDesired : Applicable, appliedManaged : Applicable]
Stages == {"status", "disabling", "confirming", "enabling", "applying", "probing"}
Operation ==
  [at : Stages, policy : Policy, status : {Absent} \cup [managed : Policy, disabled : BOOLEAN],
   did : SUBSET {"disable", "enable", "apply"}, current : BOOLEAN]

NodeTypes ==
  /\ child \in Child /\ desired \in [policy : Policy, enabled : BOOLEAN]
  /\ parent = Idle \/ parent \in Operation

Busy == parent # Idle
HasApplied == Busy /\ "apply" \in parent.did

(* An operation under way concludes nothing yet, and one that disables     *)
(* applies nothing; what the parent is about to conclude of a status holds *)
(* until somebody else touches the child.                                  *)
OperationSound ==
  Busy => /\ verdict = NoVerdict
          /\ parent.at \in {"disabling", "confirming"} => "apply" \notin parent.did
          /\ parent.at = "probing" =>
               /\ ~touched => Managed(child) = parent.policy /\ parent.status.disabled = child.disabled
               /\ child.appliedDesired \in {parent.policy} \cup unsaved

(* The policy on record was probed, or the operation that applied it is    *)
(* under way or failed; a command that timed out is of such a one.         *)
AppliedSound ==
  /\ child.appliedManaged = child.appliedDesired
  /\ child.appliedDesired # Absent =>
       \/ child.appliedDesired.spec = probes.of \/ child.appliedDesired \in unsaved
       \/ HasApplied /\ child.appliedDesired = parent.policy
  /\ \A a \in abandoned : a.cmd # Absent /\ a.cmd.command = "apply" =>
       a.cmd.policy \in Policy \cap unsaved

(* The flag of the local channel, or the one that disabling put aside, is  *)
(* its owner's.                                                            *)
OwnersFlag(c) == IF c.disabled /\ c.saved["local"] # "absent" THEN c.saved["local"] ELSE c.flags["local"]

NodeInv == NodeTypes /\ OperationSound /\ AppliedSound /\ wish = OwnersFlag(child) /\ NodeHonest

LEMMA NodeFacts ==
  /\ Absent \notin Policy
  /\ Idle \notin Operation /\ Idle.at = "idle" /\ NoVerdict.of = "nothing"
  /\ \A c \in Child : Managed(c) \in Policy
<1>1. Absent \notin Policy
  BY NodeAssumption
<1>2. Idle \notin Operation /\ Idle.at = "idle" /\ NoVerdict.of = "nothing"
  BY DEF Idle, Operation, Stages, NoVerdict
<1>3. ASSUME NEW c \in Child PROVE Managed(c) \in Policy
  <2>1. c.spec \in Spec /\ IsOn(c.flags["slack"]) \in BOOLEAN
    BY DEF Child, IsOn
  <2> QED BY <2>1 DEF Managed, Policy
<1> QED BY <1>1, <1>2, <1>3

(***************************************************************************)
(* The commands of the child.                                              *)
(***************************************************************************)
(* What a command leaves as it was: the owner's flag, the policy on record *)
(* unless it applies one, and every channel off if it disables.            *)
Leaves(c, d, applied) ==
  /\ d \in Child /\ OwnersFlag(d) = OwnersFlag(c)
  /\ d.appliedManaged = d.appliedDesired /\ d.appliedDesired \in {c.appliedDesired} \cup applied
  /\ ~c.disabled /\ d.disabled => \A ch \in Channel : ~IsOn(d.flags[ch])

LEMMA IngressOffLeaves ==
  ASSUME NEW c \in Child, c.appliedManaged = c.appliedDesired
  PROVE  Leaves(c, IngressOff(c), {})
<1>1. CASE c.disabled
  BY <1>1 DEF IngressOff, Leaves
<1>2. CASE ~c.disabled
  <2> DEFINE off == [ch \in Channel |-> IF c.flags[ch] = "absent" THEN "absent" ELSE "off"]
             d == SwitchedOff(c)
  <2>1. off \in [Channel -> Flag] /\ \A ch \in Channel : ~IsOn(off[ch])
    BY DEF Flag, IsOn
  <2>2. off["local"] = IF c.flags["local"] = "absent" THEN "absent" ELSE "off"
    BY DEF Channel
  <2>3. d = [c EXCEPT !.disabled = TRUE, !.saved = c.flags, !.flags = off]
    BY DEF SwitchedOff
  <2> HIDE DEF off, d
  <2>4. d \in Child /\ d.disabled /\ d.saved = c.flags /\ d.flags = off
        /\ d.appliedManaged = c.appliedManaged /\ d.appliedDesired = c.appliedDesired
    BY <2>1, <2>3 DEF Child
  <2>5. OwnersFlag(d) = OwnersFlag(c)
    BY <1>2, <2>2, <2>4 DEF OwnersFlag
  <2>6. IngressOff(c) = d
    BY <1>2 DEF IngressOff, d
  <2> QED BY <2>1, <2>4, <2>5, <2>6 DEF Leaves
<1> QED BY <1>1, <1>2

LEMMA IngressOnLeaves ==
  ASSUME NEW c \in Child, c.appliedManaged = c.appliedDesired
  PROVE  Leaves(c, IngressOn(c), {})
<1>1. CASE ~c.disabled
  BY <1>1 DEF IngressOn, Leaves
<1>2. CASE c.disabled
  <2> DEFINE back == [ch \in Channel |-> IF c.saved[ch] = "absent" THEN c.flags[ch] ELSE c.saved[ch]]
             d == [c EXCEPT !.disabled = FALSE, !.saved = Unsaved, !.flags = back]
  <2>1. back \in [Channel -> Flag] /\ Unsaved \in [Channel -> Flag]
    BY DEF Child, Flag, Unsaved
  <2>2. back["local"] = IF c.saved["local"] = "absent" THEN c.flags["local"] ELSE c.saved["local"]
    BY DEF Channel
  <2>3. IngressOn(c) = d
    BY <1>2 DEF IngressOn
  <2> HIDE DEF back
  <2>4. d \in Child /\ ~d.disabled /\ d.flags = back
        /\ d.appliedManaged = c.appliedManaged /\ d.appliedDesired = c.appliedDesired
    BY <2>1 DEF Child
  <2>5. OwnersFlag(d) = OwnersFlag(c)
    BY <1>2, <2>2, <2>4 DEF OwnersFlag
  <2> HIDE DEF d
  <2> QED BY <2>3, <2>4, <2>5 DEF Leaves
<1> QED BY <1>1, <1>2

LEMMA AppliedLeaves ==
  ASSUME NEW c \in Child, NEW p \in Policy
  PROVE  /\ Applied(c, p) \in Child /\ OwnersFlag(Applied(c, p)) = OwnersFlag(c)
         /\ Applied(c, p).appliedManaged = p /\ Applied(c, p).appliedDesired = p
         /\ Applied(c, p).disabled = c.disabled
<1> DEFINE flags == [c.flags EXCEPT !["slack"] = IF p.slack THEN "on" ELSE "off"]
           d == [c EXCEPT !.spec = p.spec, !.flags = flags, !.appliedDesired = p, !.appliedManaged = p]
<1>1. Applied(c, p) = d
  BY DEF Applied
<1>2. flags \in [Channel -> Flag] /\ flags["local"] = c.flags["local"]
  BY DEF Child, Channel, Flag
<1>3. p.spec \in Spec /\ p \in Applicable
  BY DEF Policy, Applicable
<1> HIDE DEF flags
<1>4. d \in Child /\ d.flags = flags /\ d.saved = c.saved /\ d.disabled = c.disabled
      /\ d.appliedManaged = p /\ d.appliedDesired = p
  BY <1>2, <1>3 DEF Child
<1> HIDE DEF d
<1> QED BY <1>1, <1>2, <1>4 DEF OwnersFlag

LEMMA OutcomeLeaves ==
  ASSUME NEW c \in Child, c.appliedManaged = c.appliedDesired, NEW cmd, NEW resolves,
         cmd.command = "apply" => cmd.policy \in Policy,
         NEW d \in Outcomes(cmd, c, resolves)
  PROVE  Leaves(c, d, IF cmd.command = "apply" THEN {cmd.policy} ELSE {})
<1>1. CASE cmd.command = "disable"
  BY <1>1, IngressOffLeaves DEF Outcomes
<1>2. CASE cmd.command = "enable"
  BY <1>2, IngressOnLeaves DEF Outcomes
<1>3. CASE cmd.command = "apply"
  BY <1>3, AppliedLeaves DEF Outcomes, Leaves
<1> QED BY <1>1, <1>2, <1>3 DEF Outcomes

(***************************************************************************)
(* The operations of the parent.                                           *)
(***************************************************************************)
LEMMA BusyOperation ==
  ASSUME NodeInv, Busy
  PROVE  /\ parent \in Operation /\ parent.policy \in Policy /\ verdict.of = "nothing"
         /\ parent.at \in Stages
  BY NodeFacts DEF NodeInv, NodeTypes, Busy, OperationSound, Operation

(* An operation that ends without evidence.                                *)
LEMMA FailsSafe ==
  ASSUME NodeInv, Busy, Fails,
         UNCHANGED <<child, desired, reopened, wish>>,
         \A a \in abandoned' : a \in abandoned \/ (a.cmd # Absent /\ a.cmd.command = "apply" =>
                                                     a.cmd.policy \in Policy \cap unsaved')
  PROVE  NodeInv'
<1>1. parent' = Idle /\ UNCHANGED <<probes, verdict>> /\ unsaved \subseteq unsaved'
  BY DEF Fails
<1>2. HasApplied => parent.policy \in unsaved'
  BY DEF Fails, HasApplied
<1>3. verdict.of = "nothing"
  BY BusyOperation
<1>4. NodeTypes' /\ OperationSound'
  BY <1>1 DEF NodeInv, NodeTypes, OperationSound, Busy
<1>5. AppliedSound'
  <2>1. child.appliedDesired # Absent =>
          child.appliedDesired.spec = probes.of \/ child.appliedDesired \in unsaved'
    BY <1>1, <1>2 DEF NodeInv, AppliedSound
  <2>2. ASSUME NEW a \in abandoned', a.cmd # Absent, a.cmd.command = "apply"
        PROVE  a.cmd.policy \in Policy \cap unsaved'
    BY <1>1, <2>2 DEF NodeInv, AppliedSound
  <2> QED BY <1>1, <2>1, <2>2 DEF NodeInv, AppliedSound
<1>6. NodeHonest' /\ wish' = OwnersFlag(child')
  BY <1>1, <1>3 DEF NodeInv, NodeHonest, OwnersFlag
<1> QED BY <1>4, <1>5, <1>6 DEF NodeInv, OwnersFlag

(* An operation that ends with a verdict, which its evidence bears out.    *)
LEMMA ConcludesSafe ==
  ASSUME NodeInv, Busy, NEW of, NEW evidence, parent.current, Concludes(of, evidence),
         UNCHANGED <<child, desired, abandoned, reopened, wish>>,
         of = "ready" /\ ~touched' => Managed(child) = parent.policy /\ ~child.disabled,
         of = "ready" => parent.policy.spec = evidence.of \/ parent.policy \in unsaved,
         of = "disabled" /\ ~touched' => child.disabled,
         child.appliedDesired # Absent =>
           child.appliedDesired.spec = evidence.of \/ child.appliedDesired \in unsaved
  PROVE  NodeInv'
<1>1. /\ parent' = Idle /\ probes' = evidence /\ UNCHANGED unsaved
      /\ verdict'.of = of /\ verdict'.policy = parent.policy
  BY DEF Concludes
<1>2. NodeTypes' /\ OperationSound'
  BY <1>1 DEF NodeInv, NodeTypes, OperationSound, Busy
<1>3. AppliedSound'
  BY <1>1 DEF NodeInv, AppliedSound
<1>4. NodeHonest'
  BY <1>1 DEF NodeInv, NodeHonest, Managed
<1> QED BY <1>2, <1>3, <1>4 DEF NodeInv, OwnersFlag

LEMMA StartSafe ==
  ASSUME NodeInv, NEW at \in {"status", "disabling"}, Start(at)
  PROVE  NodeInv'
<1>1. /\ parent = Idle /\ verdict' = NoVerdict
      /\ parent' = [at |-> at, policy |-> desired.policy, status |-> Absent, did |-> {}, current |-> TRUE]
      /\ UNCHANGED <<child, desired, abandoned, probes, unsaved, touched, reopened, wish>>
  BY DEF Start
<1>2. desired.policy \in Policy
  BY DEF NodeInv, NodeTypes
<1>3. parent' \in Operation /\ parent'.at = at /\ parent'.did = {}
  BY <1>1, <1>2 DEF Operation, Stages
<1>4. NodeTypes' /\ OperationSound'
  BY <1>1, <1>3 DEF NodeInv, NodeTypes, OperationSound
<1>5. AppliedSound'
  BY <1>1 DEF NodeInv, AppliedSound, HasApplied, Busy
<1>6. NodeHonest'
  BY <1>1, NodeFacts DEF NodeInv, NodeHonest
<1> QED BY <1>1, <1>4, <1>5, <1>6 DEF NodeInv, OwnersFlag

(* #status answers and the operation goes on.                              *)
LEMMA StatusGoesOn ==
  ASSUME NodeInv, Busy, NEW at \in {"enabling", "applying", "probing"},
         parent' = [parent EXCEPT !.at = at, !.status = [managed |-> Managed(child), disabled |-> child.disabled]],
         UNCHANGED <<verdict, unsaved, probes, child, desired, abandoned, reopened, wish>>,
         at = "probing" => Managed(child) = parent.policy /\ child.appliedDesired = parent.policy
  PROVE  NodeInv'
<1>1. [managed |-> Managed(child), disabled |-> child.disabled] \in [managed : Policy, disabled : BOOLEAN]
  BY NodeFacts DEF NodeInv, NodeTypes, Child
<1>2. /\ parent' \in Operation /\ parent'.at = at /\ parent'.policy = parent.policy /\ parent'.did = parent.did
      /\ parent'.status.disabled = child.disabled /\ parent'.status.managed = Managed(child)
  BY <1>1, BusyOperation DEF Operation, Stages
<1>3. Busy' /\ (HasApplied' <=> HasApplied)
  BY <1>2, NodeFacts DEF Busy, HasApplied
<1>4. NodeTypes' /\ OperationSound'
  <2>1. OperationSound'
    BY <1>2 DEF NodeInv, OperationSound, Managed
  <2> QED BY <1>2, <2>1 DEF NodeInv, NodeTypes
<1>5. AppliedSound'
  BY <1>2, <1>3 DEF NodeInv, AppliedSound
<1>6. verdict.of = "nothing"
  BY BusyOperation
<1>7. NodeHonest'
  BY <1>6 DEF NodeInv, NodeHonest
<1> QED BY <1>4, <1>5, <1>7 DEF NodeInv, OwnersFlag

LEMMA ReadinessIs ==
  ASSUME NEW wanting, NEW disabled, NEW evidence
  PROVE  /\ Readiness(wanting, disabled, evidence) # "disabled"
         /\ Readiness(wanting, disabled, evidence) = "ready" => ~disabled
  BY DEF Readiness

LEMMA ReadStatusSafe ==
  ASSUME NodeInv, ReadStatus
  PROVE  NodeInv'
<1>1. /\ parent.at \in {"status", "confirming"} /\ ~touched'
      /\ UNCHANGED <<child, desired, abandoned, reopened, wish>>
  BY DEF ReadStatus
<1>2. Busy /\ parent \in Operation /\ parent.policy \in Policy
  <2>1. Busy
    BY <1>1, NodeFacts DEF Busy
  <2> QED BY <2>1, BusyOperation
<1> DEFINE applied == AppliedDesired(child) = parent.policy
           goes(at) == /\ parent' = [parent EXCEPT !.at = at, !.status = [managed |-> Managed(child),
                                                                         disabled |-> child.disabled]]
                       /\ UNCHANGED <<verdict, unsaved, probes>>
<1>3. applied => /\ Managed(child) = parent.policy /\ child.appliedDesired = parent.policy
  BY <1>2, NodeFacts DEF AppliedDesired, NodeInv, AppliedSound
<1>4. ASSUME Fails PROVE NodeInv'
  BY <1>1, <1>2, <1>4, FailsSafe
<1>5. ASSUME parent.at = "confirming", child.disabled, Concludes("disabled", probes) PROVE NodeInv'
  <2>1. CASE ~parent.current
    BY <1>4, <1>5, <2>1 DEF Concludes
  <2>2. CASE parent.current
    <3>1. ~HasApplied
      BY <1>2, <1>5 DEF NodeInv, OperationSound, HasApplied
    <3>2. child.appliedDesired # Absent =>
            child.appliedDesired.spec = probes.of \/ child.appliedDesired \in unsaved
      BY <3>1 DEF NodeInv, AppliedSound
    <3> QED BY <1>1, <1>2, <1>5, <2>2, <3>2, ConcludesSafe
  <2> QED BY <2>1, <2>2
<1>6. ASSUME applied, ~ProbeNeeded(parent.did),
             Concludes(Readiness(parent.policy, child.disabled, probes), probes)
      PROVE  NodeInv'
  <2>1. CASE ~parent.current
    BY <1>4, <1>6, <2>1 DEF Concludes
  <2>2. CASE parent.current
    <3>1. ~HasApplied
      BY <1>6 DEF ProbeNeeded, HasApplied
    <3>2. child.appliedDesired # Absent =>
            child.appliedDesired.spec = probes.of \/ child.appliedDesired \in unsaved
      BY <3>1 DEF NodeInv, AppliedSound
    <3>3. parent.policy.spec = probes.of \/ parent.policy \in unsaved
      BY <1>2, <1>3, <1>6, <3>2, NodeFacts
    <3> DEFINE of == Readiness(parent.policy, child.disabled, probes)
    <3>4. of # "disabled" /\ (of = "ready" => Managed(child) = parent.policy /\ ~child.disabled)
      BY <1>3, <1>6, ReadinessIs
    <3>5. Concludes(of, probes)
      BY <1>6
    <3> HIDE DEF of
    <3> QED BY <1>1, <1>2, <2>2, <3>2, <3>3, <3>4, <3>5, ConcludesSafe
  <2> QED BY <2>1, <2>2
<1>7. ASSUME goes("enabling") \/ goes("applying") PROVE NodeInv'
  BY <1>1, <1>2, <1>7, StatusGoesOn
<1>8. ASSUME applied, goes("probing") PROVE NodeInv'
  BY <1>1, <1>2, <1>3, <1>8, StatusGoesOn
<1>9. \/ Fails
      \/ parent.at = "confirming" /\ child.disabled /\ Concludes("disabled", probes)
      \/ goes("enabling") \/ goes("applying")
      \/ applied /\ goes("probing")
      \/ /\ applied /\ ~ProbeNeeded(parent.did)
         /\ Concludes(Readiness(parent.policy, child.disabled, probes), probes)
  BY DEF ReadStatus
<1> HIDE DEF applied, goes
<1> QED BY <1>4, <1>5, <1>6, <1>7, <1>8, <1>9

(* A command of the operation lands.                                       *)
LEMMA InvokeSafe ==
  ASSUME NodeInv, Invoke
  PROVE  NodeInv'
<1>1. parent.at \in {"disabling", "enabling", "applying"} /\ UNCHANGED <<desired, abandoned, touched, wish>>
  BY DEF Invoke
<1>2. Busy /\ parent \in Operation /\ parent.policy \in Policy /\ verdict.of = "nothing"
  <2>1. Busy
    BY <1>1, NodeFacts DEF Busy
  <2> QED BY <2>1, BusyOperation
<1> DEFINE cmd == Command(parent.at)
<1>3. /\ cmd.command = "apply" <=> parent.at = "applying"
      /\ cmd.command \in {"disable", "enable", "apply"}
      /\ cmd.command = "apply" => cmd.policy = parent.policy
      /\ parent.at = "disabling" => cmd.command = "disable"
  BY <1>1 DEF Command
<1> HIDE DEF cmd
<1>4. CASE Fails /\ UNCHANGED <<child, reopened>>
  BY <1>1, <1>2, <1>4, FailsSafe
<1>5. ASSUME NEW resolves \in BOOLEAN, NEW c \in Outcomes(cmd, child, resolves), child' = c,
             parent' = [parent EXCEPT !.at = IF @ = "disabling" THEN "confirming" ELSE "status",
                                      !.did = @ \cup {cmd.command}],
             reopened' = IF child.disabled THEN Reopened(c) ELSE {},
             UNCHANGED <<verdict, unsaved, probes>>
      PROVE  NodeInv'
  <2>1. child \in Child /\ child.appliedManaged = child.appliedDesired
    BY DEF NodeInv, NodeTypes, AppliedSound
  <2>2. Leaves(child, c, IF cmd.command = "apply" THEN {cmd.policy} ELSE {})
    BY <1>2, <1>3, <1>5, <2>1, OutcomeLeaves
  <2>3. /\ parent' \in Operation /\ parent'.policy = parent.policy
        /\ parent'.did = parent.did \cup {cmd.command}
        /\ parent'.at = IF parent.at = "disabling" THEN "confirming" ELSE "status"
    BY <1>2, <1>3, <1>5 DEF Operation, Stages
  <2>4. Busy' /\ parent'.at # "probing" /\ (HasApplied => HasApplied') /\ (cmd.command = "apply" => HasApplied')
    BY <1>2, <2>3, NodeFacts DEF Busy, HasApplied
  <2>5. NodeTypes' /\ OperationSound'
    <3>1. NodeTypes'
      BY <1>1, <1>5, <2>2, <2>3 DEF NodeInv, NodeTypes, Leaves
    <3>2. parent'.at \in {"disabling", "confirming"} => "apply" \notin parent'.did
      BY <1>2, <1>3, <2>3 DEF NodeInv, OperationSound
    <3> QED BY <1>2, <1>5, <2>4, <3>1, <3>2 DEF NodeInv, OperationSound
  <2>6. AppliedSound'
    <3>1. c.appliedManaged = c.appliedDesired
          /\ (c.appliedDesired = child.appliedDesired \/ (cmd.command = "apply" /\ c.appliedDesired = parent.policy))
      BY <1>3, <2>2 DEF Leaves
    <3>2. c.appliedDesired # Absent => \/ c.appliedDesired.spec = probes.of \/ c.appliedDesired \in unsaved
                                       \/ HasApplied' /\ c.appliedDesired = parent.policy
      BY <2>4, <3>1 DEF NodeInv, AppliedSound
    <3> QED BY <1>1, <1>5, <2>3, <3>1, <3>2 DEF NodeInv, AppliedSound
  <2>7. wish' = OwnersFlag(c)
    BY <1>1, <2>2 DEF NodeInv, Leaves
  <2>8. NodeHonest'
    <3>1. \A ch \in Channel \ reopened' : c.disabled => ~IsOn(c.flags[ch])
      <4>1. CASE child.disabled
        BY <1>5, <4>1 DEF Reopened
      <4>2. CASE ~child.disabled
        BY <1>5, <2>2, <4>2 DEF Leaves
      <4> QED BY <4>1, <4>2
    <3>2. ~c.disabled => c.flags["local"] = wish'
      BY <2>7 DEF OwnersFlag
    <3> QED BY <1>2, <1>5, <3>1, <3>2 DEF NodeHonest
  <2> QED BY <1>5, <2>5, <2>6, <2>7, <2>8 DEF NodeInv, OwnersFlag
<1>6. \/ Fails /\ UNCHANGED <<child, reopened>>
      \/ \E resolves \in BOOLEAN : \E c \in Outcomes(cmd, child, resolves) :
           /\ child' = c
           /\ parent' = [parent EXCEPT !.at = IF @ = "disabling" THEN "confirming" ELSE "status",
                                       !.did = @ \cup {cmd.command}]
           /\ reopened' = IF child.disabled THEN Reopened(c) ELSE {}
           /\ UNCHANGED <<verdict, unsaved, probes>>
  BY DEF Invoke, SlackResolves, cmd
<1> QED BY <1>4, <1>5, <1>6

LEMMA ProbeSafe ==
  ASSUME NodeInv, Probe
  PROVE  NodeInv'
<1>1. /\ parent.at = "probing" /\ UNCHANGED <<child, desired, abandoned, touched, reopened, wish>>
  BY DEF Probe
<1>2. Busy /\ parent.policy \in Policy
  <2>1. Busy
    BY <1>1, NodeFacts DEF Busy
  <2> QED BY <2>1, BusyOperation
<1>3. PICK evidence \in OperationalProbes(parent.policy.spec, child) :
        Concludes(Readiness(parent.policy, parent.status.disabled, evidence), evidence)
  BY DEF Probe
<1>4. evidence.of = parent.policy.spec
  BY DEF OperationalProbes
<1>5. CASE ~parent.current
  <2>1. Fails
    BY <1>3, <1>5 DEF Concludes
  <2> QED BY <1>1, <1>2, <2>1, FailsSafe
<1>6. CASE parent.current
  <2> DEFINE of == Readiness(parent.policy, parent.status.disabled, evidence)
  <2>1. of # "disabled" /\ (of = "ready" => ~parent.status.disabled)
    BY ReadinessIs
  <2>2. /\ ~touched => Managed(child) = parent.policy /\ parent.status.disabled = child.disabled
        /\ child.appliedDesired \in {parent.policy} \cup unsaved
    BY <1>1, <1>2 DEF NodeInv, OperationSound
  <2>3. Concludes(of, evidence)
    BY <1>3
  <2> HIDE DEF of
  <2> QED BY <1>1, <1>2, <1>4, <1>6, <2>1, <2>2, <2>3, ConcludesSafe
<1> QED BY <1>5, <1>6

LEMMA TimesOutSafe ==
  ASSUME NodeInv, TimesOut
  PROVE  NodeInv'
<1>1. /\ Busy /\ Fails /\ UNCHANGED <<child, desired, touched, reopened, wish>>
  BY DEF TimesOut, Busy
<1>2. parent.policy \in Policy
  BY <1>1, BusyOperation
<1> DEFINE cmd == IF parent.at \in {"disabling", "enabling", "applying"} THEN Command(parent.at) ELSE Absent
<1>3. ASSUME cmd # Absent, cmd.command = "apply" PROVE cmd.policy \in Policy \cap unsaved'
  <2>1. parent.at \in {"disabling", "enabling", "applying"} /\ cmd = Command(parent.at)
    BY <1>3
  <2>2. parent.at = "applying" /\ cmd.policy = parent.policy
    BY <1>3, <2>1 DEF Command
  <2> QED BY <1>1, <1>2, <2>2 DEF Fails
<1>4. abandoned' = abandoned \cup {[id |-> Cardinality(abandoned) + 1, landed |-> FALSE, cmd |-> cmd]}
  BY DEF TimesOut
<1> HIDE DEF cmd
<1>5. \A a \in abandoned' : a \in abandoned \/ (a.cmd # Absent /\ a.cmd.command = "apply" =>
                                                  a.cmd.policy \in Policy \cap unsaved')
  BY <1>3, <1>4
<1> QED BY <1>1, <1>5, FailsSafe

(* A command whose operation timed out lands, whatever goes on by then.    *)
LEMMA LandsLateSafe ==
  ASSUME NodeInv, NEW a \in abandoned, LandsLate(a)
  PROVE  NodeInv'
<1>1. /\ touched' /\ a.cmd # Absent
      /\ abandoned' = (abandoned \ {a}) \cup {[a EXCEPT !.landed = TRUE]}
      /\ UNCHANGED <<desired, parent, probes, verdict, unsaved, wish>>
  BY DEF LandsLate
<1>2. PICK resolves \in BOOLEAN : \E c \in Outcomes(a.cmd, child, resolves) : child' = c /\ reopened' = Reopened(c)
  BY DEF LandsLate, SlackResolves
<1>3. child' \in Outcomes(a.cmd, child, resolves) /\ reopened' = Reopened(child')
  BY <1>2
<1>4. child \in Child /\ child.appliedManaged = child.appliedDesired
      /\ (a.cmd.command = "apply" => a.cmd.policy \in Policy \cap unsaved)
  BY <1>1 DEF NodeInv, NodeTypes, AppliedSound
<1>5. Leaves(child, child', IF a.cmd.command = "apply" THEN {a.cmd.policy} ELSE {})
  BY <1>3, <1>4, OutcomeLeaves
<1>6. child'.appliedDesired = child.appliedDesired \/ child'.appliedDesired \in unsaved
  BY <1>4, <1>5 DEF Leaves
<1>7. NodeTypes'
  BY <1>1, <1>5 DEF NodeInv, NodeTypes, Leaves
<1>8. OperationSound'
  BY <1>1, <1>6 DEF NodeInv, OperationSound, Busy
<1>9. AppliedSound'
  <2>1. child'.appliedManaged = child'.appliedDesired
    BY <1>5 DEF Leaves
  <2>2. child'.appliedDesired # Absent =>
          \/ child'.appliedDesired.spec = probes.of \/ child'.appliedDesired \in unsaved
          \/ HasApplied /\ child'.appliedDesired = parent.policy
    BY <1>6 DEF NodeInv, AppliedSound
  <2>3. HasApplied' <=> HasApplied
    BY <1>1 DEF HasApplied, Busy
  <2>4. ASSUME NEW b \in abandoned', b.cmd # Absent, b.cmd.command = "apply"
        PROVE  b.cmd.policy \in Policy \cap unsaved
    <3>1. CASE b \in abandoned
      BY <2>4, <3>1 DEF NodeInv, AppliedSound
    <3>2. CASE b = [a EXCEPT !.landed = TRUE]
      <4>1. b.cmd = a.cmd \/ "cmd" \notin DOMAIN a
        BY <3>2
      <4> QED BY <1>4, <2>4, <3>2, <4>1
    <3> QED BY <1>1, <2>4, <3>1, <3>2
  <2> QED BY <1>1, <2>1, <2>2, <2>3, <2>4 DEF AppliedSound
<1>10. wish' = OwnersFlag(child')
  BY <1>1, <1>5 DEF NodeInv, Leaves
<1>11. NodeHonest'
  <2>1. \A ch \in Channel \ reopened' : child'.disabled => ~IsOn(child'.flags[ch])
    BY <1>3 DEF Reopened
  <2>2. ~child'.disabled => child'.flags["local"] = wish'
    BY <1>10 DEF OwnersFlag
  <2> QED BY <1>1, <2>1, <2>2 DEF NodeInv, NodeHonest
<1> QED BY <1>7, <1>8, <1>9, <1>10, <1>11 DEF NodeInv, OwnersFlag

LEMMA OwnerEditsSafe ==
  ASSUME NodeInv, OwnerEdits
  PROVE  NodeInv'
<1>1. /\ touched' /\ reopened' = Reopened(child')
      /\ UNCHANGED <<desired, parent, abandoned, probes, verdict, unsaved>>
  BY DEF OwnerEdits
<1>2. child \in Child /\ wish = OwnersFlag(child)
  BY DEF NodeInv, NodeTypes
<1>3. /\ child' \in Child /\ wish' = OwnersFlag(child')
      /\ child'.appliedDesired = child.appliedDesired /\ child'.appliedManaged = child.appliedManaged
  <2>1. ASSUME NEW s \in Spec, child' = [child EXCEPT !.spec = s], wish' = wish
        PROVE  /\ child' \in Child /\ wish' = OwnersFlag(child')
               /\ child'.appliedDesired = child.appliedDesired /\ child'.appliedManaged = child.appliedManaged
    BY <1>2, <2>1 DEF Child, OwnersFlag
  <2>2. ASSUME NEW ch \in Channel, NEW flag \in {"on", "off", "missing"},
               child' = [child EXCEPT !.flags[ch] = flag],
               wish' = IF ch = "local" /\ (~child.disabled \/ child.saved[ch] = "absent") THEN flag ELSE wish
        PROVE  /\ child' \in Child /\ wish' = OwnersFlag(child')
               /\ child'.appliedDesired = child.appliedDesired /\ child'.appliedManaged = child.appliedManaged
    <3> DEFINE flags == [child.flags EXCEPT ![ch] = flag]
    <3>1. /\ flags \in [Channel -> Flag]
          /\ flags["local"] = IF ch = "local" THEN flag ELSE child.flags["local"]
      BY <1>2, <2>2 DEF Child, Flag, Channel
    <3>2. child' = [child EXCEPT !.flags = flags]
      BY <1>2, <2>2 DEF Child
    <3> HIDE DEF flags
    <3>3. /\ child' \in Child /\ child'.flags = flags /\ child'.saved = child.saved
          /\ child'.disabled = child.disabled /\ child'.appliedDesired = child.appliedDesired
          /\ child'.appliedManaged = child.appliedManaged
      BY <1>2, <3>1, <3>2 DEF Child
    <3> QED BY <1>2, <2>2, <3>1, <3>3 DEF OwnersFlag
  <2> QED BY <2>1, <2>2 DEF OwnerEdits
<1>4. NodeTypes' /\ OperationSound' /\ AppliedSound'
  BY <1>1, <1>3 DEF NodeInv, NodeTypes, OperationSound, AppliedSound, HasApplied, Busy
<1>5. NodeHonest'
  <2>1. \A ch \in Channel \ reopened' : child'.disabled => ~IsOn(child'.flags[ch])
    BY <1>1 DEF Reopened
  <2>2. ~child'.disabled => child'.flags["local"] = wish'
    BY <1>3 DEF OwnersFlag
  <2> QED BY <1>1, <2>1, <2>2 DEF NodeInv, NodeHonest
<1> QED BY <1>3, <1>4, <1>5 DEF NodeInv, OwnersFlag

LEMMA DesiredChangesSafe ==
  ASSUME NodeInv, DesiredChanges
  PROVE  NodeInv'
<1>1. UNCHANGED <<child, abandoned, probes, verdict, unsaved, touched, reopened, wish>>
  BY DEF DesiredChanges
<1>2. desired' \in [policy : Policy, enabled : BOOLEAN]
  BY DEF DesiredChanges, NodeInv, NodeTypes
<1>3. CASE parent = Idle
  <2>1. parent' = Idle
    BY <1>3 DEF DesiredChanges
  <2> QED BY <1>1, <1>2, <1>3, <2>1
        DEF NodeInv, NodeTypes, OperationSound, AppliedSound, HasApplied, Busy, NodeHonest, OwnersFlag
<1>4. CASE parent # Idle
  <2>1. parent \in Operation /\ parent' = [parent EXCEPT !.current = FALSE]
    BY <1>4 DEF DesiredChanges, NodeInv, NodeTypes
  <2>2. /\ parent' \in Operation /\ parent'.at = parent.at /\ parent'.policy = parent.policy
        /\ parent'.did = parent.did /\ parent'.status = parent.status
    BY <2>1 DEF Operation
  <2>3. Busy /\ Busy' /\ (HasApplied' <=> HasApplied)
    BY <1>4, <2>2, NodeFacts DEF Busy, HasApplied
  <2>4. NodeTypes' /\ OperationSound' /\ AppliedSound'
    BY <1>1, <1>2, <2>2, <2>3 DEF NodeInv, NodeTypes, OperationSound, AppliedSound
  <2> QED BY <1>1, <2>4 DEF NodeInv, NodeHonest, OwnersFlag
<1> QED BY <1>3, <1>4

LEMMA ProbesAgeSafe ==
  ASSUME NodeInv, ProbesAge
  PROVE  NodeInv'
<1>1. /\ UNCHANGED <<child, desired, parent, abandoned, verdict, unsaved, touched, reopened, wish>>
      /\ probes' = [probes EXCEPT !.recent = FALSE]
  BY DEF ProbesAge
<1>2. probes'.of = probes.of
  BY <1>1
<1> QED
  BY <1>1, <1>2 DEF NodeInv, NodeTypes, OperationSound, AppliedSound, HasApplied, Busy, NodeHonest, OwnersFlag

LEMMA NodeInductive ==
  ASSUME NodeInv, [NodeNext]_nodeVars
  PROVE  NodeInv'
<1>1. CASE StartInspect \/ StartDisable
  BY <1>1, StartSafe DEF StartInspect, StartDisable
<1>2. CASE UNCHANGED nodeVars
  BY <1>2 DEF nodeVars, NodeInv, NodeTypes, OperationSound, AppliedSound, HasApplied, Busy, NodeHonest, OwnersFlag
<1> QED
  BY <1>1, <1>2, ReadStatusSafe, InvokeSafe, ProbeSafe, TimesOutSafe, LandsLateSafe, OwnerEditsSafe,
     DesiredChangesSafe, ProbesAgeSafe DEF NodeNext

LEMMA NodeInit_Inv == NodeInit => NodeInv
<1> SUFFICES ASSUME NodeInit PROVE NodeInv
  OBVIOUS
<1>1. PICK spec \in Spec, slack \in {"absent", "off"}, loc \in {"absent", "missing", "on"} :
        /\ child = [spec |-> spec, flags |-> [ch \in Channel |-> IF ch = "slack" THEN slack ELSE loc],
                    disabled |-> FALSE, saved |-> Unsaved,
                    appliedDesired |-> Absent, appliedManaged |-> Absent]
        /\ wish = loc
  BY DEF NodeInit
<1> DEFINE flags == [ch \in Channel |-> IF ch = "slack" THEN slack ELSE loc]
<1>2. flags \in [Channel -> Flag] /\ Unsaved \in [Channel -> Flag] /\ flags["local"] = loc
  BY DEF Flag, Unsaved, Channel
<1>3. child = [spec |-> spec, flags |-> flags, disabled |-> FALSE, saved |-> Unsaved,
               appliedDesired |-> Absent, appliedManaged |-> Absent]
  BY <1>1
<1> HIDE DEF flags
<1>4. child \in Child /\ child.flags["local"] = wish /\ ~child.disabled
      /\ child.appliedDesired = Absent /\ child.appliedManaged = Absent
  BY <1>1, <1>2, <1>3 DEF Child, Applicable
<1> QED
  BY <1>4, NodeFacts DEF NodeInit, NodeInv, NodeTypes, OperationSound, AppliedSound, HasApplied, Busy,
                         NodeHonest, OwnersFlag

(* What the parent concludes of a child is so until something else touches *)
(* it, whatever times out, lands late, is edited by the owner or changes   *)
(* in the registry; disabling switches every channel off, and a local      *)
(* channel gets its owner's flag back (inspect, disable, childApplyCommand,*)
(* setChannelIngress).                                                     *)
THEOREM VerdictsHonest == NodeSpec => []NodeHonest
<1>1. NodeInit => NodeInv
  BY NodeInit_Inv
<1>2. NodeInv /\ [NodeNext]_nodeVars => NodeInv'
  BY NodeInductive
<1>3. NodeInv => NodeHonest
  BY DEF NodeInv
<1> QED
  BY <1>1, <1>2, <1>3, PTL DEF NodeSpec

=============================================================================
