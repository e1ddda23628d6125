--------------------------- MODULE NodeRetirement ---------------------------
(***************************************************************************)
(* The evidence a removal asks of the parent (src/node-control.ts): that   *)
(* no agent run of the child is active, read page by page off its list of  *)
(* sessions, and at the end that the child's node is neither paired with   *)
(* the parent nor asks to be.  The stages that ask are in FleetReconciler. *)
(***************************************************************************)
EXTENDS Integers, Sequences, FiniteSets

CONSTANTS Session, Request,
          PageSize, MaxPages, \* pageSize, maxPages
          MaxMoves            \* bound: sessions that come or go, pairings that appear

ASSUME RetirementAssumption ==
  IsFiniteSet(Session) /\ PageSize \in Nat \ {0} /\ {MaxPages, MaxMoves} \subseteq Nat

VARIABLES
  sessions, \* the child's list, most recent first
  busy,     \* the sessions with an active run
  scan,     \* probeActiveChildRuns
  node,     \* what the parent's gateway knows of the node
  revoking, \* revokePairing
  moved,    \* ghost: the list changed, or a run began, since the scan did
  returned, \* ghost: the node asked or was paired since the last listing
  moves

retirementVars == <<sessions, busy, scan, node, revoking, moved, returned, moves>>

NoScan == [at |-> "idle", page |-> 0, offset |-> 0, active |-> 0]
NotRevoking == [at |-> "idle", reject |-> {}, remove |-> FALSE]

RetirementInit ==
  /\ \E list \in {<<>>} \cup [1 .. Cardinality(Session) -> Session] :
       /\ sessions = list /\ \A i, j \in DOMAIN list : list[i] = list[j] => i = j
       /\ busy \in SUBSET {list[i] : i \in DOMAIN list}
  /\ scan = NoScan
  /\ node = [paired |-> FALSE, pending |-> {}, own |-> TRUE] /\ revoking = NotRevoking
  /\ moved = FALSE /\ returned = FALSE /\ moves = 0

Moves == moves < MaxMoves /\ moves' = moves + 1

----------------------------------------------------------------------------
(* The scan of the sessions. *)

DrainBegins ==
  /\ scan.at \in {"idle", "drained"} /\ scan' = [NoScan EXCEPT !.at = "reading"] /\ moved' = FALSE
  /\ UNCHANGED <<sessions, busy, node, revoking, returned, moves>>

Rows(offset) ==
  LET last == IF offset + PageSize < Len(sessions) THEN offset + PageSize ELSE Len(sessions)
  IN SubSeq(sessions, offset + 1, last)

(* Mutant: the first page is the last. *)
OnePage(offset, rows, total) == TRUE

(* The list says how many sessions there are, or a page is not full. *)
LastPage(offset, rows, total) ==
  IF total THEN offset + Len(rows) >= Len(sessions) ELSE Len(rows) < PageSize

(* A page is read; one that is empty before the end, or one too many, is    *)
(* an error.                                                                *)
ReadPage ==
  /\ scan.at = "reading"
  /\ \E total \in BOOLEAN :
       LET rows == Rows(scan.offset)
           active == scan.active + Cardinality({i \in DOMAIN rows : rows[i] \in busy})
       IN scan' = IF LastPage(scan.offset, rows, total)
                  THEN [NoScan EXCEPT !.at = IF active = 0 THEN "drained" ELSE "idle"]
                  ELSE IF rows = <<>> \/ scan.page + 1 = MaxPages THEN NoScan
                  ELSE [scan EXCEPT !.page = @ + 1, !.offset = @ + Len(rows), !.active = active]
  /\ UNCHANGED <<sessions, busy, node, revoking, moved, returned, moves>>

ScanFails ==
  /\ scan.at = "reading" /\ scan' = NoScan
  /\ UNCHANGED <<sessions, busy, node, revoking, moved, returned, moves>>

(* Runs end; with the ingress off, others begin for what was queued.        *)
RunEnds(s) ==
  /\ s \in busy /\ busy' = busy \ {s}
  /\ UNCHANGED <<sessions, scan, node, revoking, moved, returned, moves>>
SessionsWithout(i) == [j \in 1 .. Len(sessions) - 1 |-> sessions[IF j < i THEN j ELSE j + 1]]
SessionsMove ==
  /\ Moves /\ moved' = TRUE
  /\ \E i \in DOMAIN sessions :
       LET s == sessions[i]
           others == SessionsWithout(i)
       IN \/ sessions' = <<s>> \o others /\ busy' = busy \cup {s}
          \/ sessions' = others /\ busy' = busy \ {s}
  /\ UNCHANGED <<scan, node, revoking, returned>>

----------------------------------------------------------------------------
(* The pairing. *)

RevokeBegins ==
  /\ revoking.at \in {"idle", "absent"}
  /\ revoking' = [NotRevoking EXCEPT !.at = "listing"]
  /\ UNCHANGED <<sessions, busy, scan, node, moved, returned, moves>>

Known == node.paired \/ node.pending # {}

(* An entry of the id with another role or name is not touched. *)
ListPairings ==
  /\ revoking.at = "listing"
  /\ revoking' = IF Known /\ ~node.own THEN NotRevoking
                 ELSE [at |-> "revoking", reject |-> node.pending, remove |-> node.paired]
  /\ UNCHANGED <<sessions, busy, scan, node, moved, returned, moves>>

(* One that is gone cannot be rejected, nor removed: the operation fails. *)
RejectPending ==
  /\ revoking.at = "revoking"
  /\ \E r \in revoking.reject :
       IF r \in node.pending
       THEN /\ node' = [node EXCEPT !.pending = @ \ {r}]
            /\ revoking' \in {[revoking EXCEPT !.reject = @ \ {r}], NotRevoking}
       ELSE revoking' = NotRevoking /\ UNCHANGED node
  /\ UNCHANGED <<sessions, busy, scan, moved, returned, moves>>

RemovePaired ==
  /\ revoking.at = "revoking" /\ revoking.reject = {} /\ revoking.remove
  /\ IF node.paired
     THEN /\ node' = [node EXCEPT !.paired = FALSE]
          /\ revoking' \in {[revoking EXCEPT !.remove = FALSE], NotRevoking}
     ELSE revoking' = NotRevoking /\ UNCHANGED node
  /\ UNCHANGED <<sessions, busy, scan, moved, returned, moves>>

AbsentNow == ~Known

ConfirmAbsent ==
  /\ revoking.at = "revoking" /\ revoking.reject = {} /\ ~revoking.remove
  /\ revoking' = [NotRevoking EXCEPT !.at = IF AbsentNow THEN "absent" ELSE "idle"]
  /\ returned' = FALSE
  /\ UNCHANGED <<sessions, busy, scan, node, moved, moves>>

RevokeFails ==
  /\ revoking.at \in {"listing", "revoking"} /\ revoking' = NotRevoking
  /\ UNCHANGED <<sessions, busy, scan, node, moved, returned, moves>>

(* The node asks, or another device under its id; an operator approves. *)
AsksToPair(r) ==
  /\ Moves /\ r \notin node.pending
  /\ \E own \in BOOLEAN : /\ Known => own = node.own
                          /\ node' = [node EXCEPT !.pending = @ \cup {r}, !.own = own]
  /\ returned' = TRUE
  /\ UNCHANGED <<sessions, busy, scan, revoking, moved>>
IsPaired(r) ==
  /\ r \in node.pending /\ node' = [node EXCEPT !.paired = TRUE, !.pending = @ \ {r}]
  /\ UNCHANGED <<sessions, busy, scan, revoking, moved, returned, moves>>

RetirementNext ==
  \/ DrainBegins \/ ReadPage \/ ScanFails \/ SessionsMove
  \/ \E s \in Session : RunEnds(s)
  \/ RevokeBegins \/ ListPairings \/ RejectPending \/ RemovePaired \/ ConfirmAbsent \/ RevokeFails
  \/ \E r \in Request : AsksToPair(r) \/ IsPaired(r)

RetirementSpec == RetirementInit /\ [][RetirementNext]_retirementVars

----------------------------------------------------------------------------
(* A child reported drained has no active run, however many pages its       *)
(* sessions take, unless the list moved under the scan or a run began       *)
(* (probeActiveChildRuns); and a pairing reported absent is, whatever was   *)
(* approved meanwhile, until the node asks again (revokePairing).           *)
RetirementHonest ==
  /\ scan.at = "drained" /\ ~moved => busy = {}
  /\ revoking.at = "absent" => ~Known \/ returned

=============================================================================
