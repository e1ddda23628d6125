------------------------ MODULE CoordinatorDirectory ------------------------
(***************************************************************************)
(* The minute's sweep over the claws that have something to clean up,      *)
(* AwsCoordinatorDirectory.cleanupSweep of aws/postgres-coordinator.ts:    *)
(* pages of claws by id, each claw swept by its coordinator.  What a sweep *)
(* of one claw does is in TurnCoordinator.                                 *)
(***************************************************************************)
EXTENDS Integers, FiniteSets

CONSTANTS LastClaw,  \* claw ids are 1 .. LastClaw, as they sort
          PageLimit  \* limit

ASSUME DirectoryAssumption == LastClaw \in Nat /\ PageLimit \in Nat \ {0}

Claws == 1 .. LastClaw
FirstCursor == 0

VARIABLES
  due,     \* the claws the query would find
  sweep,   \* the sweep under way
  owed,    \* ghost: claws due ever since the sweep began that it has not swept
  outcome  \* ghost: of the last sweep

directoryVars == <<due, sweep, owed, outcome>>

NoSweep == [on |-> FALSE, queried |-> FALSE, cursor |-> FirstCursor, pages |-> 0, page |-> {},
            short |-> FALSE]

DirectoryInit ==
  /\ due = {} /\ sweep = NoSweep /\ owed = {} /\ outcome = "none"

(* Turns are accepted, leases run out; a claw's own calls settle others. *)
DueChanges(c) ==
  /\ due' \in {due \cup {c}, due \ {c}} /\ due' # due
  /\ owed' = owed \cap due'
  /\ UNCHANGED <<sweep, outcome>>

(* runCoordinatorSweep: not while one runs. *)
SweepBegins ==
  /\ ~sweep.on /\ sweep' = [NoSweep EXCEPT !.on = TRUE]
  /\ owed' = due /\ outcome' = "none" /\ UNCHANGED due

(* Mutant: the pages are counted off what is left. *)
RowsByOffset == {c \in due : Cardinality({d \in due : d < c}) >= sweep.pages * PageLimit}

RowsLeft == {c \in due : c > sweep.cursor}

(* LIMIT rows, in the order of the ids. *)
FirstPage(rows) == {c \in rows : Cardinality({d \in rows : d < c}) < PageLimit}

QueryPage ==
  /\ sweep.on /\ ~sweep.queried
  /\ LET page == FirstPage(RowsLeft)
     IN \E cursor \in IF page = {} THEN {sweep.cursor} ELSE {c \in page : \A d \in page : d <= c} :
          sweep' = [sweep EXCEPT !.queried = TRUE, !.page = page, !.pages = @ + 1,
                                 !.cursor = cursor, !.short = Cardinality(page) < PageLimit]
  /\ UNCHANGED <<due, owed, outcome>>

(* The claw may be due again at once; its turns that wait stay so. *)
SweepClaw ==
  /\ \E c \in sweep.page :
       /\ \A d \in sweep.page : c <= d
       /\ sweep' = [sweep EXCEPT !.page = @ \ {c}]
       /\ due' \in {due, due \ {c}} /\ owed' = owed \ {c}
  /\ UNCHANGED outcome

PageSwept ==
  /\ sweep.queried /\ sweep.page = {}
  /\ IF sweep.short THEN sweep' = NoSweep /\ outcome' = "done"
     ELSE sweep' = [sweep EXCEPT !.queried = FALSE] /\ UNCHANGED outcome
  /\ UNCHANGED <<due, owed>>

(* A claw's sweep, or the query, rejects: the rest waits for the next one. *)
SweepFails ==
  /\ sweep.on /\ sweep' = NoSweep /\ outcome' = "failed" /\ UNCHANGED <<due, owed>>

DirectoryNext ==
  \/ \E c \in Claws : DueChanges(c)
  \/ SweepBegins \/ QueryPage \/ SweepClaw \/ PageSwept \/ SweepFails

DirectorySpec == DirectoryInit /\ [][DirectoryNext]_directoryVars

----------------------------------------------------------------------------
(* A sweep that does not fail has swept every claw that was due all along,  *)
(* though claws come and go between its pages (cleanupSweep of the          *)
(* directory).                                                              *)
SweepComplete == outcome = "done" => owed = {}

=============================================================================
