-------------------------- MODULE MCGovernedAccess --------------------------
(***************************************************************************)
(* A small instance of the modules of access.  They share no state in the  *)
(* model, so that one of them moves in a behaviour and the others rest;     *)
(* `part' says which, and bounds it to the cases that matter to it.        *)
(***************************************************************************)
EXTENDS GovernedActions, GovernanceDirectory, TLC

CONSTANTS read, comment1, comment2, alice, bob, \* actions and requesters by name
          wa, e1                                \* a workspace and an address

VARIABLE part

Busy == {h \in Handler : handlers[h].at # "idle"}
NoReading == \A h \in Handler : handlers[h].act # read /\ handlers[h].at # "revoke"
NoOAuth == \A s \in OAuthState : oauthStates[s].status = "absent"
AsInvoker == persona = [enabled |-> TRUE, mode |-> "invoker"]
Addressed == emails = [a \in Account |-> IF a.workspace = wa THEN e1 ELSE Nobody]

(* Two clients race on confirmed actions. *)
Confirming == AsInvoker /\ NoReading /\ NoOAuth /\ \A k \in Connection : connections[k].owner = alice

(* An account is connected, used and revoked. *)
Connecting ==
  /\ AsInvoker
  /\ \A h \in Handler : handlers[h].act \in {read, None} /\ handlers[h].requester # bob
  /\ \A s \in OAuthState : oauthStates[s].owner # bob
  /\ \A k \in Connection : connections[k].owner # bob

(* The persona's actor policy changes between the steps of one request. *)
Governing ==
  /\ NoReading /\ NoOAuth /\ Cardinality(Busy) <= 1
  /\ Cardinality({c \in Confirmation : confirmations[c].status # "absent"}) <= 1

(* Logins, Slack messages and claws assert identities. *)
Identifying ==
  /\ edits <= 2 /\ (Addressed \/ \A a \in Account : emails[a] = e1)
  /\ \A k \in Skill : skills[k].status = "none"
  /\ \A s \in Subject : principals[s].kind = "human"
  /\ \A p \in Persona : personas[p].kind = "personal" /\ personas[p].owner \in Email \cup {Nobody}

(* Personas and skills are edited as their owner's departments change. *)
Staffing ==
  /\ Addressed /\ turns = {}
  /\ \A s \in Subject : ~principals[s].authority.admin /\ principals[s].source # "slack"
  /\ \A a \in Account : a.workspace = wa => ~Known(a)

ActionParts == {"confirming", "connecting", "governing"}
DirectoryParts == {"identifying", "staffing"}

InPart ==
  /\ part \notin ActionParts \/ emails = [a \in Account |-> Nobody]
  /\ part \in ActionParts \/ (AsInvoker /\ \A k \in Connection : connections[k].status = "absent")
  /\ CASE part = "confirming" -> Confirming
       [] part = "connecting" -> Connecting
       [] part = "governing" -> Governing
       [] part = "identifying" -> Identifying
       [] part = "staffing" -> Staffing

AccessInit ==
  /\ ActionInit /\ DirectoryInit
  /\ part \in ActionParts \cup DirectoryParts /\ InPart

AccessNext ==
  /\ UNCHANGED part
  /\ \/ part \in ActionParts /\ ActionNext /\ UNCHANGED directoryVars
     \/ part \in DirectoryParts /\ DirectoryNext /\ UNCHANGED actionVars
  /\ InPart'

AccessSpec == AccessInit /\ [][AccessNext]_<<actionVars, directoryVars, part>>

Symmetry == UNION {Permutations(S) : S \in {Handler, {comment1, comment2}, Invocation, Confirmation}}

=============================================================================
