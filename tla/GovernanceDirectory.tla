------------------------ MODULE GovernanceDirectory ------------------------
(***************************************************************************)
(* Who is who: the principals, personas and skills of the control plane    *)
(* (src/governance.ts, src/governance-registry.ts), the identity an OIDC   *)
(* login or a Slack message is given (worker/access.ts, worker/slack.ts,   *)
(* control-plane-service.ts), and the Slack turns and decisions that rest  *)
(* on it.  Each operation is one transaction of the registry.              *)
(*                                                                         *)
(* A principal is found by its subject: "email:..." when an e-mail address *)
(* is known, "slack:<workspace>:<user>" otherwise.  Slack's profile lookup *)
(* may fail for any message, which is then taken without the address.      *)
(***************************************************************************)
EXTENDS Integers, FiniteSets

CONSTANTS
  Workspace, User, \* an account is a user id in a workspace
  Email, Department, Persona, Skill, Claw,
  Nobody,
  MaxEdits         \* bound: creations and edits by administrators and claws

Account == [workspace : Workspace, user : User]
Subject == Email \cup Account

ASSUME DirectoryAssumption ==
  /\ Nobody \notin Subject \cup Claw /\ Email \cap Account = {} /\ MaxEdits \in Nat

VARIABLES
  emails,     \* the address of each Slack account, if it has one
  principals, \* by subject
  personas, skills,
  edits,
  turns,      \* Slack turns: the account that asked, and the requester of the turn token
  decisions,  \* ghost: who asked and who decided, for each accepted decision
  granted     \* ghost: the authority the last OIDC identity gave a subject

directoryVars == <<emails, principals, personas, skills, edits, turns, decisions, granted>>

Authority == [admin : BOOLEAN, departments : SUBSET Department]
NoAuthority == [admin |-> FALSE, departments |-> {}]
NoPrincipal == [source |-> "none", kind |-> "human", authority |-> NoAuthority]
NoPersona == [claw |-> Nobody, owner |-> Nobody, kind |-> "personal", mode |-> "invoker",
              service |-> Nobody, skills |-> {}, bound |-> FALSE, enabled |-> FALSE]
NoSkill == [status |-> "none", departments |-> {}]

DirectoryInit ==
  /\ emails \in [Account -> Email \cup {Nobody}]
  /\ principals = [s \in Subject |-> NoPrincipal]
  /\ personas = [p \in Persona |-> NoPersona] /\ skills = [k \in Skill |-> NoSkill]
  /\ edits = 0 /\ turns = {} /\ decisions = {} /\ granted = [s \in Subject |-> Nobody]

Known(s) == s \in Subject /\ principals[s].source # "none"
Exists(p) == personas[p].claw # Nobody

Edits == edits < MaxEdits /\ edits' = edits + 1

----------------------------------------------------------------------------
(* Principals. *)

Grants(s, source, authority) ==
  granted' = IF source = "oidc" THEN [granted EXCEPT ![s] = authority] ELSE granted

(* createPrincipal: by an administrator, for a subject nobody has. *)
CreatePrincipal(s, kind, source, authority) ==
  /\ ~Known(s) /\ Edits
  /\ principals' = [principals EXCEPT ![s] = [source |-> source, kind |-> kind, authority |-> authority]]
  /\ Grants(s, source, authority)
  /\ UNCHANGED <<emails, personas, skills, turns, decisions>>

(* Mutant: the last identity seen is believed, whoever asserts it. *)
LastIdentity(s, source, authority) ==
  [principals EXCEPT ![s].source = source, ![s].authority = authority]

(* ensureExternalPrincipal: only an OIDC identity changes what one gave. *)
External(s, source, authority) ==
  IF principals[s].source = "oidc" /\ source # "oidc" THEN principals
  ELSE [principals EXCEPT ![s].source = source, ![s].authority = authority]

(* resolveAccessIdentity. *)
LoginWithOidc(s, authority) ==
  /\ principals' = External(s, "oidc", authority) /\ Grants(s, "oidc", authority)
  /\ UNCHANGED <<emails, personas, skills, edits, turns, decisions>>

----------------------------------------------------------------------------
(* Skills and personas. *)

CreateSkill(k, departments) ==
  /\ skills[k].status = "none" /\ Edits
  /\ skills' = [skills EXCEPT ![k] = [status |-> "draft", departments |-> departments]]
  /\ UNCHANGED <<emails, principals, personas, turns, decisions, granted>>

ApproveSkill(k) ==
  /\ skills[k].status = "draft"
  /\ skills' = [skills EXCEPT ![k].status = "approved"]
  /\ UNCHANGED <<emails, principals, personas, edits, turns, decisions, granted>>

(* Mutant: the skills and the service actor of an edit are not looked up. *)
OwnerOnly(r) == Known(r.owner) /\ (r.kind = "profile" => r.mode = "invoker")

(* normalizeActorPolicy: only an assistant that is not a profile may act   *)
(* as a service, and no other names one.                                   *)
ActorPolicy(r) ==
  /\ r.kind = "profile" => r.mode = "invoker"
  /\ r.mode = "invoker" => r.service = Nobody

(* requirePrincipal and #validatePersona. *)
Valid(r) ==
  /\ Known(r.owner) /\ ActorPolicy(r)
  /\ r.mode # "invoker" => Known(r.service) /\ principals[r.service].kind = "service"
  /\ \A k \in r.skills : skills[k].status = "approved"

(* createPersona and updatePersona; the claw of a persona never changes. *)
WritePersona(p, r) ==
  /\ Edits /\ Valid(r)
  /\ IF Exists(p) THEN r.claw = personas[p].claw ELSE r.enabled
  /\ personas' = [personas EXCEPT ![p] = r]
  /\ UNCHANGED <<emails, principals, skills, turns, decisions, granted>>

(* ensurePersonaForClaw, after a claw was created and at every snapshot. *)
EnsurePersonaForClaw(p, c, owner) ==
  /\ ~Exists(p) /\ Edits
  /\ principals' = IF Known(owner) THEN principals ELSE [principals EXCEPT ![owner].source = "manual"]
  /\ personas' = IF \E q \in Persona : personas[q].claw = c THEN personas
                 ELSE [personas EXCEPT ![p] = [NoPersona EXCEPT !.claw = c, !.owner = owner, !.enabled = TRUE]]
  /\ UNCHANGED <<emails, skills, turns, decisions, granted>>

(* buildManagedAgentSpec: the approved skills, unless one is not, or its   *)
(* departments are not the owner's.                                        *)
Refused(p) ==
  {k \in personas[p].skills :
     \/ skills[k].status # "approved"
     \/ /\ skills[k].departments # {}
        /\ skills[k].departments \cap principals[personas[p].owner].authority.departments = {}}

----------------------------------------------------------------------------
(* Slack. *)

SubjectOf(a, email) == IF email # Nobody THEN email ELSE a

(* slackUser: the lookup may fail. *)
Addresses(a) == {emails[a], Nobody}

(* selectSlackPersona, among the personas bound to the channel. *)
Serving == {p \in Persona : Exists(p) /\ personas[p].enabled /\ personas[p].bound}

(* routeSlackTurn: the principal is made or refreshed even when no persona *)
(* serves the channel.                                                     *)
RouteSlackTurn(a) ==
  /\ \E email \in Addresses(a) :
       LET s == SubjectOf(a, email) IN
       /\ principals' = External(s, "slack", NoAuthority)
       /\ turns' = IF Serving = {} THEN turns ELSE turns \cup {[asker |-> a, requester |-> s]}
  /\ UNCHANGED <<emails, personas, skills, edits, decisions, granted>>

(* decideSlackConfirmation, for a confirmation of turn t: decideConfirmation *)
(* accepts its requester alone.                                              *)
DecideFromSlack(a, t) ==
  /\ \E email \in Addresses(a) :
       LET s == SubjectOf(a, email) IN Known(s) /\ s = t.requester
  /\ decisions' = decisions \cup {[asker |-> t.asker, decider |-> a]}
  /\ UNCHANGED <<emails, principals, personas, skills, edits, turns, granted>>

DirectoryNext ==
  \/ \E s \in Subject, kind \in {"human", "service"}, source \in {"oidc", "slack", "manual"},
        authority \in Authority : CreatePrincipal(s, kind, source, authority)
  \/ \E s \in Email, authority \in Authority : LoginWithOidc(s, authority)
  \/ \E k \in Skill : ApproveSkill(k) \/ \E departments \in SUBSET Department : CreateSkill(k, departments)
  \/ \E p \in Persona, r \in [claw : Claw, owner : Subject, kind : {"personal", "profile"},
                              mode : {"invoker", "service"}, service : Subject \cup {Nobody},
                              skills : SUBSET Skill, bound : BOOLEAN, enabled : BOOLEAN] : WritePersona(p, r)
  \/ \E p \in Persona, c \in Claw, owner \in Subject : EnsurePersonaForClaw(p, c, owner)
  \/ \E a \in Account : RouteSlackTurn(a) \/ \E t \in turns : DecideFromSlack(a, t)

DirectorySpec == DirectoryInit /\ [][DirectoryNext]_directoryVars

----------------------------------------------------------------------------
(* Types, a part of IdentityHolds. *)
DirectoryTypeOK ==
  /\ emails \in [Account -> Email \cup {Nobody}]
  /\ principals \in [Subject -> [source : {"none", "oidc", "slack", "manual"}, kind : {"human", "service"},
                                 authority : Authority]]
  /\ personas \in [Persona -> [claw : Claw \cup {Nobody}, owner : Subject \cup {Nobody},
       kind : {"personal", "profile"}, mode : {"invoker", "service"}, service : Subject \cup {Nobody},
       skills : SUBSET Skill, bound : BOOLEAN, enabled : BOOLEAN]]
  /\ skills \in [Skill -> [status : {"none", "draft", "approved"}, departments : SUBSET Department]]
  /\ edits \in 0..MaxEdits /\ turns \subseteq [asker : Account, requester : Subject]
  /\ decisions \subseteq [asker : Account, decider : Account]
  /\ granted \in [Subject -> Authority \cup {Nobody}]

(* The roles and departments an OIDC login gave outlive every Slack        *)
(* message and every claw of that person, until the next login             *)
(* (ensureExternalPrincipal); and a confirmation is decided only from an   *)
(* account of the person who asked, whether or not Slack's profile lookup  *)
(* answered at either time (routeSlackTurn, decideSlackConfirmation).      *)
IdentityHolds ==
  /\ DirectoryTypeOK
  /\ \A s \in Subject : granted[s] # Nobody =>
       principals[s].source = "oidc" /\ principals[s].authority = granted[s]
  /\ \A d \in decisions : \/ d.asker = d.decider
                          \/ emails[d.asker] = emails[d.decider] /\ emails[d.asker] # Nobody

(* A persona stays usable as its principals and skills change: its owner   *)
(* exists, its service actor is a service, a profile acts for the          *)
(* requester, and its managed spec is refused for one reason alone, that   *)
(* the owner has left a skill's departments (#validatePersona,             *)
(* buildManagedAgentSpec).                                                 *)
PersonasServe ==
  \A p \in {q \in Persona : Exists(q)} :
    /\ Known(personas[p].owner) /\ (personas[p].kind = "profile" => personas[p].mode = "invoker")
    /\ personas[p].mode # "invoker" => /\ Known(personas[p].service)
                                       /\ principals[personas[p].service].kind = "service"
    /\ \A k \in Refused(p) : skills[k].status = "approved"

=============================================================================
