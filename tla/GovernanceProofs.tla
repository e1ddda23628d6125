-------------------------- MODULE GovernanceProofs --------------------------
(***************************************************************************)
(* What GovernanceDirectory and GovernedActions promise, for any accounts, *)
(* personas, skills, requests under way, confirmations and invocations,    *)
(* however many edits and failures.                                        *)
(***************************************************************************)
EXTENDS GovernanceDirectory, GovernedActions, FiniteSetTheorems, FunctionTheorems, TLAPS

----------------------------------------------------------------------------
(* Who is who. *)

(* What the last OIDC login of a subject gave it is what it has.           *)
GrantsKept ==
  \A s \in Subject : granted[s] # Nobody =>
    principals[s].source = "oidc" /\ principals[s].authority = granted[s]

(* The requester of a turn is a subject of the account that asked.         *)
TurnsOwned ==
  \A t \in turns : \/ t.requester = t.asker
                   \/ t.requester = emails[t.asker] /\ emails[t.asker] # Nobody

(* The account that decided belongs to the person who asked.               *)
DecisionsOwned ==
  \A d \in decisions : \/ d.asker = d.decider
                       \/ emails[d.asker] = emails[d.decider] /\ emails[d.asker] # Nobody

(* What a persona was validated for still holds.  PersonasServe looks at   *)
(* the refused skills alone; it is every skill that stays approved.        *)
PersonaSound(p) ==
  /\ Known(personas[p].owner) /\ (personas[p].kind = "profile" => personas[p].mode = "invoker")
  /\ personas[p].mode # "invoker" => /\ Known(personas[p].service)
                                     /\ principals[personas[p].service].kind = "service"
  /\ \A k \in personas[p].skills : skills[k].status = "approved"

PersonasSound == \A p \in Persona : Exists(p) => PersonaSound(p)

DirectoryInv == DirectoryTypeOK /\ GrantsKept /\ TurnsOwned /\ DecisionsOwned /\ PersonasSound

(* A change of principals that forgets nobody and keeps their kinds leaves *)
(* every persona sound.                                                    *)
LEMMA PrincipalsGrow ==
  ASSUME PersonasSound, UNCHANGED <<personas, skills>>,
         \A s \in Subject : Known(s) => Known(s)' /\ principals'[s].kind = principals[s].kind
  PROVE  PersonasSound'
BY DEF PersonasSound, PersonaSound, Exists, Known

(* One more edit is within the bound. *)
LEMMA EditTyped ==
  ASSUME DirectoryTypeOK, Edits
  PROVE  edits' \in 0..MaxEdits
BY DirectoryAssumption DEF DirectoryTypeOK, Edits

(* What an identity may change: its subject is known afterwards, nobody's  *)
(* kind changes, and an OIDC subject keeps its authority unless the        *)
(* identity is an OIDC one.                                                *)
LEMMA ExternalIdentity ==
  ASSUME DirectoryTypeOK, NEW s \in Subject, NEW source \in {"oidc", "slack"},
         NEW authority \in Authority, principals' = External(s, source, authority)
  PROVE  /\ principals' \in [Subject -> [source : {"none", "oidc", "slack", "manual"},
                                         kind : {"human", "service"}, authority : Authority]]
         /\ \A u \in Subject : Known(u) => Known(u)' /\ principals'[u].kind = principals[u].kind
         /\ \A u \in Subject : u # s => principals'[u] = principals[u]
         /\ source = "oidc" => principals'[s].source = "oidc" /\ principals'[s].authority = authority
         /\ source # "oidc" /\ principals[s].source = "oidc" => principals' = principals
<1> DEFINE T == [source : {"none", "oidc", "slack", "manual"}, kind : {"human", "service"}, authority : Authority]
           r == [principals[s] EXCEPT !.source = source, !.authority = authority]
<1>1. principals \in [Subject -> T] BY DEF DirectoryTypeOK
<1>2. principals[s] \in T BY <1>1
<1>3. /\ r \in T /\ r.source = source /\ r.authority = authority /\ r.kind = principals[s].kind
  BY <1>2
<1>4. principals' = principals \/ principals' = [principals EXCEPT ![s] = r]
  BY <1>2 DEF External
<1>5. source = "oidc" => principals' = [principals EXCEPT ![s] = r]
  BY <1>2 DEF External
<1>6. source # "oidc" /\ principals[s].source = "oidc" => principals' = principals
  BY DEF External
<1> HIDE DEF T, r
<1>7. principals' \in [Subject -> T] /\ \A u \in Subject : u # s => principals'[u] = principals[u]
  BY <1>1, <1>3, <1>4
<1>8. principals'[s] \in {principals[s], r} /\ (source = "oidc" => principals'[s] = r)
  BY <1>1, <1>4, <1>5
<1>9. \A u \in Subject : Known(u) => Known(u)' /\ principals'[u].kind = principals[u].kind
  BY <1>3, <1>7, <1>8 DEF Known
<1>10. source = "oidc" => principals'[s].source = "oidc" /\ principals'[s].authority = authority
  BY <1>3, <1>8
<1> QED BY <1>6, <1>7, <1>9, <1>10 DEF T

(* The invariant holds of a new directory. *)
LEMMA DirectoryStarts == ASSUME DirectoryInit PROVE DirectoryInv
<1>1. DirectoryTypeOK
  BY DirectoryAssumption DEF DirectoryInit, DirectoryTypeOK, NoPrincipal, NoPersona, NoSkill, NoAuthority, Authority
<1>2. GrantsKept BY DEF DirectoryInit, GrantsKept
<1>3. TurnsOwned /\ DecisionsOwned BY DEF DirectoryInit, TurnsOwned, DecisionsOwned
<1>4. PersonasSound BY DEF DirectoryInit, PersonasSound, Exists, NoPersona
<1> QED BY <1>1, <1>2, <1>3, <1>4 DEF DirectoryInv

(* An administrator's createPrincipal forgets nobody. *)
LEMMA CreatePrincipalStep ==
  ASSUME DirectoryInv, NEW s \in Subject, NEW kind \in {"human", "service"},
         NEW source \in {"oidc", "slack", "manual"}, NEW authority \in Authority,
         CreatePrincipal(s, kind, source, authority)
  PROVE  DirectoryInv'
<1> USE DEF DirectoryInv
<1>1. DirectoryTypeOK'
  BY EditTyped DEF CreatePrincipal, DirectoryTypeOK, Grants
<1>2. GrantsKept'
  BY DirectoryAssumption DEF CreatePrincipal, GrantsKept, Grants, DirectoryTypeOK, Known
<1>3. TurnsOwned' /\ DecisionsOwned' BY DEF CreatePrincipal, TurnsOwned, DecisionsOwned
<1>4. PersonasSound'
  BY PrincipalsGrow DEF CreatePrincipal, DirectoryTypeOK, Known
<1> QED BY <1>1, <1>2, <1>3, <1>4

(* A login gives its subject what the provider says of it, and no other. *)
LEMMA LoginWithOidcStep ==
  ASSUME DirectoryInv, NEW s \in Email, NEW authority \in Authority, LoginWithOidc(s, authority)
  PROVE  DirectoryInv'
<1> USE DEF DirectoryInv
<1>1. s \in Subject /\ principals' = External(s, "oidc", authority) BY DEF Subject, LoginWithOidc
<1>2. DirectoryTypeOK'
  BY <1>1, ExternalIdentity DEF LoginWithOidc, DirectoryTypeOK, Grants
<1>3. GrantsKept'
  BY <1>1, ExternalIdentity DEF LoginWithOidc, GrantsKept, Grants, DirectoryTypeOK
<1>4. TurnsOwned' /\ DecisionsOwned' BY DEF LoginWithOidc, TurnsOwned, DecisionsOwned
<1>5. PersonasSound'
  BY <1>1, ExternalIdentity, PrincipalsGrow DEF LoginWithOidc
<1> QED BY <1>2, <1>3, <1>4, <1>5

(* Skills are made and approved; an approved one stays so. *)
LEMMA SkillStep ==
  ASSUME DirectoryInv, NEW k \in Skill,
         ApproveSkill(k) \/ \E departments \in SUBSET Department : CreateSkill(k, departments)
  PROVE  DirectoryInv'
<1> USE DEF DirectoryInv
<1>1. DirectoryTypeOK'
  BY EditTyped DEF ApproveSkill, CreateSkill, DirectoryTypeOK
<1>2. GrantsKept' /\ TurnsOwned' /\ DecisionsOwned'
  BY DEF ApproveSkill, CreateSkill, GrantsKept, TurnsOwned, DecisionsOwned
<1>3. \A q \in Skill : skills[q].status = "approved" => skills'[q].status = "approved"
  BY DEF ApproveSkill, CreateSkill, DirectoryTypeOK
<1>4. \A p \in Persona : personas[p].skills \subseteq Skill
  BY DEF DirectoryTypeOK
<1>5. UNCHANGED <<principals, personas>> BY DEF ApproveSkill, CreateSkill
<1>6. PersonasSound'
  BY <1>3, <1>4, <1>5 DEF PersonasSound, PersonaSound, Exists, Known
<1> QED BY <1>1, <1>2, <1>6

(* A persona is saved only when its people and skills will serve it. *)
LEMMA WritePersonaStep ==
  ASSUME DirectoryInv, NEW p \in Persona,
         NEW r \in [claw : Claw, owner : Subject, kind : {"personal", "profile"},
                    mode : {"invoker", "service"}, service : Subject \cup {Nobody},
                    skills : SUBSET Skill, bound : BOOLEAN, enabled : BOOLEAN], WritePersona(p, r)
  PROVE  DirectoryInv'
<1> USE DEF DirectoryInv
<1>1. DirectoryTypeOK'
  BY EditTyped DEF WritePersona, DirectoryTypeOK
<1>2. GrantsKept' /\ TurnsOwned' /\ DecisionsOwned'
  BY DEF WritePersona, GrantsKept, TurnsOwned, DecisionsOwned
<1>3. Valid(r) /\ personas' = [personas EXCEPT ![p] = r] /\ UNCHANGED <<principals, skills>>
  BY DEF WritePersona
<1>4. PersonasSound'
  BY <1>3 DEF PersonasSound, PersonaSound, Exists, Known, Valid, ActorPolicy, DirectoryTypeOK
<1> QED BY <1>1, <1>2, <1>4

(* The persona made for a claw has an owner, and acts as its invoker. *)
LEMMA EnsurePersonaForClawStep ==
  ASSUME DirectoryInv, NEW p \in Persona, NEW c \in Claw, NEW owner \in Subject,
         EnsurePersonaForClaw(p, c, owner)
  PROVE  DirectoryInv'
<1> USE DEF DirectoryInv
<1> DEFINE new == [NoPersona EXCEPT !.claw = c, !.owner = owner, !.enabled = TRUE]
           T == [claw : Claw \cup {Nobody}, owner : Subject \cup {Nobody}, kind : {"personal", "profile"},
                 mode : {"invoker", "service"}, service : Subject \cup {Nobody}, skills : SUBSET Skill,
                 bound : BOOLEAN, enabled : BOOLEAN]
<1>o. personas' = personas \/ personas' = [personas EXCEPT ![p] = new]
  <2>1. CASE \E q \in Persona : personas[q].claw = c BY <2>1 DEF EnsurePersonaForClaw
  <2>2. CASE ~\E q \in Persona : personas[q].claw = c BY <2>2 DEF EnsurePersonaForClaw
  <2> QED BY <2>1, <2>2
<1>t. new \in T BY DEF NoPersona
<1>n. /\ new.owner = owner /\ new.kind = "personal" /\ new.mode = "invoker" /\ new.skills = {}
  BY DEF NoPersona
<1>0. /\ principals' = principals \/ principals' = [principals EXCEPT ![owner].source = "manual"]
      /\ UNCHANGED <<emails, skills, turns, decisions, granted>>
  BY DEF EnsurePersonaForClaw
<1>a. personas' \in [Persona -> T]
  <2>1. personas \in [Persona -> T] BY DEF DirectoryTypeOK
  <2> HIDE DEF new, T
  <2> QED BY <2>1, <1>o, <1>t
<1>b. edits' \in 0..MaxEdits BY EditTyped DEF EnsurePersonaForClaw
<1>1. DirectoryTypeOK'
  <2>1. principals' \in [Subject -> [source : {"none", "oidc", "slack", "manual"},
                                     kind : {"human", "service"}, authority : Authority]]
    BY <1>0 DEF DirectoryTypeOK
  <2> QED BY <1>0, <1>a, <1>b, <2>1 DEF DirectoryTypeOK
<1>2. GrantsKept'
  BY DEF EnsurePersonaForClaw, GrantsKept, Known, DirectoryTypeOK
<1>3. TurnsOwned' /\ DecisionsOwned' BY DEF EnsurePersonaForClaw, TurnsOwned, DecisionsOwned
<1>4. /\ Known(owner)'
      /\ \A s \in Subject : Known(s) => Known(s)' /\ principals'[s].kind = principals[s].kind
  BY DEF EnsurePersonaForClaw, Known, DirectoryTypeOK
<1>5. skills' = skills BY DEF EnsurePersonaForClaw
<1>6. \A q \in Persona : personas'[q] \in {personas[q], new}
  BY <1>o DEF DirectoryTypeOK
<1>7. PersonasSound'
  <2> SUFFICES ASSUME NEW q \in Persona, Exists(q)' PROVE PersonaSound(q)'
    BY DEF PersonasSound
  <2>1. CASE personas'[q] = personas[q]
    BY <1>4, <1>5, <2>1 DEF PersonasSound, PersonaSound, Exists, Known
  <2>2. CASE personas'[q] = new
    <3>1. /\ personas'[q].owner = owner /\ personas'[q].mode = "invoker" /\ personas'[q].skills = {}
      BY <1>n, <2>2
    <3> QED BY <1>4, <3>1 DEF PersonaSound, Known
  <2> QED BY <1>6, <2>1, <2>2
<1> QED BY <1>1, <1>2, <1>3, <1>7

(* A Slack turn is asked in the name of who the account belongs to. *)
LEMMA RouteSlackTurnStep ==
  ASSUME DirectoryInv, NEW a \in Account, RouteSlackTurn(a)
  PROVE  DirectoryInv'
<1> USE DEF DirectoryInv
<1>1. PICK email \in Addresses(a) :
        /\ principals' = External(SubjectOf(a, email), "slack", NoAuthority)
        /\ turns' \subseteq turns \cup {[asker |-> a, requester |-> SubjectOf(a, email)]}
  BY DEF RouteSlackTurn
<1>2. /\ SubjectOf(a, email) \in Subject
      /\ SubjectOf(a, email) = a \/ (SubjectOf(a, email) = emails[a] /\ emails[a] # Nobody)
  BY DEF SubjectOf, Addresses, Subject, DirectoryTypeOK
<1>3. NoAuthority \in Authority BY DEF NoAuthority, Authority
<1>4. DirectoryTypeOK'
  BY <1>1, <1>2, <1>3, ExternalIdentity DEF RouteSlackTurn, DirectoryTypeOK
<1>5. GrantsKept'
  BY <1>1, <1>2, <1>3, ExternalIdentity DEF RouteSlackTurn, GrantsKept
<1>6. TurnsOwned' BY <1>1, <1>2 DEF RouteSlackTurn, TurnsOwned
<1>7. DecisionsOwned' BY DEF RouteSlackTurn, DecisionsOwned
<1>8. PersonasSound'
  BY <1>1, <1>2, <1>3, ExternalIdentity, PrincipalsGrow DEF RouteSlackTurn
<1> QED BY <1>4, <1>5, <1>6, <1>7, <1>8

(* A decision made in Slack is the asker's own. *)
LEMMA DecideFromSlackStep ==
  ASSUME DirectoryInv, NEW a \in Account, NEW t \in turns, DecideFromSlack(a, t)
  PROVE  DirectoryInv'
<1> USE DEF DirectoryInv
<1>1. UNCHANGED <<emails, principals, personas, skills, edits, turns, granted>> BY DEF DecideFromSlack
<1>2. t \in [asker : Account, requester : Subject] BY DEF DirectoryTypeOK
<1>3. PICK email \in Addresses(a) : SubjectOf(a, email) = t.requester BY DEF DecideFromSlack
<1>4. t.requester = a \/ (t.requester = emails[a] /\ emails[a] \in Email)
  BY <1>3 DEF SubjectOf, Addresses, DirectoryTypeOK
<1>5. t.requester = t.asker \/ (t.requester = emails[t.asker] /\ emails[t.asker] \in Email)
  BY <1>2 DEF TurnsOwned, DirectoryTypeOK
<1>6. t.asker = a \/ (emails[t.asker] = emails[a] /\ emails[t.asker] # Nobody)
  BY <1>2, <1>4, <1>5, DirectoryAssumption DEF Subject
<1>7. DecisionsOwned' BY <1>1, <1>6 DEF DecideFromSlack, DecisionsOwned
<1>8. DirectoryTypeOK' BY <1>1, <1>2 DEF DecideFromSlack, DirectoryTypeOK
<1>9. GrantsKept' /\ TurnsOwned' BY <1>1 DEF GrantsKept, TurnsOwned
<1>10. PersonasSound' BY <1>1 DEF PersonasSound, PersonaSound, Exists, Known
<1> QED BY <1>7, <1>8, <1>9, <1>10

(* Every step of the directory keeps its invariant. *)
LEMMA DirectoryStep == ASSUME DirectoryInv, [DirectoryNext]_directoryVars PROVE DirectoryInv'
<1>1. CASE UNCHANGED directoryVars
  BY <1>1 DEF directoryVars, DirectoryInv, DirectoryTypeOK, GrantsKept, TurnsOwned, DecisionsOwned,
              PersonasSound, PersonaSound, Exists, Known
<1> QED
  BY <1>1, CreatePrincipalStep, LoginWithOidcStep, SkillStep, WritePersonaStep,
     EnsurePersonaForClawStep, RouteSlackTurnStep, DecideFromSlackStep DEF DirectoryNext

(* A person's roles outlive every Slack message, and only an account of    *)
(* the person who asked decides (ensureExternalPrincipal,                  *)
(* decideSlackConfirmation).                                               *)
THEOREM IdentityKept == DirectorySpec => []IdentityHolds
<1>1. DirectoryInv => IdentityHolds
  BY DEF DirectoryInv, IdentityHolds, GrantsKept, DecisionsOwned
<1> QED BY <1>1, DirectoryStarts, DirectoryStep, PTL DEF DirectorySpec

(* A persona stays usable as principals and skills change                  *)
(* (#validatePersona, buildManagedAgentSpec).                              *)
THEOREM PersonasKept == DirectorySpec => []PersonasServe
<1>1. DirectoryInv => PersonasServe
  BY DEF DirectoryInv, PersonasServe, PersonasSound, PersonaSound, Refused
<1> QED BY <1>1, DirectoryStarts, DirectoryStep, PTL DEF DirectorySpec

----------------------------------------------------------------------------
(* Governed actions. *)

(* Where a request executes a grant, and where it has one to itself; where *)
(* it has not heard from GitHub; where it has a credential in hand; and    *)
(* what the tool's requests come to.                                       *)
Executing == {"start", "mark", "check", "post", "finish", "record"}
Owning == Executing \cup {"grant"}
Unanswered == {"start", "mark", "check", "post"}
Holding == {"vault", "connect", "discard", "revoke", "recordRevoked", "forget"}
ToolStage == Owning \cup {"ask", "use", "save", "consume"}

(* The records' types, named so that a proof need not look into them. *)
HandlerType ==
  [at : {"idle", "ask", "use", "save", "grant", "consume", "start", "mark", "check", "post", "finish",
         "record", "exchange", "vault", "connect", "discard", "revoke", "recordRevoked", "forget"},
   requester : Human \cup {None}, actor : Principal \cup {None}, act : Act \cup {None},
   conf : Confirmation \cup {None}, conn : Connection \cup {None}, inv : Invocation \cup {None}, ok : BOOLEAN]
InvocationType ==
  [status : {"absent", "issued", "running", "succeeded", "failed"}, requester : Human \cup {None},
   actor : Principal \cup {None}, act : Act \cup {None}, conf : Confirmation \cup {None},
   conn : Connection \cup {None}, grant : {"none", "registered", "consumed"},
   grantExpired : BOOLEAN, run : {"none", "running", "succeeded", "failed"}]
ConfirmationType ==
  [status : {"absent", "pending", "approved", "denied", "used"}, requester : Human \cup {None},
   actor : Principal \cup {None}, act : Act \cup {None}, expired : BOOLEAN]
ToolType ==
  [pc : {"idle", "calling", "waiting", "approved", "granted", "ok", "failed"},
   by : Handler \cup {None}, requester : Human \cup {None}, act : Act \cup {None},
   conf : Confirmation \cup {None}, inv : Invocation \cup {None}]

(* Where the state of a confirmation is spent on r, a request or an        *)
(* invocation: the very action, requester and actor that were approved.    *)
ConfirmedBy(r) ==
  /\ r.conf \in Confirmation /\ confirmations[r.conf].status = "used"
  /\ confirmations[r.conf].requester = r.requester /\ confirmations[r.conf].actor = r.actor
  /\ confirmations[r.conf].act = r.act

Invoked(i) == invocations[i].status # "absent"
Spends(h) == handlers[h].at = "save" /\ handlers[h].act \in Confirmed
Spent(i) == Invoked(i) /\ invocations[i].act \in Confirmed

(* A confirmation is spent once, on one request or one invocation.         *)
ConfirmationsSpent ==
  /\ \A h \in Handler : Spends(h) => ConfirmedBy(handlers[h])
  /\ \A i \in Invocation : Spent(i) => ConfirmedBy(invocations[i])
  /\ \A h, g \in Handler : Spends(h) /\ Spends(g) /\ handlers[h].conf = handlers[g].conf => h = g
  /\ \A i, j \in Invocation : Spent(i) /\ Spent(j) /\ invocations[i].conf = invocations[j].conf => i = j
  /\ \A h \in Handler, i \in Invocation : Spends(h) /\ Spent(i) => handlers[h].conf # invocations[i].conf

Unsettled(i) ==
  invocations[i].status \notin {"succeeded", "failed"} /\ invocations[i].run \notin {"succeeded", "failed"}

(* What a request knows of the invocation it works for.                    *)
HandlerSound(h) ==
  LET i == handlers[h].inv IN
  /\ handlers[h].at = "use" => handlers[h].conf \in Confirmation
  /\ handlers[h].at = "grant" => i \in Invocation /\ Invoked(i) /\ invocations[i].grant = "none"
  /\ handlers[h].at = "consume" => i \in Invocation /\ invocations[i].grant # "none" /\ ~handlers[h].ok
  /\ handlers[h].at \in Executing => i \in Invocation /\ invocations[i].grant = "consumed"
  /\ handlers[h].at \in Unanswered => carriedOut[i] = 0 /\ i \notin heard /\ Unsettled(i) /\ ~handlers[h].ok
  /\ handlers[h].at \in {"finish", "record"} => (handlers[h].ok <=> i \in heard)
  /\ handlers[h].at \in Holding => handlers[h].conn \in Connection

(* No two requests have a grant in hand.                                   *)
GrantsHeld ==
  /\ \A h \in Handler : HandlerSound(h)
  /\ \A h, g \in Handler :
       handlers[h].at \in Owning /\ handlers[g].at \in Owning /\ handlers[h].inv = handlers[g].inv => h = g

(* An invocation is carried out once, after its grant was consumed, and    *)
(* its records say what GitHub told.                                       *)
InvocationSound(i) ==
  /\ carriedOut[i] <= 1
  /\ invocations[i].grant # "consumed" => carriedOut[i] = 0 /\ i \notin heard /\ Unsettled(i)
  /\ ~Invoked(i) => invocations[i].grant = "none"
  /\ invocations[i].status = "succeeded" \/ invocations[i].run = "succeeded" => i \in heard
  /\ invocations[i].status = "failed" \/ invocations[i].run = "failed" => i \notin heard

InvocationsSound == \A i \in Invocation : InvocationSound(i)

(* The tool waits for a request of its own kind, and holds what it asks    *)
(* for next.                                                               *)
ToolSound ==
  /\ tool.by # None => tool.pc = "calling" /\ handlers[tool.by].at \in ToolStage
  /\ tool.pc # "idle" => tool.requester \in Human /\ tool.act \in Act
  /\ tool.pc \in {"waiting", "approved"} => tool.conf \in Confirmation
  /\ tool.pc = "granted" => tool.inv \in Invocation /\ invocations[tool.inv].grant # "none"
  /\ tool.pc = "ok" => tool.inv \in heard

ActionInv == ActionTypeOK /\ ConfirmationsSpent /\ GrantsHeld /\ InvocationsSound /\ ToolSound

----------------------------------------------------------------------------
(* The records' types, conjunct by conjunct. *)
LEMMA ActionTypes ==
  ActionTypeOK <=> /\ persona \in [enabled : BOOLEAN, mode : Mode]
                   /\ confirmations \in [Confirmation -> ConfirmationType]
                   /\ invocations \in [Invocation -> InvocationType]
                   /\ connections \in [Connection -> [owner : Principal \cup {None},
                                                      status : {"absent", "active", "revoked"}]]
                   /\ vault \subseteq Connection /\ tokens \subseteq Connection
                   /\ oauthStates \in [OAuthState -> [owner : Human \cup {None},
                        status : {"absent", "open", "deleted"}, expired : BOOLEAN]]
                   /\ handlers \in [Handler -> HandlerType] /\ tool \in ToolType
                   /\ faults \in 0..MaxFaults
                   /\ carriedOut \in [Invocation -> Nat] /\ heard \subseteq Invocation
BY DEF ActionTypeOK, ConfirmationType, InvocationType, HandlerType, ToolType

(* The fields of a request's record. *)
LEMMA HandlerFields ==
  ASSUME NEW r \in HandlerType
  PROVE  /\ r.requester \in Human \cup {None} /\ r.actor \in Principal \cup {None}
         /\ r.act \in Act \cup {None} /\ r.conf \in Confirmation \cup {None}
         /\ r.conn \in Connection \cup {None} /\ r.inv \in Invocation \cup {None} /\ r.ok \in BOOLEAN
BY DEF HandlerType

(* The fields of an invocation. *)
LEMMA InvocationFields ==
  ASSUME NEW r \in InvocationType
  PROVE  /\ r.status \in {"absent", "issued", "running", "succeeded", "failed"}
         /\ r.grant \in {"none", "registered", "consumed"}
         /\ r.run \in {"none", "running", "succeeded", "failed"}
         /\ r.conf \in Confirmation \cup {None}
BY DEF InvocationType

(* The record of a request at rest. *)
LEMMA IdleTyped ==
  Idle \in HandlerType /\ Idle.at = "idle" /\ Idle.act = None /\ Idle.conn = None /\ Idle.conf = None /\ Idle.inv = None
BY DEF Idle, HandlerType

(* One more failure is within the bound. *)
LEMMA FaultTyped == ASSUME faults \in 0..MaxFaults, Fault PROVE faults' \in 0..MaxFaults
BY ActionsAssumption DEF Fault

(* A request goes to its next await. *)
LEMMA GoesOn ==
  ASSUME handlers \in [Handler -> HandlerType], NEW h \in Handler,
         NEW place \in {"save", "start", "mark", "check", "post", "finish", "record", "vault", "connect",
                        "discard", "recordRevoked", "forget"},
         handlers' = [handlers EXCEPT ![h].at = place]
  PROVE  /\ handlers' \in [Handler -> HandlerType]
         /\ \A g \in Handler : g # h => handlers'[g] = handlers[g]
         /\ handlers'[h].at = place /\ handlers'[h].inv = handlers[h].inv
         /\ handlers'[h].conf = handlers[h].conf /\ handlers'[h].act = handlers[h].act
         /\ handlers'[h].requester = handlers[h].requester /\ handlers'[h].actor = handlers[h].actor
         /\ handlers'[h].ok = handlers[h].ok /\ handlers'[h].conn = handlers[h].conn
<1>1. [handlers[h] EXCEPT !.at = place] \in HandlerType BY DEF HandlerType
<1>2. handlers' = [handlers EXCEPT ![h] = [handlers[h] EXCEPT !.at = place]] OBVIOUS
<1> DEFINE r == [handlers[h] EXCEPT !.at = place]
<1>3. /\ r.at = place /\ r.inv = handlers[h].inv /\ r.conf = handlers[h].conf /\ r.act = handlers[h].act
      /\ r.requester = handlers[h].requester /\ r.actor = handlers[h].actor /\ r.ok = handlers[h].ok
      /\ r.conn = handlers[h].conn
  BY DEF HandlerType
<1> HIDE DEF r
<1>4. handlers' = [handlers EXCEPT ![h] = r] /\ r \in HandlerType BY <1>1, <1>2 DEF r
<1> QED BY <1>3, <1>4

(* A request is answered: it rests, and the tool reads the answer if it    *)
(* waits for it.                                                           *)
LEMMA Answered ==
  ASSUME handlers \in [Handler -> HandlerType], tool \in ToolType, NEW h \in Handler,
         NEW answer \in {"failed", "waiting", "granted", "ok"},
         NEW conf \in Confirmation \cup {None}, NEW inv \in Invocation \cup {None},
         Responds(h, answer, conf, inv)
  PROVE  /\ handlers' \in [Handler -> HandlerType] /\ tool' \in ToolType
         /\ \A g \in Handler : g # h => handlers'[g] = handlers[g]
         /\ handlers'[h] = Idle
         /\ tool.by # h => tool' = tool
         /\ tool.by = h => /\ tool'.by = None /\ tool'.pc = answer
                           /\ tool'.conf = conf /\ tool'.inv = inv
                           /\ tool'.requester = tool.requester /\ tool'.act = tool.act
BY IdleTyped DEF Responds, ToolType

(* The tool after an answer: it holds what the answer gave.                *)
LEMMA ToolAnswered ==
  ASSUME ActionTypeOK, ToolSound, NEW h \in Handler,
         NEW answer \in {"failed", "waiting", "granted", "ok"},
         NEW conf \in Confirmation \cup {None}, NEW inv \in Invocation \cup {None},
         Responds(h, answer, conf, inv), heard \subseteq heard',
         \A i \in Invocation : invocations[i].grant # "none" => invocations'[i].grant # "none",
         answer = "waiting" => conf \in Confirmation,
         answer = "granted" => inv \in Invocation /\ invocations'[inv].grant # "none",
         answer = "ok" /\ tool.by = h => inv \in heard'
  PROVE  ToolSound'
<1>1. handlers \in [Handler -> HandlerType] /\ tool \in ToolType BY ActionTypes
<1>2. /\ \A g \in Handler : g # h => handlers'[g] = handlers[g]
      /\ tool.by # h => tool' = tool
      /\ tool.by = h => /\ tool'.by = None /\ tool'.pc = answer
                        /\ tool'.conf = conf /\ tool'.inv = inv
                        /\ tool'.requester = tool.requester /\ tool'.act = tool.act
  BY <1>1, Answered
<1>3. tool.by \in Handler \cup {None} BY <1>1 DEF ToolType
<1>4. CASE tool.by # h BY <1>2, <1>3, <1>4 DEF ToolSound
<1>5. CASE tool.by = h BY <1>2, <1>5, ActionsAssumption DEF ToolSound
<1> QED BY <1>4, <1>5

(* The tool waits on: nothing it holds went away.                          *)
LEMMA ToolKept ==
  ASSUME ActionTypeOK, ToolSound, UNCHANGED tool, heard \subseteq heard',
         \A i \in Invocation : invocations[i].grant # "none" => invocations'[i].grant # "none",
         \A h \in Handler : handlers[h].at \in ToolStage => handlers'[h].at \in ToolStage
  PROVE  ToolSound'
<1>1. tool.by \in Handler \cup {None} BY ActionTypes DEF ToolType
<1> QED BY <1>1 DEF ToolSound

(* A request moves and no record changes: it takes no confirmation and no  *)
(* grant it did not hold.                                                  *)
LEMMA HandlerMoves ==
  ASSUME ActionInv, NEW h \in Handler, UNCHANGED <<confirmations, invocations, github>>,
         \A g \in Handler : g # h => handlers'[g] = handlers[g],
         HandlerSound(h)', ~Spends(h)',
         handlers'[h].at \in Owning => handlers[h].at \in Owning /\ handlers'[h].inv = handlers[h].inv
  PROVE  ConfirmationsSpent' /\ GrantsHeld' /\ InvocationsSound'
<1> USE DEF ActionInv, github
<1>1. ConfirmationsSpent'
  <2>1. \A g \in Handler : Spends(g)' => Spends(g) /\ handlers'[g] = handlers[g] BY DEF Spends
  <2>2. \A i \in Invocation : Spent(i)' => Spent(i) BY DEF Spent, Invoked
  <2> QED BY <2>1, <2>2 DEF ConfirmationsSpent, ConfirmedBy
<1>2. GrantsHeld'
  <2>1. \A g \in Handler : HandlerSound(g)'
    BY DEF GrantsHeld, HandlerSound, Holding, Invoked, Unsettled
  <2> QED BY <2>1 DEF GrantsHeld
<1>3. InvocationsSound' BY DEF InvocationsSound, InvocationSound, Invoked, Unsettled
<1> QED BY <1>1, <1>2, <1>3

(* A request rests, or goes where it holds nothing. *)
LEMMA HandlerRests ==
  ASSUME ActionInv, NEW h \in Handler, UNCHANGED <<confirmations, invocations, github>>,
         \A g \in Handler : g # h => handlers'[g] = handlers[g],
         handlers'[h].at \in Holding \cup {"idle", "exchange"},
         handlers'[h].at \in Holding => handlers'[h].conn \in Connection
  PROVE  ConfirmationsSpent' /\ GrantsHeld' /\ InvocationsSound'
<1>1. HandlerSound(h)' /\ ~Spends(h)' /\ handlers'[h].at \notin Owning
  BY DEF HandlerSound, Holding, Spends, Executing, Unanswered, Owning
<1> QED BY <1>1, HandlerMoves

(* An await that fails changes no record. *)
LEMMA RejectedKeeps ==
  ASSUME ActionInv, NEW h \in Handler, Rejected(h), UNCHANGED <<confirmations, invocations, github>>
  PROVE  /\ handlers' \in [Handler -> HandlerType] /\ tool' \in ToolType /\ faults' \in 0..MaxFaults
         /\ ConfirmationsSpent' /\ GrantsHeld' /\ InvocationsSound' /\ ToolSound'
<1>1. Responds(h, "failed", None, None) /\ Fault BY DEF Rejected
<1>2. handlers \in [Handler -> HandlerType] /\ tool \in ToolType /\ faults \in 0..MaxFaults
  BY ActionTypes DEF ActionInv
<1>3. /\ handlers' \in [Handler -> HandlerType] /\ tool' \in ToolType
      /\ \A g \in Handler : g # h => handlers'[g] = handlers[g]
      /\ handlers'[h] = Idle
  BY <1>1, <1>2, Answered
<1>4. ConfirmationsSpent' /\ GrantsHeld' /\ InvocationsSound'
  BY <1>3, HandlerRests, IdleTyped DEF Holding
<1>5. ToolSound' BY <1>1, ToolAnswered DEF ActionInv, github
<1> QED BY <1>1, <1>2, <1>3, <1>4, <1>5, FaultTyped

(* The same answer without a failure. *)
LEMMA RefusedKeeps ==
  ASSUME ActionInv, NEW h \in Handler, Responds(h, "failed", None, None),
         UNCHANGED <<confirmations, invocations, github>>
  PROVE  /\ handlers' \in [Handler -> HandlerType] /\ tool' \in ToolType
         /\ ConfirmationsSpent' /\ GrantsHeld' /\ InvocationsSound' /\ ToolSound'
<1>2. handlers \in [Handler -> HandlerType] /\ tool \in ToolType
  BY ActionTypes DEF ActionInv
<1>3. /\ handlers' \in [Handler -> HandlerType] /\ tool' \in ToolType
      /\ \A g \in Handler : g # h => handlers'[g] = handlers[g]
      /\ handlers'[h] = Idle
  BY <1>2, Answered
<1>4. ConfirmationsSpent' /\ GrantsHeld' /\ InvocationsSound'
  BY <1>3, HandlerRests, IdleTyped DEF Holding
<1>5. ToolSound' BY ToolAnswered DEF ActionInv, github
<1> QED BY <1>3, <1>4, <1>5

----------------------------------------------------------------------------
(* Issuing a grant. *)

(* The actor and connection of an invocation are a principal's own. *)
LEMMA ActorsTyped ==
  ASSUME ActionTypeOK, NEW requester \in Human
  PROVE  \A a \in Actors(requester) : a[1] \in Principal /\ a[2] \in Connection
<1>1. ({requester} \X ActiveOf(requester)) \cup ({Service} \X ActiveOf(Service)) \subseteq Principal \X Connection
  BY ActionsAssumption DEF ActiveOf, Principal
<1>2. Actors(requester) \subseteq ({requester} \X ActiveOf(requester)) \cup ({Service} \X ActiveOf(Service))
  BY DEF Actors
<1> QED BY <1>1, <1>2

(* A request to issue waits for a confirmation, uses one, or needs none. *)
LEMMA IssueMoves ==
  ASSUME ActionInv, NEW h \in Handler, NEW requester \in Human, NEW act \in Act,
         NEW conf \in Confirmation \cup {None}, NEW trusted \in BOOLEAN, NEW isAdmin \in BOOLEAN,
         Issues(h, requester, act, conf, trusted, isAdmin), UNCHANGED <<records, github>>
  PROVE  /\ handlers' \in [Handler -> HandlerType] /\ handlers'[h].at \in ToolStage
         /\ handlers[h].at = "idle" /\ \A g \in Handler : g # h => handlers'[g] = handlers[g]
         /\ ConfirmationsSpent' /\ GrantsHeld' /\ InvocationsSound'
<1> DEFINE place == IF act \notin Confirmed THEN "save" ELSE IF conf = None THEN "ask" ELSE "use"
<1>1. PICK a \in Actors(requester) :
        handlers' = [handlers EXCEPT ![h] =
           [Idle EXCEPT !.requester = requester, !.actor = a[1], !.conn = a[2], !.act = act,
                        !.conf = conf, !.at = place]]
  BY DEF Issues
<1>2. ActionTypeOK /\ handlers \in [Handler -> HandlerType] BY ActionTypes DEF ActionInv
<1>3. a[1] \in Principal /\ a[2] \in Connection BY <1>2, ActorsTyped
<1>4. place \in {"save", "ask", "use"} OBVIOUS
<1> HIDE DEF place
<1> DEFINE r == [Idle EXCEPT !.requester = requester, !.actor = a[1], !.conn = a[2], !.act = act,
                             !.conf = conf, !.at = place]
<1>5. r \in HandlerType BY <1>3, <1>4 DEF HandlerType, Idle
<1>6. r.at = place /\ r.act = act /\ r.conf = conf BY DEF Idle
<1> HIDE DEF r
<1>7. handlers' = [handlers EXCEPT ![h] = r] BY <1>1 DEF r
<1>8. /\ handlers' \in [Handler -> HandlerType] /\ handlers'[h] = r
      /\ \A g \in Handler : g # h => handlers'[g] = handlers[g]
  BY <1>2, <1>5, <1>7
<1>9. handlers[h].at = "idle" BY DEF Issues, At
<1>10. HandlerSound(h)' /\ ~Spends(h)' /\ handlers'[h].at \notin Owning
  BY <1>4, <1>6, <1>8 DEF HandlerSound, Holding, Spends, Executing, Unanswered, Owning, place
<1>11. ConfirmationsSpent' /\ GrantsHeld' /\ InvocationsSound'
  BY <1>8, <1>10, HandlerMoves DEF records
<1> QED BY <1>4, <1>6, <1>8, <1>9, <1>11 DEF ToolStage

(* A client of the console asks for a grant. *)
LEMMA ConsoleIssuesStep ==
  ASSUME ActionInv, NEW h \in Handler, ConsoleIssues(h) PROVE ActionInv'
<1>1. UNCHANGED <<records, credentials, tool, faults, github>> BY DEF ConsoleIssues
<1>2. PICK requester \in Human, act \in Act, conf \in Confirmation \cup {None}, isAdmin \in BOOLEAN :
        Issues(h, requester, act, conf, FALSE, isAdmin)
  BY DEF ConsoleIssues
<1>3. /\ handlers' \in [Handler -> HandlerType] /\ handlers'[h].at \in ToolStage
      /\ handlers[h].at = "idle" /\ \A g \in Handler : g # h => handlers'[g] = handlers[g]
      /\ ConfirmationsSpent' /\ GrantsHeld' /\ InvocationsSound'
  BY <1>1, <1>2, IssueMoves
<1>4. ActionTypeOK'
  BY <1>1, <1>3, ActionTypes DEF ActionInv, records, credentials, github, ActionTypeOK, HandlerType
<1>5. ToolSound' BY <1>1, <1>3, ToolKept DEF ActionInv, records, github
<1> QED BY <1>3, <1>4, <1>5 DEF ActionInv

(* The tool asks for a grant. *)
LEMMA ToolStartsStep ==
  ASSUME ActionInv, NEW h \in Handler, ToolStarts(h) PROVE ActionInv'
<1>1. UNCHANGED <<records, credentials, faults, github>> BY DEF ToolStarts
<1>2. PICK requester \in Human, act \in Act :
        /\ Issues(h, requester, act, None, TRUE, FALSE)
        /\ tool' = [NoTool EXCEPT !.pc = "calling", !.by = h, !.requester = requester, !.act = act]
  BY DEF ToolStarts
<1>3. /\ handlers' \in [Handler -> HandlerType] /\ handlers'[h].at \in ToolStage
      /\ handlers[h].at = "idle" /\ \A g \in Handler : g # h => handlers'[g] = handlers[g]
      /\ ConfirmationsSpent' /\ GrantsHeld' /\ InvocationsSound'
  BY <1>1, <1>2, IssueMoves
<1>4. /\ tool' \in ToolType /\ tool'.by = h /\ tool'.pc = "calling"
      /\ tool'.requester \in Human /\ tool'.act \in Act
  BY <1>2 DEF ToolType, NoTool
<1>5. ActionTypeOK'
  BY <1>1, <1>3, <1>4 DEF ActionInv, records, credentials, github, ActionTypeOK, HandlerType, ToolType
<1>6. ToolSound' BY <1>3, <1>4 DEF ToolSound
<1> QED BY <1>3, <1>5, <1>6 DEF ActionInv

(* The tool comes back with the approved confirmation. *)
LEMMA ToolIssuesConfirmedStep ==
  ASSUME ActionInv, NEW h \in Handler, ToolIssuesConfirmed(h) PROVE ActionInv'
<1>1. UNCHANGED <<records, credentials, faults, github>> BY DEF ToolIssuesConfirmed
<1>2. tool \in ToolType BY ActionTypes DEF ActionInv
<1>3. /\ Issues(h, tool.requester, tool.act, tool.conf, TRUE, FALSE)
      /\ tool' = [tool EXCEPT !.pc = "calling", !.by = h]
  BY DEF ToolIssuesConfirmed, ToolWaits
<1>a. tool.requester \in Human /\ tool.act \in Act /\ tool.conf \in Confirmation \cup {None}
  BY <1>2 DEF ActionInv, ToolSound, ToolIssuesConfirmed, ToolType
<1>4. /\ handlers' \in [Handler -> HandlerType] /\ handlers'[h].at \in ToolStage
      /\ handlers[h].at = "idle" /\ \A g \in Handler : g # h => handlers'[g] = handlers[g]
      /\ ConfirmationsSpent' /\ GrantsHeld' /\ InvocationsSound'
  BY <1>1, <1>3, <1>a, IssueMoves
<1>5. /\ tool' \in ToolType /\ tool'.by = h /\ tool'.pc = "calling"
      /\ tool'.requester \in Human /\ tool'.act \in Act
  BY <1>2, <1>3, <1>a DEF ToolType
<1>6. ActionTypeOK'
  BY <1>1, <1>4, <1>5 DEF ActionInv, records, credentials, github, ActionTypeOK, HandlerType, ToolType
<1>7. ToolSound' BY <1>4, <1>5 DEF ToolSound
<1> QED BY <1>4, <1>6, <1>7 DEF ActionInv

(* The tool executes the grant it was given. *)
LEMMA ExecutesMoves ==
  ASSUME ActionInv, NEW h \in Handler, NEW i \in Invocation, Executes(h, i),
         invocations[i].grant # "none", UNCHANGED <<records, github>>
  PROVE  /\ handlers' \in [Handler -> HandlerType] /\ handlers'[h].at \in ToolStage
         /\ handlers[h].at = "idle" /\ \A g \in Handler : g # h => handlers'[g] = handlers[g]
         /\ ConfirmationsSpent' /\ GrantsHeld' /\ InvocationsSound'
<1> DEFINE r == [Idle EXCEPT !.at = "consume", !.inv = i]
<1>1. r \in HandlerType /\ r.at = "consume" /\ r.inv = i /\ r.act = None /\ ~r.ok
  BY DEF Idle, HandlerType
<1> HIDE DEF r
<1>2. handlers' = [handlers EXCEPT ![h] = r] /\ handlers[h].at = "idle" BY DEF Executes, At, r
<1>3. handlers \in [Handler -> HandlerType] BY ActionTypes DEF ActionInv
<1>4. /\ handlers' \in [Handler -> HandlerType] /\ handlers'[h] = r
      /\ \A g \in Handler : g # h => handlers'[g] = handlers[g]
  BY <1>1, <1>2, <1>3
<1>5. HandlerSound(h)' /\ ~Spends(h)' /\ handlers'[h].at \notin Owning
  BY <1>1, <1>4 DEF HandlerSound, Holding, Spends, Executing, Unanswered, Owning, records
<1>6. ConfirmationsSpent' /\ GrantsHeld' /\ InvocationsSound'
  BY <1>4, <1>5, HandlerMoves DEF records
<1> QED BY <1>1, <1>2, <1>4, <1>6 DEF ToolStage

(* The tool presents the grant it was given. *)
LEMMA ToolExecutesStep ==
  ASSUME ActionInv, NEW h \in Handler, ToolExecutes(h) PROVE ActionInv'
<1>1. UNCHANGED <<records, credentials, faults, github>> BY DEF ToolExecutes
<1>2. Executes(h, tool.inv) /\ tool.pc = "granted" /\ tool' = [tool EXCEPT !.pc = "calling", !.by = h]
  BY DEF ToolExecutes, ToolWaits
<1>3. tool \in ToolType BY ActionTypes DEF ActionInv
<1>a. tool.inv \in Invocation /\ invocations[tool.inv].grant # "none" BY <1>2 DEF ActionInv, ToolSound
<1>4. /\ handlers' \in [Handler -> HandlerType] /\ handlers'[h].at \in ToolStage
      /\ handlers[h].at = "idle" /\ \A g \in Handler : g # h => handlers'[g] = handlers[g]
      /\ ConfirmationsSpent' /\ GrantsHeld' /\ InvocationsSound'
  BY <1>1, <1>2, <1>a, ExecutesMoves
<1>5. /\ tool' \in ToolType /\ tool'.by = h /\ tool'.pc = "calling"
      /\ tool'.requester \in Human /\ tool'.act \in Act
  BY <1>2, <1>3 DEF ToolType, ActionInv, ToolSound
<1>6. ActionTypeOK'
  BY <1>1, <1>4, <1>5 DEF ActionInv, records, credentials, github, ActionTypeOK, HandlerType, ToolType
<1>7. ToolSound' BY <1>4, <1>5 DEF ToolSound
<1> QED BY <1>4, <1>6, <1>7 DEF ActionInv

(* Another holder of a grant presents it. *)
LEMMA GrantPresentedStep ==
  ASSUME ActionInv, NEW h \in Handler, GrantPresented(h) PROVE ActionInv'
<1>1. UNCHANGED <<records, credentials, tool, faults, github>> BY DEF GrantPresented
<1>2. PICK i \in Invocation : invocations[i].grant # "none" /\ Executes(h, i) BY DEF GrantPresented
<1>3. /\ handlers' \in [Handler -> HandlerType] /\ handlers'[h].at \in ToolStage
      /\ handlers[h].at = "idle" /\ \A g \in Handler : g # h => handlers'[g] = handlers[g]
      /\ ConfirmationsSpent' /\ GrantsHeld' /\ InvocationsSound'
  BY <1>1, <1>2, ExecutesMoves
<1>4. ActionTypeOK'
  BY <1>1, <1>3, ActionTypes DEF ActionInv, records, credentials, github, ActionTypeOK, HandlerType
<1>5. ToolSound' BY <1>1, <1>3, ToolKept DEF ActionInv, records, github
<1> QED BY <1>3, <1>4, <1>5 DEF ActionInv

(* A spent confirmation stays spent on the same action when confirmations  *)
(* change elsewhere.                                                       *)
LEMMA ConfirmationsMove ==
  ASSUME ActionInv, NEW h \in Handler, UNCHANGED invocations,
         \A g \in Handler : g # h => handlers'[g] = handlers[g], ~Spends(h)',
         \A c \in Confirmation : confirmations[c].status = "used" => confirmations'[c] = confirmations[c]
  PROVE  ConfirmationsSpent'
<1>1. \A g \in Handler : Spends(g)' => Spends(g) /\ handlers'[g] = handlers[g] BY DEF Spends
<1>2. \A i \in Invocation : Spent(i)' => Spent(i) BY DEF Spent, Invoked
<1> QED BY <1>1, <1>2 DEF ActionInv, ConfirmationsSpent, ConfirmedBy

(* Grants and invocations do not look at confirmations. *)
LEMMA GrantsIgnoreConfirmations ==
  ASSUME ActionInv, NEW h \in Handler, UNCHANGED <<invocations, github>>,
         \A g \in Handler : g # h => handlers'[g] = handlers[g],
         HandlerSound(h)', handlers'[h].at \notin Owning
  PROVE  GrantsHeld' /\ InvocationsSound'
<1> USE DEF ActionInv, github
<1>1. \A g \in Handler : HandlerSound(g)' BY DEF GrantsHeld, HandlerSound, Holding, Invoked, Unsettled
<1>2. GrantsHeld' BY <1>1 DEF GrantsHeld
<1>3. InvocationsSound' BY DEF InvocationsSound, InvocationSound, Invoked, Unsettled
<1> QED BY <1>2, <1>3

(* A confirmation is created for the action asked for. *)
LEMMA CreateConfirmationStep ==
  ASSUME ActionInv, NEW h \in Handler, CreateConfirmation(h) PROVE ActionInv'
<1>1. UNCHANGED <<persona, invocations, oauthStates, credentials, github>> BY DEF CreateConfirmation
<1>2. handlers \in [Handler -> HandlerType] /\ tool \in ToolType /\ faults \in 0..MaxFaults
      /\ confirmations \in [Confirmation -> ConfirmationType]
  BY ActionTypes DEF ActionInv
<1>3. CASE Rejected(h) /\ UNCHANGED confirmations
  <2>1. /\ handlers' \in [Handler -> HandlerType] /\ tool' \in ToolType /\ faults' \in 0..MaxFaults
        /\ ConfirmationsSpent' /\ GrantsHeld' /\ InvocationsSound' /\ ToolSound'
    BY <1>1, <1>3, RejectedKeeps
  <2>2. ActionTypeOK'
    BY <1>1, <1>3, <2>1 DEF ActionInv, ActionTypeOK, HandlerType, ToolType, credentials, github
  <2> QED BY <2>1, <2>2 DEF ActionInv
<1>4. ASSUME NEW c \in Confirmation, confirmations[c].status = "absent",
             confirmations' = [confirmations EXCEPT ![c] =
               [status |-> "pending", requester |-> handlers[h].requester,
                actor |-> handlers[h].actor, act |-> handlers[h].act, expired |-> FALSE]],
             NEW answer \in {"waiting", "failed"}, NEW conf \in Confirmation \cup {None},
             answer = "waiting" => conf \in Confirmation,
             Responds(h, answer, conf, None), faults' \in 0..MaxFaults
      PROVE  ActionInv'
  <2>1. /\ handlers' \in [Handler -> HandlerType] /\ tool' \in ToolType
        /\ \A g \in Handler : g # h => handlers'[g] = handlers[g]
        /\ handlers'[h] = Idle
    <3>1. answer \in {"failed", "waiting", "granted", "ok"} /\ Responds(h, answer, conf, None) BY <1>4
    <3>2. None \in Invocation \cup {None} OBVIOUS
    <3> QED BY <1>2, <3>1, <3>2, Answered
  <2>2. confirmations' \in [Confirmation -> ConfirmationType]
    <3>1. handlers[h] \in HandlerType BY <1>2
    <3>2. [status |-> "pending", requester |-> handlers[h].requester, actor |-> handlers[h].actor,
           act |-> handlers[h].act, expired |-> FALSE] \in ConfirmationType
      BY <3>1, HandlerFields DEF ConfirmationType
    <3> QED BY <1>2, <1>4, <3>2
  <2>3. HandlerSound(h)' /\ ~Spends(h)' /\ handlers'[h].at \notin Owning
    BY <2>1, IdleTyped DEF HandlerSound, Holding, Spends, Executing, Unanswered, Owning
  <2>4. ConfirmationsSpent'
    <3>1. \A d \in Confirmation : confirmations[d].status = "used" => confirmations'[d] = confirmations[d]
      BY <1>2, <1>4
    <3> QED BY <1>1, <2>1, <2>3, <3>1, ConfirmationsMove
  <2>5. GrantsHeld' /\ InvocationsSound' BY <1>1, <2>1, <2>3, GrantsIgnoreConfirmations
  <2>6. ToolSound' BY <1>1, <1>4, ToolAnswered DEF ActionInv, github
  <2>7. ActionTypeOK'
    BY <1>1, <1>4, <2>1, <2>2 DEF ActionInv, ActionTypeOK, HandlerType, ToolType, ConfirmationType, credentials, github
  <2> QED BY <2>4, <2>5, <2>6, <2>7 DEF ActionInv
<1>5. CASE ~(Rejected(h) /\ UNCHANGED confirmations)
  <2>1. PICK c \in Confirmation :
          /\ confirmations[c].status = "absent"
          /\ confirmations' = [confirmations EXCEPT ![c] =
               [status |-> "pending", requester |-> handlers[h].requester,
                actor |-> handlers[h].actor, act |-> handlers[h].act, expired |-> FALSE]]
          /\ (Responds(h, "waiting", c, None) /\ UNCHANGED faults) \/ Rejected(h)
    BY <1>5 DEF CreateConfirmation
  <2>2. CASE Responds(h, "waiting", c, None) /\ UNCHANGED faults
    BY <1>2, <1>4, <2>1, <2>2
  <2>3. CASE Rejected(h)
    <3>1. Responds(h, "failed", None, None) /\ faults' \in 0..MaxFaults
      BY <1>2, <2>3, FaultTyped DEF Rejected
    <3> QED BY <1>4, <2>1, <3>1
  <2> QED BY <2>1, <2>2, <2>3
<1> QED BY <1>3, <1>5

(* useConfirmation: an approved confirmation goes to one request. *)
LEMMA UseConfirmationStep ==
  ASSUME ActionInv, NEW h \in Handler, UseConfirmation(h) PROVE ActionInv'
<1> DEFINE c == handlers[h].conf
<1>1. UNCHANGED <<persona, invocations, oauthStates, credentials, github>> /\ handlers[h].at = "use"
  BY DEF UseConfirmation, At
<1>2. handlers \in [Handler -> HandlerType] /\ tool \in ToolType /\ faults \in 0..MaxFaults
      /\ confirmations \in [Confirmation -> ConfirmationType]
  BY ActionTypes DEF ActionInv
<1>3. c \in Confirmation BY <1>1 DEF ActionInv, GrantsHeld, HandlerSound, Holding
<1>4. CASE Rejected(h) /\ UNCHANGED confirmations
  <2>1. /\ handlers' \in [Handler -> HandlerType] /\ tool' \in ToolType /\ faults' \in 0..MaxFaults
        /\ ConfirmationsSpent' /\ GrantsHeld' /\ InvocationsSound' /\ ToolSound'
    BY <1>1, <1>4, RejectedKeeps
  <2>2. ActionTypeOK'
    BY <1>1, <1>4, <2>1 DEF ActionInv, ActionTypeOK, HandlerType, ToolType, credentials, github
  <2> QED BY <2>1, <2>2 DEF ActionInv
<1>5. CASE Responds(h, "failed", None, None) /\ UNCHANGED <<confirmations, faults>>
  <2>1. /\ handlers' \in [Handler -> HandlerType] /\ tool' \in ToolType
        /\ ConfirmationsSpent' /\ GrantsHeld' /\ InvocationsSound' /\ ToolSound'
    BY <1>1, <1>5, RefusedKeeps
  <2>2. ActionTypeOK'
    BY <1>1, <1>5, <2>1 DEF ActionInv, ActionTypeOK, HandlerType, ToolType, credentials, github
  <2> QED BY <2>1, <2>2 DEF ActionInv
<1>6. CASE /\ Usable(c, h) /\ confirmations' = [confirmations EXCEPT ![c].status = "used"]
           /\ Goes(h, "save") /\ UNCHANGED faults
  <2>1. /\ handlers' \in [Handler -> HandlerType] /\ tool' = tool
        /\ \A g \in Handler : g # h => handlers'[g] = handlers[g]
        /\ handlers'[h].at = "save" /\ handlers'[h].conf = c /\ handlers'[h].act = handlers[h].act
        /\ handlers'[h].requester = handlers[h].requester /\ handlers'[h].actor = handlers[h].actor
    BY <1>2, <1>6, GoesOn DEF Goes
  <2>2. /\ confirmations[c].status = "approved" /\ confirmations[c].requester = handlers[h].requester
        /\ confirmations[c].actor = handlers[h].actor /\ confirmations[c].act = handlers[h].act
    BY <1>6 DEF Usable
  <2>3. /\ confirmations' \in [Confirmation -> ConfirmationType]
        /\ \A d \in Confirmation : d # c => confirmations'[d] = confirmations[d]
        /\ confirmations'[c].status = "used" /\ confirmations'[c].requester = confirmations[c].requester
        /\ confirmations'[c].actor = confirmations[c].actor /\ confirmations'[c].act = confirmations[c].act
    BY <1>2, <1>3, <1>6 DEF ConfirmationType
  <2>4. ConfirmedBy(handlers[h])'
    BY <1>3, <2>1, <2>2, <2>3 DEF ConfirmedBy
  <2>5. \A g \in Handler : g # h /\ Spends(g)' =>
          Spends(g) /\ ConfirmedBy(handlers[g])' /\ handlers'[g].conf # c
    BY <2>1, <2>2, <2>3 DEF Spends, ActionInv, ConfirmationsSpent, ConfirmedBy
  <2>6. \A i \in Invocation : Spent(i)' =>
          Spent(i) /\ ConfirmedBy(invocations[i])' /\ invocations'[i].conf # c
    BY <1>1, <2>2, <2>3 DEF Spent, Invoked, ActionInv, ConfirmationsSpent, ConfirmedBy
  <2>7. ConfirmationsSpent'
    BY <1>1, <2>1, <2>4, <2>5, <2>6 DEF ActionInv, ConfirmationsSpent
  <2>8. HandlerSound(h)' /\ handlers'[h].at \notin Owning
    BY <2>1 DEF HandlerSound, Holding, Executing, Unanswered, Owning
  <2>9. GrantsHeld' /\ InvocationsSound' BY <1>1, <2>1, <2>8, GrantsIgnoreConfirmations
  <2>10. ToolSound' BY <1>1, <2>1, ToolKept DEF ActionInv, github, ToolStage
  <2>11. ActionTypeOK'
    BY <1>1, <1>6, <2>1, <2>3 DEF ActionInv, ActionTypeOK, HandlerType, ConfirmationType, credentials, github
  <2> QED BY <2>7, <2>9, <2>10, <2>11 DEF ActionInv
<1> QED BY <1>4, <1>5, <1>6 DEF UseConfirmation

(* An invocation is recorded with what its confirmation approved. *)
LEMMA SaveInvocationStep ==
  ASSUME ActionInv, NEW h \in Handler, SaveInvocation(h) PROVE ActionInv'
<1>1. UNCHANGED <<persona, confirmations, oauthStates, credentials, github>> /\ handlers[h].at = "save"
  BY DEF SaveInvocation, At
<1>2. handlers \in [Handler -> HandlerType] /\ invocations \in [Invocation -> InvocationType]
  BY ActionTypes DEF ActionInv
<1>3. CASE Rejected(h) /\ UNCHANGED invocations
  <2>1. /\ handlers' \in [Handler -> HandlerType] /\ tool' \in ToolType /\ faults' \in 0..MaxFaults
        /\ ConfirmationsSpent' /\ GrantsHeld' /\ InvocationsSound' /\ ToolSound'
    BY <1>1, <1>3, RejectedKeeps
  <2>2. ActionTypeOK'
    BY <1>1, <1>3, <2>1 DEF ActionInv, ActionTypeOK, HandlerType, ToolType, credentials, github
  <2> QED BY <2>1, <2>2 DEF ActionInv
<1>4. ASSUME NEW i \in Invocation, invocations[i].status = "absent",
             invocations' = [invocations EXCEPT ![i] =
               [NoInvocation EXCEPT !.status = "issued", !.requester = handlers[h].requester,
                 !.actor = handlers[h].actor, !.act = handlers[h].act,
                 !.conf = handlers[h].conf, !.conn = handlers[h].conn]],
             handlers' = [handlers EXCEPT ![h].at = "grant", ![h].inv = i], UNCHANGED <<tool, faults>>
      PROVE  ActionInv'
  <2> DEFINE r == [NoInvocation EXCEPT !.status = "issued", !.requester = handlers[h].requester,
                     !.actor = handlers[h].actor, !.act = handlers[h].act,
                     !.conf = handlers[h].conf, !.conn = handlers[h].conn]
             q == [handlers[h] EXCEPT !.at = "grant", !.inv = i]
  <2>1. handlers[h] \in HandlerType BY <1>2
  <2>2. r \in InvocationType BY <2>1, HandlerFields DEF NoInvocation, Absent, InvocationType
  <2>3. /\ r.status = "issued" /\ r.requester = handlers[h].requester /\ r.actor = handlers[h].actor
        /\ r.act = handlers[h].act /\ r.conf = handlers[h].conf /\ r.grant = "none" /\ r.run = "none"
    BY DEF NoInvocation, Absent
  <2>4. /\ q \in HandlerType /\ q.at = "grant" /\ q.inv = i
    BY <2>1 DEF HandlerType
  <2>5. handlers' = [handlers EXCEPT ![h] = q] BY <1>2, <1>4
  <2>6. invocations' = [invocations EXCEPT ![i] = r] BY <1>4
  <2> HIDE DEF r, q
  <2>7. /\ handlers' \in [Handler -> HandlerType] /\ handlers'[h] = q
        /\ \A g \in Handler : g # h => handlers'[g] = handlers[g]
    BY <1>2, <2>4, <2>5
  <2>8. /\ invocations' \in [Invocation -> InvocationType] /\ invocations'[i] = r
        /\ \A j \in Invocation : j # i => invocations'[j] = invocations[j]
    BY <1>2, <2>2, <2>6
  <2>9. invocations[i].grant = "none" /\ carriedOut[i] = 0 /\ i \notin heard
    BY <1>4 DEF ActionInv, InvocationsSound, InvocationSound, Invoked
  <2>10. ConfirmationsSpent'
    <3>1. \A g \in Handler : Spends(g)' => g # h /\ Spends(g) /\ handlers'[g] = handlers[g]
      BY <2>4, <2>7 DEF Spends
    <3>2. \A j \in Invocation : j # i /\ Spent(j)' => Spent(j) /\ invocations'[j] = invocations[j]
      BY <2>8 DEF Spent, Invoked
    <3>3. Spent(i)' => Spends(h) BY <1>1, <2>3, <2>8 DEF Spent, Spends
    <3>4. \A x : ConfirmedBy(x) => ConfirmedBy(x)' BY <1>1 DEF ConfirmedBy
    <3>5. Spent(i)' => ConfirmedBy(invocations[i])'
      BY <1>1, <2>3, <2>8, <3>3 DEF ActionInv, ConfirmationsSpent, ConfirmedBy
    <3>6. \A j \in Invocation : Spent(j)' => ConfirmedBy(invocations[j])'
      BY <1>1, <3>2, <3>5 DEF ActionInv, ConfirmationsSpent, ConfirmedBy
    <3>7. \A g \in Handler : Spends(g)' => ConfirmedBy(handlers[g])'
      BY <1>1, <3>1 DEF ActionInv, ConfirmationsSpent, ConfirmedBy
    <3>8. \A j, k \in Invocation :
            Spent(j)' /\ Spent(k)' /\ invocations'[j].conf = invocations'[k].conf => j = k
      BY <2>3, <2>8, <3>2, <3>3 DEF ActionInv, ConfirmationsSpent
    <3>9. \A g \in Handler, j \in Invocation :
            Spends(g)' /\ Spent(j)' => handlers'[g].conf # invocations'[j].conf
      BY <2>3, <2>8, <3>1, <3>2, <3>3 DEF ActionInv, ConfirmationsSpent
    <3>10. \A g, f \in Handler :
            Spends(g)' /\ Spends(f)' /\ handlers'[g].conf = handlers'[f].conf => g = f
      BY <3>1 DEF ActionInv, ConfirmationsSpent
    <3> QED BY <3>6, <3>7, <3>8, <3>9, <3>10 DEF ConfirmationsSpent
  <2>11. \A g \in Handler : g # h => HandlerSound(g)' /\ (handlers'[g].at \in Owning => handlers'[g].inv # i)
    <3> SUFFICES ASSUME NEW g \in Handler, g # h
                 PROVE  HandlerSound(g)' /\ (handlers'[g].at \in Owning => handlers'[g].inv # i)
      OBVIOUS
    <3>1. handlers'[g] = handlers[g] /\ HandlerSound(g) BY <2>7 DEF ActionInv, GrantsHeld
    <3>2. handlers[g].at \in Owning => handlers[g].inv # i
      BY <1>4, <2>9, <3>1 DEF HandlerSound, Holding, Invoked, Owning, Executing
    <3>3. handlers[g].at = "consume" => handlers[g].inv # i
      BY <2>9, <3>1 DEF HandlerSound, Holding
    <3>4. HandlerSound(g)'
      BY <1>1, <2>8, <3>1, <3>2, <3>3
      DEF HandlerSound, Holding, Invoked, Unsettled, Owning, Executing, Unanswered, github
    <3> QED BY <3>1, <3>2, <3>4
  <2>12. HandlerSound(h)' BY <2>3, <2>4, <2>7, <2>8 DEF HandlerSound, Holding, Invoked, Executing, Unanswered
  <2>13. GrantsHeld' BY <2>4, <2>7, <2>11, <2>12 DEF ActionInv, GrantsHeld
  <2>14. InvocationsSound'
    BY <1>1, <2>3, <2>8, <2>9 DEF ActionInv, InvocationsSound, InvocationSound, Invoked, Unsettled, github
  <2>15. ToolSound'
    <3>1. handlers'[h].at \in ToolStage BY <2>4, <2>7 DEF ToolStage, Owning
    <3>2. \A j \in Invocation : invocations[j].grant # "none" => invocations'[j].grant # "none"
      BY <2>8, <2>9
    <3> QED BY <1>1, <1>4, <2>7, <3>1, <3>2, ToolKept DEF ActionInv, github
  <2>16. ActionTypeOK'
    BY <1>1, <1>4, <2>7, <2>8 DEF ActionInv, ActionTypeOK, HandlerType, InvocationType, credentials, github
  <2> QED BY <2>10, <2>13, <2>14, <2>15, <2>16 DEF ActionInv
<1> QED BY <1>3, <1>4 DEF SaveInvocation

(* An invocation's records change for the request that owns it: the other  *)
(* requests, and the confirmations, are as they were.                      *)
LEMMA OwnerWrites ==
  ASSUME ActionInv, NEW h \in Handler, handlers[h].at \in Owning,
         NEW i \in Invocation, handlers[h].inv = i, UNCHANGED confirmations,
         \A g \in Handler : g # h => handlers'[g] = handlers[g], ~Spends(h)',
         handlers'[h].at \in Owning => handlers'[h].inv = i,
         invocations' \in [Invocation -> InvocationType],
         \A j \in Invocation : j # i =>
           invocations'[j] = invocations[j] /\ carriedOut'[j] = carriedOut[j] /\ (j \in heard' <=> j \in heard),
         /\ invocations'[i].requester = invocations[i].requester
         /\ invocations'[i].actor = invocations[i].actor
         /\ invocations'[i].act = invocations[i].act
         /\ invocations'[i].conf = invocations[i].conf
         /\ Invoked(i)',
         invocations[i].grant # "none" => invocations'[i].grant # "none",
         HandlerSound(h)', InvocationSound(i)'
  PROVE  /\ ConfirmationsSpent' /\ GrantsHeld' /\ InvocationsSound'
         /\ \A j \in Invocation : invocations[j].grant # "none" => invocations'[j].grant # "none"
<1>1. i \in Invocation /\ Invoked(i)
  BY DEF ActionInv, GrantsHeld, HandlerSound, Holding, Owning, Executing, InvocationsSound, InvocationSound
<1>2. \A j \in Invocation : j # i => invocations'[j] = invocations[j] /\ carriedOut'[j] = carriedOut[j]
                                     /\ (j \in heard' <=> j \in heard)
  OBVIOUS
<1>3. /\ invocations'[i].requester = invocations[i].requester /\ invocations'[i].actor = invocations[i].actor
      /\ invocations'[i].act = invocations[i].act /\ invocations'[i].conf = invocations[i].conf
      /\ invocations[i].grant # "none" => invocations'[i].grant # "none"
  OBVIOUS
<1>5. ConfirmationsSpent'
  <2>1. \A g \in Handler : Spends(g)' => g # h /\ Spends(g) /\ handlers'[g] = handlers[g] BY DEF Spends
  <2>2. \A j \in Invocation : Spent(j)' => Spent(j) /\ invocations'[j].conf = invocations[j].conf
    BY <1>1, <1>2, <1>3 DEF Spent, Invoked
  <2>3. \A j \in Invocation : Spent(j)' => ConfirmedBy(invocations[j])'
    BY <1>2, <1>3, <2>2 DEF ActionInv, ConfirmationsSpent, ConfirmedBy
  <2>4. \A g \in Handler : Spends(g)' => ConfirmedBy(handlers[g])'
    BY <2>1 DEF ActionInv, ConfirmationsSpent, ConfirmedBy
  <2> QED BY <2>1, <2>2, <2>3, <2>4 DEF ActionInv, ConfirmationsSpent
<1>6. \A g \in Handler : g # h => HandlerSound(g)'
  <2> SUFFICES ASSUME NEW g \in Handler, g # h PROVE HandlerSound(g)' OBVIOUS
  <2>1. handlers'[g] = handlers[g] /\ HandlerSound(g) BY DEF ActionInv, GrantsHeld
  <2>2. handlers[g].at \in Owning => handlers[g].inv # i BY DEF ActionInv, GrantsHeld
  <2>3. CASE handlers[g].inv = i
    BY <1>3, <2>1, <2>2, <2>3 DEF HandlerSound, Holding, Owning, Executing, Unanswered
  <2>4. CASE handlers[g].inv # i
    <3>1. handlers[g].inv \in Invocation => /\ invocations'[handlers[g].inv] = invocations[handlers[g].inv]
                                            /\ carriedOut'[handlers[g].inv] = carriedOut[handlers[g].inv]
                                            /\ (handlers[g].inv \in heard' <=> handlers[g].inv \in heard)
      BY <1>2, <2>4
    <3> QED BY <2>1, <3>1 DEF HandlerSound, Holding, Invoked, Unsettled, Executing, Unanswered
  <2> QED BY <2>3, <2>4
<1>7. GrantsHeld'
  <2>1. \A g \in Handler : HandlerSound(g)' BY <1>6
  <2>2. \A g \in Handler : handlers'[g].at \in Owning => handlers[g].at \in Owning /\ handlers'[g].inv = handlers[g].inv
    OBVIOUS
  <2> QED BY <2>1, <2>2 DEF ActionInv, GrantsHeld
<1>8. InvocationsSound'
  <2>1. \A j \in Invocation : j # i => InvocationSound(j)'
    <3> SUFFICES ASSUME NEW j \in Invocation, j # i PROVE InvocationSound(j)' OBVIOUS
    <3>1. /\ invocations'[j] = invocations[j] /\ carriedOut'[j] = carriedOut[j] /\ (j \in heard' <=> j \in heard)
          /\ InvocationSound(j)
      BY <1>2 DEF ActionInv, InvocationsSound
    <3>2. carriedOut'[j] <= 1 BY <3>1 DEF InvocationSound
    <3>3. invocations'[j].grant # "consumed" =>
            carriedOut'[j] = 0 /\ j \notin heard' /\ Unsettled(j)'
      BY <3>1 DEF InvocationSound, Unsettled
    <3>4. ~Invoked(j)' => invocations'[j].grant = "none" BY <3>1 DEF InvocationSound, Invoked
    <3>5. /\ invocations'[j].status = "succeeded" \/ invocations'[j].run = "succeeded" => j \in heard'
          /\ invocations'[j].status = "failed" \/ invocations'[j].run = "failed" => j \notin heard'
      BY <3>1 DEF InvocationSound
    <3> QED BY <3>2, <3>3, <3>4, <3>5 DEF InvocationSound
  <2> QED BY <2>1 DEF InvocationsSound
<1>9. \A j \in Invocation : invocations[j].grant # "none" => invocations'[j].grant # "none" BY <1>2, <1>3
<1> QED BY <1>5, <1>7, <1>8, <1>9

----------------------------------------------------------------------------
(* Executing a grant. *)

(* An action of a request that only writes its invocation, once the        *)
(* records are known to be sound.                                          *)
LEMMA WriteTyped ==
  ASSUME ActionInv, UNCHANGED <<persona, confirmations, oauthStates, credentials>>,
         invocations' \in [Invocation -> InvocationType], handlers' \in [Handler -> HandlerType],
         tool' \in ToolType, faults' \in 0..MaxFaults,
         carriedOut' \in [Invocation -> Nat], heard' \subseteq Invocation
  PROVE  ActionTypeOK'
BY DEF ActionInv, ActionTypeOK, HandlerType, InvocationType, ToolType, credentials

(* The error path all of them share. *)
LEMMA RejectedStep ==
  ASSUME ActionInv, NEW h \in Handler, Rejected(h), UNCHANGED invocations,
         UNCHANGED <<persona, confirmations, oauthStates, credentials, github>>
  PROVE  ActionInv'
<1>1. /\ handlers' \in [Handler -> HandlerType] /\ tool' \in ToolType /\ faults' \in 0..MaxFaults
      /\ ConfirmationsSpent' /\ GrantsHeld' /\ InvocationsSound' /\ ToolSound'
  BY RejectedKeeps
<1>2. ActionTypeOK' BY <1>1, WriteTyped, ActionTypes DEF ActionInv, github
<1> QED BY <1>1, <1>2 DEF ActionInv

(* The grant of a recorded invocation is registered by its one writer. *)
LEMMA RegisterGrantStep ==
  ASSUME ActionInv, NEW h \in Handler, RegisterGrant(h) PROVE ActionInv'
<1>1. UNCHANGED <<persona, confirmations, oauthStates, credentials, github>> /\ handlers[h].at = "grant"
  BY DEF RegisterGrant, GrantRegistered, At
<1>2. handlers \in [Handler -> HandlerType] /\ invocations \in [Invocation -> InvocationType]
      /\ tool \in ToolType /\ faults \in 0..MaxFaults
      /\ carriedOut \in [Invocation -> Nat] /\ heard \subseteq Invocation
  BY ActionTypes DEF ActionInv
<1>3. PICK i \in Invocation : /\ i = handlers[h].inv /\ Invoked(i) /\ invocations[i].grant = "none"
                               /\ handlers[h].conf \in Confirmation \cup {None}
  BY <1>1, <1>2, HandlerFields DEF ActionInv, GrantsHeld, HandlerSound, Holding
<1>4. CASE Rejected(h) /\ UNCHANGED invocations BY <1>1, <1>4, RejectedStep
<1>5. ASSUME invocations' = [invocations EXCEPT ![i].grant = "registered"],
             NEW answer \in {"granted", "failed"}, NEW conf \in Confirmation \cup {None},
             NEW inv \in Invocation \cup {None}, answer = "granted" => inv = i,
             Responds(h, answer, conf, inv), faults' \in 0..MaxFaults
      PROVE  ActionInv'
  <2>1. /\ handlers' \in [Handler -> HandlerType] /\ tool' \in ToolType
        /\ \A g \in Handler : g # h => handlers'[g] = handlers[g]
        /\ handlers'[h] = Idle
    <3>1. answer \in {"failed", "waiting", "granted", "ok"} /\ Responds(h, answer, conf, inv) BY <1>5
    <3> QED BY <1>2, <3>1, Answered
  <2>2. /\ invocations' \in [Invocation -> InvocationType]
        /\ \A j \in Invocation : j # i => invocations'[j] = invocations[j]
        /\ invocations'[i].grant = "registered" /\ invocations'[i].status = invocations[i].status
        /\ invocations'[i].run = invocations[i].run /\ invocations'[i].requester = invocations[i].requester
        /\ invocations'[i].actor = invocations[i].actor /\ invocations'[i].act = invocations[i].act
        /\ invocations'[i].conf = invocations[i].conf
    BY <1>2, <1>3, <1>5 DEF InvocationType
  <2>3. InvocationSound(i)' /\ Invoked(i)'
    BY <1>1, <1>3, <2>2 DEF ActionInv, InvocationsSound, InvocationSound, Invoked, Unsettled, github
  <2>4. HandlerSound(h)' /\ ~Spends(h)' /\ handlers'[h].at \notin Owning
    BY <2>1, IdleTyped DEF HandlerSound, Holding, Spends, Executing, Unanswered, Owning
  <2>5. /\ ConfirmationsSpent' /\ GrantsHeld' /\ InvocationsSound'
        /\ \A j \in Invocation : invocations[j].grant # "none" => invocations'[j].grant # "none"
    <3>1. handlers[h].at \in Owning BY <1>1 DEF Owning
    <3> QED BY <1>1, <1>3, <2>1, <2>2, <2>3, <2>4, <3>1, OwnerWrites DEF github
  <2>6. ToolSound' BY <1>1, <1>3, <1>5, <2>2, <2>5, ToolAnswered DEF ActionInv, github
  <2>7. ActionTypeOK' BY <1>1, <1>2, <1>5, <2>1, <2>2, WriteTyped DEF github
  <2> QED BY <2>5, <2>6, <2>7 DEF ActionInv
<1>6. CASE /\ invocations' = [invocations EXCEPT ![i].grant = "registered"]
           /\ Responds(h, "granted", handlers[h].conf, i) /\ UNCHANGED faults
  BY <1>2, <1>3, <1>5, <1>6
<1>7. CASE invocations' = [invocations EXCEPT ![i].grant = "registered"] /\ Rejected(h)
  <2>1. Responds(h, "failed", None, None) /\ faults' \in 0..MaxFaults
    BY <1>2, <1>7, FaultTyped DEF Rejected
  <2> QED BY <1>5, <1>7, <2>1
<1> QED BY <1>3, <1>4, <1>6, <1>7 DEF RegisterGrant, GrantRegistered

(* consumeGrant: one request alone carries an invocation out. *)
LEMMA ConsumeGrantStep ==
  ASSUME ActionInv, NEW h \in Handler, ConsumeGrant(h) PROVE ActionInv'
<1>1. UNCHANGED <<persona, confirmations, oauthStates, credentials, github>> /\ handlers[h].at = "consume"
  BY DEF ConsumeGrant, At
<1>2. handlers \in [Handler -> HandlerType] /\ invocations \in [Invocation -> InvocationType]
      /\ tool \in ToolType /\ faults \in 0..MaxFaults
      /\ carriedOut \in [Invocation -> Nat] /\ heard \subseteq Invocation
  BY ActionTypes DEF ActionInv
<1>3. PICK i \in Invocation : i = handlers[h].inv BY <1>1 DEF ActionInv, GrantsHeld, HandlerSound, Holding
<1>4. CASE Rejected(h) /\ UNCHANGED invocations BY <1>1, <1>4, RejectedStep
<1>5. CASE Responds(h, "failed", None, None) /\ UNCHANGED <<invocations, faults>>
  <2>1. /\ handlers' \in [Handler -> HandlerType] /\ tool' \in ToolType
        /\ ConfirmationsSpent' /\ GrantsHeld' /\ InvocationsSound' /\ ToolSound'
    BY <1>1, <1>5, RefusedKeeps
  <2>2. ActionTypeOK' BY <1>1, <1>2, <1>5, <2>1, WriteTyped DEF github
  <2> QED BY <2>1, <2>2 DEF ActionInv
<1>6. CASE /\ GrantOpen(i) /\ invocations' = [invocations EXCEPT ![i].grant = "consumed"]
           /\ Goes(h, "start") /\ UNCHANGED faults
  <2>1. /\ handlers' \in [Handler -> HandlerType] /\ tool' = tool
        /\ \A g \in Handler : g # h => handlers'[g] = handlers[g]
        /\ handlers'[h].at = "start" /\ handlers'[h].inv = i
    BY <1>2, <1>3, <1>6, GoesOn DEF Goes
  <2>2. /\ invocations' \in [Invocation -> InvocationType]
        /\ \A j \in Invocation : j # i => invocations'[j] = invocations[j]
        /\ invocations'[i].grant = "consumed" /\ invocations'[i].status = invocations[i].status
        /\ invocations'[i].run = invocations[i].run /\ invocations'[i].requester = invocations[i].requester
        /\ invocations'[i].actor = invocations[i].actor /\ invocations'[i].act = invocations[i].act
        /\ invocations'[i].conf = invocations[i].conf
    BY <1>2, <1>3, <1>6 DEF InvocationType
  <2>3. /\ invocations[i].grant = "registered" /\ carriedOut[i] = 0 /\ i \notin heard /\ Unsettled(i)
        /\ Invoked(i)
    BY <1>3, <1>6 DEF GrantOpen, ActionInv, InvocationsSound, InvocationSound
  <2>4. ~handlers[h].ok /\ ~handlers'[h].ok
    BY <1>1, <1>2, <1>6, GoesOn DEF Goes, ActionInv, GrantsHeld, HandlerSound, Holding
  <2>5. \A g \in Handler : g # h /\ handlers[g].at \in Owning => handlers[g].inv # i
    BY <2>3 DEF ActionInv, GrantsHeld, HandlerSound, Holding, Owning, Executing
  <2>6. ConfirmationsSpent'
    <3>1. \A g \in Handler : Spends(g)' => Spends(g) /\ handlers'[g] = handlers[g]
      BY <2>1 DEF Spends
    <3>2. \A j \in Invocation : Spent(j)' => /\ Spent(j) /\ invocations'[j].conf = invocations[j].conf
                                            /\ invocations'[j].requester = invocations[j].requester
                                            /\ invocations'[j].actor = invocations[j].actor
                                            /\ invocations'[j].act = invocations[j].act
      BY <2>2 DEF Spent, Invoked
    <3>3. \A j \in Invocation : Spent(j)' => ConfirmedBy(invocations[j])'
      BY <1>1, <3>2 DEF ActionInv, ConfirmationsSpent, ConfirmedBy
    <3>4. \A g \in Handler : Spends(g)' => ConfirmedBy(handlers[g])'
      BY <1>1, <3>1 DEF ActionInv, ConfirmationsSpent, ConfirmedBy
    <3> QED BY <3>1, <3>2, <3>3, <3>4 DEF ActionInv, ConfirmationsSpent
  <2>7. GrantsHeld'
    <3>1. HandlerSound(h)'
      BY <1>1, <1>3, <2>1, <2>2, <2>3, <2>4 DEF HandlerSound, Holding, Executing, Unanswered, Unsettled, github
    <3>2. ASSUME NEW g \in Handler, g # h PROVE HandlerSound(g)'
      <4>1. handlers'[g] = handlers[g] /\ HandlerSound(g) /\ (handlers[g].at \in Owning => handlers[g].inv # i)
        BY <2>1, <2>5, <3>2 DEF ActionInv, GrantsHeld
      <4>2. CASE handlers[g].inv = i
        BY <2>2, <4>1, <4>2 DEF HandlerSound, Holding, Owning, Executing, Unanswered
      <4>3. CASE handlers[g].inv # i
        <5>1. handlers[g].inv \in Invocation => invocations'[handlers[g].inv] = invocations[handlers[g].inv]
          BY <2>2, <4>3
        <5> QED BY <1>1, <4>1, <5>1 DEF HandlerSound, Holding, Invoked, Unsettled, Executing, Unanswered, github
      <4> QED BY <4>2, <4>3
    <3>3. \A g \in Handler : g # h => handlers'[g] = handlers[g] BY <2>1
    <3> QED BY <2>1, <2>5, <3>1, <3>2, <3>3 DEF ActionInv, GrantsHeld
  <2>8. InvocationsSound'
    BY <1>1, <2>2, <2>3 DEF ActionInv, InvocationsSound, InvocationSound, Invoked, Unsettled, github
  <2>9. ToolSound'
    <3>1. \A j \in Invocation : invocations[j].grant # "none" => invocations'[j].grant # "none" BY <2>2
    <3> QED BY <1>1, <2>1, <3>1, ToolKept DEF ActionInv, github, ToolStage, Owning, Executing
  <2>10. ActionTypeOK' BY <1>1, <1>2, <1>6, <2>1, <2>2, WriteTyped DEF github
  <2> QED BY <2>6, <2>7, <2>8, <2>9, <2>10 DEF ActionInv
<1> QED BY <1>3, <1>4, <1>5, <1>6 DEF ConsumeGrant

(* Bookkeeping: a run's state or an outcome is written, and nothing else of *)
(* the invocation.                                                         *)
Books(i, status, run) ==
  /\ invocations' \in [Invocation -> InvocationType]
  /\ \A j \in Invocation : j # i => invocations'[j] = invocations[j]
  /\ invocations'[i].requester = invocations[i].requester /\ invocations'[i].actor = invocations[i].actor
  /\ invocations'[i].act = invocations[i].act /\ invocations'[i].conf = invocations[i].conf
  /\ invocations'[i].grant = invocations[i].grant
  /\ invocations'[i].status \in {invocations[i].status, status}
  /\ invocations'[i].run \in {invocations[i].run, run}
  /\ Invoked(i) => Invoked(i)'

(* A write of the run's state changes no other field. *)
LEMMA RunWritten ==
  ASSUME invocations \in [Invocation -> InvocationType], NEW i \in Invocation,
         NEW run \in {"running", "succeeded", "failed"},
         invocations' = [invocations EXCEPT ![i].run = run] \/ UNCHANGED invocations
  PROVE  Books(i, invocations[i].status, run)
BY DEF Books, InvocationType, Invoked

(* updateInvocation changes no field but the outcome. *)
LEMMA UpdateWritten ==
  ASSUME invocations \in [Invocation -> InvocationType], NEW i \in Invocation,
         NEW status \in {"running", "succeeded", "failed"}, invocations' = Update(i, status)
  PROVE  Books(i, status, invocations[i].run)
<1>1. CASE invocations[i].status \in {"issued", "running"}
  <2>1. invocations' = [invocations EXCEPT ![i].status = status] BY <1>1 DEF Update
  <2> QED BY <2>1 DEF Books, InvocationType, Invoked
<1>2. CASE invocations[i].status \notin {"issued", "running"}
  <2>1. UNCHANGED invocations BY <1>2 DEF Update
  <2> QED BY <2>1 DEF Books, InvocationType, Invoked
<1> QED BY <1>1, <1>2

(* The books of a request under way, kept before GitHub has answered or    *)
(* told as it answered, leave every record sound.                          *)
LEMMA BooksSound ==
  ASSUME ActionInv, NEW h \in Handler, NEW i \in Invocation, handlers[h].at \in Executing,
         handlers[h].inv = i, UNCHANGED <<confirmations, github>>,
         NEW status, NEW run, Books(i, status, run),
         status = "succeeded" \/ run = "succeeded" => i \in heard,
         status = "failed" \/ run = "failed" => i \notin heard,
         \A g \in Handler : g # h => handlers'[g] = handlers[g], handlers'[h].at # "save",
         handlers'[h].at \in Owning => handlers'[h].inv = i,
         HandlerSound(h)'
  PROVE  /\ ConfirmationsSpent' /\ GrantsHeld' /\ InvocationsSound'
         /\ \A j \in Invocation : invocations[j].grant # "none" => invocations'[j].grant # "none"
<1>1. invocations[i].grant = "consumed" /\ Invoked(i) /\ InvocationSound(i)
  BY DEF ActionInv, GrantsHeld, HandlerSound, Holding, InvocationsSound, InvocationSound, Executing
<1>2. Invoked(i)' /\ invocations'[i].grant = "consumed" BY <1>1 DEF Books
<1>3. InvocationSound(i)' BY <1>1, <1>2 DEF InvocationSound, Books, Unsettled, github
<1>4. handlers[h].at \in Owning /\ ~Spends(h)' BY DEF Owning, Executing, Spends
<1> QED BY <1>2, <1>3, <1>4, OwnerWrites DEF Books, github

(* The run of a consumed grant is recorded. *)
LEMMA StartRunStep ==
  ASSUME ActionInv, NEW h \in Handler, StartRun(h) PROVE ActionInv'
<1>1. UNCHANGED <<persona, confirmations, oauthStates, credentials, github>> /\ handlers[h].at = "start"
  BY DEF StartRun, At
<1>2. handlers \in [Handler -> HandlerType] /\ invocations \in [Invocation -> InvocationType]
      /\ tool \in ToolType /\ faults \in 0..MaxFaults
      /\ carriedOut \in [Invocation -> Nat] /\ heard \subseteq Invocation
  BY ActionTypes DEF ActionInv
<1>3. PICK i \in Invocation : i = handlers[h].inv
  BY <1>1 DEF ActionInv, GrantsHeld, HandlerSound, Holding, Executing
<1>4. CASE Rejected(h) /\ UNCHANGED invocations BY <1>1, <1>4, RejectedStep
<1>5. CASE /\ invocations' = [invocations EXCEPT ![i].run = "running"]
           /\ Goes(h, "mark") /\ UNCHANGED faults
  <2>1. /\ handlers' \in [Handler -> HandlerType] /\ tool' = tool
        /\ \A g \in Handler : g # h => handlers'[g] = handlers[g]
        /\ handlers'[h].at = "mark" /\ handlers'[h].inv = i /\ handlers'[h].ok = handlers[h].ok
    BY <1>2, <1>3, <1>5, GoesOn DEF Goes
  <2>2. Books(i, invocations[i].status, "running") BY <1>2, <1>5, RunWritten
  <2>3. invocations[i].grant = "consumed" /\ carriedOut[i] = 0 /\ i \notin heard /\ Unsettled(i) /\ ~handlers[h].ok
    BY <1>1, <1>3 DEF ActionInv, GrantsHeld, HandlerSound, Holding, Executing, Unanswered
  <2>4. HandlerSound(h)'
    BY <1>1, <2>1, <2>2, <2>3 DEF HandlerSound, Holding, Executing, Unanswered, Unsettled, Books, github
  <2>5. /\ ConfirmationsSpent' /\ GrantsHeld' /\ InvocationsSound'
        /\ \A j \in Invocation : invocations[j].grant # "none" => invocations'[j].grant # "none"
    BY <1>1, <1>3, <2>1, <2>2, <2>3, <2>4, BooksSound DEF Executing, Unsettled
  <2>6. ToolSound'
    BY <1>1, <2>1, <2>5, ToolKept DEF ActionInv, github, ToolStage, Owning, Executing
  <2>7. ActionTypeOK' BY <1>1, <1>2, <1>5, <2>1, <2>2, WriteTyped DEF github, Books
  <2> QED BY <2>5, <2>6, <2>7 DEF ActionInv
<1> QED BY <1>3, <1>4, <1>5 DEF StartRun

(* The invocation is marked running. *)
LEMMA MarkRunningStep ==
  ASSUME ActionInv, NEW h \in Handler, MarkRunning(h) PROVE ActionInv'
<1>1. UNCHANGED <<persona, confirmations, oauthStates, credentials, github>> /\ handlers[h].at = "mark"
  BY DEF MarkRunning, At
<1>2. handlers \in [Handler -> HandlerType] /\ invocations \in [Invocation -> InvocationType]
      /\ tool \in ToolType /\ faults \in 0..MaxFaults
      /\ carriedOut \in [Invocation -> Nat] /\ heard \subseteq Invocation
  BY ActionTypes DEF ActionInv
<1>3. PICK i \in Invocation : i = handlers[h].inv
  BY <1>1 DEF ActionInv, GrantsHeld, HandlerSound, Holding, Executing
<1>4. CASE Rejected(h) /\ UNCHANGED invocations BY <1>1, <1>4, RejectedStep
<1>5. CASE invocations' = Update(i, "running") /\ Goes(h, "check") /\ UNCHANGED faults
  <2>1. /\ handlers' \in [Handler -> HandlerType] /\ tool' = tool
        /\ \A g \in Handler : g # h => handlers'[g] = handlers[g]
        /\ handlers'[h].at = "check" /\ handlers'[h].inv = i /\ handlers'[h].ok = handlers[h].ok
    BY <1>2, <1>3, <1>5, GoesOn DEF Goes
  <2>2. Books(i, "running", invocations[i].run) BY <1>2, <1>5, UpdateWritten
  <2>3. invocations[i].grant = "consumed" /\ carriedOut[i] = 0 /\ i \notin heard /\ Unsettled(i) /\ ~handlers[h].ok
    BY <1>1, <1>3 DEF ActionInv, GrantsHeld, HandlerSound, Holding, Executing, Unanswered
  <2>4. HandlerSound(h)'
    BY <1>1, <2>1, <2>2, <2>3 DEF HandlerSound, Holding, Executing, Unanswered, Unsettled, Books, github
  <2>5. /\ ConfirmationsSpent' /\ GrantsHeld' /\ InvocationsSound'
        /\ \A j \in Invocation : invocations[j].grant # "none" => invocations'[j].grant # "none"
    BY <1>1, <1>3, <2>1, <2>2, <2>3, <2>4, BooksSound DEF Executing, Unsettled
  <2>6. ToolSound'
    BY <1>1, <2>1, <2>5, ToolKept DEF ActionInv, github, ToolStage, Owning, Executing
  <2>7. ActionTypeOK' BY <1>1, <1>2, <1>5, <2>1, <2>2, WriteTyped DEF github, Books
  <2> QED BY <2>5, <2>6, <2>7 DEF ActionInv
<1> QED BY <1>3, <1>4, <1>5 DEF MarkRunning

(* The account's connection is looked up. *)
LEMMA CheckConnectionStep ==
  ASSUME ActionInv, NEW h \in Handler, CheckConnection(h) PROVE ActionInv'
<1>1. UNCHANGED <<records, credentials, github, tool>> /\ handlers[h].at = "check"
  BY DEF CheckConnection, At, Goes
<1>2. handlers \in [Handler -> HandlerType] /\ invocations \in [Invocation -> InvocationType]
      /\ tool \in ToolType /\ faults \in 0..MaxFaults
      /\ carriedOut \in [Invocation -> Nat] /\ heard \subseteq Invocation
  BY ActionTypes DEF ActionInv
<1>3. faults' \in 0..MaxFaults BY <1>2, FaultTyped DEF CheckConnection
<1>4. PICK place \in {"post", "finish"} : handlers' = [handlers EXCEPT ![h].at = place]
  BY DEF CheckConnection, Goes
<1>5. /\ handlers' \in [Handler -> HandlerType]
      /\ \A g \in Handler : g # h => handlers'[g] = handlers[g]
      /\ handlers'[h].at = place /\ handlers'[h].inv = handlers[h].inv /\ handlers'[h].ok = handlers[h].ok
  BY <1>2, <1>4, GoesOn
<1>6. HandlerSound(h) BY DEF ActionInv, GrantsHeld
<1>7. HandlerSound(h)' /\ ~Spends(h)' /\ handlers[h].at \in Owning
  BY <1>1, <1>5, <1>6 DEF HandlerSound, Holding, Executing, Unanswered, Unsettled, Spends, Owning, github, records
<1>8. ConfirmationsSpent' /\ GrantsHeld' /\ InvocationsSound'
  BY <1>1, <1>5, <1>7, HandlerMoves DEF records
<1>9. ToolSound'
  BY <1>1, <1>5, ToolKept DEF ActionInv, records, github, ToolStage, Owning, Executing
<1>10. ActionTypeOK' BY <1>1, <1>2, <1>3, <1>5, WriteTyped DEF github, records
<1> QED BY <1>8, <1>9, <1>10 DEF ActionInv

(* The request to GitHub is made once, and its answer is heard or lost. *)
LEMMA PostStep ==
  ASSUME ActionInv, NEW h \in Handler, Post(h) PROVE ActionInv'
<1>1. UNCHANGED <<records, credentials, tool>> /\ handlers[h].at = "post" BY DEF Post, At
<1>2. handlers \in [Handler -> HandlerType] /\ invocations \in [Invocation -> InvocationType]
      /\ tool \in ToolType /\ faults \in 0..MaxFaults
      /\ carriedOut \in [Invocation -> Nat] /\ heard \subseteq Invocation
  BY ActionTypes DEF ActionInv
<1>3. PICK i \in Invocation : i = handlers[h].inv
  BY <1>1 DEF ActionInv, GrantsHeld, HandlerSound, Holding, Executing
<1>4. invocations[i].grant = "consumed" /\ carriedOut[i] = 0 /\ i \notin heard /\ Unsettled(i) /\ ~handlers[h].ok
  BY <1>1, <1>3 DEF ActionInv, GrantsHeld, HandlerSound, Holding, Executing, Unanswered
<1>5. faults' \in 0..MaxFaults BY <1>2, FaultTyped DEF Post
<1>6. /\ carriedOut' \in [Invocation -> Nat] /\ carriedOut'[i] <= 1
      /\ \A j \in Invocation : j # i => carriedOut'[j] = carriedOut[j]
  <2>1. carriedOut' = carriedOut \/ carriedOut' = [carriedOut EXCEPT ![i] = @ + 1]
    BY <1>3 DEF Post, github
  <2> QED BY <1>2, <1>4, <2>1
<1>7. heard' \in {heard, heard \cup {i}} BY <1>3 DEF Post, github
<1>8. /\ handlers' \in [Handler -> HandlerType]
      /\ \A g \in Handler : g # h => handlers'[g] = handlers[g]
      /\ handlers'[h].at = "finish" /\ handlers'[h].inv = i
      /\ handlers'[h].ok <=> i \in heard'
  <2>1. CASE handlers' = [handlers EXCEPT ![h].at = "finish"] /\ UNCHANGED heard
    BY <1>2, <1>3, <1>4, <2>1, GoesOn
  <2>2. CASE handlers' = [handlers EXCEPT ![h].at = "finish", ![h].ok = TRUE] /\ i \in heard'
    <3> DEFINE r == [handlers[h] EXCEPT !.at = "finish", !.ok = TRUE]
    <3>1. r \in HandlerType /\ r.at = "finish" /\ r.inv = i /\ r.ok = TRUE
      BY <1>2, <1>3 DEF HandlerType
    <3>2. handlers' = [handlers EXCEPT ![h] = r] BY <1>2, <2>2
    <3> HIDE DEF r
    <3> QED BY <1>2, <2>2, <3>1, <3>2
  <2> QED BY <1>3, <2>1, <2>2 DEF Post, github
<1>9. HandlerSound(h)' /\ ~Spends(h)'
  BY <1>1, <1>3, <1>4, <1>8 DEF HandlerSound, Holding, Executing, Unanswered, Spends, records
<1>10. InvocationSound(i)' /\ Invoked(i)'
  BY <1>1, <1>4, <1>6, <1>7
  DEF ActionInv, InvocationsSound, InvocationSound, Invoked, Unsettled, records
<1>11. ConfirmationsSpent' /\ GrantsHeld' /\ InvocationsSound'
  <2>1. handlers[h].at \in Owning BY <1>1 DEF Owning, Executing
  <2>2. \A j \in Invocation : j # i =>
           invocations'[j] = invocations[j] /\ carriedOut'[j] = carriedOut[j] /\ (j \in heard' <=> j \in heard)
    BY <1>1, <1>6, <1>7 DEF records
  <2>3. UNCHANGED <<confirmations, invocations>> BY <1>1 DEF records
  <2> QED BY <1>2, <1>3, <1>8, <1>9, <1>10, <2>1, <2>2, <2>3, OwnerWrites
<1>12. ToolSound'
  BY <1>1, <1>7, <1>8, ToolKept DEF ActionInv, records, ToolStage, Owning, Executing
<1>13. ActionTypeOK' BY <1>1, <1>2, <1>5, <1>6, <1>7, <1>8, WriteTyped DEF records
<1> QED BY <1>11, <1>12, <1>13 DEF ActionInv

(* The run's outcome is what was heard. *)
LEMMA FinishRunStep ==
  ASSUME ActionInv, NEW h \in Handler, FinishRun(h) PROVE ActionInv'
<1>1. UNCHANGED <<persona, confirmations, oauthStates, credentials, github, tool>> /\ handlers[h].at = "finish"
  BY DEF FinishRun, At, Goes, Warned
<1>2. handlers \in [Handler -> HandlerType] /\ invocations \in [Invocation -> InvocationType]
      /\ tool \in ToolType /\ faults \in 0..MaxFaults
      /\ carriedOut \in [Invocation -> Nat] /\ heard \subseteq Invocation
  BY ActionTypes DEF ActionInv
<1>3. PICK i \in Invocation : i = handlers[h].inv
  BY <1>1 DEF ActionInv, GrantsHeld, HandlerSound, Holding, Executing
<1>4. invocations[i].grant = "consumed" /\ (handlers[h].ok <=> i \in heard) /\ InvocationSound(i)
  BY <1>1, <1>3 DEF ActionInv, GrantsHeld, HandlerSound, Holding, Executing, InvocationsSound
<1>5. faults' \in 0..MaxFaults /\ handlers' = [handlers EXCEPT ![h].at = "record"]
  BY <1>2, FaultTyped DEF FinishRun, Warned, Goes
<1>6. /\ handlers' \in [Handler -> HandlerType]
      /\ \A g \in Handler : g # h => handlers'[g] = handlers[g]
      /\ handlers'[h].at = "record" /\ handlers'[h].inv = i /\ handlers'[h].ok = handlers[h].ok
  BY <1>2, <1>3, <1>5, GoesOn
<1>7. PICK run \in {"succeeded", "failed"} : run = Outcome(h) BY DEF Outcome
<1>8. Books(i, invocations[i].status, run)
  <2>1. UNCHANGED invocations \/ invocations' = [invocations EXCEPT ![i].run = IF @ = "running" THEN run ELSE @]
    BY <1>3, <1>7 DEF FinishRun
  <2> QED BY <1>2, <2>1 DEF Books, InvocationType, Invoked
<1>9. HandlerSound(h)'
  BY <1>1, <1>4, <1>6, <1>8 DEF HandlerSound, Holding, Executing, Unanswered, Books, github
<1>10. /\ ConfirmationsSpent' /\ GrantsHeld' /\ InvocationsSound'
       /\ \A j \in Invocation : invocations[j].grant # "none" => invocations'[j].grant # "none"
  <2>1. /\ invocations[i].status = "succeeded" \/ run = "succeeded" => i \in heard
        /\ invocations[i].status = "failed" \/ run = "failed" => i \notin heard
    BY <1>4, <1>7 DEF Outcome, InvocationSound
  <2> QED BY <1>1, <1>3, <1>6, <1>8, <1>9, <2>1, BooksSound DEF Executing
<1>11. ToolSound'
  BY <1>1, <1>6, <1>10, ToolKept DEF ActionInv, github, ToolStage, Owning, Executing
<1>12. ActionTypeOK' BY <1>1, <1>2, <1>5, <1>6, <1>8, WriteTyped DEF github, Books
<1> QED BY <1>10, <1>11, <1>12 DEF ActionInv

(* The invocation's outcome, and the tool's, is what was heard. *)
LEMMA RecordOutcomeStep ==
  ASSUME ActionInv, NEW h \in Handler, RecordOutcome(h) PROVE ActionInv'
<1>1. UNCHANGED <<persona, confirmations, oauthStates, credentials, github>> /\ handlers[h].at = "record"
  BY DEF RecordOutcome, At
<1>2. handlers \in [Handler -> HandlerType] /\ invocations \in [Invocation -> InvocationType]
      /\ tool \in ToolType /\ faults \in 0..MaxFaults
      /\ carriedOut \in [Invocation -> Nat] /\ heard \subseteq Invocation
  BY ActionTypes DEF ActionInv
<1>3. PICK i \in Invocation : i = handlers[h].inv
  BY <1>1 DEF ActionInv, GrantsHeld, HandlerSound, Holding, Executing
<1>4. invocations[i].grant = "consumed" /\ (handlers[h].ok <=> i \in heard) /\ InvocationSound(i)
  BY <1>1, <1>3 DEF ActionInv, GrantsHeld, HandlerSound, Holding, Executing, InvocationsSound
<1>5. PICK told \in {"ok", "failed"} : told = IF handlers[h].ok THEN "ok" ELSE "failed" OBVIOUS
<1>6. Responds(h, told, None, i) /\ faults' \in 0..MaxFaults
  BY <1>2, <1>3, <1>5, FaultTyped DEF RecordOutcome
<1>7. /\ handlers' \in [Handler -> HandlerType] /\ tool' \in ToolType
      /\ \A g \in Handler : g # h => handlers'[g] = handlers[g]
      /\ handlers'[h] = Idle
  BY <1>2, <1>6, Answered
<1>8. PICK status \in {"succeeded", "failed"} : status = Outcome(h) BY DEF Outcome
<1>9. Books(i, status, invocations[i].run)
  <2>1. CASE UNCHANGED invocations BY <1>2, <2>1 DEF Books, Invoked
  <2>2. CASE invocations' = Update(i, status) BY <1>2, <2>2, UpdateWritten
  <2> QED BY <1>3, <1>8, <2>1, <2>2 DEF RecordOutcome
<1>10. HandlerSound(h)' /\ handlers'[h].at = "idle"
  BY <1>7, IdleTyped DEF HandlerSound, Holding, Executing, Unanswered
<1>11. /\ ConfirmationsSpent' /\ GrantsHeld' /\ InvocationsSound'
       /\ \A j \in Invocation : invocations[j].grant # "none" => invocations'[j].grant # "none"
  <2>1. /\ status = "succeeded" \/ invocations[i].run = "succeeded" => i \in heard
        /\ status = "failed" \/ invocations[i].run = "failed" => i \notin heard
    BY <1>4, <1>8 DEF Outcome, InvocationSound
  <2> QED BY <1>1, <1>3, <1>7, <1>9, <1>10, <2>1, BooksSound DEF Executing, Owning
<1>12. ToolSound' BY <1>1, <1>4, <1>5, <1>6, <1>11, ToolAnswered DEF ActionInv, github
<1>13. ActionTypeOK' BY <1>1, <1>2, <1>6, <1>7, <1>9, WriteTyped DEF github, Books
<1> QED BY <1>11, <1>12, <1>13 DEF ActionInv

----------------------------------------------------------------------------
(* Accounts, the tool, and everything else. *)

(* The parts no credential is in: an action on accounts leaves them sound. *)
LEMMA AccountMoves ==
  ASSUME ActionInv, NEW h \in Handler, handlers[h].at \in Holding \cup {"idle", "exchange"},
         UNCHANGED <<persona, confirmations, invocations, tool, github>>, faults' \in 0..MaxFaults,
         handlers' \in [Handler -> HandlerType],
         \A g \in Handler : g # h => handlers'[g] = handlers[g],
         handlers'[h].at \in Holding \cup {"idle", "exchange"},
         handlers'[h].at \in Holding => handlers'[h].conn \in Connection,
         oauthStates' \in [OAuthState -> [owner : Human \cup {None}, status : {"absent", "open", "deleted"},
                                         expired : BOOLEAN]],
         connections' \in [Connection -> [owner : Principal \cup {None},
                                         status : {"absent", "active", "revoked"}]],
         vault' \subseteq Connection, tokens' \subseteq Connection
  PROVE  ActionInv'
<1>1. ConfirmationsSpent' /\ GrantsHeld' /\ InvocationsSound' BY HandlerRests
<1>2. handlers[h].at \notin ToolStage BY DEF Holding, ToolStage, Owning, Executing
<1>3. ToolSound' BY <1>2, ToolKept DEF ActionInv, github
<1>4. ActionTypeOK' BY DEF ActionInv, ActionTypeOK, HandlerType, github
<1> QED BY <1>1, <1>3, <1>4 DEF ActionInv

(* The same, with an answer; the tool does not wait for it. *)
LEMMA AccountAnswers ==
  ASSUME ActionInv, NEW h \in Handler, handlers[h].at \in Holding \cup {"idle", "exchange"},
         NEW answer \in {"ok", "failed"}, Responds(h, answer, None, None),
         UNCHANGED <<persona, confirmations, invocations, oauthStates, github>>, faults' \in 0..MaxFaults,
         connections' \in [Connection -> [owner : Principal \cup {None},
                                         status : {"absent", "active", "revoked"}]],
         vault' \subseteq Connection, tokens' \subseteq Connection
  PROVE  ActionInv'
<1>1. handlers \in [Handler -> HandlerType] /\ tool \in ToolType /\
      oauthStates \in [OAuthState -> [owner : Human \cup {None}, status : {"absent", "open", "deleted"},
                                         expired : BOOLEAN]]
  BY ActionTypes DEF ActionInv
<1>2. answer \in {"failed", "waiting", "granted", "ok"} OBVIOUS
<1>3. tool.by # h
  BY ActionsAssumption DEF ActionInv, ToolSound, Holding, ToolStage, Owning, Executing
<1>4. /\ handlers' \in [Handler -> HandlerType] /\ tool' = tool
      /\ \A g \in Handler : g # h => handlers'[g] = handlers[g]
      /\ handlers'[h] = Idle
  BY <1>1, <1>2, <1>3, Answered
<1> QED BY <1>1, <1>4, IdleTyped, AccountMoves DEF Holding

(* A failed step of a connection or revocation changes no record. *)
LEMMA AccountRejected ==
  ASSUME ActionInv, NEW h \in Handler, handlers[h].at \in Holding \cup {"idle", "exchange"}, Rejected(h),
         UNCHANGED <<records, connections, github>>, vault' \subseteq Connection, tokens' \subseteq Connection
  PROVE  ActionInv'
<1>1. /\ faults \in 0..MaxFaults
      /\ connections \in [Connection -> [owner : Principal \cup {None}, status : {"absent", "active", "revoked"}]]
  BY ActionTypes DEF ActionInv
<1>2. Responds(h, "failed", None, None) /\ faults' \in 0..MaxFaults BY <1>1, FaultTyped DEF Rejected
<1> QED BY <1>1, <1>2, AccountAnswers DEF records

(* A callback consumes its OAuth state. *)
LEMMA ConsumeOAuthStateStep ==
  ASSUME ActionInv, NEW h \in Handler, NEW s \in OAuthState, NEW p \in Human, ConsumeOAuthState(h, s, p)
  PROVE  ActionInv'
<1>1. handlers \in [Handler -> HandlerType] /\ ActionTypeOK BY ActionTypes DEF ActionInv
<1> DEFINE r == [Idle EXCEPT !.at = "exchange", !.requester = p]
<1>2. r \in HandlerType /\ r.at = "exchange" BY DEF Idle, HandlerType
<1> HIDE DEF r
<1>3. handlers' = [handlers EXCEPT ![h] = r] /\ handlers[h].at = "idle" BY DEF ConsumeOAuthState, At, r
<1>4. /\ handlers' \in [Handler -> HandlerType] /\ handlers'[h] = r
      /\ \A g \in Handler : g # h => handlers'[g] = handlers[g]
  BY <1>1, <1>2, <1>3
<1>5. oauthStates' \in [OAuthState -> [owner : Human \cup {None}, status : {"absent", "open", "deleted"},
                                         expired : BOOLEAN]]
  BY <1>1 DEF ConsumeOAuthState, ActionTypeOK
<1> QED BY <1>1, <1>2, <1>3, <1>4, <1>5, AccountMoves DEF ConsumeOAuthState, ActionTypeOK, credentials, Holding

(* A request to revoke an account takes its connection in hand. *)
LEMMA RevokesStep ==
  ASSUME ActionInv, NEW h \in Handler, NEW k \in Connection, NEW p \in Human, NEW isAdmin \in BOOLEAN,
         Revokes(h, k, p, isAdmin)
  PROVE  ActionInv'
<1>1. handlers \in [Handler -> HandlerType] /\ ActionTypeOK BY ActionTypes DEF ActionInv
<1> DEFINE r == [Idle EXCEPT !.at = "revoke", !.requester = p, !.conn = k]
<1>2. r \in HandlerType /\ r.at = "revoke" /\ r.conn = k BY DEF Idle, HandlerType
<1> HIDE DEF r
<1>3. handlers' = [handlers EXCEPT ![h] = r] /\ handlers[h].at = "idle" BY DEF Revokes, At, r
<1>4. /\ handlers' \in [Handler -> HandlerType] /\ handlers'[h] = r
      /\ \A g \in Handler : g # h => handlers'[g] = handlers[g]
  BY <1>1, <1>2, <1>3
<1> QED BY <1>1, <1>2, <1>3, <1>4, AccountMoves DEF Revokes, ActionTypeOK, credentials, records, Holding

(* The code is exchanged for a token. *)
LEMMA ExchangeCodeStep ==
  ASSUME ActionInv, NEW h \in Handler, ExchangeCode(h) PROVE ActionInv'
<1>1. handlers \in [Handler -> HandlerType] /\ ActionTypeOK BY ActionTypes DEF ActionInv
<1>2. handlers[h].at = "exchange" /\ UNCHANGED <<records, connections, vault, github>> /\ tokens' \subseteq Connection
  BY <1>1 DEF ExchangeCode, At, ActionTypeOK
<1>3. CASE Rejected(h) BY <1>1, <1>2, <1>3, AccountRejected DEF ActionTypeOK
<1>4. CASE \E k \in Connection : /\ handlers' = [handlers EXCEPT ![h].at = "vault", ![h].conn = k]
                                 /\ UNCHANGED <<tool, faults>>
  <2>1. PICK k \in Connection : handlers' = [handlers EXCEPT ![h].at = "vault", ![h].conn = k] BY <1>4
  <2> DEFINE r == [handlers[h] EXCEPT !.at = "vault", !.conn = k]
  <2>2. r \in HandlerType /\ r.at = "vault" /\ r.conn = k BY <1>1 DEF HandlerType
  <2>3. handlers' = [handlers EXCEPT ![h] = r] BY <1>1, <2>1
  <2> HIDE DEF r
  <2>4. /\ handlers' \in [Handler -> HandlerType] /\ handlers'[h] = r
        /\ \A g \in Handler : g # h => handlers'[g] = handlers[g]
    BY <1>1, <2>2, <2>3
  <2> QED BY <1>1, <1>2, <1>4, <2>2, <2>4, AccountMoves DEF ActionTypeOK, records, Holding
<1> QED BY <1>3, <1>4 DEF ExchangeCode

(* The token is put into the vault. *)
LEMMA PutCredentialStep ==
  ASSUME ActionInv, NEW h \in Handler, PutCredential(h) PROVE ActionInv'
<1>1. handlers \in [Handler -> HandlerType] /\ ActionTypeOK BY ActionTypes DEF ActionInv
<1>2. handlers[h].at = "vault" /\ UNCHANGED <<records, connections, tokens, github>> BY DEF PutCredential, At
<1>3. handlers[h].conn \in Connection BY <1>2 DEF ActionInv, GrantsHeld, HandlerSound, Holding
<1>4. vault' \subseteq Connection BY <1>1, <1>3 DEF PutCredential, ActionTypeOK
<1>5. CASE Rejected(h) BY <1>1, <1>2, <1>4, <1>5, AccountRejected DEF ActionTypeOK, Holding
<1>6. CASE Goes(h, "connect") /\ UNCHANGED faults
  <2>1. /\ handlers' \in [Handler -> HandlerType] /\ tool' = tool
        /\ \A g \in Handler : g # h => handlers'[g] = handlers[g]
        /\ handlers'[h].at = "connect" /\ handlers'[h].conn = handlers[h].conn
    BY <1>1, <1>6, GoesOn DEF Goes
  <2> QED BY <1>1, <1>2, <1>3, <1>4, <1>6, <2>1, AccountMoves DEF ActionTypeOK, records, Holding
<1> QED BY <1>5, <1>6 DEF PutCredential

(* The connection is registered, or its registration fails. *)
LEMMA RegisterConnectionStep ==
  ASSUME ActionInv, NEW h \in Handler, RegisterConnection(h) PROVE ActionInv'
<1>1. handlers \in [Handler -> HandlerType] /\ ActionTypeOK /\ handlers[h] \in HandlerType
  BY ActionTypes DEF ActionInv
<1>2. handlers[h].at = "connect" /\ UNCHANGED <<records, vault, tokens, github>> BY DEF RegisterConnection, At
<1>3. handlers[h].conn \in Connection BY <1>2 DEF ActionInv, GrantsHeld, HandlerSound, Holding
<1>4. connections' \in [Connection -> [owner : Principal \cup {None}, status : {"absent", "active", "revoked"}]]
  <2>1. handlers[h].requester \in Principal \cup {None} BY <1>1, HandlerFields DEF Principal
  <2> QED BY <1>1, <2>1 DEF RegisterConnection, ActionTypeOK
<1>5. CASE Responds(h, "ok", None, None) /\ UNCHANGED faults
  BY <1>1, <1>2, <1>4, <1>5, AccountAnswers DEF ActionTypeOK, Holding, records
<1>6. CASE Fault /\ Goes(h, "discard")
  <2>1. /\ handlers' \in [Handler -> HandlerType] /\ tool' = tool
        /\ \A g \in Handler : g # h => handlers'[g] = handlers[g]
        /\ handlers'[h].at = "discard" /\ handlers'[h].conn = handlers[h].conn
    BY <1>1, <1>6, GoesOn DEF Goes
  <2>2. faults' \in 0..MaxFaults BY <1>1, <1>6, FaultTyped DEF ActionTypeOK
  <2> QED BY <1>1, <1>2, <1>3, <1>4, <2>1, <2>2, AccountMoves DEF ActionTypeOK, records, Holding
<1> QED BY <1>5, <1>6 DEF RegisterConnection

(* The token of a connection that failed is discarded. *)
LEMMA DiscardCredentialStep ==
  ASSUME ActionInv, NEW h \in Handler, DiscardCredential(h) PROVE ActionInv'
<1>1. ActionTypeOK /\ handlers[h].at = "discard" /\ UNCHANGED <<records, connections, tokens, github>>
  BY DEF DiscardCredential, At, ActionInv
<1>2. vault' \subseteq Connection BY <1>1 DEF DiscardCredential, ActionTypeOK
<1>3. CASE Rejected(h) BY <1>1, <1>2, <1>3, AccountRejected DEF ActionTypeOK, Holding
<1>4. CASE Responds(h, "failed", None, None) /\ UNCHANGED faults
  BY <1>1, <1>2, <1>4, AccountAnswers DEF ActionTypeOK, Holding, records
<1> QED BY <1>3, <1>4 DEF DiscardCredential

(* GitHub revokes the token. *)
LEMMA RevokeTokenStep ==
  ASSUME ActionInv, NEW h \in Handler, RevokeToken(h) PROVE ActionInv'
<1>1. handlers \in [Handler -> HandlerType] /\ ActionTypeOK BY ActionTypes DEF ActionInv
<1>2. handlers[h].at = "revoke" /\ UNCHANGED <<records, connections, vault, github>> BY DEF RevokeToken, At
<1>3. handlers[h].conn \in Connection BY <1>2 DEF ActionInv, GrantsHeld, HandlerSound, Holding
<1>4. tokens' \subseteq Connection BY <1>1 DEF RevokeToken, ActionTypeOK
<1>5. CASE Rejected(h) BY <1>1, <1>2, <1>4, <1>5, AccountRejected DEF ActionTypeOK, Holding
<1>6. CASE Responds(h, "failed", None, None) /\ UNCHANGED faults
  BY <1>1, <1>2, <1>4, <1>6, AccountAnswers DEF ActionTypeOK, Holding, records
<1>7. CASE Goes(h, "recordRevoked") /\ UNCHANGED faults
  <2>1. /\ handlers' \in [Handler -> HandlerType] /\ tool' = tool
        /\ \A g \in Handler : g # h => handlers'[g] = handlers[g]
        /\ handlers'[h].at = "recordRevoked" /\ handlers'[h].conn = handlers[h].conn
    BY <1>1, <1>7, GoesOn DEF Goes
  <2> QED BY <1>1, <1>2, <1>3, <1>4, <1>7, <2>1, AccountMoves DEF ActionTypeOK, records, Holding
<1> QED BY <1>5, <1>6, <1>7 DEF RevokeToken

(* The connection is recorded as revoked. *)
LEMMA RevokeConnectionStep ==
  ASSUME ActionInv, NEW h \in Handler, RevokeConnection(h) PROVE ActionInv'
<1>1. handlers \in [Handler -> HandlerType] /\ ActionTypeOK BY ActionTypes DEF ActionInv
<1>2. handlers[h].at = "recordRevoked" /\ UNCHANGED <<records, vault, tokens, github>> BY DEF RevokeConnection, At
<1>3. handlers[h].conn \in Connection BY <1>2 DEF ActionInv, GrantsHeld, HandlerSound, Holding
<1>4. connections' \in [Connection -> [owner : Principal \cup {None}, status : {"absent", "active", "revoked"}]]
  <2>1. \/ connections' = connections
        \/ connections' = [connections EXCEPT ![handlers[h].conn].status = "revoked"]
    BY DEF RevokeConnection
  <2>2. PICK k \in Connection : k = handlers[h].conn BY <1>3
  <2>3. connections' = connections \/ connections' = [connections EXCEPT ![k].status = "revoked"] BY <2>1, <2>2
  <2>4. connections \in [Connection -> [owner : Principal \cup {None}, status : {"absent", "active", "revoked"}]]
    BY <1>1 DEF ActionTypeOK
  <2> QED BY <2>3, <2>4
<1>5. CASE Rejected(h) /\ UNCHANGED connections BY <1>1, <1>2, <1>5, AccountRejected DEF ActionTypeOK, Holding
<1>6. CASE Goes(h, "forget") /\ UNCHANGED faults
  <2>1. /\ handlers' \in [Handler -> HandlerType] /\ tool' = tool
        /\ \A g \in Handler : g # h => handlers'[g] = handlers[g]
        /\ handlers'[h].at = "forget" /\ handlers'[h].conn = handlers[h].conn
    BY <1>1, <1>6, GoesOn DEF Goes
  <2> QED BY <1>1, <1>2, <1>3, <1>4, <1>6, <2>1, AccountMoves DEF ActionTypeOK, records, Holding
<1> QED BY <1>5, <1>6 DEF RevokeConnection

(* The revoked token is deleted from the vault. *)
LEMMA ForgetCredentialStep ==
  ASSUME ActionInv, NEW h \in Handler, ForgetCredential(h) PROVE ActionInv'
<1>1. ActionTypeOK /\ handlers[h].at = "forget" /\ UNCHANGED <<records, connections, tokens, github>>
  BY DEF ForgetCredential, At, ActionInv
<1>2. vault' \subseteq Connection BY <1>1 DEF ForgetCredential, ActionTypeOK
<1>3. CASE Rejected(h) BY <1>1, <1>2, <1>3, AccountRejected DEF ActionTypeOK, Holding
<1>4. CASE Responds(h, "ok", None, None) /\ UNCHANGED faults
  BY <1>1, <1>2, <1>4, AccountAnswers DEF ActionTypeOK, Holding, records
<1> QED BY <1>3, <1>4 DEF ForgetCredential

(* A decision is taken once, on a pending confirmation. *)
LEMMA DecideConfirmationStep ==
  ASSUME ActionInv, NEW c \in Confirmation, NEW p \in Human, NEW approve \in BOOLEAN,
         DecideConfirmation(c, p, approve)
  PROVE  ActionInv'
<1>1. UNCHANGED <<persona, invocations, oauthStates, credentials, handlers, tool, faults, github>>
  BY DEF DecideConfirmation
<1>2. confirmations \in [Confirmation -> ConfirmationType] BY ActionTypes DEF ActionInv
<1>3. /\ confirmations[c].status = "pending"
      /\ confirmations' = [confirmations EXCEPT ![c].status = "approved"]
         \/ confirmations' = [confirmations EXCEPT ![c].status = "denied"]
  BY DEF DecideConfirmation
<1>4. confirmations' \in [Confirmation -> ConfirmationType] BY <1>2, <1>3 DEF ConfirmationType
<1>5. \A d \in Confirmation : confirmations[d].status = "used" => confirmations'[d] = confirmations[d]
  BY <1>2, <1>3
<1>6. ConfirmationsSpent'
  BY <1>1, <1>5 DEF ActionInv, ConfirmationsSpent, ConfirmedBy, Spends, Spent, Invoked
<1>7. GrantsHeld' /\ InvocationsSound' /\ ToolSound'
  BY <1>1 DEF ActionInv, GrantsHeld, HandlerSound, InvocationsSound, InvocationSound, Invoked, Unsettled, ToolSound, github
<1>8. ActionTypeOK' BY <1>1, <1>4 DEF ActionInv, ActionTypeOK, ConfirmationType, credentials, github
<1> QED BY <1>6, <1>7, <1>8 DEF ActionInv

(* A new OAuth state touches no action. *)
LEMMA StartOAuthStep ==
  ASSUME ActionInv, NEW s \in OAuthState, NEW p \in Human, StartOAuth(s, p)
  PROVE  ActionInv'
<1>1. UNCHANGED <<persona, confirmations, invocations, credentials, handlers, tool, faults, github>>
  BY DEF StartOAuth
<1>2. oauthStates' \in [OAuthState -> [owner : Human \cup {None}, status : {"absent", "open", "deleted"},
                                         expired : BOOLEAN]]
  BY DEF StartOAuth, ActionInv, ActionTypeOK
<1>3. ConfirmationsSpent' /\ GrantsHeld'
  BY <1>1 DEF ActionInv, ConfirmationsSpent, ConfirmedBy, Spends, Spent, Invoked, GrantsHeld, HandlerSound,
              Unsettled, github
<1>4. InvocationsSound' /\ ToolSound'
  BY <1>1 DEF ActionInv, InvocationsSound, InvocationSound, Invoked, Unsettled, ToolSound, github
<1>5. ActionTypeOK' BY <1>1, <1>2 DEF ActionInv, ActionTypeOK, credentials, github
<1> QED BY <1>3, <1>4, <1>5 DEF ActionInv

(* Neither the tool's own moves nor an edit of the persona touch a record. *)
LEMMA RecordsRest ==
  ASSUME ActionInv, UNCHANGED <<confirmations, invocations, handlers, github>>
  PROVE  ConfirmationsSpent' /\ GrantsHeld' /\ InvocationsSound'
<1>1. ConfirmationsSpent' /\ GrantsHeld'
  BY DEF ActionInv, ConfirmationsSpent, ConfirmedBy, Spends, Spent, Invoked, GrantsHeld, HandlerSound,
              Unsettled, github
<1>2. InvocationsSound'
  BY DEF ActionInv, InvocationsSound, InvocationSound, Invoked, Unsettled, github
<1> QED BY <1>1, <1>2

(* The tool reads the decision. *)
LEMMA ToolPollsStep == ASSUME ActionInv, ToolPolls PROVE ActionInv'
<1>1. UNCHANGED <<records, credentials, handlers, faults, github>> BY DEF ToolPolls
<1>2. tool \in ToolType BY ActionTypes DEF ActionInv
<1>3. PICK answer \in {"approved", "failed"} : tool' = [tool EXCEPT !.pc = answer] BY DEF ToolPolls
<1>4. tool.pc = "waiting" BY DEF ToolPolls
<1>5. /\ tool' \in ToolType /\ tool'.pc = answer /\ tool'.by = tool.by /\ tool'.conf = tool.conf
      /\ tool'.inv = tool.inv /\ tool'.requester = tool.requester /\ tool'.act = tool.act
  BY <1>2, <1>3 DEF ToolType
<1>6. ToolSound' BY <1>1, <1>4, <1>5 DEF ActionInv, ToolSound
<1>7. ActionTypeOK' BY <1>1, <1>5 DEF ActionInv, ActionTypeOK, ToolType, records, credentials, github
<1> QED BY <1>1, <1>6, <1>7, RecordsRest DEF ActionInv, records

(* The tool gives up, while its request goes on. *)
LEMMA ToolGivesUpStep == ASSUME ActionInv, ToolGivesUp PROVE ActionInv'
<1>1. UNCHANGED <<records, credentials, handlers, faults, github>> BY DEF ToolGivesUp
<1>2. tool \in ToolType BY ActionTypes DEF ActionInv
<1>3. tool' = [tool EXCEPT !.pc = "failed", !.by = None] BY DEF ToolGivesUp
<1>4. tool.pc # "idle" BY DEF ToolGivesUp
<1>5. /\ tool' \in ToolType /\ tool'.pc = "failed" /\ tool'.by = None
      /\ tool'.requester = tool.requester /\ tool'.act = tool.act
  BY <1>2, <1>3 DEF ToolType
<1>6. ToolSound' BY <1>1, <1>4, <1>5 DEF ActionInv, ToolSound
<1>7. ActionTypeOK' BY <1>1, <1>5 DEF ActionInv, ActionTypeOK, ToolType, records, credentials, github
<1> QED BY <1>1, <1>6, <1>7, RecordsRest DEF ActionInv, records

(* An edit of the persona changes no action under way. *)
LEMMA UpdatePersonaStep == ASSUME ActionInv, UpdatePersona PROVE ActionInv'
<1>1. UNCHANGED <<confirmations, invocations, oauthStates, credentials, handlers, tool, faults, github>>
  BY DEF UpdatePersona
<1>2. persona' \in [enabled : BOOLEAN, mode : Mode] BY DEF UpdatePersona
<1>3. ToolSound' BY <1>1 DEF ActionInv, ToolSound, github
<1>4. ActionTypeOK' BY <1>1, <1>2 DEF ActionInv, ActionTypeOK, credentials, github
<1> QED BY <1>1, <1>3, <1>4, RecordsRest DEF ActionInv

(* What expires is a confirmation, a grant or an OAuth state. *)
LEMMA TimePassesStep == ASSUME ActionInv, TimePasses PROVE ActionInv'
<1>1. UNCHANGED <<persona, credentials, handlers, tool, faults, github>> BY DEF TimePasses
<1>2. /\ confirmations \in [Confirmation -> ConfirmationType] /\ invocations \in [Invocation -> InvocationType]
      /\ oauthStates \in [OAuthState -> [owner : Human \cup {None}, status : {"absent", "open", "deleted"},
                                         expired : BOOLEAN]]
  BY ActionTypes DEF ActionInv
<1>3. ASSUME NEW c \in Confirmation, confirmations[c].status \in {"pending", "approved"},
             confirmations' = [confirmations EXCEPT ![c].expired = TRUE],
             UNCHANGED <<invocations, oauthStates>>
      PROVE  ActionInv'
  <2>1. confirmations' \in [Confirmation -> ConfirmationType] BY <1>2, <1>3 DEF ConfirmationType
  <2>2. \A d \in Confirmation : confirmations[d].status = "used" => confirmations'[d] = confirmations[d]
    BY <1>2, <1>3
  <2>3. ConfirmationsSpent'
    BY <1>1, <1>3, <2>2 DEF ActionInv, ConfirmationsSpent, ConfirmedBy, Spends, Spent, Invoked
  <2>4. GrantsHeld' /\ InvocationsSound' /\ ToolSound'
    BY <1>1, <1>3 DEF ActionInv, GrantsHeld, HandlerSound, InvocationsSound, InvocationSound, Invoked, Unsettled,
                      ToolSound, github
  <2>5. ActionTypeOK' BY <1>1, <1>3, <2>1 DEF ActionInv, ActionTypeOK, ConfirmationType, credentials, github
  <2> QED BY <2>3, <2>4, <2>5 DEF ActionInv
<1>4. ASSUME NEW i \in Invocation, invocations' = [invocations EXCEPT ![i].grantExpired = TRUE],
             UNCHANGED <<confirmations, oauthStates>>
      PROVE  ActionInv'
  <2>1. invocations' \in [Invocation -> InvocationType]
    <3> DEFINE r == [invocations[i] EXCEPT !.grantExpired = TRUE]
    <3>1. r \in InvocationType BY <1>2 DEF InvocationType
    <3>2. invocations' = [invocations EXCEPT ![i] = r] BY <1>4
    <3> HIDE DEF r
    <3> QED BY <1>2, <3>1, <3>2
  <2>2. \A j \in Invocation : /\ invocations'[j].status = invocations[j].status
                              /\ invocations'[j].grant = invocations[j].grant
                              /\ invocations'[j].run = invocations[j].run
                              /\ invocations'[j].requester = invocations[j].requester
                              /\ invocations'[j].actor = invocations[j].actor
                              /\ invocations'[j].act = invocations[j].act
                              /\ invocations'[j].conf = invocations[j].conf
    BY <1>2, <1>4 DEF InvocationType
  <2>3. ConfirmationsSpent'
    BY <1>1, <1>4, <2>2 DEF ActionInv, ConfirmationsSpent, ConfirmedBy, Spends, Spent, Invoked
  <2>4. GrantsHeld'
    BY <1>1, <1>4, <2>2 DEF ActionInv, GrantsHeld, HandlerSound, Invoked, Unsettled, Executing, Unanswered, github
  <2>5. InvocationsSound'
    BY <1>1, <1>4, <2>2 DEF ActionInv, InvocationsSound, InvocationSound, Invoked, Unsettled, github
  <2>6. ToolSound' BY <1>1, <1>4, <2>2 DEF ActionInv, ToolSound, github
  <2>7. ActionTypeOK' BY <1>1, <1>4, <2>1 DEF ActionInv, ActionTypeOK, InvocationType, credentials, github
  <2> QED BY <2>3, <2>4, <2>5, <2>6, <2>7 DEF ActionInv
<1>5. ASSUME NEW s \in OAuthState, oauthStates' = [oauthStates EXCEPT ![s].expired = TRUE],
             UNCHANGED <<confirmations, invocations>>
      PROVE  ActionInv'
  <2>1. oauthStates' \in [OAuthState -> [owner : Human \cup {None}, status : {"absent", "open", "deleted"},
                                         expired : BOOLEAN]]
    BY <1>2, <1>5
  <2>2. ToolSound' BY <1>1, <1>5 DEF ActionInv, ToolSound, github
  <2>3. ActionTypeOK' BY <1>1, <1>5, <2>1 DEF ActionInv, ActionTypeOK, credentials, github
  <2> QED BY <1>1, <1>5, <2>2, <2>3, RecordsRest DEF ActionInv
<1> QED BY <1>3, <1>4, <1>5 DEF TimePasses

(* A crash drops the requests under way and keeps the records. *)
LEMMA ControlPlaneCrashesStep == ASSUME ActionInv, ControlPlaneCrashes PROVE ActionInv'
<1>1. UNCHANGED <<records, credentials, github>> BY DEF ControlPlaneCrashes
<1>2. tool \in ToolType /\ faults \in 0..MaxFaults BY ActionTypes DEF ActionInv
<1>3. faults' \in 0..MaxFaults BY <1>2, FaultTyped DEF ControlPlaneCrashes
<1>4. handlers' \in [Handler -> HandlerType] /\ \A h \in Handler : handlers'[h] = Idle
  BY IdleTyped DEF ControlPlaneCrashes
<1>5. tool' \in ToolType /\ tool'.by = None
  BY <1>2 DEF ControlPlaneCrashes, ToolType
<1>6. tool' = tool \/ (tool'.pc = "failed" /\ tool'.requester = tool.requester /\ tool'.act = tool.act /\ tool.pc = "calling")
  BY <1>2 DEF ControlPlaneCrashes, ToolType, ActionInv, ToolSound
<1>7. ConfirmationsSpent'
  BY <1>1, <1>4, IdleTyped DEF ActionInv, ConfirmationsSpent, ConfirmedBy, Spends, Spent, Invoked, records
<1>8. GrantsHeld'
  BY <1>4, IdleTyped DEF GrantsHeld, HandlerSound, Holding, Owning, Executing, Unanswered
<1>9. InvocationsSound'
  BY <1>1 DEF ActionInv, InvocationsSound, InvocationSound, Invoked, Unsettled, records, github
<1>10. ToolSound' BY <1>1, <1>5, <1>6 DEF ActionInv, ToolSound, records, github
<1>11. ActionTypeOK'
  BY <1>1, <1>3, <1>4, <1>5 DEF ActionInv, ActionTypeOK, HandlerType, ToolType, records, credentials, github
<1> QED BY <1>7, <1>8, <1>9, <1>10, <1>11 DEF ActionInv

(* The invariant holds when there are no actions yet. *)
LEMMA ActionStarts == ASSUME ActionInit PROVE ActionInv
<1>1. persona \in [enabled : BOOLEAN, mode : Mode] BY DEF ActionInit
<1>2. /\ confirmations \in [Confirmation -> ConfirmationType]
      /\ \A c \in Confirmation : confirmations[c].status = "absent"
  BY DEF ActionInit, NoConfirmation, Absent, ConfirmationType
<1>3. NoInvocation \in InvocationType /\ NoInvocation.status = "absent" /\ NoInvocation.grant = "none"
      /\ NoInvocation.run = "none"
  BY DEF NoInvocation, Absent, InvocationType
<1>4. invocations \in [Invocation -> InvocationType] /\ \A i \in Invocation : invocations[i] = NoInvocation
  BY <1>3 DEF ActionInit
<1>5. connections \in [Connection -> [owner : Principal \cup {None}, status : {"absent", "active", "revoked"}]]
  BY DEF ActionInit
<1>6. vault \subseteq Connection /\ tokens \subseteq Connection BY DEF ActionInit
<1>7. handlers \in [Handler -> HandlerType] /\ \A h \in Handler : handlers[h] = Idle
  BY IdleTyped DEF ActionInit
<1>8. tool \in ToolType /\ tool.by = None /\ tool.pc = "idle" BY DEF ActionInit, NoTool, ToolType
<1>9. faults \in 0..MaxFaults /\ carriedOut \in [Invocation -> Nat] /\ heard \subseteq Invocation
  BY ActionsAssumption DEF ActionInit
<1>10. oauthStates \in [OAuthState -> [owner : Human \cup {None}, status : {"absent", "open", "deleted"},
                                       expired : BOOLEAN]]
  BY DEF ActionInit
<1>11. ActionTypeOK BY <1>1, <1>2, <1>4, <1>5, <1>6, <1>7, <1>8, <1>9, <1>10, ActionTypes
<1>12. ConfirmationsSpent BY <1>3, <1>4, <1>7, IdleTyped DEF ConfirmationsSpent, Spends, Spent, Invoked
<1>13. GrantsHeld BY <1>7, IdleTyped DEF GrantsHeld, HandlerSound, Holding, Owning, Executing, Unanswered
<1>14. InvocationsSound
  BY <1>3, <1>4 DEF InvocationsSound, InvocationSound, Invoked, Unsettled, ActionInit
<1>15. ToolSound BY <1>8 DEF ToolSound
<1> QED BY <1>11, <1>12, <1>13, <1>14, <1>15 DEF ActionInv

(* Every step of the controller keeps the invariant. *)
LEMMA ActionStep == ASSUME ActionInv, [ActionNext]_actionVars PROVE ActionInv'
<1>1. CASE UNCHANGED actionVars
  <2>1. UNCHANGED <<records, credentials, handlers, tool, faults, github>> BY <1>1 DEF actionVars
  <2>2. ToolSound' BY <2>1 DEF ActionInv, ToolSound, records, github
  <2>3. ActionTypeOK' BY <2>1 DEF ActionInv, ActionTypeOK, records, credentials, github
  <2> QED BY <2>1, <2>2, <2>3, RecordsRest DEF ActionInv, records
<1>2. ASSUME NEW h \in Handler, IssueStep(h) PROVE ActionInv'
  BY <1>2, ConsoleIssuesStep, CreateConfirmationStep, UseConfirmationStep, SaveInvocationStep, RegisterGrantStep
  DEF IssueStep
<1>3. ASSUME NEW h \in Handler, ExecuteStep(h) PROVE ActionInv'
  BY <1>3, GrantPresentedStep, ConsumeGrantStep, StartRunStep, MarkRunningStep, CheckConnectionStep, PostStep,
     FinishRunStep, RecordOutcomeStep
  DEF ExecuteStep
<1>4. ASSUME NEW h \in Handler, ConnectStep(h) PROVE ActionInv'
  BY <1>4, ConsumeOAuthStateStep, RevokesStep, ExchangeCodeStep, PutCredentialStep, RegisterConnectionStep,
     DiscardCredentialStep, RevokeTokenStep, RevokeConnectionStep, ForgetCredentialStep
  DEF ConnectStep
<1>5. ASSUME NEW h \in Handler, ToolStarts(h) \/ ToolIssuesConfirmed(h) \/ ToolExecutes(h) PROVE ActionInv'
  BY <1>5, ToolStartsStep, ToolIssuesConfirmedStep, ToolExecutesStep
<1> QED
  BY <1>1, <1>2, <1>3, <1>4, <1>5, DecideConfirmationStep, StartOAuthStep, ToolPollsStep, ToolGivesUpStep,
     UpdatePersonaStep, TimePassesStep, ControlPlaneCrashesStep
  DEF ActionNext

(* The invariant of governed actions holds always. *)
LEMMA ActionInvariance == ActionSpec => []ActionInv
BY ActionStarts, ActionStep, PTL DEF ActionSpec

(* A confirmed action is carried out at most once per approval, as the     *)
(* action, requester and actor approved (useConfirmation, consumeGrant).   *)
THEOREM ConfirmedOnce == ActionSpec => []ActionsConfirmed
<1>1. ActionInv => ActionsConfirmed
  <2> SUFFICES ASSUME ActionInv PROVE ActionsConfirmed OBVIOUS
  <2>1. ActionTypeOK /\ \A i \in Invocation : carriedOut[i] <= 1
    BY DEF ActionInv, InvocationsSound, InvocationSound
  <2>2. carriedOut \in [Invocation -> Nat] BY DEF ActionInv, ActionTypeOK
  <2>3. \A i \in Invocation : carriedOut[i] > 0 /\ invocations[i].act \in Confirmed => Spent(i)
    BY <2>2 DEF ActionInv, InvocationsSound, InvocationSound, Spent
  <2> SUFFICES ASSUME NEW i \in Invocation, carriedOut[i] > 0, invocations[i].act \in Confirmed
               PROVE  /\ invocations[i].conf # None
                      /\ LET c == confirmations[invocations[i].conf] IN
                         /\ c.status = "used"
                         /\ \A key \in {"requester", "actor", "act"} : c[key] = invocations[i][key]
                      /\ \A j \in Invocation \ {i} : carriedOut[j] > 0 /\ invocations[j].act \in Confirmed =>
                           invocations[j].conf # invocations[i].conf
    BY <2>1 DEF ActionsConfirmed
  <2>4. Spent(i) /\ ConfirmedBy(invocations[i]) BY <2>3 DEF ActionInv, ConfirmationsSpent
  <2>5. invocations[i].conf # None BY <2>4, ActionsAssumption DEF ConfirmedBy
  <2>6. \A j \in Invocation \ {i} : carriedOut[j] > 0 /\ invocations[j].act \in Confirmed =>
          invocations[j].conf # invocations[i].conf
    BY <2>3, <2>4 DEF ActionInv, ConfirmationsSpent
  <2> QED BY <2>4, <2>5, <2>6 DEF ConfirmedBy
<1> QED BY <1>1, ActionInvariance, PTL

(* What the records and the tool say of an action is what GitHub told the  *)
(* controller (the bookkeeping of governance-controller.ts).               *)
THEOREM OutcomeKept == ActionSpec => []OutcomeHonest
<1>1. ActionInv => OutcomeHonest
  BY DEF ActionInv, OutcomeHonest, InvocationsSound, InvocationSound, ToolSound
<1> QED BY <1>1, ActionInvariance, PTL

----------------------------------------------------------------------------
(* Credentials. *)

Active(k) == connections[k].status = "active"
Deviant(k) == ~(Active(k) <=> k \in vault) \/ ~(Active(k) <=> k \in tokens)

(* Requests that, left alone, bring their credential where it belongs.  One *)
(* at "discard" does not: its token stays behind.                           *)
Carries(h) == handlers[h].at \in {"vault", "connect", "recordRevoked", "forget"}
Carried == {handlers[h].conn : h \in {g \in Handler : Carries(g)}}
Lost == {k \in Connection : Deviant(k)} \ Carried

(* What a request knows of the credential it has in hand. *)
CredentialKnown(h) ==
  LET k == handlers[h].conn IN
  /\ handlers[h].at = "vault" => connections[k].status = "absent" /\ k \in tokens
  /\ handlers[h].at = "connect" => connections[k].status = "absent" /\ k \in vault /\ k \in tokens
  /\ handlers[h].at = "discard" => connections[k].status = "absent"
  /\ handlers[h].at = "revoke" => connections[k].status # "absent"
  /\ handlers[h].at = "recordRevoked" => connections[k].status # "absent" /\ k \notin tokens
  /\ handlers[h].at = "forget" => connections[k].status = "revoked" /\ k \notin tokens

Connecting == {"vault", "connect", "discard"}
Revoking == {"recordRevoked", "forget"}

(* No credential is brought in, or taken away, by two requests. *)
CredentialsApart ==
  /\ \A h, g \in Handler :
       handlers[h].at \in Connecting /\ handlers[g].at \in Connecting /\ handlers[h].conn = handlers[g].conn => h = g
  /\ \A h, g \in Handler :
       handlers[h].at \in Revoking /\ handlers[g].at \in Revoking /\ handlers[h].conn = handlers[g].conn => h = g

LossBounded == IsFiniteSet(Lost) /\ Cardinality(Lost) <= faults * Cardinality(Handler)

VaultInv == (\A h \in Handler : CredentialKnown(h)) /\ CredentialsApart /\ LossBounded

(* The bound on lost credentials, when a step loses none, one or, in a      *)
(* crash, those in hand.                                                    *)
LEMMA LossKept ==
  ASSUME LossBounded, faults \in Nat, faults' \in Nat, faults <= faults', Lost' \subseteq Lost
  PROVE  LossBounded'
<1>1. IsFiniteSet(Lost') /\ Cardinality(Lost') <= Cardinality(Lost) BY FS_Subset DEF LossBounded
<1>2. Cardinality(Handler) \in Nat /\ Cardinality(Lost) \in Nat /\ Cardinality(Lost') \in Nat
  BY <1>1, FS_CardinalityType, ActionsAssumption DEF LossBounded
<1>3. \A a, b, n \in Nat : a <= b => a * n <= b * n OBVIOUS
<1>4. faults * Cardinality(Handler) <= faults' * Cardinality(Handler) BY <1>2, <1>3
<1>5. faults * Cardinality(Handler) \in Nat /\ faults' * Cardinality(Handler) \in Nat BY <1>2
<1> HIDE DEF Lost
<1>6. Cardinality(Lost) <= faults * Cardinality(Handler) BY DEF LossBounded
<1> QED BY <1>1, <1>2, <1>4, <1>5, <1>6 DEF LossBounded

(* A failure may lose as many credentials as there are requests. *)
LEMMA LossGrows ==
  ASSUME LossBounded, faults \in Nat, faults' = faults + 1,
         NEW S, IsFiniteSet(S), Cardinality(S) <= Cardinality(Handler), Lost' \subseteq Lost \cup S
  PROVE  LossBounded'
<1>1. IsFiniteSet(Lost \cup S) /\ Cardinality(Lost \cup S) <= Cardinality(Lost) + Cardinality(S)
  <2>1. IsFiniteSet(Lost \cup S) /\ Cardinality(Lost \cup S) = Cardinality(Lost) + Cardinality(S) - Cardinality(Lost \cap S)
    BY FS_Union DEF LossBounded
  <2>2. IsFiniteSet(Lost \cap S) BY FS_Subset
  <2>3. Cardinality(Lost \cap S) \in Nat /\ Cardinality(Lost) \in Nat /\ Cardinality(S) \in Nat
    BY <2>2, FS_CardinalityType DEF LossBounded
  <2> QED BY <2>1, <2>3
<1>2. IsFiniteSet(Lost') /\ Cardinality(Lost') <= Cardinality(Lost \cup S) BY <1>1, FS_Subset
<1>3. /\ Cardinality(Handler) \in Nat /\ Cardinality(Lost) \in Nat /\ Cardinality(Lost') \in Nat
      /\ Cardinality(S) \in Nat /\ Cardinality(Lost \cup S) \in Nat
  BY <1>1, <1>2, FS_CardinalityType, ActionsAssumption DEF LossBounded
<1>4. \A a, n \in Nat : (a + 1) * n = a * n + n /\ a * n \in Nat OBVIOUS
<1>5. faults' * Cardinality(Handler) = faults * Cardinality(Handler) + Cardinality(Handler)
      /\ faults * Cardinality(Handler) \in Nat
  BY <1>3, <1>4
<1> HIDE DEF Lost
<1>6. Cardinality(Lost) <= faults * Cardinality(Handler) BY DEF LossBounded
<1> QED BY <1>1, <1>2, <1>3, <1>5, <1>6 DEF LossBounded

(* A failure of one request loses its credential at most. *)
LEMMA LossOfOne ==
  ASSUME LossBounded, faults \in Nat, faults' = faults + 1, NEW h \in Handler, NEW k, Lost' \subseteq Lost \cup {k}
  PROVE  LossBounded'
<1>1. IsFiniteSet({k}) /\ Cardinality({k}) = 1
  BY FS_EmptySet, FS_AddElement, Z3
<1>2. Cardinality(Handler) \in Nat /\ Cardinality(Handler) # 0
  BY FS_CardinalityType, FS_EmptySet, ActionsAssumption
<1> QED BY <1>1, <1>2, LossGrows

(* A step that has no credential in hand. *)
LEMMA NoCredentialMoves ==
  ASSUME ActionTypeOK, VaultInv, NEW h \in Handler, UNCHANGED credentials,
         \A g \in Handler : g # h => handlers'[g] = handlers[g],
         handlers[h].at \notin Holding, handlers'[h].at \notin Holding, faults' \in {faults, faults + 1}
  PROVE  VaultInv'
<1>1. faults \in Nat /\ faults' \in Nat /\ faults <= faults' BY ActionsAssumption DEF ActionTypeOK
<1>2. \A g \in Handler : CredentialKnown(g)'
  BY DEF VaultInv, CredentialKnown, Holding, credentials
<1>3. \A g \in Handler : handlers'[g].at \in Holding => g # h /\ handlers'[g] = handlers[g] OBVIOUS
<1>4. CredentialsApart' BY <1>3 DEF VaultInv, CredentialsApart, Holding, Connecting, Revoking
<1>5. \A g \in Handler : Carries(g)' <=> Carries(g) BY DEF Carries, Holding
<1>6. Carried' = Carried BY <1>3, <1>5 DEF Carried, Carries, Holding
<1>7. Lost' = Lost BY <1>6 DEF Lost, Deviant, Active, credentials
<1> QED BY <1>1, <1>2, <1>4, <1>7, LossKept DEF VaultInv

(* A step that has a credential in hand, and what is to be shown of it. *)
LEMMA CredentialMoves ==
  ASSUME ActionTypeOK, VaultInv, NEW h \in Handler,
         \A g \in Handler : g # h => handlers'[g] = handlers[g] /\ CredentialKnown(g)',
         CredentialKnown(h)',
         \A g \in Handler : handlers'[h].at \in Connecting /\ g # h /\ handlers[g].at \in Connecting =>
                            handlers[g].conn # handlers'[h].conn,
         \A g \in Handler : handlers'[h].at \in Revoking /\ g # h /\ handlers[g].at \in Revoking =>
                            handlers[g].conn # handlers'[h].conn,
         LossBounded'
  PROVE  VaultInv'
<1>1. CredentialsApart' BY DEF VaultInv, CredentialsApart
<1> QED BY <1>1 DEF VaultInv

(* Where credentials, other than k, are as they were, and k is not lost or *)
(* was so before.                                                          *)
LEMMA LossAt ==
  ASSUME NEW h \in Handler, NEW k,
         \A g \in Handler : g # h => handlers'[g] = handlers[g],
         handlers[h].conn = k \/ ~Carries(h),
         \A q \in Connection : q # k => /\ connections'[q] = connections[q]
                                        /\ (q \in vault' <=> q \in vault) /\ (q \in tokens' <=> q \in tokens)
  PROVE  Lost' \subseteq Lost \cup {k}
<1> SUFFICES ASSUME NEW q \in Lost', q # k PROVE q \in Lost OBVIOUS
<1>1. q \in Connection /\ Deviant(q) BY DEF Lost, Deviant, Active
<1>2. q \notin Carried
  <2> SUFFICES ASSUME NEW g \in Handler, Carries(g), handlers[g].conn = q PROVE FALSE BY DEF Carried
  <2>1. g # h OBVIOUS
  <2>2. Carries(g)' /\ handlers'[g].conn = q BY <2>1 DEF Carries
  <2> QED BY <2>2 DEF Lost, Carried
<1> QED BY <1>1, <1>2 DEF Lost

(* No credential is lost when h carries none and none changes. *)
LEMMA NoneLost ==
  ASSUME NEW h \in Handler, \A g \in Handler : g # h => handlers'[g] = handlers[g],
         ~Carries(h), UNCHANGED credentials
  PROVE  Lost' \subseteq Lost
<1>1. None \notin Connection BY ActionsAssumption
<1>2. Lost' \subseteq Lost \cup {None} BY LossAt DEF credentials
<1> QED BY <1>1, <1>2 DEF Lost

(* A request rests after a failure and gives up the credential it carried. *)
LEMMA GivesUp ==
  ASSUME ActionTypeOK, VaultInv, NEW h \in Handler, NEW k, handlers[h].conn = k \/ ~Carries(h), Rejected(h),
         \A q \in Connection : q # k => /\ connections'[q] = connections[q]
                                        /\ (q \in vault' <=> q \in vault) /\ (q \in tokens' <=> q \in tokens),
         \A g \in Handler : g # h => (handlers'[g] = handlers[g] => CredentialKnown(g)')
  PROVE  VaultInv'
<1>1. handlers \in [Handler -> HandlerType] /\ tool \in ToolType BY ActionTypes
<1>2. Responds(h, "failed", None, None) /\ faults \in Nat /\ faults' = faults + 1
  BY ActionsAssumption DEF Rejected, Fault, ActionTypeOK
<1>3. /\ \A g \in Handler : g # h => handlers'[g] = handlers[g]
      /\ handlers'[h] = Idle
  BY <1>1, <1>2, Answered
<1>4. LossBounded' BY <1>2, <1>3, LossAt, LossOfOne DEF VaultInv
<1>5. CredentialKnown(h)' /\ handlers'[h].at \notin Connecting /\ handlers'[h].at \notin Revoking
  BY <1>3, IdleTyped DEF CredentialKnown, Connecting, Revoking
<1> QED BY <1>3, <1>4, <1>5, CredentialMoves

(* A request that begins to revoke carries nothing yet. *)
LEMMA RevokesVault ==
  ASSUME ActionTypeOK, VaultInv, NEW h \in Handler, NEW k \in Connection, NEW p, NEW isAdmin, Revokes(h, k, p, isAdmin)
  PROVE  VaultInv'
<1>1. handlers \in [Handler -> HandlerType] BY ActionTypes
<1>2. UNCHANGED credentials /\ UNCHANGED faults /\ faults \in Nat
  BY ActionsAssumption DEF Revokes, ActionTypeOK
<1>3. /\ handlers'[h].at = "revoke" /\ handlers'[h].conn = k /\ connections[k].status # "absent"
      /\ \A g \in Handler : g # h => handlers'[g] = handlers[g]
  BY <1>1 DEF Revokes, Idle
<1>4. ~Carries(h) BY DEF Revokes, At, Carries
<1>5. LossBounded' BY <1>2, <1>3, <1>4, NoneLost, LossKept DEF VaultInv
<1>6. \A g \in Handler : CredentialKnown(g)' BY <1>2, <1>3 DEF VaultInv, CredentialKnown, credentials
<1> QED BY <1>3, <1>5, <1>6, CredentialMoves DEF Connecting, Revoking

(* A new token is in the hand of the request that made it. *)
LEMMA ExchangeCodeVault ==
  ASSUME ActionTypeOK, VaultInv, NEW h \in Handler, ExchangeCode(h) PROVE VaultInv'
<1>1. handlers \in [Handler -> HandlerType] /\ tool \in ToolType BY ActionTypes
<1>2. /\ handlers[h].at = "exchange" /\ UNCHANGED <<connections, vault>> /\ faults \in Nat /\ ~Carries(h)
  BY ActionsAssumption DEF ExchangeCode, At, Carries, ActionTypeOK
<1>3. CASE Rejected(h) /\ UNCHANGED tokens
  <2>1. Responds(h, "failed", None, None) /\ faults' = faults + 1 BY <1>3 DEF Rejected, Fault
  <2>2. /\ \A g \in Handler : g # h => handlers'[g] = handlers[g]
        /\ handlers'[h] = Idle
    BY <1>1, <2>1, Answered
  <2> QED BY <1>2, <1>3, <2>1, <2>2, NoCredentialMoves, IdleTyped DEF credentials, Holding
<1>4. ASSUME NEW k \in Connection, Fresh(k), tokens' = tokens \cup {k},
             (handlers' = [handlers EXCEPT ![h].at = "vault", ![h].conn = k] /\ UNCHANGED faults) \/ Rejected(h)
      PROVE  VaultInv'
  <2>1. \A g \in Handler : handlers[g].conn # k BY <1>4 DEF Fresh
  <2>2. \A g \in Handler : g # h => (handlers'[g] = handlers[g] => CredentialKnown(g)')
    BY <1>2, <1>4, <2>1 DEF VaultInv, CredentialKnown
  <2>3. \A q \in Connection : q # k => /\ connections'[q] = connections[q]
                                       /\ (q \in vault' <=> q \in vault) /\ (q \in tokens' <=> q \in tokens)
    BY <1>2, <1>4
  <2>4. CASE Rejected(h) BY <1>2, <2>2, <2>3, <2>4, GivesUp
  <2>5. CASE handlers' = [handlers EXCEPT ![h].at = "vault", ![h].conn = k] /\ UNCHANGED faults
    <3> DEFINE r == [handlers[h] EXCEPT !.at = "vault", !.conn = k]
    <3>1. r.at = "vault" /\ r.conn = k BY <1>1 DEF HandlerType
    <3>2. handlers' = [handlers EXCEPT ![h] = r] BY <1>1, <2>5
    <3> HIDE DEF r
    <3>3. /\ handlers'[h].at = "vault" /\ handlers'[h].conn = k
          /\ \A g \in Handler : g # h => handlers'[g] = handlers[g]
      BY <1>1, <3>1, <3>2
    <3>4. CredentialKnown(h)' BY <1>2, <1>4, <3>3 DEF CredentialKnown, Fresh
    <3>5. k \notin Lost' BY <3>3 DEF Lost, Carried, Carries
    <3>6. Lost' \subseteq Lost \cup {k} BY <1>2, <2>3, <3>3, LossAt
    <3>7. Lost' \subseteq Lost BY <3>5, <3>6
    <3>8. faults \in Nat /\ UNCHANGED faults BY <1>2, <2>5
    <3>9. LossBounded' BY <3>7, <3>8, LossKept DEF VaultInv
    <3> QED BY <2>1, <2>2, <3>3, <3>4, <3>9, CredentialMoves DEF Connecting, Revoking
  <2> QED BY <1>4, <2>4, <2>5
<1> QED BY <1>3, <1>4 DEF ExchangeCode

(* The vault's new entry is in the same hand. *)
LEMMA PutCredentialVault ==
  ASSUME ActionTypeOK, VaultInv, NEW h \in Handler, PutCredential(h) PROVE VaultInv'
<1>1. handlers \in [Handler -> HandlerType] /\ tool \in ToolType BY ActionTypes
<1>2. /\ handlers[h].at = "vault" /\ UNCHANGED <<connections, tokens>> /\ faults \in Nat
  BY ActionsAssumption DEF PutCredential, At, ActionTypeOK
<1>3. PICK k : k = handlers[h].conn OBVIOUS
<1>4. connections[k].status = "absent" /\ k \in tokens BY <1>2, <1>3 DEF VaultInv, CredentialKnown
<1>5. vault' = vault \/ vault' = vault \cup {k} BY <1>3 DEF PutCredential
<1>6. \A g \in Handler : g # h => (handlers'[g] = handlers[g] => CredentialKnown(g)')
  BY <1>2, <1>5 DEF VaultInv, CredentialKnown
<1>7. \A q \in Connection : q # k => /\ connections'[q] = connections[q]
                                     /\ (q \in vault' <=> q \in vault) /\ (q \in tokens' <=> q \in tokens)
  BY <1>2, <1>5
<1>8. CASE Rejected(h) BY <1>3, <1>6, <1>7, <1>8, GivesUp
<1>9. CASE vault' = vault \cup {k} /\ Goes(h, "connect") /\ UNCHANGED faults
  <2>1. /\ \A g \in Handler : g # h => handlers'[g] = handlers[g]
        /\ handlers'[h].at = "connect" /\ handlers'[h].conn = k
    BY <1>1, <1>3, <1>9, GoesOn DEF Goes
  <2>2. CredentialKnown(h)' BY <1>2, <1>4, <1>9, <2>1 DEF CredentialKnown
  <2>3. k \notin Lost' BY <2>1 DEF Lost, Carried, Carries
  <2>4. LossBounded' BY <1>2, <1>3, <1>7, <1>9, <2>1, <2>3, LossAt, LossKept DEF VaultInv
  <2>5. \A g \in Handler : g # h /\ handlers[g].at \in Connecting => handlers[g].conn # k
    BY <1>2, <1>3 DEF VaultInv, CredentialsApart, Connecting
  <2> QED BY <1>6, <2>1, <2>2, <2>4, <2>5, CredentialMoves DEF Revoking
<1> QED BY <1>3, <1>8, <1>9 DEF PutCredential

(* An active connection has its credential; a failed one may lose it. *)
LEMMA RegisterConnectionVault ==
  ASSUME ActionTypeOK, VaultInv, GrantsHeld, NEW h \in Handler, RegisterConnection(h) PROVE VaultInv'
<1>1. handlers \in [Handler -> HandlerType] /\ tool \in ToolType BY ActionTypes
<1>2. /\ handlers[h].at = "connect" /\ UNCHANGED <<vault, tokens>> /\ faults \in Nat
  BY ActionsAssumption DEF RegisterConnection, At, ActionTypeOK
<1>3. PICK k \in Connection : k = handlers[h].conn BY <1>2 DEF GrantsHeld, HandlerSound, Holding
<1>4. connections[k].status = "absent" /\ k \in tokens /\ k \in vault
  BY <1>2, <1>3 DEF VaultInv, CredentialKnown
<1>5. \A g \in Handler : g # h /\ handlers[g].at \in Connecting => handlers[g].conn # k
  BY <1>2, <1>3 DEF VaultInv, CredentialsApart, Connecting
<1>6. CASE Fault /\ Goes(h, "discard") /\ UNCHANGED connections
  <2>1. /\ \A g \in Handler : g # h => handlers'[g] = handlers[g]
        /\ handlers'[h].at = "discard" /\ handlers'[h].conn = k
    BY <1>1, <1>3, <1>6, GoesOn DEF Goes
  <2>2. \A g \in Handler : CredentialKnown(g)'
    BY <1>2, <1>4, <1>6, <2>1 DEF VaultInv, CredentialKnown
  <2>3. faults' = faults + 1 BY <1>6 DEF Fault
  <2>4. LossBounded' BY <1>2, <1>3, <1>6, <2>1, <2>3, LossAt, LossOfOne DEF VaultInv
  <2> QED BY <1>5, <2>1, <2>2, <2>4, CredentialMoves DEF Revoking
<1>7. CASE /\ connections' = [connections EXCEPT ![k] = [owner |-> handlers[h].requester, status |-> "active"]]
           /\ Responds(h, "ok", None, None) /\ UNCHANGED faults
  <2>1. /\ \A g \in Handler : g # h => handlers'[g] = handlers[g]
        /\ handlers'[h] = Idle
    BY <1>1, <1>7, Answered
  <2>2. /\ connections'[k].status = "active" /\ \A q \in Connection : q # k => connections'[q] = connections[q]
    BY <1>7 DEF ActionTypeOK
  <2>3. CredentialKnown(h)' /\ handlers'[h].at \notin Connecting /\ handlers'[h].at \notin Revoking
    BY <2>1, IdleTyped DEF CredentialKnown, Connecting, Revoking
  <2>4. ASSUME NEW g \in Handler, g # h PROVE CredentialKnown(g)'
    <3>1. handlers'[g] = handlers[g] /\ CredentialKnown(g) BY <2>1, <2>4 DEF VaultInv
    <3>2. handlers[g].at \in Holding => handlers[g].conn \in Connection BY DEF GrantsHeld, HandlerSound
    <3>3. handlers[g].at \in Holding => handlers[g].conn # k
      BY <1>4, <1>5, <2>4, <3>1 DEF CredentialKnown, Holding, Connecting
    <3> QED BY <1>2, <2>2, <3>1, <3>2, <3>3 DEF CredentialKnown, Holding
  <2>5. k \notin Lost' BY <1>2, <1>4, <2>2 DEF Lost, Deviant, Active
  <2>6. LossBounded' BY <1>2, <1>3, <1>7, <2>1, <2>2, <2>5, LossAt, LossKept DEF VaultInv
  <2> QED BY <2>1, <2>3, <2>4, <2>6, CredentialMoves
<1> QED BY <1>3, <1>6, <1>7 DEF RegisterConnection

(* What is discarded belongs to no connection. *)
LEMMA DiscardCredentialVault ==
  ASSUME ActionTypeOK, VaultInv, NEW h \in Handler, DiscardCredential(h) PROVE VaultInv'
<1>1. handlers \in [Handler -> HandlerType] /\ tool \in ToolType BY ActionTypes
<1>2. /\ handlers[h].at = "discard" /\ UNCHANGED <<connections, tokens>> /\ faults \in Nat
  BY ActionsAssumption DEF DiscardCredential, At, ActionTypeOK
<1>3. PICK k : k = handlers[h].conn OBVIOUS
<1>4. connections[k].status = "absent" /\ ~Carries(h) BY <1>2, <1>3 DEF VaultInv, CredentialKnown, Carries
<1>5. vault' \in {vault, vault \ {k}} BY <1>3 DEF DiscardCredential
<1>6. Responds(h, "failed", None, None) /\ faults' \in Nat /\ faults <= faults'
  BY <1>2 DEF DiscardCredential, Rejected, Fault
<1>7. /\ \A g \in Handler : g # h => handlers'[g] = handlers[g]
      /\ handlers'[h] = Idle
  BY <1>1, <1>6, Answered
<1>8. \A g \in Handler : g # h /\ handlers[g].at \in Connecting => handlers[g].conn # k
  BY <1>2, <1>3 DEF VaultInv, CredentialsApart, Connecting
<1>9. ASSUME NEW g \in Handler, g # h PROVE CredentialKnown(g)'
  <2>1. handlers'[g] = handlers[g] /\ CredentialKnown(g) BY <1>7, <1>9 DEF VaultInv
  <2> QED BY <1>2, <1>5, <1>8, <1>9, <2>1 DEF CredentialKnown, Connecting
<1>10. CredentialKnown(h)' /\ handlers'[h].at \notin Connecting /\ handlers'[h].at \notin Revoking
  BY <1>7, IdleTyped DEF CredentialKnown, Connecting, Revoking
<1>11. Lost' \subseteq Lost
  <2>1. Lost' \subseteq Lost \cup {k} BY <1>2, <1>3, <1>5, <1>7, LossAt
  <2>2. Carried' = Carried
    <3>1. \A g \in Handler : /\ Carries(g)' <=> Carries(g)
                             /\ Carries(g) => handlers'[g].conn = handlers[g].conn
      BY <1>4, <1>7, IdleTyped DEF Carries
    <3> QED BY <3>1 DEF Carried
  <2>3. k \in Connection /\ Deviant(k)' => Deviant(k) BY <1>2, <1>4, <1>5 DEF Deviant, Active
  <2> QED BY <2>1, <2>2, <2>3 DEF Lost, Deviant, Active
<1>12. LossBounded' BY <1>2, <1>6, <1>11, LossKept DEF VaultInv
<1> QED BY <1>7, <1>9, <1>10, <1>12, CredentialMoves

(* A revoked token is in the hand of the request that revoked it. *)
LEMMA RevokeTokenVault ==
  ASSUME ActionTypeOK, VaultInv, NEW h \in Handler, RevokeToken(h) PROVE VaultInv'
<1>1. handlers \in [Handler -> HandlerType] /\ tool \in ToolType BY ActionTypes
<1>2. /\ handlers[h].at = "revoke" /\ UNCHANGED <<connections, vault>> /\ faults \in Nat /\ ~Carries(h)
  BY ActionsAssumption DEF RevokeToken, At, Carries, ActionTypeOK
<1>3. PICK k : k = handlers[h].conn OBVIOUS
<1>4. connections[k].status # "absent" BY <1>2, <1>3 DEF VaultInv, CredentialKnown
<1>5. tokens' = tokens \/ tokens' = tokens \ {k} BY <1>3 DEF RevokeToken
<1>6. \A g \in Handler : g # h => (handlers'[g] = handlers[g] => CredentialKnown(g)')
  BY <1>2, <1>4, <1>5 DEF VaultInv, CredentialKnown
<1>7. \A q \in Connection : q # k => /\ connections'[q] = connections[q]
                                     /\ (q \in vault' <=> q \in vault) /\ (q \in tokens' <=> q \in tokens)
  BY <1>2, <1>5
<1>8. CASE Rejected(h) BY <1>3, <1>6, <1>7, <1>8, GivesUp
<1>9. CASE Responds(h, "failed", None, None) /\ UNCHANGED <<tokens, faults>>
  <2>1. /\ \A g \in Handler : g # h => handlers'[g] = handlers[g]
        /\ handlers'[h] = Idle
    BY <1>1, <1>9, Answered
  <2>2. CredentialKnown(h)' /\ handlers'[h].at \notin Connecting /\ handlers'[h].at \notin Revoking
    BY <2>1, IdleTyped DEF CredentialKnown, Connecting, Revoking
  <2>3. LossBounded' BY <1>2, <1>9, <2>1, NoneLost, LossKept DEF VaultInv, credentials
  <2> QED BY <1>6, <2>1, <2>2, <2>3, CredentialMoves
<1>10. CASE k \in vault \cap tokens /\ tokens' = tokens \ {k} /\ Goes(h, "recordRevoked") /\ UNCHANGED faults
  <2>1. /\ \A g \in Handler : g # h => handlers'[g] = handlers[g]
        /\ handlers'[h].at = "recordRevoked" /\ handlers'[h].conn = k
    BY <1>1, <1>3, <1>10, GoesOn DEF Goes
  <2>2. CredentialKnown(h)' BY <1>2, <1>4, <1>10, <2>1 DEF CredentialKnown
  <2>3. k \notin Lost' BY <2>1 DEF Lost, Carried, Carries
  <2>4. LossBounded' BY <1>2, <1>3, <1>7, <1>10, <2>1, <2>3, LossAt, LossKept DEF VaultInv
  <2>5. \A g \in Handler : handlers[g].at \in Revoking => handlers[g].conn # k
    BY <1>10 DEF VaultInv, CredentialKnown, Revoking
  <2> QED BY <1>6, <2>1, <2>2, <2>4, <2>5, CredentialMoves DEF Connecting
<1> QED BY <1>3, <1>8, <1>9, <1>10 DEF RevokeToken

(* The connection's record follows its token. *)
LEMMA RevokeConnectionVault ==
  ASSUME ActionTypeOK, VaultInv, GrantsHeld, NEW h \in Handler, RevokeConnection(h) PROVE VaultInv'
<1>1. handlers \in [Handler -> HandlerType] /\ tool \in ToolType BY ActionTypes
<1>2. /\ handlers[h].at = "recordRevoked" /\ UNCHANGED <<vault, tokens>> /\ faults \in Nat
  BY ActionsAssumption DEF RevokeConnection, At, ActionTypeOK
<1>3. PICK k \in Connection : k = handlers[h].conn BY <1>2 DEF GrantsHeld, HandlerSound, Holding
<1>4. connections[k].status # "absent" /\ k \notin tokens BY <1>2, <1>3 DEF VaultInv, CredentialKnown
<1>5. \A g \in Handler : g # h /\ handlers[g].at \in Revoking => handlers[g].conn # k
  BY <1>2, <1>3 DEF VaultInv, CredentialsApart, Revoking
<1>6. CASE Rejected(h) /\ UNCHANGED connections
  <2>1. \A g \in Handler : g # h => (handlers'[g] = handlers[g] => CredentialKnown(g)')
    BY <1>2, <1>6 DEF VaultInv, CredentialKnown
  <2> QED BY <1>2, <1>3, <1>6, <2>1, GivesUp
<1>7. CASE /\ connections' = [connections EXCEPT ![k].status = "revoked"] /\ Goes(h, "forget") /\ UNCHANGED faults
  <2>1. /\ \A g \in Handler : g # h => handlers'[g] = handlers[g]
        /\ handlers'[h].at = "forget" /\ handlers'[h].conn = k
    BY <1>1, <1>3, <1>7, GoesOn DEF Goes
  <2>2. /\ connections'[k].status = "revoked" /\ \A q \in Connection : q # k => connections'[q] = connections[q]
    BY <1>7 DEF ActionTypeOK
  <2>3. CredentialKnown(h)' BY <1>2, <1>4, <2>1, <2>2 DEF CredentialKnown
  <2>4. ASSUME NEW g \in Handler, g # h PROVE CredentialKnown(g)'
    <3>1. handlers'[g] = handlers[g] /\ CredentialKnown(g) BY <2>1, <2>4 DEF VaultInv
    <3>2. handlers[g].at \in Holding => handlers[g].conn \in Connection BY DEF GrantsHeld, HandlerSound
    <3>3. CASE handlers[g].conn = k
      BY <1>2, <1>4, <1>5, <2>2, <2>4, <3>1, <3>3 DEF CredentialKnown, Revoking
    <3>4. CASE handlers[g].conn # k
      BY <1>2, <2>2, <3>1, <3>2, <3>4 DEF CredentialKnown, Holding
    <3> QED BY <3>3, <3>4
  <2>5. k \notin Lost' BY <2>1 DEF Lost, Carried, Carries
  <2>6. LossBounded' BY <1>2, <1>3, <1>7, <2>1, <2>2, <2>5, LossAt, LossKept DEF VaultInv
  <2> QED BY <1>5, <2>1, <2>3, <2>4, <2>6, CredentialMoves DEF Connecting
<1> QED BY <1>3, <1>6, <1>7 DEF RevokeConnection

(* The vault's entry goes last. *)
LEMMA ForgetCredentialVault ==
  ASSUME ActionTypeOK, VaultInv, NEW h \in Handler, ForgetCredential(h) PROVE VaultInv'
<1>1. handlers \in [Handler -> HandlerType] /\ tool \in ToolType BY ActionTypes
<1>2. /\ handlers[h].at = "forget" /\ UNCHANGED <<connections, tokens>> /\ faults \in Nat
  BY ActionsAssumption DEF ForgetCredential, At, ActionTypeOK
<1>3. PICK k : k = handlers[h].conn OBVIOUS
<1>4. connections[k].status = "revoked" /\ k \notin tokens BY <1>2, <1>3 DEF VaultInv, CredentialKnown
<1>5. vault' = vault \/ vault' = vault \ {k} BY <1>3 DEF ForgetCredential
<1>6. \A g \in Handler : g # h => (handlers'[g] = handlers[g] => CredentialKnown(g)')
  BY <1>2, <1>4, <1>5 DEF VaultInv, CredentialKnown
<1>7. \A q \in Connection : q # k => /\ connections'[q] = connections[q]
                                     /\ (q \in vault' <=> q \in vault) /\ (q \in tokens' <=> q \in tokens)
  BY <1>2, <1>5
<1>8. CASE Rejected(h) BY <1>3, <1>6, <1>7, <1>8, GivesUp
<1>9. CASE vault' = vault \ {k} /\ Responds(h, "ok", None, None) /\ UNCHANGED faults
  <2>1. /\ \A g \in Handler : g # h => handlers'[g] = handlers[g]
        /\ handlers'[h] = Idle
    BY <1>1, <1>9, Answered
  <2>2. CredentialKnown(h)' /\ handlers'[h].at \notin Connecting /\ handlers'[h].at \notin Revoking
    BY <2>1, IdleTyped DEF CredentialKnown, Connecting, Revoking
  <2>3. k \notin Lost' BY <1>2, <1>4, <1>9 DEF Lost, Deviant, Active
  <2>4. LossBounded' BY <1>2, <1>3, <1>7, <1>9, <2>1, <2>3, LossAt, LossKept DEF VaultInv
  <2> QED BY <1>6, <2>1, <2>2, <2>4, CredentialMoves
<1> QED BY <1>3, <1>8, <1>9 DEF ForgetCredential

(* A crash loses the credentials in hand. *)
LEMMA CrashVault ==
  ASSUME ActionTypeOK, VaultInv, ControlPlaneCrashes PROVE VaultInv'
<1>1. \A h \in Handler : handlers'[h] = Idle BY DEF ControlPlaneCrashes
<1>2. UNCHANGED credentials /\ faults \in Nat /\ faults' = faults + 1
  BY ActionsAssumption DEF ControlPlaneCrashes, Fault, ActionTypeOK
<1>3. (\A h \in Handler : CredentialKnown(h)') /\ CredentialsApart'
  BY <1>1, IdleTyped DEF CredentialKnown, CredentialsApart, Connecting, Revoking
<1> DEFINE S == {handlers[h].conn : h \in Handler}
<1>4. IsFiniteSet(S) /\ Cardinality(S) <= Cardinality(Handler)
  <2> DEFINE f == [h \in Handler |-> handlers[h].conn]
  <2>1. f \in [Handler -> S] /\ \A s \in S : \E h \in Handler : f[h] = s OBVIOUS
  <2>2. f \in Surjection(Handler, S) BY <2>1, Fun_IsSurj
  <2> HIDE DEF f, S
  <2> QED BY <2>2, FS_Surjection, ActionsAssumption
<1>5. Lost' \subseteq Lost \cup S BY <1>2 DEF Lost, Deviant, Active, Carried, credentials
<1> HIDE DEF S
<1>6. LossBounded' BY <1>2, <1>4, <1>5, LossGrows DEF VaultInv
<1> QED BY <1>3, <1>6 DEF VaultInv

(* The steps that have no credential in hand: the request's own moves. *)
Elsewhere(h) ==
  /\ \A g \in Handler : g # h => handlers'[g] = handlers[g]
  /\ handlers[h].at \notin Holding /\ handlers'[h].at \notin Holding

(* A request that goes to an await where it has no credential in hand. *)
LEMMA PlaceElsewhere ==
  ASSUME handlers \in [Handler -> HandlerType], NEW h \in Handler, handlers[h].at \notin Holding,
         NEW place, place \notin Holding, handlers' = [handlers EXCEPT ![h].at = place]
  PROVE  Elsewhere(h)
BY DEF Elsewhere, HandlerType

(* A request that is answered has none. *)
LEMMA AnswerElsewhere ==
  ASSUME handlers \in [Handler -> HandlerType], tool \in ToolType, NEW h \in Handler, handlers[h].at \notin Holding,
         NEW answer, NEW conf, NEW inv, Responds(h, answer, conf, inv)
  PROVE  Elsewhere(h)
<1>1. handlers' = [handlers EXCEPT ![h] = Idle] BY DEF Responds
<1> QED BY <1>1, IdleTyped DEF Elsewhere, Holding

(* A request that failed has none. *)
LEMMA RejectedElsewhere ==
  ASSUME handlers \in [Handler -> HandlerType], tool \in ToolType, NEW h \in Handler, handlers[h].at \notin Holding,
         Rejected(h)
  PROVE  Elsewhere(h)
BY AnswerElsewhere DEF Rejected

(* Issuing a grant takes no credential in hand. *)
LEMMA IssueElsewhere ==
  ASSUME ActionInv, NEW h \in Handler, IssueStep(h) PROVE Elsewhere(h)
<1>1. handlers \in [Handler -> HandlerType] /\ tool \in ToolType BY ActionTypes DEF ActionInv
<1>2. CASE ConsoleIssues(h)
  BY <1>2, IssueMoves DEF ConsoleIssues, ToolStage, Owning, Executing, Unanswered, Holding, Elsewhere, records
<1>3. CASE CreateConfirmation(h)
  <2>1. handlers[h].at \notin Holding BY <1>3 DEF CreateConfirmation, At, Holding
  <2>2. Rejected(h) \/ \E c \in Confirmation : Responds(h, "waiting", c, None) BY <1>3 DEF CreateConfirmation
  <2> QED BY <1>1, <2>1, <2>2, RejectedElsewhere, AnswerElsewhere
<1>4. CASE UseConfirmation(h)
  <2>1. handlers[h].at \notin Holding BY <1>4 DEF UseConfirmation, At, Holding
  <2>2. Rejected(h) \/ Responds(h, "failed", None, None) \/ handlers' = [handlers EXCEPT ![h].at = "save"]
    BY <1>4 DEF UseConfirmation, Goes
  <2> QED BY <1>1, <2>1, <2>2, RejectedElsewhere, AnswerElsewhere, PlaceElsewhere DEF Holding
<1>5. CASE SaveInvocation(h)
  <2>1. handlers[h].at \notin Holding BY <1>5 DEF SaveInvocation, At, Holding
  <2>2. Rejected(h) \/ \E i \in Invocation : handlers' = [handlers EXCEPT ![h].at = "grant", ![h].inv = i]
    BY <1>5 DEF SaveInvocation
  <2>3. ASSUME NEW i \in Invocation, handlers' = [handlers EXCEPT ![h].at = "grant", ![h].inv = i] PROVE Elsewhere(h)
    BY <1>1, <2>1, <2>3 DEF Elsewhere, HandlerType, Holding
  <2> QED BY <1>1, <2>1, <2>2, <2>3, RejectedElsewhere
<1>6. CASE RegisterGrant(h)
  <2>1. handlers[h].at \notin Holding BY <1>6 DEF RegisterGrant, GrantRegistered, At, Holding
  <2>2. Rejected(h) \/ Responds(h, "granted", handlers[h].conf, handlers[h].inv) BY <1>6 DEF RegisterGrant, GrantRegistered
  <2> QED BY <1>1, <2>1, <2>2, RejectedElsewhere, AnswerElsewhere
<1> QED BY <1>2, <1>3, <1>4, <1>5, <1>6 DEF IssueStep

(* Carrying out an action takes none in hand. *)
LEMMA ExecuteElsewhere ==
  ASSUME ActionInv, NEW h \in Handler, ExecuteStep(h) PROVE Elsewhere(h)
<1>1. handlers \in [Handler -> HandlerType] /\ tool \in ToolType BY ActionTypes DEF ActionInv
<1>2. CASE GrantPresented(h)
  BY <1>2, ExecutesMoves DEF GrantPresented, ToolStage, Owning, Executing, Unanswered, Holding, Elsewhere, records
<1>3. ASSUME ConsumeGrant(h) \/ StartRun(h) \/ MarkRunning(h) \/ CheckConnection(h) \/ FinishRun(h) \/ RecordOutcome(h)
      PROVE  Elsewhere(h)
  <2>1. handlers[h].at \notin Holding
    BY <1>3 DEF ConsumeGrant, StartRun, MarkRunning, CheckConnection, FinishRun, RecordOutcome, At, Holding
  <2>2. \/ Rejected(h) \/ (\E answer : Responds(h, answer, None, None) \/ Responds(h, answer, None, handlers[h].inv))
        \/ \E place \in {"start", "mark", "check", "post", "finish", "record"} :
             handlers' = [handlers EXCEPT ![h].at = place]
    BY <1>3 DEF ConsumeGrant, StartRun, MarkRunning, CheckConnection, FinishRun, RecordOutcome, Goes, Warned
  <2> QED BY <1>1, <2>1, <2>2, RejectedElsewhere, AnswerElsewhere, PlaceElsewhere DEF Holding
<1>4. CASE Post(h)
  <2>1. handlers[h].at \notin Holding BY <1>4 DEF Post, At, Holding
  <2>2. \/ handlers' = [handlers EXCEPT ![h].at = "finish"]
        \/ handlers' = [handlers EXCEPT ![h].at = "finish", ![h].ok = TRUE]
    BY <1>4 DEF Post
  <2>3. CASE handlers' = [handlers EXCEPT ![h].at = "finish", ![h].ok = TRUE]
    BY <1>1, <2>1, <2>3 DEF Elsewhere, HandlerType, Holding
  <2> QED BY <1>1, <2>1, <2>2, <2>3, PlaceElsewhere DEF Holding
<1> QED BY <1>2, <1>3, <1>4 DEF ExecuteStep

(* The tool's calls take none in hand. *)
LEMMA ToolElsewhere ==
  ASSUME ActionInv, NEW h \in Handler, ToolStarts(h) \/ ToolIssuesConfirmed(h) \/ ToolExecutes(h)
  PROVE  Elsewhere(h)
<1> USE DEF ToolStage, Owning, Executing, Unanswered, Holding, Elsewhere, records
<1>1. CASE ToolStarts(h) BY <1>1, IssueMoves DEF ToolStarts
<1>2. CASE ToolIssuesConfirmed(h)
  <2>1. handlers[h].at = "idle" /\ handlers \in [Handler -> HandlerType]
    BY <1>2, ActionTypes DEF ToolIssuesConfirmed, Issues, At, ActionInv
  <2> DEFINE place == IF tool.act \notin Confirmed THEN "save" ELSE IF tool.conf = None THEN "ask" ELSE "use"
  <2>2. PICK a \in Actors(tool.requester) :
          handlers' = [handlers EXCEPT ![h] =
            [Idle EXCEPT !.requester = tool.requester, !.actor = a[1], !.conn = a[2], !.act = tool.act,
                         !.conf = tool.conf, !.at = place]]
    BY <1>2 DEF ToolIssuesConfirmed, Issues
  <2>3. place \in {"save", "ask", "use"} OBVIOUS
  <2> HIDE DEF place
  <2> QED BY <2>1, <2>2, <2>3 DEF Idle
<1>3. CASE ToolExecutes(h)
  <2>1. handlers[h].at = "idle" /\ handlers \in [Handler -> HandlerType]
    BY <1>3, ActionTypes DEF ToolExecutes, Executes, At, ActionInv
  <2>2. handlers' = [handlers EXCEPT ![h] = [Idle EXCEPT !.at = "consume", !.inv = tool.inv]]
    BY <1>3 DEF ToolExecutes, Executes
  <2> QED BY <2>1, <2>2 DEF Idle
<1> QED BY <1>1, <1>2, <1>3

(* A callback has none in hand before its code is exchanged. *)
LEMMA OAuthElsewhere ==
  ASSUME ActionInv, NEW h \in Handler, NEW s \in OAuthState, NEW p \in Human, ConsumeOAuthState(h, s, p)
  PROVE  Elsewhere(h)
<1>1. handlers \in [Handler -> HandlerType] BY ActionTypes DEF ActionInv
<1>2. handlers[h].at = "idle" /\ handlers' = [handlers EXCEPT ![h] = [Idle EXCEPT !.at = "exchange", !.requester = p]]
  BY DEF ConsumeOAuthState, At
<1> QED BY <1>1, <1>2 DEF Idle, Elsewhere, Holding

(* The credentials stay where they are. *)
LEMMA ElsewhereVault ==
  ASSUME ActionInv, VaultInv, NEW h \in Handler,
         \/ IssueStep(h) \/ ExecuteStep(h) \/ ToolStarts(h) \/ ToolIssuesConfirmed(h) \/ ToolExecutes(h)
         \/ \E s \in OAuthState, p \in Human : ConsumeOAuthState(h, s, p)
  PROVE  VaultInv'
<1>1. Elsewhere(h) BY IssueElsewhere, ExecuteElsewhere, ToolElsewhere, OAuthElsewhere
<1>2. UNCHANGED credentials /\ faults' \in {faults, faults + 1}
  <2>1. CASE IssueStep(h)
    BY <2>1 DEF IssueStep, ConsoleIssues, CreateConfirmation, UseConfirmation, SaveInvocation, RegisterGrant, GrantRegistered,
                Rejected, Fault
  <2>2. CASE ExecuteStep(h)
    BY <2>2 DEF ExecuteStep, GrantPresented, ConsumeGrant, StartRun, MarkRunning, CheckConnection, Post, FinishRun,
                RecordOutcome, Rejected, Warned, Fault
  <2> QED BY <2>1, <2>2 DEF ToolStarts, ToolIssuesConfirmed, ToolExecutes, ConsumeOAuthState
<1> QED BY <1>1, <1>2, NoCredentialMoves DEF Elsewhere, ActionInv

(* A step of no request. *)
LEMMA VaultRests ==
  ASSUME VaultInv, UNCHANGED <<credentials, handlers, faults>> PROVE VaultInv'
BY DEF VaultInv, CredentialKnown, CredentialsApart, LossBounded, Lost, Carried, Carries, Deviant, Active, credentials

(* Every step keeps track of the credentials. *)
LEMMA VaultStep == ASSUME ActionInv, VaultInv, [ActionNext]_actionVars PROVE VaultInv'
<1>1. ActionTypeOK /\ GrantsHeld BY DEF ActionInv
<1>2. ASSUME NEW h \in Handler, ConnectStep(h) PROVE VaultInv'
  BY <1>1, <1>2, RevokesVault, ExchangeCodeVault, PutCredentialVault, RegisterConnectionVault, DiscardCredentialVault,
     RevokeTokenVault, RevokeConnectionVault, ForgetCredentialVault, ElsewhereVault
  DEF ConnectStep
<1>3. CASE \/ \E c \in Confirmation, p \in Human, approve \in BOOLEAN : DecideConfirmation(c, p, approve)
           \/ \E s \in OAuthState, p \in Human : StartOAuth(s, p)
           \/ ToolPolls \/ ToolGivesUp \/ UpdatePersona \/ TimePasses \/ UNCHANGED actionVars
  <2>1. UNCHANGED <<credentials, handlers, faults>>
    BY <1>3 DEF DecideConfirmation, StartOAuth, ToolPolls, ToolGivesUp, UpdatePersona, TimePasses, actionVars
  <2> QED BY <2>1, VaultRests
<1> QED BY <1>1, <1>2, <1>3, ElsewhereVault, CrashVault DEF ActionNext

(* At first every credential is where its connection says. *)
LEMMA VaultStarts == ASSUME ActionInit PROVE VaultInv
<1>1. /\ vault = {k \in Connection : connections[k].status = "active"} /\ tokens = vault
      /\ faults = 0 /\ handlers = [h \in Handler |-> Idle]
  BY DEF ActionInit
<1>2. Lost = {} BY <1>1 DEF Lost, Deviant, Active
<1>3. IsFiniteSet({}) /\ Cardinality({}) = 0 BY FS_EmptySet
<1>4. Cardinality(Handler) \in Nat BY FS_CardinalityType, ActionsAssumption
<1>5. LossBounded
  <2> HIDE DEF Lost
  <2> QED BY <1>1, <1>2, <1>3, <1>4 DEF LossBounded
<1> QED BY <1>1, <1>5, IdleTyped DEF VaultInv, CredentialKnown, CredentialsApart, Connecting, Revoking

(* A credential is in the vault and its token honoured just while its      *)
(* connection is active or a request has it in hand, but for those the     *)
(* failures lost, at most one for each request that was under way.         *)
THEOREM CredentialsTracked == ActionSpec => []CredentialsAccounted
<1>1. ActionInv /\ VaultInv => CredentialsAccounted
  <2> SUFFICES ASSUME ActionInv, VaultInv PROVE CredentialsAccounted OBVIOUS
  <2> DEFINE inHand == {handlers[h].conn : h \in {g \in Handler :
                          handlers[g].at \in {"vault", "connect", "discard", "revoke", "recordRevoked", "forget"}}}
             active == {k \in Connection : connections[k].status = "active"}
             astray == {k \in Connection \ inHand : ~((k \in active) <=> (k \in vault))
                                                    \/ ~((k \in active) <=> (k \in tokens))}
  <2>1. Carried \subseteq inHand BY DEF Carried, Carries
  <2>2. astray \subseteq Lost BY <2>1 DEF Lost, Deviant, Active
  <2> HIDE DEF astray
  <2>3. IsFiniteSet(Lost) /\ Cardinality(Lost) <= faults * Cardinality(Handler) BY DEF VaultInv, LossBounded
  <2>4. Cardinality(astray) <= Cardinality(Lost) /\ IsFiniteSet(astray) BY <2>2, <2>3, FS_Subset
  <2>5. Cardinality(astray) \in Nat /\ Cardinality(Lost) \in Nat /\ Cardinality(Handler) \in Nat /\ faults \in Nat
    BY <2>3, <2>4, FS_CardinalityType, ActionsAssumption DEF ActionInv, ActionTypeOK
  <2>6. faults * Cardinality(Handler) \in Nat BY <2>5
  <2>7. Cardinality(astray) <= faults * Cardinality(Handler) BY <2>3, <2>4, <2>5, <2>6
  <2> QED BY <2>7 DEF CredentialsAccounted, astray
<1>2. ActionSpec => []VaultInv
  BY VaultStarts, VaultStep, ActionStarts, ActionInvariance, PTL DEF ActionSpec
<1> QED BY <1>1, <1>2, ActionInvariance, PTL

=============================================================================
