-------------------------- MODULE GovernedActions --------------------------
(***************************************************************************)
(* Governed GitHub actions: the control plane's GovernanceController       *)
(* (worker/governance-controller.ts) over the GovernanceRegistry           *)
(* (src/governance-registry.ts), the grants and runs of a claw's           *)
(* coordinator, the OAuth vault, and the agent's tool                      *)
(* (src/governed-tool.ts).                                                 *)
(*                                                                         *)
(* Each request is a chain of awaits on different stores; `handlers' holds *)
(* the requests under way, each at its next await, and any await may let   *)
(* the others go ahead, fail (counted in `faults') or never return (the    *)
(* process dies).  An operation of the registry is one transaction.        *)
(*                                                                         *)
(* An action stands for a capability with its target and arguments, that   *)
(* is, for an arguments digest.  One persona serves the claw.  A time      *)
(* limit has passed or has not: confirmations, grants and OAuth states     *)
(* carry `expired'.                                                        *)
(***************************************************************************)
EXTENDS Integers, FiniteSets

CONSTANTS
  Human,         \* principals of kind human
  Service,       \* the service principal of the persona's actor policy
  Owner,         \* the persona's owner, a human
  Act,           \* actions
  Confirmed,     \* the actions whose capability has confirmation "always"
  Confirmation, Invocation, Connection, OAuthState, \* record ids
  Handler,       \* requests under way at a time
  None,
  MaxFaults      \* bound: awaits that fail, GitHub answers lost, crashes

ASSUME ActionsAssumption ==
  /\ Owner \in Human /\ Service \notin Human /\ Confirmed \subseteq Act
  /\ None \notin UNION {Human, {Service}, Act, Confirmation, Invocation, Connection, OAuthState, Handler}
  /\ IsFiniteSet(Handler) /\ MaxFaults \in Nat

Principal == Human \cup {Service}
Mode == {"invoker", "service", "invoker-with-service-fallback"}

VARIABLES
  persona,       \* enabled, and its actor policy's mode
  confirmations, invocations, connections, oauthStates,
  vault,         \* connections whose credential envelope is in the bucket
  tokens,        \* connections whose token GitHub honours
  handlers,
  tool,          \* the call of the agent's tool
  faults,
  carriedOut,    \* ghost: times GitHub carried out an invocation's request
  heard          \* ghost: invocations whose success GitHub told the controller

records == <<persona, confirmations, invocations, oauthStates>>
credentials == <<connections, vault, tokens>>
github == <<carriedOut, heard>>
actionVars == <<records, credentials, handlers, tool, faults, github>>

Absent(fields) == [f \in fields |-> IF f = "status" THEN "absent"
                                    ELSE IF f \in {"expired", "grantExpired"} THEN FALSE
                                    ELSE IF f \in {"grant", "run"} THEN "none" ELSE None]
NoConfirmation == Absent({"status", "requester", "actor", "act", "expired"})
NoInvocation == Absent({"status", "requester", "actor", "act", "conf", "conn",
                        "grant", "grantExpired", "run"})
Idle == [at |-> "idle", requester |-> None, actor |-> None, act |-> None,
         conf |-> None, conn |-> None, inv |-> None, ok |-> FALSE]
NoTool == [pc |-> "idle", by |-> None, requester |-> None, act |-> None, conf |-> None, inv |-> None]

ActionInit ==
  /\ persona \in [enabled : {TRUE}, mode : Mode]
  /\ confirmations = [c \in Confirmation |-> NoConfirmation]
  /\ invocations = [i \in Invocation |-> NoInvocation]
  /\ connections \in [Connection -> [owner : {None}, status : {"absent"}]
                                    \cup [owner : Principal, status : {"active"}]]
  /\ vault = {k \in Connection : connections[k].status = "active"} /\ tokens = vault
  /\ oauthStates = [s \in OAuthState |-> [owner |-> None, status |-> "absent", expired |-> FALSE]]
  /\ handlers = [h \in Handler |-> Idle] /\ tool = NoTool /\ faults = 0
  /\ carriedOut = [i \in Invocation |-> 0] /\ heard = {}

----------------------------------------------------------------------------
(* Handlers. *)

Fault == faults < MaxFaults /\ faults' = faults + 1

At(h, place) == handlers[h].at = place
Goes(h, place) == handlers' = [handlers EXCEPT ![h].at = place] /\ UNCHANGED tool

(* The response, and what the tool does with it if it still waits for it. *)
Responds(h, answer, conf, inv) ==
  /\ handlers' = [handlers EXCEPT ![h] = Idle]
  /\ tool' = IF tool.by # h THEN tool
             ELSE [tool EXCEPT !.pc = answer, !.by = None, !.conf = conf, !.inv = inv]

(* An await of h rejects, and the handler answers with the error. *)
Rejected(h) == Fault /\ Responds(h, "failed", None, None)

----------------------------------------------------------------------------
(* Who acts: src/governance.ts. *)

(* mayInvokePersona: the persona is a personal one. *)
MayInvoke(requester, isAdmin) == isAdmin \/ requester = Owner

(* findConnection, for any of the principal's active connections. *)
ActiveOf(p) == {k \in Connection : connections[k] = [owner |-> p, status |-> "active"]}

(* resolveInvocationActor: the actor and connection, none when it throws. *)
Actors(requester) ==
  LET own == {requester} \X ActiveOf(requester)
      service == {Service} \X ActiveOf(Service)
  IN  CASE ~persona.enabled -> {}
        [] persona.enabled /\ persona.mode = "invoker" -> own
        [] persona.enabled /\ persona.mode = "service" -> service
        [] OTHER -> IF own # {} THEN own ELSE service

----------------------------------------------------------------------------
(* Issuing a grant. *)

Issues(h, requester, act, conf, trusted, isAdmin) ==
  /\ At(h, "idle") /\ (trusted \/ MayInvoke(requester, isAdmin))
  /\ \E a \in Actors(requester) :
       handlers' = [handlers EXCEPT ![h] =
         [Idle EXCEPT !.requester = requester, !.actor = a[1], !.conn = a[2], !.act = act,
                      !.conf = conf,
                      !.at = IF act \notin Confirmed THEN "save"
                             ELSE IF conf = None THEN "ask" ELSE "use"]]

(* POST /api/invocations/issue, by any client with the requester's session. *)
ConsoleIssues(h) ==
  /\ \E requester \in Human, act \in Act, conf \in Confirmation \cup {None}, isAdmin \in BOOLEAN :
       /\ conf # None => confirmations[conf].status # "absent"
       /\ Issues(h, requester, act, conf, FALSE, isAdmin)
  /\ UNCHANGED <<records, credentials, tool, faults, github>>

CreateConfirmation(h) ==
  /\ At(h, "ask")
  /\ \/ \E c \in Confirmation :
          /\ confirmations[c].status = "absent"
          /\ confirmations' = [confirmations EXCEPT ![c] =
               [status |-> "pending", requester |-> handlers[h].requester,
                actor |-> handlers[h].actor, act |-> handlers[h].act, expired |-> FALSE]]
          \* The audit and its queue come after; their failure is the answer.
          /\ \/ Responds(h, "waiting", c, None) /\ UNCHANGED faults
             \/ Rejected(h)
     \/ Rejected(h) /\ UNCHANGED confirmations
  /\ UNCHANGED <<persona, invocations, oauthStates, credentials, github>>

(* Mutant: the confirmation is not compared with the action. *)
MatchesNoAction(c, h) ==
  /\ confirmations[c].status = "approved" /\ ~confirmations[c].expired
  /\ confirmations[c].requester = handlers[h].requester

(* The checks of useConfirmation. *)
Usable(c, h) ==
  /\ confirmations[c].status = "approved" /\ ~confirmations[c].expired
  /\ \A key \in {"requester", "actor", "act"} : confirmations[c][key] = handlers[h][key]

UseConfirmation(h) ==
  /\ At(h, "use")
  /\ LET c == handlers[h].conf IN
     \/ /\ Usable(c, h) /\ confirmations' = [confirmations EXCEPT ![c].status = "used"]
        /\ Goes(h, "save") /\ UNCHANGED faults
     \/ ~Usable(c, h) /\ Responds(h, "failed", None, None) /\ UNCHANGED <<confirmations, faults>>
     \/ Rejected(h) /\ UNCHANGED confirmations
  /\ UNCHANGED <<persona, invocations, oauthStates, credentials, github>>

SaveInvocation(h) ==
  /\ At(h, "save")
  /\ \/ \E i \in Invocation :
          /\ invocations[i].status = "absent"
          /\ invocations' = [invocations EXCEPT ![i] =
               [NoInvocation EXCEPT !.status = "issued", !.requester = handlers[h].requester,
                 !.actor = handlers[h].actor, !.act = handlers[h].act,
                 !.conf = handlers[h].conf, !.conn = handlers[h].conn]]
          /\ handlers' = [handlers EXCEPT ![h].at = "grant", ![h].inv = i] /\ UNCHANGED <<tool, faults>>
     \/ Rejected(h) /\ UNCHANGED invocations
  /\ UNCHANGED <<persona, confirmations, oauthStates, credentials, github>>

GrantRegistered(i) == [invocations EXCEPT ![i].grant = "registered"]

RegisterGrant(h) ==
  /\ At(h, "grant")
  /\ LET i == handlers[h].inv IN
     \/ /\ invocations' = GrantRegistered(i)
        /\ \/ Responds(h, "granted", handlers[h].conf, i) /\ UNCHANGED faults
           \/ Rejected(h)
     \/ Rejected(h) /\ UNCHANGED invocations
  /\ UNCHANGED <<persona, confirmations, oauthStates, credentials, github>>

(* From Slack or the console; a late or repeated decision is refused.  A   *)
(* decision on an expired confirmation stores "expired" and throws, which  *)
(* rolls the write back.                                                   *)
DecideConfirmation(c, requester, approve) ==
  /\ confirmations[c].status = "pending" /\ confirmations[c].requester = requester
  /\ ~confirmations[c].expired
  /\ confirmations' = [confirmations EXCEPT ![c].status = IF approve THEN "approved" ELSE "denied"]
  /\ UNCHANGED <<persona, invocations, oauthStates, credentials, handlers, tool, faults, github>>

----------------------------------------------------------------------------
(* Executing a grant: POST /api/tools/github/execute. *)

Executes(h, i) ==
  /\ At(h, "idle")
  /\ handlers' = [handlers EXCEPT ![h] = [Idle EXCEPT !.at = "consume", !.inv = i]]

(* A holder of the grant other than the tool. *)
GrantPresented(h) ==
  /\ \E i \in Invocation : invocations[i].grant # "none" /\ Executes(h, i)
  /\ UNCHANGED <<records, credentials, tool, faults, github>>

GrantOpen(i) == invocations[i].grant = "registered" /\ ~invocations[i].grantExpired

ConsumeGrant(h) ==
  /\ At(h, "consume")
  /\ LET i == handlers[h].inv IN
     \/ /\ GrantOpen(i) /\ invocations' = [invocations EXCEPT ![i].grant = "consumed"]
        /\ Goes(h, "start") /\ UNCHANGED faults
     \/ ~GrantOpen(i) /\ Responds(h, "failed", None, None) /\ UNCHANGED <<invocations, faults>>
     \/ Rejected(h) /\ UNCHANGED invocations
  /\ UNCHANGED <<persona, confirmations, oauthStates, credentials, github>>

StartRun(h) ==
  /\ At(h, "start")
  /\ \/ /\ invocations' = [invocations EXCEPT ![handlers[h].inv].run = "running"]
        /\ Goes(h, "mark") /\ UNCHANGED faults
     \/ Rejected(h) /\ UNCHANGED invocations
  /\ UNCHANGED <<persona, confirmations, oauthStates, credentials, github>>

(* updateInvocation: a recorded outcome is final. *)
Update(i, status) ==
  IF invocations[i].status \in {"issued", "running"} THEN [invocations EXCEPT ![i].status = status]
  ELSE invocations

MarkRunning(h) ==
  /\ At(h, "mark")
  /\ \/ /\ invocations' = Update(handlers[h].inv, "running")
        /\ Goes(h, "check") /\ UNCHANGED faults
     \/ Rejected(h) /\ UNCHANGED invocations
  /\ UNCHANGED <<persona, confirmations, oauthStates, credentials, github>>

CheckConnection(h) ==
  /\ At(h, "check")
  /\ LET i == handlers[h].inv IN
     \/ /\ invocations[i].conn \in ActiveOf(invocations[i].actor) /\ Goes(h, "post") /\ UNCHANGED faults
     \/ /\ invocations[i].conn \notin ActiveOf(invocations[i].actor) /\ Goes(h, "finish") /\ UNCHANGED faults
     \/ Fault /\ Goes(h, "finish")
  /\ UNCHANGED <<records, credentials, github>>

(* vault.get and the request to GitHub, which may refuse it, or carry it   *)
(* out and be cut off before its answer arrives.                           *)
Post(h) ==
  /\ At(h, "post")
  /\ LET i == handlers[h].inv
         able == invocations[i].conn \in vault \cap tokens
     IN
     \/ /\ able /\ carriedOut' = [carriedOut EXCEPT ![i] = @ + 1] /\ heard' = heard \cup {i}
        /\ handlers' = [handlers EXCEPT ![h].at = "finish", ![h].ok = TRUE] /\ UNCHANGED faults
     \/ /\ able /\ Fault /\ carriedOut' = [carriedOut EXCEPT ![i] = @ + 1]
        /\ handlers' = [handlers EXCEPT ![h].at = "finish"] /\ UNCHANGED heard
     \/ /\ \/ ~able /\ UNCHANGED faults
           \/ able /\ Fault
        /\ handlers' = [handlers EXCEPT ![h].at = "finish"] /\ UNCHANGED github
  /\ UNCHANGED <<records, credentials, tool>>

Outcome(h) == IF handlers[h].ok THEN "succeeded" ELSE "failed"

(* Mutant: a failed bookkeeping write is taken for a failed execution. *)
BookkeepingFailsExecution(h, place) ==
  Fault /\ handlers' = [handlers EXCEPT ![h].at = place, ![h].ok = FALSE] /\ UNCHANGED tool

(* A bookkeeping write rejects: the handler notes a warning and goes on. *)
Warned(h, place) ==
  Fault /\ handlers' = [handlers EXCEPT ![h].at = place] /\ UNCHANGED tool

FinishRun(h) ==
  /\ At(h, "finish")
  /\ LET i == handlers[h].inv IN
     \/ /\ invocations' = [invocations EXCEPT ![i].run = IF @ = "running" THEN Outcome(h) ELSE @]
        /\ Goes(h, "record") /\ UNCHANGED faults
     \/ Warned(h, "record") /\ UNCHANGED invocations
  /\ UNCHANGED <<persona, confirmations, oauthStates, credentials, github>>

(* The outcome is written, audited and queued; the answer tells the result *)
(* of the request to GitHub whatever became of the writes.                 *)
RecordOutcome(h) ==
  /\ At(h, "record")
  /\ LET i == handlers[h].inv
         told == IF handlers[h].ok THEN "ok" ELSE "failed"
     IN
     \/ invocations' = Update(i, Outcome(h)) /\ Responds(h, told, None, i) /\ UNCHANGED faults
     \/ Fault /\ Responds(h, told, None, i) /\ UNCHANGED invocations
  /\ UNCHANGED <<persona, confirmations, oauthStates, credentials, github>>

----------------------------------------------------------------------------
(* Connecting and revoking a GitHub account. *)

StartOAuth(s, p) ==
  /\ oauthStates[s].status = "absent"
  /\ oauthStates' = [oauthStates EXCEPT ![s] = [owner |-> p, status |-> "open", expired |-> FALSE]]
  /\ UNCHANGED <<persona, confirmations, invocations, credentials, handlers, tool, faults, github>>

(* consumeOAuthState: the state is deleted; its id never comes back. *)
ConsumeOAuthState(h, s, p) ==
  /\ At(h, "idle")
  /\ oauthStates[s] = [owner |-> p, status |-> "open", expired |-> FALSE]
  /\ oauthStates' = [oauthStates EXCEPT ![s].status = "deleted"]
  /\ handlers' = [handlers EXCEPT ![h] = [Idle EXCEPT !.at = "exchange", !.requester = p]]
  /\ UNCHANGED <<persona, confirmations, invocations, credentials, tool, faults, github>>

Fresh(k) == connections[k].status = "absent" /\ \A h \in Handler : handlers[h].conn # k

(* The code's exchange and the profile: a token may be made and then lost. *)
ExchangeCode(h) ==
  /\ At(h, "exchange")
  /\ \/ \E k \in Connection :
          /\ Fresh(k) /\ k \notin tokens /\ tokens' = tokens \cup {k}
          /\ \/ /\ handlers' = [handlers EXCEPT ![h].at = "vault", ![h].conn = k]
                /\ UNCHANGED <<tool, faults>>
             \/ Rejected(h)
     \/ Rejected(h) /\ UNCHANGED tokens
  /\ UNCHANGED <<records, connections, vault, github>>

PutCredential(h) ==
  /\ At(h, "vault")
  /\ \/ vault' = vault \cup {handlers[h].conn} /\ Goes(h, "connect") /\ UNCHANGED faults
     \/ Rejected(h) /\ UNCHANGED vault
  /\ UNCHANGED <<records, connections, tokens, github>>

RegisterConnection(h) ==
  /\ At(h, "connect")
  /\ \/ /\ connections' = [connections EXCEPT ![handlers[h].conn] =
             [owner |-> handlers[h].requester, status |-> "active"]]
        /\ Responds(h, "ok", None, None) /\ UNCHANGED faults
     \/ Fault /\ Goes(h, "discard") /\ UNCHANGED connections
  /\ UNCHANGED <<records, vault, tokens, github>>

DiscardCredential(h) ==
  /\ At(h, "discard")
  /\ \/ vault' = vault \ {handlers[h].conn} /\ Responds(h, "failed", None, None) /\ UNCHANGED faults
     \/ Rejected(h) /\ UNCHANGED vault
  /\ UNCHANGED <<records, connections, tokens, github>>

Revokes(h, k, p, isAdmin) ==
  /\ At(h, "idle") /\ connections[k].status # "absent" /\ (isAdmin \/ connections[k].owner = p)
  /\ handlers' = [handlers EXCEPT ![h] = [Idle EXCEPT !.at = "revoke", !.requester = p, !.conn = k]]
  /\ UNCHANGED <<records, credentials, tool, faults, github>>

(* GitHub answers 204 only for a token it still honours. *)
RevokeToken(h) ==
  /\ At(h, "revoke")
  /\ LET k == handlers[h].conn
         live == k \in vault \cap tokens
     IN
     \/ live /\ tokens' = tokens \ {k} /\ Goes(h, "recordRevoked") /\ UNCHANGED faults
     \/ live /\ tokens' \in {tokens, tokens \ {k}} /\ Rejected(h)
     \/ ~live /\ Responds(h, "failed", None, None) /\ UNCHANGED <<tokens, faults>>
  /\ UNCHANGED <<records, connections, vault, github>>

RevokeConnection(h) ==
  /\ At(h, "recordRevoked")
  /\ \/ /\ connections' = [connections EXCEPT ![handlers[h].conn].status = "revoked"]
        /\ Goes(h, "forget") /\ UNCHANGED faults
     \/ Rejected(h) /\ UNCHANGED connections
  /\ UNCHANGED <<records, vault, tokens, github>>

(* Mutant: the envelope of a revoked credential is not deleted. *)
LeavesCredential(h) ==
  /\ At(h, "forget") /\ Responds(h, "ok", None, None)
  /\ UNCHANGED <<records, credentials, faults, github>>

ForgetCredential(h) ==
  /\ At(h, "forget")
  /\ \/ vault' = vault \ {handlers[h].conn} /\ Responds(h, "ok", None, None) /\ UNCHANGED faults
     \/ Rejected(h) /\ UNCHANGED vault
  /\ UNCHANGED <<records, connections, tokens, github>>

----------------------------------------------------------------------------
(* The agent's tool: one call at a time, each request with a time limit. *)

ToolWaits(h) == tool' = [tool EXCEPT !.pc = "calling", !.by = h]

(* A call of the tool in a turn of `requester'. *)
ToolStarts(h) ==
  /\ tool.pc \in {"idle", "ok", "failed"}
  /\ \E requester \in Human, act \in Act :
       /\ Issues(h, requester, act, None, TRUE, FALSE)
       /\ tool' = [NoTool EXCEPT !.pc = "calling", !.by = h, !.requester = requester, !.act = act]
  /\ UNCHANGED <<records, credentials, faults, github>>

(* waitForConfirmation. *)
ToolPolls ==
  /\ tool.pc = "waiting" /\ confirmations[tool.conf].status # "pending"
  /\ tool' = [tool EXCEPT !.pc = IF confirmations[tool.conf].status = "approved"
                                 THEN "approved" ELSE "failed"]
  /\ UNCHANGED <<records, credentials, handlers, faults, github>>

ToolIssuesConfirmed(h) ==
  /\ tool.pc = "approved"
  /\ Issues(h, tool.requester, tool.act, tool.conf, TRUE, FALSE) /\ ToolWaits(h)
  /\ UNCHANGED <<records, credentials, faults, github>>

ToolExecutes(h) ==
  /\ tool.pc = "granted" /\ Executes(h, tool.inv) /\ ToolWaits(h)
  /\ UNCHANGED <<records, credentials, faults, github>>

(* A time limit, an abort, or an error response without effect. *)
ToolGivesUp ==
  /\ tool.pc \in {"calling", "waiting", "approved", "granted"}
  /\ tool' = [tool EXCEPT !.pc = "failed", !.by = None]
  /\ UNCHANGED <<records, credentials, handlers, faults, github>>

----------------------------------------------------------------------------
(* Everything else. *)

(* An administrator edits the persona. *)
UpdatePersona ==
  /\ persona' \in [enabled : BOOLEAN, mode : Mode]
  /\ UNCHANGED <<confirmations, invocations, oauthStates, credentials, handlers, tool, faults, github>>

TimePasses ==
  /\ \/ \E c \in Confirmation : /\ confirmations[c].status \in {"pending", "approved"}
                                /\ confirmations' = [confirmations EXCEPT ![c].expired = TRUE]
                                /\ UNCHANGED <<invocations, oauthStates>>
     \/ \E i \in Invocation : /\ invocations[i].grant = "registered"
                              /\ invocations' = [invocations EXCEPT ![i].grantExpired = TRUE]
                              /\ UNCHANGED <<confirmations, oauthStates>>
     \/ \E s \in OAuthState : /\ oauthStates[s].status = "open"
                              /\ oauthStates' = [oauthStates EXCEPT ![s].expired = TRUE]
                              /\ UNCHANGED <<confirmations, invocations>>
  /\ UNCHANGED <<persona, credentials, handlers, tool, faults, github>>

(* The control plane's process or object goes away and comes back. *)
ControlPlaneCrashes ==
  /\ Fault
  /\ handlers' = [h \in Handler |-> Idle]
  /\ tool' = IF tool.by = None THEN tool ELSE [tool EXCEPT !.pc = "failed", !.by = None]
  /\ UNCHANGED <<records, credentials, github>>

IssueStep(h) == ConsoleIssues(h) \/ CreateConfirmation(h) \/ UseConfirmation(h) \/ SaveInvocation(h)
                \/ RegisterGrant(h)
ExecuteStep(h) == GrantPresented(h) \/ ConsumeGrant(h) \/ StartRun(h) \/ MarkRunning(h)
                  \/ CheckConnection(h) \/ Post(h) \/ FinishRun(h) \/ RecordOutcome(h)
ConnectStep(h) ==
  \/ \E s \in OAuthState, p \in Human : ConsumeOAuthState(h, s, p)
  \/ \E k \in Connection, p \in Human, isAdmin \in BOOLEAN : Revokes(h, k, p, isAdmin)
  \/ ExchangeCode(h) \/ PutCredential(h) \/ RegisterConnection(h) \/ DiscardCredential(h)
  \/ RevokeToken(h) \/ RevokeConnection(h) \/ ForgetCredential(h)

ActionNext ==
  \/ \E h \in Handler : IssueStep(h) \/ ExecuteStep(h) \/ ConnectStep(h)
                        \/ ToolStarts(h) \/ ToolIssuesConfirmed(h) \/ ToolExecutes(h)
  \/ \E c \in Confirmation, p \in Human, approve \in BOOLEAN : DecideConfirmation(c, p, approve)
  \/ \E s \in OAuthState, p \in Human : StartOAuth(s, p)
  \/ ToolPolls \/ ToolGivesUp \/ UpdatePersona \/ TimePasses \/ ControlPlaneCrashes

ActionSpec == ActionInit /\ [][ActionNext]_actionVars

----------------------------------------------------------------------------
(* Properties. *)

(* Types, a part of ActionsConfirmed. *)
ActionTypeOK ==
  /\ persona \in [enabled : BOOLEAN, mode : Mode]
  /\ confirmations \in [Confirmation ->
       [status : {"absent", "pending", "approved", "denied", "used"}, requester : Human \cup {None},
        actor : Principal \cup {None}, act : Act \cup {None}, expired : BOOLEAN]]
  /\ invocations \in [Invocation ->
       [status : {"absent", "issued", "running", "succeeded", "failed"}, requester : Human \cup {None},
        actor : Principal \cup {None}, act : Act \cup {None}, conf : Confirmation \cup {None},
        conn : Connection \cup {None}, grant : {"none", "registered", "consumed"},
        grantExpired : BOOLEAN, run : {"none", "running", "succeeded", "failed"}]]
  /\ connections \in [Connection -> [owner : Principal \cup {None}, status : {"absent", "active", "revoked"}]]
  /\ vault \subseteq Connection /\ tokens \subseteq Connection
  /\ oauthStates \in [OAuthState -> [owner : Human \cup {None}, status : {"absent", "open", "deleted"},
                                     expired : BOOLEAN]]
  /\ handlers \in [Handler -> [at : {"idle", "ask", "use", "save", "grant", "consume", "start", "mark",
                                     "check", "post", "finish", "record", "exchange", "vault", "connect",
                                     "discard", "revoke", "recordRevoked", "forget"},
                               requester : Human \cup {None}, actor : Principal \cup {None},
                               act : Act \cup {None}, conf : Confirmation \cup {None},
                               conn : Connection \cup {None}, inv : Invocation \cup {None}, ok : BOOLEAN]]
  /\ tool \in [pc : {"idle", "calling", "waiting", "approved", "granted", "ok", "failed"},
               by : Handler \cup {None}, requester : Human \cup {None}, act : Act \cup {None},
               conf : Confirmation \cup {None}, inv : Invocation \cup {None}]
  /\ faults \in 0..MaxFaults
  /\ carriedOut \in [Invocation -> Nat] /\ heard \subseteq Invocation

(* An action that needs confirmation is carried out at GitHub at most once *)
(* per approval, as the very action, requester and actor that were         *)
(* approved, whatever tools and consoles ask for and however often a grant *)
(* is presented (useConfirmation, consumeGrant).                           *)
ActionsConfirmed ==
  /\ ActionTypeOK
  /\ \A i \in Invocation : carriedOut[i] <= 1
  /\ \A i \in Invocation : carriedOut[i] > 0 /\ invocations[i].act \in Confirmed =>
       /\ invocations[i].conf # None
       /\ LET c == confirmations[invocations[i].conf] IN
          /\ c.status = "used"
          /\ \A key \in {"requester", "actor", "act"} : c[key] = invocations[i][key]
       /\ \A j \in Invocation \ {i} : carriedOut[j] > 0 /\ invocations[j].act \in Confirmed =>
            invocations[j].conf # invocations[i].conf

(* "A completed provider request must never become a failed execution      *)
(* because a later state write or audit export failed": what the records   *)
(* and the tool say of an invocation is what GitHub told the controller.   *)
OutcomeHonest ==
  /\ \A i \in Invocation :
       /\ "succeeded" \in {invocations[i].status, invocations[i].run} => i \in heard
       /\ "failed" \in {invocations[i].status, invocations[i].run} => i \notin heard
  /\ tool.pc = "ok" => tool.inv \in heard

(* Without a failure, a credential is in the vault and its token honoured  *)
(* just while its connection is active or a request is putting it there or *)
(* taking it away; a failure leaves astray no more credentials than there  *)
(* are requests under way, all of which a crash interrupts (the OAuth      *)
(* callback and the revocation of worker/governance-controller).           *)
CredentialsAccounted ==
  LET inHand == {handlers[h].conn : h \in {g \in Handler :
                   handlers[g].at \in {"vault", "connect", "discard", "revoke", "recordRevoked", "forget"}}}
      active == {k \in Connection : connections[k].status = "active"}
      astray == {k \in Connection \ inHand : ~((k \in active) <=> (k \in vault))
                                             \/ ~((k \in active) <=> (k \in tokens))}
  IN  Cardinality(astray) <= faults * Cardinality(Handler)

=============================================================================
