------------------------- MODULE RuntimeCredentials -------------------------
(***************************************************************************)
(* The credentials of one claw's runtime: its runtime token, renewed over  *)
(* its socket (#refreshRuntime of worker/claw-coordinator.ts and           *)
(* aws/postgres-coordinator.ts), and the one-time tickets that open a      *)
(* socket (worker/http-service.ts).  deploy/runtime-bridge.mjs holds the   *)
(* token in memory and in a file.                                          *)
(*                                                                         *)
(* A renewal suspends while it signs, encrypts or decrypts; another socket *)
(* of the runtime, or its retry every 15 s, may renew the same token       *)
(* meanwhile.  On Cloudflare the new token is registered before the old    *)
(* one is consumed, on AWS both are one transaction.  `expired' is the     *)
(* lifetime of a token, in its claims and in its row alike.  The removal of *)
(* the claw closes its sockets and, on AWS, deletes its tokens and tickets. *)
(***************************************************************************)
EXTENDS Integers, FiniteSets

CONSTANTS Token, Ticket, Wire, \* jtis of runtime tokens and of tickets; sockets
          Nothing,
          MaxRenewals,         \* bound: renewals under way
          MaxOutages           \* bound: crashes, restarts and lost messages

ASSUME CredentialsAssumption ==
  Nothing \notin Token \cup Ticket \cup Wire /\ {MaxRenewals, MaxOutages} \subseteq Nat

VARIABLES
  hosting,  \* "edge" or "aws"
  access,   \* "granted", or "revoked" once the removal deleted the rows (AWS)
  refreshes, \* the runtime_refreshes table
  expired,   \* tokens whose lifetime is over
  tickets,   \* the runtime_tickets table
  wires,     \* sockets with the refreshJti of their attachment
  renewals,  \* refreshes suspended at an await
  memory, file, \* the token the runtime uses, and the one it keeps
  outages,
  sent,      \* ghost: the tokens sent in answer to a renewal of a token
  opened     \* ghost: sockets opened with a ticket

runtime == <<memory, file>>
credentialVars ==
  <<hosting, access, refreshes, expired, tickets, wires, renewals, runtime, outages, sent, opened>>

Row(here, next) == [here |-> here, next |-> next]
Closed == [open |-> FALSE, jti |-> Nothing]

CredentialInit ==
  /\ hosting \in {"edge", "aws"} /\ access = "granted"
  /\ refreshes = [t \in Token |-> Row(FALSE, Nothing)] /\ expired = {}
  /\ tickets = [k \in Ticket |-> [status |-> "absent", jti |-> Nothing, late |-> FALSE]]
  /\ wires = [w \in Wire |-> Closed] /\ renewals = {}
  /\ memory = Nothing /\ file = Nothing /\ outages = 0
  /\ sent = [t \in Token |-> {}] /\ opened = [k \in Ticket |-> 0]

Outage == outages < MaxOutages /\ outages' = outages + 1

(* A jti nobody has: not registered, not signed by a renewal under way; one *)
(* stands for all.                                                          *)
Fresh == {t \in Token : ~refreshes[t].here /\ t \notin expired /\ \A r \in renewals : r.next # t}
FreshToken(t) == Fresh # {} /\ t = CHOOSE u \in Fresh : TRUE

----------------------------------------------------------------------------
(* credentials.env of the bootstrap: each request signs and registers a    *)
(* token of its own; the installer writes it to the file, unless the       *)
(* answer is lost.                                                         *)
DeliverBootstrapToken(t) ==
  /\ access = "granted" /\ FreshToken(t) /\ memory = Nothing
  /\ refreshes' = [refreshes EXCEPT ![t] = Row(TRUE, Nothing)]
  /\ \/ file' = t /\ memory' = t /\ UNCHANGED outages
     \/ Outage /\ UNCHANGED runtime
  /\ UNCHANGED <<hosting, access, expired, tickets, wires, renewals, sent, opened>>

TicketRegistered(k) == [tickets EXCEPT ![k] = [status |-> "open", jti |-> memory, late |-> FALSE]]

(* handleRuntimeTicket: the token's signature and lifetime are checked, its *)
(* row is not.  The answer may be lost: the bridge asks for another ticket. *)
IssueTicket(k) ==
  /\ access = "granted" /\ memory # Nothing /\ memory \notin expired
  /\ tickets[k].status = "absent" /\ k = CHOOSE j \in Ticket : tickets[j].status = "absent"
  /\ tickets' = TicketRegistered(k)
  /\ UNCHANGED <<hosting, access, refreshes, expired, wires, renewals, runtime, outages, sent, opened>>

TicketOpen(k) == access = "granted" /\ tickets[k].status = "open" /\ ~tickets[k].late

(* authenticateRuntimeConnect consumes the ticket; the new socket takes the *)
(* place of the runtime's others, unless its upgrade fails.                 *)
Connect(k, w) ==
  /\ TicketOpen(k) /\ ~wires[w].open
  /\ tickets' = [tickets EXCEPT ![k].status = "consumed"]
  /\ \/ /\ wires' = [v \in Wire |-> IF v = w THEN [open |-> TRUE, jti |-> tickets[k].jti]
                                    ELSE [wires[v] EXCEPT !.open = FALSE]]
        /\ opened' = [opened EXCEPT ![k] = @ + 1] /\ UNCHANGED outages
     \/ Outage /\ UNCHANGED <<wires, opened>>
  /\ UNCHANGED <<hosting, access, refreshes, expired, renewals, runtime, sent>>

----------------------------------------------------------------------------
(* Renewing the token. *)

TokenUsable(t) == refreshes[t].here /\ t \notin expired

(* The read at the head of #refreshRuntime, for token t of socket w: the    *)
(* renewal goes on with a replay or with a new token, or the socket is told *)
(* off and closed.                                                          *)
Reads(slot, w, t, others) ==
  IF ~TokenUsable(t)
  THEN renewals' = others /\ wires' = [wires EXCEPT ![w].open = FALSE]
  ELSE /\ renewals' = others \cup
            {[slot |-> slot, wire |-> w, jti |-> t, next |-> refreshes[t].next,
              at |-> IF refreshes[t].next # Nothing THEN "replay" ELSE "sign"]}
       /\ UNCHANGED wires

(* The bridge asks (every 5 minutes, and again every 15 s until answered); *)
(* on AWS the messages of a claw are handled one after another.            *)
RequestRefresh(w) ==
  /\ wires[w].open /\ (hosting = "aws" => renewals = {})
  /\ \E slot \in 1..MaxRenewals : /\ \A r \in renewals : r.slot # slot
                                  /\ Reads(slot, w, wires[w].jti, renewals)
  /\ UNCHANGED <<hosting, access, refreshes, expired, tickets, runtime, outages, sent, opened>>

(* The new token is signed; on Cloudflare it is registered at once. *)
SignToken(r, t) ==
  /\ r.at = "sign" /\ FreshToken(t)
  /\ refreshes' = IF hosting = "edge" THEN [refreshes EXCEPT ![t] = Row(TRUE, Nothing)] ELSE refreshes
  /\ renewals' = (renewals \ {r}) \cup {[r EXCEPT !.at = "rotate", !.next = t]}
  /\ UNCHANGED <<hosting, access, expired, tickets, wires, runtime, outages, sent, opened>>

(* The attachment follows, and the token is sent: the runtime gets it, if   *)
(* the socket is open, and may lose it.                                     *)
Sends(r) ==
  /\ renewals' = renewals \ {r}
  /\ wires' = [wires EXCEPT ![r.wire].jti = r.next]
  /\ sent' = [sent EXCEPT ![r.jti] = @ \cup {r.next}]
  /\ \/ wires[r.wire].open /\ memory' = r.next /\ UNCHANGED outages
     \/ wires[r.wire].open /\ Outage /\ UNCHANGED memory
     \/ ~wires[r.wire].open /\ UNCHANGED <<memory, outages>>

(* Mutant: the rotation does not ask whether the token has a successor. *)
RotatableAgain(t) == refreshes[t].here

(* The WHERE clause of the rotation, whose clock is that of the read. *)
Rotatable(t) == refreshes[t].here /\ refreshes[t].next = Nothing

RotateToken(r) ==
  /\ r.at = "rotate" /\ Rotatable(r.jti)
  /\ refreshes' = [refreshes EXCEPT ![r.jti].next = r.next, ![r.next] = Row(TRUE, Nothing)]
  /\ Sends(r)
  /\ UNCHANGED <<hosting, access, expired, tickets, file, opened>>

(* Another renewal was first, or the row was cleaned up: the new token is   *)
(* dropped and the renewal starts over.                                     *)
RotationContended(r) ==
  /\ r.at = "rotate" /\ ~Rotatable(r.jti)
  /\ refreshes' = [refreshes EXCEPT ![r.next] = Row(FALSE, Nothing)]
  /\ Reads(r.slot, r.wire, r.jti, renewals \ {r})
  /\ UNCHANGED <<hosting, access, expired, tickets, runtime, outages, sent, opened>>

ReplayToken(r) ==
  /\ r.at = "replay" /\ Sends(r)
  /\ UNCHANGED <<hosting, access, refreshes, expired, tickets, file, opened>>

(* onMessage runtime.token: written to the file after it is in memory. *)
KeepToken ==
  /\ file # memory /\ file' = memory
  /\ UNCHANGED <<hosting, access, refreshes, expired, tickets, wires, renewals, memory, outages,
                 sent, opened>>

----------------------------------------------------------------------------
(* Time and outages. *)

(* Tokens expire in the order they were signed; the cleanup deletes rows. *)
TokenExpires(t) ==
  /\ refreshes[t].here /\ t \notin expired /\ \A u \in Token : refreshes[u].next = t => u \in expired
  /\ expired' = expired \cup {t}
  /\ UNCHANGED <<hosting, access, refreshes, tickets, wires, renewals, runtime, outages, sent, opened>>

TicketExpires(k) ==
  /\ tickets[k].status = "open" /\ tickets' = [tickets EXCEPT ![k].late = TRUE]
  /\ UNCHANGED <<hosting, access, refreshes, expired, wires, renewals, runtime, outages, sent, opened>>

CleanUpTokens ==
  /\ refreshes' = [t \in Token |-> IF t \in expired THEN Row(FALSE, Nothing) ELSE refreshes[t]]
  /\ UNCHANGED <<hosting, access, expired, tickets, wires, renewals, runtime, outages, sent, opened>>

(* The object is evicted, keeping its sockets, or the AWS process dies. *)
CoordinatorCrashes ==
  /\ Outage /\ renewals' = {}
  /\ wires' = IF hosting = "edge" THEN wires ELSE [w \in Wire |-> [wires[w] EXCEPT !.open = FALSE]]
  /\ UNCHANGED <<hosting, access, refreshes, expired, tickets, runtime, sent, opened>>

(* The bridge comes back with the token of its file. *)
RuntimeRestarts ==
  /\ memory # Nothing /\ Outage /\ memory' = file
  /\ wires' = [w \in Wire |-> [wires[w] EXCEPT !.open = FALSE]]
  /\ UNCHANGED <<hosting, access, refreshes, expired, tickets, renewals, file, sent, opened>>

(* prepareForRemoval closes the claw's sockets.  On AWS it waits for its     *)
(* turn behind other calls and deletes the tokens and the tickets, and from *)
(* then on none is registered or consumed; on Cloudflare they stay, and so  *)
(* do renewals under way.                                                   *)
PrepareForRemoval ==
  /\ wires' = [w \in Wire |-> [wires[w] EXCEPT !.open = FALSE]]
  /\ \/ hosting = "edge" /\ UNCHANGED <<access, refreshes, tickets>>
     \/ /\ hosting = "aws" /\ renewals = {}
        /\ access' = "revoked" /\ refreshes' = [t \in Token |-> Row(FALSE, Nothing)]
        /\ tickets' = [k \in Ticket |-> [tickets[k] EXCEPT !.status = "deleted"]]
  /\ UNCHANGED <<hosting, expired, renewals, runtime, outages, sent, opened>>

CredentialNext ==
  \/ \E t \in Token : DeliverBootstrapToken(t) \/ TokenExpires(t) \/ \E r \in renewals : SignToken(r, t)
  \/ \E k \in Ticket : IssueTicket(k) \/ TicketExpires(k) \/ \E w \in Wire : Connect(k, w)
  \/ \E w \in Wire : RequestRefresh(w)
  \/ \E r \in renewals : RotateToken(r) \/ RotationContended(r) \/ ReplayToken(r)
  \/ KeepToken \/ CleanUpTokens \/ CoordinatorCrashes \/ RuntimeRestarts \/ PrepareForRemoval

CredentialSpec == CredentialInit /\ [][CredentialNext]_credentialVars

----------------------------------------------------------------------------
(* Types, a part of CredentialsHold. *)
CredentialTypeOK ==
  /\ hosting \in {"edge", "aws"} /\ access \in {"granted", "revoked"}
  /\ refreshes \in [Token -> [here : BOOLEAN, next : Token \cup {Nothing}]] /\ expired \subseteq Token
  /\ tickets \in [Ticket -> [status : {"absent", "open", "consumed", "deleted"},
                             jti : Token \cup {Nothing}, late : BOOLEAN]]
  /\ wires \in [Wire -> [open : BOOLEAN, jti : Token \cup {Nothing}]]
  /\ renewals \subseteq [slot : 1..MaxRenewals, wire : Wire, jti : Token, next : Token \cup {Nothing},
                         at : {"sign", "rotate", "replay"}]
  /\ {memory, file} \subseteq Token \cup {Nothing} /\ outages \in 0..MaxOutages
  /\ sent \in [Token -> SUBSET Token] /\ opened \in [Ticket -> Nat]

(* A runtime never loses its place in the chain of tokens: every answer to  *)
(* a renewal of a token is the same successor, and a token the runtime uses *)
(* or keeps is registered as long as it lives, whatever renewals overlap,   *)
(* die or are answered twice, until the removal on AWS deletes them all;    *)
(* from then on no socket opens and no renewal begins.  A ticket opens one  *)
(* socket (#refreshRuntime, consumeRuntimeTicket, prepareForRemoval).       *)
CredentialsHold ==
  /\ CredentialTypeOK
  /\ \A t \in Token : Cardinality(sent[t]) <= 1
  /\ access = "granted" =>
       /\ \A t \in Token : \A n \in sent[t] \ expired : refreshes[n].here
       /\ \A t \in {memory, file} \ (expired \cup {Nothing}) : refreshes[t].here
  /\ access = "revoked" => renewals = {} /\ \A w \in Wire : ~wires[w].open
  /\ \A k \in Ticket : opened[k] <= 1

=============================================================================
