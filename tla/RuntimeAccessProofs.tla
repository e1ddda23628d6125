------------------------ MODULE RuntimeAccessProofs ------------------------
(***************************************************************************)
(* A runtime's access to its claw. First its credentials: what             *)
(* RuntimeCredentials promises, for any number of tokens, tickets, sockets, *)
(* overlapping renewals and outages. Then the sockets it opens with them:  *)
(* what RuntimeSockets promises, for any finite set of sockets.            *)
(***************************************************************************)
EXTENDS RuntimeCredentials, RuntimeSockets, FiniteSetTheorems, TLAPS

(* Somebody knows the token, or knew it: it is in use, kept, carried by a  *)
(* ticket or a socket, or has a place in the chain of renewals.            *)
Used(t) ==
  \/ t \in {memory, file}
  \/ \E k \in Ticket : tickets[k].jti = t
  \/ \E w \in Wire : wires[w].jti = t
  \/ \E r \in renewals : r.jti = t \/ (r.at = "replay" /\ r.next = t)
  \/ \E u \in Token : refreshes[u].next = t \/ t \in sent[u]
  \/ sent[t] # {}

(* A token somebody knows is registered as long as it lives, until the     *)
(* removal deletes it.                                                     *)
UsedRegistered ==
  access = "granted" => \A t \in Token : Used(t) => refreshes[t].here \/ t \in expired

(* After the removal on AWS no socket is open and no renewal under way.    *)
RevokedSilent == access = "revoked" => renewals = {} /\ \A w \in Wire : ~wires[w].open

(* A token signed for a rotation is known to that rotation alone.          *)
RotationPrivate(r) ==
  /\ r.next \in Token /\ ~Used(r.next)
  /\ \A q \in renewals : q.at = "rotate" /\ q.next = r.next => q = r

(* A replay repeats the successor that is, or was, registered.             *)
ReplayFaithful(r) ==
  /\ r.next \in Token /\ sent[r.jti] \subseteq {r.next}
  /\ refreshes[r.jti].here => refreshes[r.jti].next = r.next
  /\ \A q \in renewals : q.at = "replay" /\ q.jti = r.jti => q.next = r.next

RenewalsSound ==
  \A r \in renewals : /\ r.at = "sign" => r.next = Nothing
                      /\ r.at = "rotate" => RotationPrivate(r)
                      /\ r.at = "replay" => ReplayFaithful(r)

(* One successor was sent for a token, the one of its row.                 *)
SuccessorsUnique ==
  \A t \in Token : /\ refreshes[t].here => sent[t] \subseteq {refreshes[t].next}
                   /\ ~refreshes[t].here => refreshes[t].next = Nothing
                   /\ \A a, b \in sent[t] : a = b

(* Tickets and open sockets are those of a token; a ticket that was not    *)
(* consumed opened nothing.                                                *)
TicketsSound ==
  /\ \A k \in Ticket : /\ tickets[k].status = "open" => tickets[k].jti \in Token
                       /\ opened[k] <= 1 /\ (tickets[k].status \in {"absent", "open"} => opened[k] = 0)
  /\ \A w \in Wire : wires[w].open => wires[w].jti \in Token

CredentialInv ==
  /\ CredentialTypeOK /\ UsedRegistered /\ RenewalsSound /\ SuccessorsUnique /\ TicketsSound

(* One more outage is within the bound. *)
LEMMA OutageTyped ==
  ASSUME CredentialTypeOK, Outage
  PROVE  outages' \in 0..MaxOutages
BY CredentialsAssumption DEF CredentialTypeOK, Outage

(* A socket that closes keeps its token. *)
LEMMA WireCloses ==
  ASSUME CredentialTypeOK, NEW w \in Wire
  PROVE  /\ [wires[w] EXCEPT !.open = FALSE] \in [open : BOOLEAN, jti : Token \cup {Nothing}]
         /\ [wires[w] EXCEPT !.open = FALSE].jti = wires[w].jti
         /\ [wires[w] EXCEPT !.open = FALSE].open = FALSE
BY DEF CredentialTypeOK

(* A bootstrap token is a fresh one, whether or not it arrives. *)
LEMMA DeliverBootstrapTokenStep ==
  ASSUME CredentialInv, NEW t \in Token, DeliverBootstrapToken(t)
  PROVE  CredentialInv'
<1>. USE DEF CredentialInv, DeliverBootstrapToken, FreshToken, Fresh, Row, runtime
<1>1. CredentialTypeOK'
  BY OutageTyped DEF CredentialTypeOK
<1>2. UsedRegistered'
  BY CredentialsAssumption DEF CredentialTypeOK, UsedRegistered, Used
<1>3. ~Used(t) /\ sent[t] = {} /\ \A x \in Token : Used(x)' => Used(x) \/ x = t
  BY CredentialsAssumption DEF CredentialTypeOK, UsedRegistered, Used
<1>4. RenewalsSound'
  BY <1>3 DEF CredentialTypeOK, RenewalsSound, RotationPrivate, ReplayFaithful, Used
<1>5. SuccessorsUnique'
  <2>1. \A x \in Token : (x # t => refreshes'[x] = refreshes[x]) /\ (x = t => refreshes'[x] = Row(TRUE, Nothing))
    BY DEF CredentialTypeOK
  <2>. QED
    BY <1>3, <2>1 DEF SuccessorsUnique
<1>6. TicketsSound'
  BY DEF CredentialTypeOK, TicketsSound
<1>. QED
  BY <1>1, <1>2, <1>4, <1>5, <1>6

(* A ticket carries the token that asked for it. *)
LEMMA IssueTicketStep ==
  ASSUME CredentialInv, NEW k \in Ticket, IssueTicket(k)
  PROVE  CredentialInv'
<1>. USE DEF CredentialInv, IssueTicket, TicketRegistered, runtime
<1>1. CredentialTypeOK'
  BY CredentialsAssumption DEF CredentialTypeOK
<1>2. UsedRegistered'
  BY CredentialsAssumption DEF CredentialTypeOK, UsedRegistered, Used
<1>3. RenewalsSound'
  BY CredentialsAssumption DEF CredentialTypeOK, RenewalsSound, RotationPrivate, ReplayFaithful, Used
<1>4. SuccessorsUnique'
  BY CredentialsAssumption DEF CredentialTypeOK, SuccessorsUnique
<1>5. TicketsSound'
  BY CredentialsAssumption DEF CredentialTypeOK, TicketsSound
<1>. QED
  BY <1>1, <1>2, <1>3, <1>4, <1>5

(* A socket opens with a ticket, once. *)
LEMMA ConnectStep ==
  ASSUME CredentialInv, NEW k \in Ticket, NEW w \in Wire, Connect(k, w)
  PROVE  CredentialInv'
<1>. USE DEF CredentialInv, Connect, TicketOpen, runtime
<1>1. tickets[k].jti \in Token
  BY DEF CredentialTypeOK, TicketsSound
<1>2. wires' \in [Wire -> [open : BOOLEAN, jti : Token \cup {Nothing}]]
  <2>1. wires' = wires \/ wires' = [v \in Wire |-> IF v = w THEN [open |-> TRUE, jti |-> tickets[k].jti]
                                                   ELSE [wires[v] EXCEPT !.open = FALSE]]
    OBVIOUS
  <2>. DEFINE R == [open : BOOLEAN, jti : Token \cup {Nothing}]
  <2>2. [open |-> TRUE, jti |-> tickets[k].jti] \in R /\ wires \in [Wire -> R]
    BY <1>1 DEF CredentialTypeOK
  <2>3. \A v \in Wire : [wires[v] EXCEPT !.open = FALSE] \in R
    BY WireCloses
  <2>. HIDE DEF R
  <2>4. wires' \in [Wire -> R]
    BY <2>1, <2>2, <2>3
  <2>. QED
    BY <2>4 DEF R
<1>3. tickets' \in [Ticket -> [status : {"absent", "open", "consumed", "deleted"},
                              jti : Token \cup {Nothing}, late : BOOLEAN]]
  BY DEF CredentialTypeOK
<1>4. CredentialTypeOK'
  BY <1>2, <1>3, OutageTyped DEF CredentialTypeOK
<1>5. \A x \in Token : Used(x)' => Used(x)
  BY <1>1 DEF CredentialTypeOK, Used
<1>6. UsedRegistered'
  BY <1>5 DEF UsedRegistered
<1>7. RenewalsSound'
  BY <1>5 DEF RenewalsSound, RotationPrivate, ReplayFaithful
<1>8. SuccessorsUnique'
  BY DEF SuccessorsUnique
<1>9. TicketsSound'
  BY <1>1 DEF CredentialTypeOK, TicketsSound
<1>. QED
  BY <1>4, <1>6, <1>7, <1>8, <1>9

(* The read at the head of a renewal: the token of the socket is one it     *)
(* knows, and a row that is dropped with it is one nobody knows.           *)
LEMMA ReadsStep ==
  ASSUME CredentialInv, NEW slot \in 1..MaxRenewals, NEW w \in Wire, NEW t \in Token, Used(t),
         NEW others \in SUBSET renewals, Reads(slot, w, t, others),
         UNCHANGED <<hosting, access, expired, tickets, memory, file, outages, sent, opened>>,
         refreshes' \in [Token -> [here : BOOLEAN, next : Token \cup {Nothing}]],
         \A x \in Token : \/ refreshes'[x] = refreshes[x]
                          \/ ~Used(x) /\ refreshes'[x] = Row(FALSE, Nothing)
  PROVE  CredentialInv'
<1>. USE DEF CredentialInv, Row
<1>0. PICK new : new = [slot |-> slot, wire |-> w, jti |-> t, next |-> refreshes[t].next,
                       at |-> IF refreshes[t].next # Nothing THEN "replay" ELSE "sign"]
  OBVIOUS
<1>1. /\ wires' \in [Wire -> [open : BOOLEAN, jti : Token \cup {Nothing}]]
      /\ \A v \in Wire : wires'[v].jti = wires[v].jti /\ (wires'[v].open => wires[v].open)
  <2>1. \/ wires' = wires
        \/ wires' = [v \in Wire |-> IF v = w THEN [wires[v] EXCEPT !.open = FALSE] ELSE wires[v]]
    BY DEF Reads, CredentialTypeOK
  <2>. QED
    BY <2>1, WireCloses DEF CredentialTypeOK
<1>2. \A r \in renewals' : r \in renewals \/ (r = new /\ refreshes[t].here)
  BY <1>0 DEF Reads, TokenUsable
<1>3. refreshes[t].next \in Token \cup {Nothing} /\ refreshes'[t] = refreshes[t]
  BY DEF CredentialTypeOK
<1>4. /\ new.at \in {"sign", "replay"} /\ new.jti = t /\ new.next = refreshes[t].next
      /\ new.at = "sign" <=> refreshes[t].next = Nothing
  BY <1>0
<1>5. new \in [slot : 1..MaxRenewals, wire : Wire, jti : Token, next : Token \cup {Nothing},
               at : {"sign", "rotate", "replay"}]
  BY <1>0, <1>3
<1>6. CredentialTypeOK'
  <2>1. renewals' \subseteq [slot : 1..MaxRenewals, wire : Wire, jti : Token, next : Token \cup {Nothing},
                             at : {"sign", "rotate", "replay"}]
    BY <1>2, <1>5 DEF CredentialTypeOK
  <2>. QED
    BY <1>1, <2>1 DEF CredentialTypeOK
<1>7. \A x \in Token : refreshes'[x].next \in {refreshes[x].next, Nothing}
  OBVIOUS
<1>8. \A x \in Token : Used(x)' => Used(x)
  <2>. SUFFICES ASSUME NEW x \in Token, Used(x)' PROVE Used(x)
    OBVIOUS
  <2>1. CASE \E r \in renewals' : r.jti = x \/ (r.at = "replay" /\ r.next = x)
    <3>1. PICK r \in renewals' : r.jti = x \/ (r.at = "replay" /\ r.next = x)
      BY <2>1
    <3>2. CASE r \in renewals
      BY <3>1, <3>2 DEF Used
    <3>3. CASE r = new
      BY <1>4, <3>1, <3>3 DEF Used
    <3>. QED
      BY <1>2, <3>2, <3>3
  <2>2. CASE ~\E r \in renewals' : r.jti = x \/ (r.at = "replay" /\ r.next = x)
    BY CredentialsAssumption, <1>1, <1>7, <2>2 DEF Used
  <2>. QED
    BY <2>1, <2>2
<1>9. UsedRegistered'
  BY <1>8 DEF UsedRegistered
<1>10. SuccessorsUnique'
  BY DEF CredentialTypeOK, SuccessorsUnique, Used
<1>11. TicketsSound'
  BY <1>1 DEF TicketsSound
<1>12. \A r \in renewals : r.at = "rotate" => RotationPrivate(r)'
  BY <1>2, <1>4, <1>8 DEF RenewalsSound, RotationPrivate
<1>13. \A r \in renewals : Used(r.jti) /\ r.jti \in Token
  BY DEF Used, CredentialTypeOK
<1>14. \A r \in renewals : r.at = "replay" => ReplayFaithful(r)'
  BY <1>2, <1>3, <1>4, <1>13 DEF RenewalsSound, ReplayFaithful
<1>15. refreshes[t].here /\ new.at = "replay" => ReplayFaithful(new)'
  <2>. SUFFICES ASSUME refreshes[t].here, new.at = "replay" PROVE ReplayFaithful(new)'
    OBVIOUS
  <2>1. new.next \in Token /\ sent'[t] \subseteq {new.next} /\ refreshes'[t].next = new.next
    BY <1>3, <1>4 DEF SuccessorsUnique
  <2>2. \A q \in renewals' : q.at = "replay" /\ q.jti = t => q.next = new.next
    BY <1>2, <1>3, <1>4 DEF RenewalsSound, ReplayFaithful
  <2>. QED
    BY <1>4, <2>1, <2>2 DEF ReplayFaithful
<1>16. RenewalsSound'
  <2>1. \A r \in renewals' : r.at = "sign" => r.next = Nothing
    BY <1>2, <1>4 DEF RenewalsSound
  <2>2. \A r \in renewals' : r.at = "rotate" => RotationPrivate(r)'
    BY <1>2, <1>4, <1>12
  <2>3. \A r \in renewals' : r.at = "replay" => ReplayFaithful(r)'
    BY <1>2, <1>14, <1>15
  <2>. QED
    BY <2>1, <2>2, <2>3 DEF RenewalsSound
<1>. QED
  BY <1>6, <1>9, <1>10, <1>11, <1>16

(* A token that is sent becomes known, and no other. *)
LEMMA SendsStep ==
  ASSUME CredentialInv, NEW r \in renewals, r.next \in Token, Sends(r)
  PROVE  /\ renewals' = renewals \ {r} /\ outages' \in 0..MaxOutages
         /\ memory' \in {memory, r.next}
         /\ wires' \in [Wire -> [open : BOOLEAN, jti : Token \cup {Nothing}]]
         /\ \A w \in Wire : wires'[w].jti \in {wires[w].jti, r.next} /\ wires'[w].open = wires[w].open
         /\ sent' \in [Token -> SUBSET Token] /\ sent'[r.jti] = sent[r.jti] \cup {r.next}
         /\ \A x \in Token : x # r.jti => sent'[x] = sent[x]
<1>1. r.wire \in Wire /\ r.jti \in Token
  BY DEF CredentialInv, CredentialTypeOK
<1>2. outages' \in 0..MaxOutages /\ memory' \in {memory, r.next}
  BY OutageTyped DEF Sends, CredentialInv, CredentialTypeOK
<1>. QED
  BY <1>1, <1>2 DEF Sends, CredentialInv, CredentialTypeOK

(* A renewal begins: it holds the token it was asked with. *)
LEMMA RequestRefreshStep ==
  ASSUME CredentialInv, NEW w \in Wire, RequestRefresh(w)
  PROVE  CredentialInv'
<1>1. PICK slot \in 1..MaxRenewals : Reads(slot, w, wires[w].jti, renewals)
  BY DEF RequestRefresh
<1>2. wires[w].jti \in Token /\ Used(wires[w].jti)
  BY DEF RequestRefresh, CredentialInv, TicketsSound, Used
<1>. QED
  BY <1>1, <1>2, ReadsStep DEF RequestRefresh, runtime, CredentialInv, CredentialTypeOK

(* A successor is signed that nobody has used. *)
LEMMA SignTokenStep ==
  ASSUME CredentialInv, RevokedSilent, NEW r \in renewals, NEW t \in Token, SignToken(r, t)
  PROVE  CredentialInv'
<1>. USE DEF CredentialInv, SignToken, Row, runtime
<1>. DEFINE new == [r EXCEPT !.at = "rotate", !.next = t]
<1>0. access = "granted"
  BY DEF CredentialTypeOK, RevokedSilent
<1>1. /\ ~refreshes[t].here /\ t \notin expired /\ ~Used(t)
      /\ \A q \in renewals : q.next # t
  <2>1. ~refreshes[t].here /\ t \notin expired /\ \A q \in renewals : q.next # t
    BY DEF FreshToken, Fresh
  <2>. QED
    BY <1>0, <2>1 DEF UsedRegistered
<1>2. /\ r.jti \in Token /\ r.at = "sign" /\ new.at = "rotate" /\ new.next = t /\ new.jti = r.jti
      /\ renewals' = (renewals \ {r}) \cup {new}
  BY DEF CredentialTypeOK
<1>3. CredentialTypeOK'
  BY DEF CredentialTypeOK
<1>4. \A x \in Token : refreshes'[x].next = refreshes[x].next
  BY CredentialsAssumption, <1>1 DEF CredentialTypeOK, SuccessorsUnique
<1>5. \A x \in Token : (refreshes[x].here => refreshes'[x] = refreshes[x]) /\ (x # t => refreshes'[x] = refreshes[x])
  BY <1>1 DEF CredentialTypeOK
<1>6. \A x \in Token : Used(x)' => Used(x)
  BY <1>1, <1>2, <1>4 DEF Used
<1>7. UsedRegistered'
  BY <1>5, <1>6 DEF UsedRegistered
<1>8. \A q \in renewals' : q = new \/ q \in renewals
  BY <1>2
<1>9. RotationPrivate(new)'
  BY <1>1, <1>2, <1>6, <1>8 DEF RotationPrivate
<1>10. \A q \in renewals : q.at = "rotate" => RotationPrivate(q)'
  BY <1>1, <1>2, <1>6, <1>8 DEF RenewalsSound, RotationPrivate
<1>11. \A q \in renewals : q.at = "replay" => ReplayFaithful(q)'
  <2>1. \A q \in renewals : Used(q.jti) /\ q.jti \in Token
    BY DEF Used, CredentialTypeOK
  <2>. QED
    <3>. SUFFICES ASSUME NEW q \in renewals, q.at = "replay" PROVE ReplayFaithful(q)'
      OBVIOUS
    <3>1. refreshes'[q.jti] = refreshes[q.jti] /\ ReplayFaithful(q)
      BY <1>1, <1>5, <2>1 DEF RenewalsSound
    <3>2. \A o \in renewals' : o.at = "replay" /\ o.jti = q.jti => o.next = q.next
      BY <1>2, <1>8, <3>1 DEF ReplayFaithful
    <3>. QED
      BY <3>1, <3>2 DEF ReplayFaithful
<1>12. RenewalsSound'
  BY <1>2, <1>8, <1>9, <1>10, <1>11 DEF RenewalsSound
<1>13. SuccessorsUnique'
  BY <1>1, <1>4, <1>5 DEF CredentialTypeOK, SuccessorsUnique, Used
<1>14. TicketsSound'
  BY DEF TicketsSound
<1>. QED
  BY <1>3, <1>7, <1>12, <1>13, <1>14

(* The successor takes its place in the chain and is sent. *)
LEMMA RotateTokenStep ==
  ASSUME CredentialInv, NEW r \in renewals, RotateToken(r)
  PROVE  CredentialInv'
<1>. USE DEF CredentialInv, RotateToken, Rotatable, Row
<1>1. /\ r.jti \in Token /\ r.next \in Token /\ ~Used(r.next) /\ Used(r.jti) /\ r.next # r.jti
      /\ refreshes[r.jti].here /\ refreshes[r.jti].next = Nothing
  BY DEF CredentialTypeOK, RenewalsSound, RotationPrivate, Used
<1>2. PICK n : n = r.next
  OBVIOUS
<1>3. /\ renewals' = renewals \ {r} /\ outages' \in 0..MaxOutages
      /\ memory' \in {memory, n}
      /\ wires' \in [Wire -> [open : BOOLEAN, jti : Token \cup {Nothing}]]
      /\ \A w \in Wire : wires'[w].jti \in {wires[w].jti, n} /\ wires'[w].open = wires[w].open
      /\ sent' \in [Token -> SUBSET Token] /\ sent'[r.jti] = sent[r.jti] \cup {n}
      /\ \A x \in Token : x # r.jti => sent'[x] = sent[x]
  BY <1>1, <1>2, SendsStep
<1>4. /\ refreshes' \in [Token -> [here : BOOLEAN, next : Token \cup {Nothing}]]
      /\ refreshes'[n] = Row(TRUE, Nothing)
      /\ refreshes'[r.jti].here /\ refreshes'[r.jti].next = n
      /\ \A x \in Token : x # n /\ x # r.jti => refreshes'[x] = refreshes[x]
  BY <1>1, <1>2 DEF CredentialTypeOK
<1>5. sent[r.jti] = {} /\ \A q \in renewals : q.at = "replay" => q.jti # r.jti
  BY CredentialsAssumption, <1>1 DEF CredentialTypeOK, RenewalsSound, ReplayFaithful, SuccessorsUnique
<1>6. \A q \in renewals : q.jti # n /\ q.jti \in Token
  BY <1>1, <1>2 DEF CredentialTypeOK, Used
<1>7. CredentialTypeOK'
  <2>1. UNCHANGED <<hosting, access, expired, tickets, file, opened>>
    OBVIOUS
  <2>2. renewals' \subseteq [slot : 1..MaxRenewals, wire : Wire, jti : Token, next : Token \cup {Nothing},
                             at : {"sign", "rotate", "replay"}]
    BY <1>3 DEF CredentialTypeOK
  <2>3. {memory, file}' \subseteq Token \cup {Nothing}
    BY <1>1, <1>2, <1>3, <2>1 DEF CredentialTypeOK
  <2>. QED
    BY <1>3, <1>4, <2>1, <2>2, <2>3 DEF CredentialTypeOK
<1>8. \A x \in Token : Used(x)' => Used(x) \/ x = n
  BY CredentialsAssumption, <1>1, <1>2, <1>3, <1>4, <1>5 DEF Used
<1>9. UsedRegistered'
  BY <1>1, <1>2, <1>4, <1>8 DEF UsedRegistered
<1>10. \A q \in renewals' : q.at = "rotate" => RotationPrivate(q)'
  BY <1>2, <1>3, <1>8 DEF RenewalsSound, RotationPrivate
<1>11. \A q \in renewals' : q.at = "replay" => ReplayFaithful(q)'
  <2>. SUFFICES ASSUME NEW q \in renewals', q.at = "replay" PROVE ReplayFaithful(q)'
    OBVIOUS
  <2>1. q \in renewals /\ ReplayFaithful(q) /\ renewals' \subseteq renewals
    BY <1>3 DEF RenewalsSound
  <2>2. refreshes'[q.jti] = refreshes[q.jti] /\ sent'[q.jti] = sent[q.jti]
    BY <1>3, <1>4, <1>5, <1>6, <2>1
  <2>. QED
    BY <2>1, <2>2 DEF ReplayFaithful
<1>12. RenewalsSound'
  BY <1>3, <1>10, <1>11 DEF RenewalsSound
<1>13. SuccessorsUnique'
  BY <1>1, <1>2, <1>3, <1>4, <1>5 DEF SuccessorsUnique, Used
<1>14. TicketsSound'
  BY <1>1, <1>2, <1>3 DEF TicketsSound
<1>. QED
  BY <1>7, <1>9, <1>12, <1>13, <1>14

(* A renewal that lost the race drops its token and starts over. *)
LEMMA RotationContendedStep ==
  ASSUME CredentialInv, NEW r \in renewals, RotationContended(r)
  PROVE  CredentialInv'
<1>1. /\ r.slot \in 1..MaxRenewals /\ r.wire \in Wire /\ r.jti \in Token /\ Used(r.jti)
      /\ r.next \in Token /\ ~Used(r.next)
  BY DEF RotationContended, CredentialInv, CredentialTypeOK, RenewalsSound, RotationPrivate, Used
<1>2. /\ refreshes' \in [Token -> [here : BOOLEAN, next : Token \cup {Nothing}]]
      /\ \A x \in Token : \/ refreshes'[x] = refreshes[x]
                          \/ ~Used(x) /\ refreshes'[x] = Row(FALSE, Nothing)
  BY <1>1 DEF RotationContended, Row, CredentialInv, CredentialTypeOK
<1>. QED
  <2>1. renewals \ {r} \in SUBSET renewals
    OBVIOUS
  <2>2. Reads(r.slot, r.wire, r.jti, renewals \ {r})
    BY DEF RotationContended
  <2>. HIDE DEF Reads
  <2>. QED
    BY <1>1, <1>2, <2>1, <2>2, ReadsStep DEF RotationContended, runtime

(* A retried renewal is answered with the successor already made. *)
LEMMA ReplayTokenStep ==
  ASSUME CredentialInv, NEW r \in renewals, ReplayToken(r)
  PROVE  CredentialInv'
<1>. USE DEF CredentialInv, ReplayToken
<1>1. /\ r.jti \in Token /\ r.next \in Token /\ Used(r.next) /\ ReplayFaithful(r)
      /\ sent[r.jti] \cup {r.next} = {r.next}
  BY DEF CredentialTypeOK, RenewalsSound, ReplayFaithful, Used
<1>2. PICK n : n = r.next
  OBVIOUS
<1>3. /\ renewals' = renewals \ {r} /\ outages' \in 0..MaxOutages
      /\ memory' \in {memory, n}
      /\ wires' \in [Wire -> [open : BOOLEAN, jti : Token \cup {Nothing}]]
      /\ \A w \in Wire : wires'[w].jti \in {wires[w].jti, n} /\ wires'[w].open = wires[w].open
      /\ sent' \in [Token -> SUBSET Token] /\ sent'[r.jti] = {n}
      /\ \A x \in Token : x # r.jti => sent'[x] = sent[x]
  BY <1>1, <1>2, SendsStep
<1>4. CredentialTypeOK'
  BY <1>1, <1>2, <1>3 DEF CredentialTypeOK
<1>5. \A x \in Token : Used(x)' => Used(x)
  <2>1. \A x \in Token : Used(x)' => Used(x) \/ x = n \/ x = r.jti
    BY <1>3 DEF Used
  <2>. QED
    BY <1>1, <1>2, <2>1 DEF Used
<1>6. UsedRegistered'
  BY <1>5 DEF UsedRegistered
<1>7. \A q \in renewals' : q.at = "rotate" => RotationPrivate(q)'
  BY <1>3, <1>5 DEF RenewalsSound, RotationPrivate
<1>8. \A q \in renewals' : q.at = "replay" => ReplayFaithful(q)'
  BY <1>1, <1>2, <1>3 DEF CredentialTypeOK, RenewalsSound, ReplayFaithful
<1>9. RenewalsSound'
  BY <1>3, <1>7, <1>8 DEF RenewalsSound
<1>10. SuccessorsUnique'
  BY <1>1, <1>2, <1>3 DEF SuccessorsUnique, ReplayFaithful
<1>11. TicketsSound'
  BY <1>1, <1>2, <1>3 DEF TicketsSound
<1>. QED
  BY <1>4, <1>6, <1>9, <1>10, <1>11

(* The runtime keeps the successor it was answered with. *)
LEMMA KeepTokenStep ==
  ASSUME CredentialInv, KeepToken
  PROVE  CredentialInv'
<1>. USE DEF CredentialInv, KeepToken
<1>1. CredentialTypeOK'
  BY CredentialsAssumption DEF CredentialTypeOK
<1>2. UsedRegistered'
  BY CredentialsAssumption DEF CredentialTypeOK, UsedRegistered, Used
<1>3. RenewalsSound'
  BY CredentialsAssumption DEF CredentialTypeOK, RenewalsSound, RotationPrivate, ReplayFaithful, Used
<1>4. SuccessorsUnique'
  BY CredentialsAssumption DEF CredentialTypeOK, SuccessorsUnique
<1>5. TicketsSound'
  BY CredentialsAssumption DEF CredentialTypeOK, TicketsSound
<1>. QED
  BY <1>1, <1>2, <1>3, <1>4, <1>5

(* A token expires after those it succeeds. *)
LEMMA TokenExpiresStep ==
  ASSUME CredentialInv, NEW t \in Token, TokenExpires(t)
  PROVE  CredentialInv'
<1>. USE DEF CredentialInv, TokenExpires, runtime
<1>1. CredentialTypeOK'
  BY CredentialsAssumption DEF CredentialTypeOK
<1>2. UsedRegistered'
  BY CredentialsAssumption DEF CredentialTypeOK, UsedRegistered, Used
<1>3. RenewalsSound'
  BY CredentialsAssumption DEF CredentialTypeOK, RenewalsSound, RotationPrivate, ReplayFaithful, Used
<1>4. SuccessorsUnique'
  BY CredentialsAssumption DEF CredentialTypeOK, SuccessorsUnique
<1>5. TicketsSound'
  BY CredentialsAssumption DEF CredentialTypeOK, TicketsSound
<1>. QED
  BY <1>1, <1>2, <1>3, <1>4, <1>5

(* A ticket past its lifetime opens no socket. *)
LEMMA TicketExpiresStep ==
  ASSUME CredentialInv, NEW k \in Ticket, TicketExpires(k)
  PROVE  CredentialInv'
<1>. USE DEF CredentialInv, TicketExpires, runtime
<1>1. CredentialTypeOK'
  BY CredentialsAssumption DEF CredentialTypeOK
<1>2. UsedRegistered'
  BY CredentialsAssumption DEF CredentialTypeOK, UsedRegistered, Used
<1>3. RenewalsSound'
  BY CredentialsAssumption DEF CredentialTypeOK, RenewalsSound, RotationPrivate, ReplayFaithful, Used
<1>4. SuccessorsUnique'
  BY CredentialsAssumption DEF CredentialTypeOK, SuccessorsUnique
<1>5. TicketsSound'
  BY CredentialsAssumption DEF CredentialTypeOK, TicketsSound
<1>. QED
  BY <1>1, <1>2, <1>3, <1>4, <1>5

(* The clean-up removes what is past use. *)
LEMMA CleanUpTokensStep ==
  ASSUME CredentialInv, CleanUpTokens
  PROVE  CredentialInv'
<1>. USE DEF CredentialInv, CleanUpTokens, Row, runtime
<1>1. CredentialTypeOK'
  BY CredentialsAssumption DEF CredentialTypeOK
<1>2. UsedRegistered'
  BY CredentialsAssumption DEF CredentialTypeOK, UsedRegistered, Used
<1>3. RenewalsSound'
  BY CredentialsAssumption DEF CredentialTypeOK, RenewalsSound, RotationPrivate, ReplayFaithful, Used
<1>4. SuccessorsUnique'
  BY CredentialsAssumption DEF CredentialTypeOK, SuccessorsUnique
<1>5. TicketsSound'
  BY CredentialsAssumption DEF CredentialTypeOK, TicketsSound
<1>. QED
  BY <1>1, <1>2, <1>3, <1>4, <1>5

(* A crash of the coordinator drops renewals and, on AWS, sockets. *)
LEMMA CoordinatorCrashesStep ==
  ASSUME CredentialInv, CoordinatorCrashes
  PROVE  CredentialInv'
<1>. USE DEF CredentialInv, CoordinatorCrashes, runtime
<1>1. /\ wires' \in [Wire -> [open : BOOLEAN, jti : Token \cup {Nothing}]]
      /\ \A w \in Wire : wires'[w].jti = wires[w].jti /\ (wires'[w].open => wires[w].open)
  BY DEF CredentialTypeOK
<1>2. CredentialTypeOK'
  BY <1>1, OutageTyped DEF CredentialTypeOK
<1>3. \A x \in Token : Used(x)' => Used(x)
  BY <1>1 DEF Used
<1>4. UsedRegistered' /\ RenewalsSound' /\ SuccessorsUnique'
  BY <1>3 DEF UsedRegistered, RenewalsSound, SuccessorsUnique
<1>5. TicketsSound'
  BY <1>1 DEF TicketsSound
<1>. QED
  BY <1>2, <1>4, <1>5

(* A restarted runtime reads its token from its file. *)
LEMMA RuntimeRestartsStep ==
  ASSUME CredentialInv, RuntimeRestarts
  PROVE  CredentialInv'
<1>. USE DEF CredentialInv, RuntimeRestarts
<1>1. /\ wires' \in [Wire -> [open : BOOLEAN, jti : Token \cup {Nothing}]]
      /\ \A w \in Wire : wires'[w].jti = wires[w].jti /\ ~wires'[w].open
  BY DEF CredentialTypeOK
<1>2. CredentialTypeOK'
  BY <1>1, OutageTyped DEF CredentialTypeOK
<1>3. \A x \in Token : Used(x)' => Used(x)
  BY <1>1 DEF Used
<1>4. UsedRegistered' /\ RenewalsSound' /\ SuccessorsUnique'
  BY <1>3 DEF UsedRegistered, RenewalsSound, RotationPrivate, ReplayFaithful, SuccessorsUnique
<1>5. TicketsSound'
  BY <1>1 DEF TicketsSound
<1>. QED
  BY <1>2, <1>4, <1>5

(* The removal closes the sockets; on AWS it forgets every token and ticket. *)
LEMMA PrepareForRemovalStep ==
  ASSUME CredentialInv, PrepareForRemoval
  PROVE  CredentialInv'
<1>1. /\ wires' \in [Wire -> [open : BOOLEAN, jti : Token \cup {Nothing}]]
      /\ \A w \in Wire : wires'[w].jti = wires[w].jti /\ ~wires'[w].open
  <2>. DEFINE R == [open : BOOLEAN, jti : Token \cup {Nothing}]
              f(w) == [wires[w] EXCEPT !.open = FALSE]
  <2>1. wires' = [w \in Wire |-> f(w)]
    BY DEF PrepareForRemoval
  <2>2. \A w \in Wire : f(w) \in R /\ f(w).jti = wires[w].jti /\ f(w).open = FALSE
    BY WireCloses DEF CredentialInv
  <2>. HIDE DEF R, f
  <2>3. wires' \in [Wire -> R] /\ \A w \in Wire : wires'[w] = f(w)
    BY <2>1, <2>2
  <2>4. \A w \in Wire : wires'[w].jti = wires[w].jti /\ wires'[w].open = FALSE
    BY <2>2, <2>3
  <2>. QED
    BY <2>3, <2>4 DEF R
<1>2. \/ UNCHANGED <<access, refreshes, tickets>>
      \/ /\ access' = "revoked" /\ refreshes' = [t \in Token |-> Row(FALSE, Nothing)]
         /\ tickets' = [k \in Ticket |-> [tickets[k] EXCEPT !.status = "deleted"]]
  BY DEF PrepareForRemoval
<1>3. UNCHANGED <<hosting, expired, renewals, memory, file, outages, sent, opened>>
  BY DEF PrepareForRemoval, runtime
<1>4. /\ tickets' \in [Ticket -> [status : {"absent", "open", "consumed", "deleted"},
                                  jti : Token \cup {Nothing}, late : BOOLEAN]]
      /\ \A k \in Ticket : tickets'[k].jti = tickets[k].jti
      /\ \A k \in Ticket : tickets'[k].status \in {tickets[k].status, "deleted"}
  <2>1. CASE UNCHANGED tickets
    BY <2>1 DEF CredentialInv, CredentialTypeOK
  <2>2. CASE tickets' = [k \in Ticket |-> [tickets[k] EXCEPT !.status = "deleted"]]
    <3>. DEFINE T == [status : {"absent", "open", "consumed", "deleted"},
                      jti : Token \cup {Nothing}, late : BOOLEAN]
                f(k) == [tickets[k] EXCEPT !.status = "deleted"]
    <3>1. \A k \in Ticket : tickets[k] \in T
      BY DEF CredentialInv, CredentialTypeOK
    <3>2. \A k \in Ticket : f(k) \in T /\ f(k).jti = tickets[k].jti /\ f(k).status = "deleted"
      BY <3>1
    <3>. HIDE DEF T, f
    <3>3. tickets' = [k \in Ticket |-> f(k)]
      BY <2>2 DEF f
    <3>4. tickets' \in [Ticket -> T] /\ \A k \in Ticket : tickets'[k] = f(k)
      BY <3>2, <3>3
    <3>5. \A k \in Ticket : tickets'[k].jti = tickets[k].jti /\ tickets'[k].status = "deleted"
      BY <3>2, <3>4
    <3>. QED
      BY <3>4, <3>5 DEF T
  <2>. QED
    BY <1>2, <2>1, <2>2
<1>5. /\ refreshes' \in [Token -> [here : BOOLEAN, next : Token \cup {Nothing}]]
      /\ \A t \in Token : refreshes'[t] \in {refreshes[t], Row(FALSE, Nothing)}
  <2>1. CASE UNCHANGED refreshes
    BY <2>1 DEF CredentialInv, CredentialTypeOK
  <2>2. CASE refreshes' = [t \in Token |-> Row(FALSE, Nothing)]
    <3>1. Row(FALSE, Nothing) \in [here : BOOLEAN, next : Token \cup {Nothing}]
      BY DEF Row
    <3>. QED
      BY <2>2, <3>1
  <2>. QED
    BY <1>2, <2>1, <2>2
<1>6. CredentialTypeOK'
  BY <1>1, <1>2, <1>3, <1>4, <1>5 DEF CredentialInv, CredentialTypeOK
<1>7. \A t \in Token : /\ ~refreshes'[t].here \/ refreshes'[t] = refreshes[t]
                       /\ refreshes'[t].next \in {refreshes[t].next, Nothing}
  BY <1>5 DEF Row
<1>8. \A t \in Token : Used(t)' => Used(t)
  BY <1>1, <1>3, <1>4, <1>7, CredentialsAssumption DEF Used
<1>9. UsedRegistered'
  BY <1>2, <1>3, <1>8 DEF CredentialInv, UsedRegistered
<1>10. RenewalsSound'
  BY <1>3, <1>7, <1>8 DEF CredentialInv, CredentialTypeOK, RenewalsSound, RotationPrivate, ReplayFaithful
<1>11. SuccessorsUnique'
  BY <1>3, <1>5 DEF CredentialInv, SuccessorsUnique, Row
<1>12. TicketsSound'
  BY <1>1, <1>3, <1>4 DEF CredentialInv, TicketsSound
<1>. QED
  BY <1>6, <1>9, <1>10, <1>11, <1>12 DEF CredentialInv

(* After the removal nothing reads, renews or opens: no ticket is issued or *)
(* consumed, and no socket is open to ask for a renewal.                    *)
LEMMA SilentSteps ==
  CredentialInv /\ RevokedSilent /\ [CredentialNext]_credentialVars => RevokedSilent'
<1>. SUFFICES ASSUME CredentialInv, RevokedSilent, [CredentialNext]_credentialVars, access' = "revoked"
              PROVE  renewals' = {} /\ \A w \in Wire : ~wires'[w].open
  BY DEF RevokedSilent
<1>1. CASE PrepareForRemoval
  <2>1. renewals' = {}
    BY <1>1 DEF PrepareForRemoval, RevokedSilent, CredentialInv, CredentialTypeOK
  <2>2. \A w \in Wire : ~wires'[w].open
    BY <1>1, WireCloses DEF PrepareForRemoval, CredentialInv
  <2>. QED
    BY <2>1, <2>2
<1>2. CASE ~PrepareForRemoval
  <2>1. access = "revoked" /\ renewals = {} /\ \A w \in Wire : ~wires[w].open
    BY <1>2 DEF RevokedSilent, CredentialNext, DeliverBootstrapToken, IssueTicket, Connect,
       RequestRefresh, SignToken, RotateToken, RotationContended, ReplayToken, KeepToken,
       TokenExpires, TicketExpires, CleanUpTokens, CoordinatorCrashes, RuntimeRestarts, credentialVars
  <2>2. \/ UNCHANGED <<renewals, wires>>
        \/ renewals' = {} /\ UNCHANGED wires
        \/ CoordinatorCrashes \/ RuntimeRestarts
    BY <1>2, <2>1 DEF CredentialNext, DeliverBootstrapToken, IssueTicket, Connect, TicketOpen,
       RequestRefresh, TokenExpires, TicketExpires, KeepToken, CleanUpTokens, credentialVars
  <2>3. \A w \in Wire : ~[wires[w] EXCEPT !.open = FALSE].open
    BY WireCloses DEF CredentialInv
  <2>. QED
    BY <2>1, <2>2, <2>3 DEF CoordinatorCrashes, RuntimeRestarts
<1>. QED
  BY <1>1, <1>2

----------------------------------------------------------------------------
(* The invariant and the theorem. *)

(* The invariant holds before the runtime has its token. *)
LEMMA CredentialInitially == CredentialInit => CredentialInv /\ RevokedSilent
<1>. SUFFICES ASSUME CredentialInit PROVE CredentialInv /\ RevokedSilent
  OBVIOUS
<1>. USE DEF CredentialInit, Row, Closed
<1>1. CredentialTypeOK
  BY CredentialsAssumption DEF CredentialTypeOK
<1>2. \A t \in Token : ~Used(t)
  BY CredentialsAssumption DEF Used
<1>3. UsedRegistered /\ RenewalsSound /\ SuccessorsUnique /\ TicketsSound
  BY <1>2 DEF UsedRegistered, RenewalsSound, SuccessorsUnique, TicketsSound
<1>. QED
  BY <1>1, <1>3 DEF CredentialInv, RevokedSilent

(* Every step of the credentials keeps the invariant. *)
LEMMA CredentialSteps ==
  CredentialInv /\ RevokedSilent /\ [CredentialNext]_credentialVars => CredentialInv'
<1>. SUFFICES ASSUME CredentialInv, RevokedSilent, [CredentialNext]_credentialVars
              PROVE  CredentialInv'
  OBVIOUS
<1>1. CASE UNCHANGED credentialVars
  BY <1>1 DEF credentialVars, runtime, CredentialInv, CredentialTypeOK, UsedRegistered, Used,
     RenewalsSound, RotationPrivate, ReplayFaithful, SuccessorsUnique, TicketsSound
<1>2. CASE \E t \in Token : DeliverBootstrapToken(t) \/ TokenExpires(t) \/ \E r \in renewals : SignToken(r, t)
  BY <1>2, DeliverBootstrapTokenStep, TokenExpiresStep, SignTokenStep
<1>3. CASE \E k \in Ticket : IssueTicket(k) \/ TicketExpires(k) \/ \E w \in Wire : Connect(k, w)
  BY <1>3, IssueTicketStep, TicketExpiresStep, ConnectStep
<1>4. CASE \E w \in Wire : RequestRefresh(w)
  BY <1>4, RequestRefreshStep
<1>5. CASE \E r \in renewals : RotateToken(r) \/ RotationContended(r) \/ ReplayToken(r)
  BY <1>5, RotateTokenStep, RotationContendedStep, ReplayTokenStep
<1>6. CASE \/ KeepToken \/ CleanUpTokens \/ CoordinatorCrashes \/ RuntimeRestarts
            \/ PrepareForRemoval
  BY <1>6, KeepTokenStep, CleanUpTokensStep, CoordinatorCrashesStep, RuntimeRestartsStep,
     PrepareForRemovalStep
<1>. QED
  BY <1>1, <1>2, <1>3, <1>4, <1>5, <1>6 DEF CredentialNext

(* What the invariant says of the property. *)
LEMMA CredentialInvHolds == CredentialInv /\ RevokedSilent => CredentialsHold
<1>. SUFFICES ASSUME CredentialInv, RevokedSilent PROVE CredentialsHold
  OBVIOUS
<1>1. \A t \in Token : Cardinality(sent[t]) <= 1
  <2>. SUFFICES ASSUME NEW t \in Token PROVE Cardinality(sent[t]) <= 1
    OBVIOUS
  <2>1. CASE sent[t] = {}
    BY <2>1, FS_EmptySet
  <2>2. CASE sent[t] # {}
    <3>1. PICK n : n \in sent[t]
      BY <2>2
    <3>2. sent[t] = {n}
      BY <3>1 DEF CredentialInv, SuccessorsUnique
    <3>. QED
      BY <3>2, FS_Singleton, Z3
  <2>. QED
    BY <2>1, <2>2
<1>2. access = "granted" => \A t \in Token : \A n \in sent[t] \ expired : refreshes[n].here
  BY DEF CredentialInv, CredentialTypeOK, UsedRegistered, Used
<1>3. access = "granted" => \A t \in {memory, file} \ (expired \cup {Nothing}) : refreshes[t].here
  BY DEF CredentialInv, CredentialTypeOK, UsedRegistered, Used
<1>. QED
  BY <1>1, <1>2, <1>3 DEF CredentialsHold, CredentialInv, TicketsSound, RevokedSilent

(* A runtime never loses its place in the chain of tokens, and a ticket     *)
(* opens one socket, whatever renewals overlap, die or are answered twice; *)
(* after the removal on AWS no socket opens and no renewal begins          *)
(* (#refreshRuntime, consumeRuntimeTicket, prepareForRemoval).             *)
THEOREM CredentialsKept == CredentialSpec => []CredentialsHold
BY CredentialInitially, CredentialSteps, SilentSteps, CredentialInvHolds, PTL DEF CredentialSpec

----------------------------------------------------------------------------
(* The sockets of a claw: what RuntimeSockets promises, for any number of   *)
(* sockets and runtimes, and any length of the queue and of the buffers.    *)

SocketRecord ==
  [link : {"away", "upgrading", "open", "closing", "closed"},
   runtime : Runtime \cup {CHOOSE r \in Runtime : TRUE}, known : BOOLEAN, arrived : Nat,
   buffer : Seq(Nat), served : Seq(Nat), overflowed : BOOLEAN, gone : BOOLEAN,
   dropped : Nat \cup {Never}]

SocketOp == {"attach", "detach", "frame"}
QueueEntry ==
  [op : {"frame"}, socket : Socket, frame : Nat]
    \cup [op : {"attach", "detach"}, socket : Socket, frame : {0}]
    \cup [op : {"remove", "restart"}, socket : {"all"}, frame : {0}]

SocketTypeOK ==
  /\ sock \in [Socket -> SocketRecord] /\ attached \subseteq Socket
  /\ tail \in Seq(QueueEntry)
  /\ run \in [at : {"start", "release", "flush"}, previous : SUBSET Socket, rest : Seq(Nat)]
  /\ removed \in BOOLEAN /\ calls \in [{"remove", "restart"} -> {"idle", "called", "done"}]

(* An operation that began is an attachment, and its socket is attached;   *)
(* frames are flushed in its last stage alone.                              *)
RunSound ==
  /\ run.at # "start" => tail # <<>> /\ Head(tail).op = "attach" /\ Head(tail).socket \in attached
  /\ run.at # "flush" => run.rest = <<>>

(* A socket is attached once.                                               *)
AttachesOnce ==
  \A i, j \in DOMAIN tail :
    tail[i].op = "attach" /\ tail[j].op = "attach" /\ tail[i].socket = tail[j].socket => i = j

(* An entry of the socket waits or runs; its attachment did not begin.      *)
Named(queue, ops, s) == \E i \in DOMAIN queue : queue[i].op \in ops /\ queue[i].socket = s
AttachWaits(s) ==
  \E i \in DOMAIN tail : /\ tail[i].op = "attach" /\ tail[i].socket = s
                         /\ i # 1 \/ run.at = "start"

(* Before its handshake nothing of a socket is queued or attached.          *)
Unopened(s) ==
  sock[s].link \in {"away", "upgrading"} =>
    /\ ~sock[s].gone /\ sock[s].dropped = Never /\ sock[s].arrived = 0
    /\ sock[s].buffer = <<>> /\ s \notin attached /\ ~Named(tail, SocketOp, s)

(* A socket whose attachment waits is not attached, nor was it; one that    *)
(* closed while it waited is known to be gone.                              *)
Waits(s) ==
  AttachWaits(s) =>
    /\ s \notin attached /\ sock[s].dropped = Never
    /\ sock[s].link = "closed" => sock[s].gone

(* Before it is attached, a socket is served nothing, and no frame of it is *)
(* queued: they are buffered.                                               *)
Unattached(s) ==
  s \notin attached /\ sock[s].dropped = Never =>
    sock[s].served = <<>> /\ ~Named(tail, {"frame"}, s)

(* An attached socket was not dropped, it is its runtime's only one, and    *)
(* once it has closed its detach is queued.                                 *)
Attached(s) ==
  s \in attached =>
    /\ sock[s].dropped = Never
    /\ sock[s].link = "closed" => sock[s].gone
    /\ sock[s].gone => Named(tail, {"detach"}, s)
    /\ \A x \in attached \ {s} : sock[x].runtime # sock[s].runtime

Silent(s) == sock[s].dropped = Never \/ Len(sock[s].served) = sock[s].dropped

(* While a socket is open and was not dropped, the frames it was served,    *)
(* those being flushed, those buffered and those queued are all that        *)
(* arrived, in order; nothing is buffered after the attachment.             *)
Flushing(s) ==
  IF tail # <<>> /\ Head(tail).op = "attach" /\ Head(tail).socket = s THEN run.rest ELSE <<>>
From(frames, n) == \A i \in DOMAIN frames : frames[i] = n + i
Kept(s) ==
  sock[s].link = "open" /\ sock[s].dropped = Never =>
    LET served == Len(sock[s].served)
        flushed == served + Len(Flushing(s))
        held == flushed + Len(sock[s].buffer)
    IN /\ From(sock[s].served, 0) /\ From(Flushing(s), served) /\ From(sock[s].buffer, flushed)
       /\ held <= sock[s].arrived /\ FramesWait(tail, s, held + 1, sock[s].arrived)
       /\ s \in attached /\ sock[s].buffer # <<>> => run.at = "release" /\ Head(tail).socket = s

SocketSound(s) ==
  Unopened(s) /\ Waits(s) /\ Unattached(s) /\ Attached(s) /\ Silent(s) /\ Kept(s)

SocketInv ==
  /\ SocketTypeOK /\ RunSound /\ AttachesOnce /\ \A s \in Socket : SocketSound(s)
  /\ calls["remove"] = "done" => removed /\ attached = {}

(* What a step asks of the queue, that SocketSound(s) survives it.          *)
QueueKept(s) ==
  /\ AttachWaits(s)' => AttachWaits(s)
  /\ Named(tail, {"frame"}, s)' => Named(tail, {"frame"}, s)
  /\ Named(tail, SocketOp, s)' => Named(tail, SocketOp, s)
  /\ s \in attached' /\ Named(tail, {"detach"}, s) => Named(tail, {"detach"}, s)'
  /\ Flushing(s)' = Flushing(s)
  /\ \A n, m \in Int : FramesWait(tail, s, n, m) => FramesWait(tail, s, n, m)'

(* Its socket is as it was, or the server began to close it.                *)
SocketKept(s) ==
  LET old == sock[s]
      new == sock'[s]
  IN /\ new.gone = old.gone /\ new.dropped = old.dropped /\ new.served = old.served
     /\ \/ /\ new.link = old.link /\ new.buffer = old.buffer /\ new.arrived = old.arrived
           /\ new.link = "open" /\ run.at = "release" /\ Head(tail).socket = s
                => run'.at = "release" /\ Head(tail)'.socket = s
        \/ /\ new.link \notin {"away", "upgrading", "open"}
           /\ new.link = "closed" => old.link = "closed"

(* No socket was attached, and those that stay keep their runtimes.         *)
RuntimesKept ==
  /\ attached' \subseteq attached
  /\ \A x \in attached' : sock'[x].runtime = sock[x].runtime

(* A socket neither event nor operation is about stays sound.               *)
LEMMA SoundKept ==
  ASSUME NEW s \in Socket, SocketTypeOK, SocketSound(s), QueueKept(s), SocketKept(s), RuntimesKept,
         s \in attached => s \in attached'
  PROVE  SocketSound(s)'
<1>0. s \in attached' <=> s \in attached
  BY DEF RuntimesKept
<1>1. Unopened(s)'
  BY <1>0 DEF SocketSound, Unopened, QueueKept, SocketKept
<1>2. Waits(s)'
  BY <1>0 DEF SocketSound, Waits, QueueKept, SocketKept
<1>3. Unattached(s)'
  BY <1>0 DEF SocketSound, Unattached, QueueKept, SocketKept
<1>4. Attached(s)'
  <2>1. s \in attached' => /\ sock'[s].dropped = Never
                           /\ sock'[s].link = "closed" => sock'[s].gone
                           /\ sock'[s].gone => Named(tail, {"detach"}, s)'
    BY <1>0 DEF SocketSound, Attached, QueueKept, SocketKept
  <2>2. s \in attached' => \A x \in attached' \ {s} : sock'[x].runtime # sock'[s].runtime
    BY <1>0 DEF SocketSound, Attached, RuntimesKept
  <2> QED
    BY <2>1, <2>2 DEF Attached
<1>5. Silent(s)'
  BY DEF SocketSound, Silent, SocketKept
<1>6. Kept(s)'
  <2> SUFFICES ASSUME sock'[s].link = "open", sock'[s].dropped = Never
               PROVE  Kept(s)'
    BY DEF Kept
  <2>1. /\ sock[s].link = "open" /\ sock[s].dropped = Never /\ sock'[s].served = sock[s].served
        /\ sock'[s].buffer = sock[s].buffer /\ sock'[s].arrived = sock[s].arrived
        /\ run.at = "release" /\ Head(tail).socket = s
             => run'.at = "release" /\ Head(tail)'.socket = s
    BY DEF SocketKept
  <2> DEFINE n == Len(sock[s].served) + Len(Flushing(s)) + Len(sock[s].buffer) + 1
             m == sock[s].arrived
  <2>2. n \in Int /\ m \in Int
    BY DEF SocketTypeOK, SocketRecord, Flushing
  <2>3. FramesWait(tail, s, n, m)
    BY <2>1 DEF SocketSound, Kept
  <2>4. FramesWait(tail, s, n, m)'
    <3> HIDE DEF n, m
    <3>1. FramesWait(tail', s, n, m)
      BY <2>2, <2>3 DEF QueueKept
    <3>2. n' = n /\ m' = m
      BY <2>1 DEF QueueKept, n, m
    <3> QED
      BY <3>1, <3>2
  <2>5. Kept(s)
    BY DEF SocketSound
  <2>6. Flushing(s)' = Flushing(s)
    BY DEF QueueKept
  <2> HIDE DEF Flushing, FramesWait
  <2> QED
    BY <1>0, <2>1, <2>4, <2>5, <2>6 DEF Kept, n, m, From
<1> QED
  BY <1>1, <1>2, <1>3, <1>4, <1>5, <1>6 DEF SocketSound

(* What is left of a queue when its first entry has run.                    *)
LEMMA QueueTail ==
  ASSUME NEW q \in Seq(QueueEntry), q # <<>>
  PROVE  /\ Tail(q) \in Seq(QueueEntry) /\ Head(q) \in QueueEntry /\ Head(q) = q[1] /\ 1 \in DOMAIN q
         /\ \A i \in DOMAIN Tail(q) : i \in Nat /\ i + 1 \in DOMAIN q /\ Tail(q)[i] = q[i + 1] /\ i + 1 # 1
         /\ \A i \in DOMAIN q : i \in Nat /\ (i # 1 => i - 1 \in DOMAIN Tail(q) /\ Tail(q)[i - 1] = q[i])
OBVIOUS

(* A queue that grew: its entries stay where they are.                      *)
Grows(q, p) ==
  /\ p \in Seq(QueueEntry) /\ Len(q) <= Len(p) /\ \A i \in DOMAIN q : i \in DOMAIN p /\ p[i] = q[i]

LEMMA QueueAppend ==
  ASSUME NEW q \in Seq(QueueEntry), NEW e \in QueueEntry
  PROVE  /\ Grows(q, Append(q, e)) /\ Append(q, e)[Len(q) + 1] = e
         /\ DOMAIN Append(q, e) = DOMAIN q \cup {Len(q) + 1} /\ Len(q) + 1 \notin DOMAIN q
BY DEF Grows

(* Frames that wait behind the entry that ran.                              *)
LEMMA FramesTail ==
  ASSUME NEW q \in Seq(QueueEntry), q # <<>>, NEW s, NEW n \in Int, NEW m \in Int,
         FramesWait(q, s, n, m), ~(Head(q).op = "frame" /\ Head(q).socket = s)
  PROVE  FramesWait(Tail(q), s, n, m)
<1> DEFINE mine(p) == {i \in DOMAIN p : p[i].op = "frame" /\ p[i].socket = s}
<1>1. /\ {q[i].frame : i \in mine(q)} = n .. m
      /\ \A i, j \in mine(q) : i < j => q[i].frame < q[j].frame
  BY DEF FramesWait
<1>2. \A i \in mine(Tail(q)) : i \in Nat /\ i + 1 \in mine(q) /\ Tail(q)[i].frame = q[i + 1].frame
  BY QueueTail
<1>3. \A i \in mine(q) : i \in Nat /\ i - 1 \in mine(Tail(q)) /\ Tail(q)[i - 1].frame = q[i].frame
  BY QueueTail
<1> HIDE DEF mine
<1>4. {Tail(q)[i].frame : i \in mine(Tail(q))} = {q[i].frame : i \in mine(q)}
  <2>1. ASSUME NEW i \in mine(Tail(q))
        PROVE  \E j \in mine(q) : Tail(q)[i].frame = q[j].frame
    BY <1>2
  <2>2. ASSUME NEW j \in mine(q)
        PROVE  \E i \in mine(Tail(q)) : Tail(q)[i].frame = q[j].frame
    BY <1>3
  <2>3. {Tail(q)[i].frame : i \in mine(Tail(q))} \subseteq {q[i].frame : i \in mine(q)}
    BY <2>1, Zenon
  <2>4. {q[i].frame : i \in mine(q)} \subseteq {Tail(q)[i].frame : i \in mine(Tail(q))}
    BY <2>2, Zenon
  <2> QED
    BY <2>3, <2>4
<1>5. \A i, j \in mine(Tail(q)) : i < j => Tail(q)[i].frame < Tail(q)[j].frame
  <2> SUFFICES ASSUME NEW i \in mine(Tail(q)), NEW j \in mine(Tail(q)), i < j
               PROVE  Tail(q)[i].frame < Tail(q)[j].frame
    OBVIOUS
  <2>1. i + 1 < j + 1 /\ i + 1 \in mine(q) /\ j + 1 \in mine(q)
    BY <1>2
  <2>2. q[i + 1].frame < q[j + 1].frame
    BY <1>1, <2>1
  <2> QED
    BY <1>2, <2>2
<1> QED
  BY <1>1, <1>4, <1>5 DEF FramesWait, mine

(* The frame that ran was the first of those that waited.                   *)
LEMMA FrameTaken ==
  ASSUME NEW q \in Seq(QueueEntry), q # <<>>, NEW s, NEW n \in Int, NEW m \in Int,
         FramesWait(q, s, n, m), Head(q).op = "frame", Head(q).socket = s
  PROVE  Head(q).frame = n /\ n <= m /\ FramesWait(Tail(q), s, n + 1, m)
<1> DEFINE mine(p) == {i \in DOMAIN p : p[i].op = "frame" /\ p[i].socket = s}
<1>1. /\ {q[i].frame : i \in mine(q)} = n .. m
      /\ \A i, j \in mine(q) : i < j => q[i].frame < q[j].frame
  BY DEF FramesWait
<1>2. \A i \in mine(Tail(q)) : i \in Nat /\ i + 1 \in mine(q) /\ Tail(q)[i].frame = q[i + 1].frame /\ i + 1 # 1
  BY QueueTail
<1>3. \A i \in mine(q) : i \in Nat /\ 1 <= i /\ (i # 1 => i - 1 \in mine(Tail(q)) /\ Tail(q)[i - 1].frame = q[i].frame)
  BY QueueTail
<1>4. 1 \in mine(q) /\ q[1] = Head(q)
  BY QueueTail
<1> HIDE DEF mine
<1>5. \A i \in mine(q) : q[i].frame \in n .. m /\ (i # 1 => q[1].frame < q[i].frame)
  BY <1>1, <1>3, <1>4
<1>6. \A f \in n .. m : \E i \in mine(q) : q[i].frame = f
  BY <1>1
<1>7. q[1].frame = n /\ n <= m
  <2>1. q[1].frame \in n .. m
    BY <1>4, <1>5
  <2>2. PICK i \in mine(q) : q[i].frame = n
    BY <1>6, <2>1
  <2> QED
    BY <2>1, <2>2, <1>5
<1>8. {Tail(q)[i].frame : i \in mine(Tail(q))} = n + 1 .. m
  <2>1. \A i \in mine(Tail(q)) : Tail(q)[i].frame \in n + 1 .. m
    <3> TAKE i \in mine(Tail(q))
    <3>1. i + 1 \in mine(q) /\ i + 1 # 1 /\ Tail(q)[i].frame = q[i + 1].frame
      BY <1>2
    <3>2. q[i + 1].frame \in n .. m /\ n < q[i + 1].frame
      BY <1>5, <1>7, <3>1
    <3>3. q[i + 1].frame \in n + 1 .. m
      BY <3>2
    <3> QED
      BY <3>1, <3>3
  <2>2. ASSUME NEW f \in n + 1 .. m
        PROVE  \E i \in mine(Tail(q)) : Tail(q)[i].frame = f
    <3>1. PICK i \in mine(q) : q[i].frame = f
      BY <1>6
    <3>3. i # 1
      <4> SUFFICES ASSUME i = 1 PROVE FALSE
        OBVIOUS
      <4>1. f = n
        BY <3>1, <1>7
      <4> QED
        BY <4>1
    <3>2. i - 1 \in mine(Tail(q)) /\ Tail(q)[i - 1].frame = q[i].frame
      BY <3>1, <3>3, <1>3
    <3> QED
      BY <3>1, <3>2
  <2> QED
    BY <2>1, <2>2
<1>9. \A i, j \in mine(Tail(q)) : i < j => Tail(q)[i].frame < Tail(q)[j].frame
  <2> SUFFICES ASSUME NEW i \in mine(Tail(q)), NEW j \in mine(Tail(q)), i < j
               PROVE  Tail(q)[i].frame < Tail(q)[j].frame
    OBVIOUS
  <2>1. i + 1 < j + 1 /\ i + 1 \in mine(q) /\ j + 1 \in mine(q)
    BY <1>2
  <2>2. q[i + 1].frame < q[j + 1].frame
    BY <1>1, <2>1
  <2> QED
    BY <1>2, <2>2
<1> QED
  BY <1>4, <1>7, <1>8, <1>9 DEF FramesWait, mine

(* No entry that came is a frame of the socket.                             *)
LEMMA FramesGrow ==
  ASSUME NEW q \in Seq(QueueEntry), NEW p, Grows(q, p), NEW s, NEW n \in Int, NEW m \in Int,
         \A i \in DOMAIN p \ DOMAIN q : ~(p[i].op = "frame" /\ p[i].socket = s),
         FramesWait(q, s, n, m)
  PROVE  FramesWait(p, s, n, m)
<1> DEFINE mine(o) == {i \in DOMAIN o : o[i].op = "frame" /\ o[i].socket = s}
<1>1. mine(p) = mine(q) /\ \A i \in mine(q) : p[i] = q[i]
  BY DEF Grows
<1>2. /\ {q[i].frame : i \in mine(q)} = n .. m
      /\ \A i, j \in mine(q) : i < j => q[i].frame < q[j].frame
  BY DEF FramesWait
<1> HIDE DEF mine
<1>3. {p[i].frame : i \in mine(p)} = {q[i].frame : i \in mine(q)}
  BY <1>1
<1>4. \A i, j \in mine(p) : i < j => p[i].frame < p[j].frame
  BY <1>1, <1>2
<1> QED
  BY <1>2, <1>3, <1>4 DEF FramesWait, mine

(* The frame that came is the last of those that wait.                      *)
LEMMA FrameCame ==
  ASSUME NEW q \in Seq(QueueEntry), NEW s \in Socket, NEW n \in Int, NEW m \in Nat, n <= m + 1,
         FramesWait(q, s, n, m)
  PROVE  FramesWait(Append(q, Entry("frame", s, m + 1)), s, n, m + 1)
<1> DEFINE mine(o) == {i \in DOMAIN o : o[i].op = "frame" /\ o[i].socket = s}
           e == Entry("frame", s, m + 1)
           p == Append(q, e)
           k == Len(q) + 1
<1>0. e \in QueueEntry /\ e.op = "frame" /\ e.socket = s /\ e.frame = m + 1
  BY DEF Entry, QueueEntry, SocketOp
<1> HIDE DEF e
<1>1. mine(p) = mine(q) \cup {k} /\ (\A i \in mine(q) : i \in Nat /\ i < k /\ p[i] = q[i]) /\ p[k] = e
  BY <1>0, QueueAppend DEF Grows
<1>2. /\ {q[i].frame : i \in mine(q)} = n .. m
      /\ \A i, j \in mine(q) : i < j => q[i].frame < q[j].frame
  BY DEF FramesWait
<1> HIDE DEF mine, p, k
<1>3. {p[i].frame : i \in mine(p)} = n .. m + 1
  <2>1. {p[i].frame : i \in mine(p)} = {q[i].frame : i \in mine(q)} \cup {m + 1}
    BY <1>0, <1>1
  <2> QED
    BY <2>1, <1>2
<1>4. \A i \in mine(q) : q[i].frame \in n .. m
  BY <1>2
<1>5. \A i, j \in mine(p) : i < j => p[i].frame < p[j].frame
  <2> SUFFICES ASSUME NEW i \in mine(p), NEW j \in mine(p), i < j
               PROVE  p[i].frame < p[j].frame
    OBVIOUS
  <2>1. CASE j = k
    <3>1. i \in mine(q) /\ p[i] = q[i] /\ k \in Nat
      BY <2>1, <1>1 DEF k
    <3>2. q[i].frame \in n .. m /\ p[j].frame = m + 1
      BY <2>1, <3>1, <1>0, <1>1, <1>4
    <3> QED
      BY <3>1, <3>2
  <2>2. CASE j # k
    <3>1. j \in mine(q) /\ j < k /\ j \in Nat
      BY <2>2, <1>1
    <3>2. i \in mine(q)
      BY <3>1, <1>1
    <3> QED
      BY <3>1, <3>2, <1>1, <1>2
  <2> QED
    BY <2>1, <2>2
<1>6. FramesWait(p, s, n, m + 1)
  BY <1>3, <1>5 DEF FramesWait, mine
<1> QED
  BY <1>6 DEF p, e

(* The operation that ended served a frame of the socket, or its detach did *)
(* not detach it.                                                           *)
Takes(s) ==
  Of = s /\ (Head(tail).op = "frame" \/ (Head(tail).op = "detach" /\ s \in attached'))

(* An operation ended: the others wait as they did.                         *)
LEMMA EndsQueue ==
  ASSUME SocketTypeOK, RunSound, AttachesOnce, tail # <<>>, Ends
  PROVE  /\ tail' \in Seq(QueueEntry)
         /\ run' \in [at : {"start", "release", "flush"}, previous : SUBSET Socket, rest : Seq(Nat)]
         /\ RunSound' /\ AttachesOnce'
         /\ \A s \in Socket :
              /\ AttachWaits(s)' => AttachWaits(s)
              /\ \A ops : Named(tail', ops, s) => Named(tail, ops, s)
              /\ \A ops : ~(Head(tail).op \in ops /\ Of = s) => (Named(tail, ops, s) => Named(tail', ops, s))
              /\ Flushing(s)' = <<>>
              /\ (~Takes(s) /\ Flushing(s) = <<>>) => QueueKept(s)
<1>1. /\ tail \in Seq(QueueEntry) /\ tail' = Tail(tail) /\ run' = Starting /\ run'.at = "start"
      /\ run'.rest = <<>>
  BY DEF SocketTypeOK, Ends, Starting
<1>2. /\ Tail(tail) \in Seq(QueueEntry) /\ Head(tail) = tail[1]
      /\ \A i \in DOMAIN Tail(tail) : i \in Nat /\ i + 1 \in DOMAIN tail /\ Tail(tail)[i] = tail[i + 1] /\ i + 1 # 1
      /\ \A i \in DOMAIN tail : i \in Nat /\ (i # 1 => i - 1 \in DOMAIN Tail(tail) /\ Tail(tail)[i - 1] = tail[i])
  BY <1>1, QueueTail
<1>3. run' \in [at : {"start", "release", "flush"}, previous : SUBSET Socket, rest : Seq(Nat)]
  BY <1>1 DEF Starting
<1>4. RunSound'
  BY <1>1 DEF RunSound
<1>5. AttachesOnce'
  <2> SUFFICES ASSUME NEW i \in DOMAIN Tail(tail), NEW j \in DOMAIN Tail(tail), Tail(tail)[i].op = "attach",
                      Tail(tail)[j].op = "attach", Tail(tail)[i].socket = Tail(tail)[j].socket
               PROVE  i = j
    BY <1>1 DEF AttachesOnce
  <2>1. i + 1 \in DOMAIN tail /\ j + 1 \in DOMAIN tail /\ Tail(tail)[i] = tail[i + 1]
        /\ Tail(tail)[j] = tail[j + 1] /\ i \in Nat /\ j \in Nat
    BY <1>2
  <2>2. i + 1 = j + 1
    BY <2>1 DEF AttachesOnce
  <2> QED
    BY <2>1, <2>2
<1>6. ASSUME NEW s \in Socket
      PROVE  /\ AttachWaits(s)' => AttachWaits(s)
             /\ \A ops : Named(tail', ops, s) => Named(tail, ops, s)
             /\ \A ops : ~(Head(tail).op \in ops /\ Of = s) => (Named(tail, ops, s) => Named(tail', ops, s))
             /\ Flushing(s)' = <<>>
             /\ (~Takes(s) /\ Flushing(s) = <<>>) => QueueKept(s)
  <2>1. AttachWaits(s)' => AttachWaits(s)
    BY <1>1, <1>2 DEF AttachWaits
  <2>2. \A ops : Named(tail', ops, s) => Named(tail, ops, s)
    BY <1>1, <1>2 DEF Named
  <2>3. \A ops : ~(Head(tail).op \in ops /\ Of = s) => (Named(tail, ops, s) => Named(tail', ops, s))
    <3> TAKE ops
    <3> SUFFICES ASSUME ~(Head(tail).op \in ops /\ Of = s), Named(tail, ops, s)
                 PROVE  Named(tail', ops, s)
      OBVIOUS
    <3>1. PICK i \in DOMAIN tail : tail[i].op \in ops /\ tail[i].socket = s
      BY DEF Named
    <3>2. i # 1
      BY <3>1, <1>2 DEF Of
    <3> QED
      BY <3>1, <3>2, <1>1, <1>2 DEF Named
  <2>4. Flushing(s)' = <<>>
    BY <1>1 DEF Flushing
  <2>5. ASSUME ~Takes(s), Flushing(s) = <<>>
        PROVE  QueueKept(s)
    <3>1. \A n, m \in Int : FramesWait(tail, s, n, m) => FramesWait(tail, s, n, m)'
      <4> SUFFICES ASSUME NEW n \in Int, NEW m \in Int, FramesWait(tail, s, n, m)
                   PROVE  FramesWait(tail', s, n, m)
        BY DEF FramesWait
      <4>1. FramesWait(Tail(tail), s, n, m)
        BY <1>1, <2>5, FramesTail DEF Of, Takes
      <4> QED
        BY <4>1, <1>1
    <3>2. Named(tail', {"frame"}, s) => Named(tail, {"frame"}, s)
      BY <2>2
    <3>3. Named(tail', SocketOp, s) => Named(tail, SocketOp, s)
      BY <2>2
    <3>4. s \in attached' /\ Named(tail, {"detach"}, s) => Named(tail', {"detach"}, s)
      BY <2>3, <2>5 DEF Takes
    <3>5. Named(tail, {"frame"}, s)' <=> Named(tail', {"frame"}, s)
      BY DEF Named
    <3>6. Named(tail, SocketOp, s)' <=> Named(tail', SocketOp, s)
      BY DEF Named
    <3>7. Named(tail, {"detach"}, s)' <=> Named(tail', {"detach"}, s)
      BY DEF Named
    <3> QED
      BY <2>1, <2>4, <2>5, <3>1, <3>2, <3>3, <3>4, <3>5, <3>6, <3>7 DEF QueueKept
  <2> QED
    BY <2>1, <2>2, <2>3, <2>4, <2>5
<1> QED
  BY <1>1, <1>2, <1>3, <1>4, <1>5, <1>6

(* Entries came, and none runs or ends: what they are not about is as it was. *)
News(s) == \E i \in DOMAIN tail' \ DOMAIN tail : tail'[i].op \in SocketOp /\ tail'[i].socket = s

LEMMA GrowsQueue ==
  ASSUME SocketTypeOK, RunSound, AttachesOnce, Grows(tail, tail'), run' = run,
         attached \subseteq attached',
         \A i \in DOMAIN tail' \ DOMAIN tail :
           tail'[i].op # "attach" \/ (~Named(tail, SocketOp, tail'[i].socket) /\ DOMAIN tail' = DOMAIN tail \cup {i})
  PROVE  /\ tail' \in Seq(QueueEntry)
         /\ run' \in [at : {"start", "release", "flush"}, previous : SUBSET Socket, rest : Seq(Nat)]
         /\ RunSound' /\ AttachesOnce'
         /\ run.at # "start" => Head(tail') = Head(tail)
         /\ \A s \in Socket : /\ Flushing(s)' = Flushing(s)
                              /\ ~News(s) => QueueKept(s)
                              /\ \A ops : Named(tail, ops, s) => Named(tail', ops, s)
<1>1. /\ tail \in Seq(QueueEntry) /\ tail' \in Seq(QueueEntry) /\ Len(tail) <= Len(tail')
      /\ \A i \in DOMAIN tail : i \in DOMAIN tail' /\ tail'[i] = tail[i]
  BY DEF SocketTypeOK, Grows
<1>2. tail # <<>> => tail' # <<>> /\ Head(tail') = Head(tail)
  <2> SUFFICES ASSUME tail # <<>>
               PROVE  tail' # <<>> /\ Head(tail') = Head(tail)
    OBVIOUS
  <2>1. 1 \in DOMAIN tail /\ Head(tail) = tail[1]
    BY <1>1, QueueTail
  <2>2. tail' # <<>>
    BY <2>1, <1>1
  <2>3. Head(tail') = tail'[1]
    BY <2>2, <1>1, QueueTail
  <2> QED
    BY <2>1, <2>2, <2>3, <1>1
<1>3. run' \in [at : {"start", "release", "flush"}, previous : SUBSET Socket, rest : Seq(Nat)]
  BY DEF SocketTypeOK
<1>4. RunSound'
  BY <1>2 DEF RunSound
<1>5. AttachesOnce'
  <2> SUFFICES ASSUME NEW i \in DOMAIN tail', NEW j \in DOMAIN tail', tail'[i].op = "attach",
                      tail'[j].op = "attach", tail'[i].socket = tail'[j].socket
               PROVE  i = j
    BY DEF AttachesOnce
  <2>1. CASE i \in DOMAIN tail /\ j \in DOMAIN tail
    BY <2>1, <1>1 DEF AttachesOnce
  <2>2. CASE i \notin DOMAIN tail
    <3>1. ~Named(tail, SocketOp, tail'[i].socket) /\ DOMAIN tail' = DOMAIN tail \cup {i}
      BY <2>2
    <3>2. j \in DOMAIN tail => tail[j].op = "attach" /\ tail[j].socket = tail'[i].socket
      BY <1>1
    <3> QED
      BY <2>2, <3>1, <3>2 DEF Named, SocketOp
  <2>3. CASE j \notin DOMAIN tail
    <3>1. ~Named(tail, SocketOp, tail'[j].socket) /\ DOMAIN tail' = DOMAIN tail \cup {j}
      BY <2>3
    <3>2. i \in DOMAIN tail => tail[i].op = "attach" /\ tail[i].socket = tail'[j].socket
      BY <1>1
    <3> QED
      BY <2>3, <3>1, <3>2 DEF Named, SocketOp
  <2> QED
    BY <2>1, <2>2, <2>3
<1>6. run.at # "start" => Head(tail') = Head(tail)
  BY <1>2 DEF RunSound
<1>7. ASSUME NEW s \in Socket
      PROVE  /\ Flushing(s)' = Flushing(s)
             /\ ~News(s) => QueueKept(s)
             /\ \A ops : Named(tail, ops, s) => Named(tail', ops, s)
  <2>1. Flushing(s)' = Flushing(s)
    <3>1. tail = <<>> => run.rest = <<>>
      BY DEF RunSound, SocketTypeOK
    <3> QED
      BY <3>1, <1>2 DEF Flushing
  <2>2. \A ops : Named(tail, ops, s) => Named(tail', ops, s)
    BY <1>1 DEF Named
  <2>3. ASSUME ~News(s)
        PROVE  QueueKept(s)
    <3>0. \A i \in DOMAIN tail' : tail'[i].op \in SocketOp /\ tail'[i].socket = s => i \in DOMAIN tail /\ tail[i] = tail'[i]
      BY <2>3, <1>1 DEF News
    <3>1. AttachWaits(s)' => AttachWaits(s)
      BY <3>0 DEF AttachWaits, SocketOp
    <3>2. Named(tail, {"frame"}, s)' => Named(tail, {"frame"}, s)
      BY <3>0 DEF Named, SocketOp
    <3>3. Named(tail, SocketOp, s)' => Named(tail, SocketOp, s)
      BY <3>0 DEF Named
    <3>4. Named(tail, {"detach"}, s) => Named(tail, {"detach"}, s)'
      BY <1>1 DEF Named
    <3>5. \A n, m \in Int : FramesWait(tail, s, n, m) => FramesWait(tail, s, n, m)'
      <4> SUFFICES ASSUME NEW n \in Int, NEW m \in Int, FramesWait(tail, s, n, m)
                   PROVE  FramesWait(tail', s, n, m)
        BY DEF FramesWait
      <4>1. \A i \in DOMAIN tail' \ DOMAIN tail : ~(tail'[i].op = "frame" /\ tail'[i].socket = s)
        BY <2>3 DEF News, SocketOp
      <4> QED
        BY <4>1, <1>1, FramesGrow
    <3> QED
      BY <2>1, <3>1, <3>2, <3>3, <3>4, <3>5 DEF QueueKept
  <2> QED
    BY <2>1, <2>2, <2>3
<1> QED
  BY <1>1, <1>3, <1>4, <1>5, <1>6, <1>7

(* What the coordinator and the server do to a socket keeps it one. *)
LEMMA Records ==
  ASSUME NEW r \in SocketRecord
  PROVE  /\ Shut(r) \in SocketRecord /\ Drop(r) \in SocketRecord
         /\ \A link \in {"closing", "closed"} : Leave(r, link) \in SocketRecord
         /\ [Shut(r) EXCEPT !.known = FALSE] \in SocketRecord
         /\ [Shut(r) EXCEPT !.buffer = <<>>] \in SocketRecord
         /\ [Shut(Drop(r)) EXCEPT !.known = FALSE] \in SocketRecord
         /\ [Shut(r) EXCEPT !.dropped = Len(r.served)] \in SocketRecord
         /\ \A frame \in Nat : [r EXCEPT !.served = Append(@, frame)] \in SocketRecord
<1>1. r.link \in {"away", "upgrading", "open", "closing", "closed"} /\ r.buffer \in Seq(Nat)
      /\ r.served \in Seq(Nat) /\ Len(r.served) \in Nat /\ <<>> \in Seq(Nat)
      /\ \A frame \in Nat : Append(r.served, frame) \in Seq(Nat)
  BY DEF SocketRecord
<1>2. Shut(r) \in SocketRecord
  BY <1>1 DEF SocketRecord, Shut
<1>3. Drop(r) \in SocketRecord
  BY <1>1 DEF SocketRecord, Drop
<1>4. \A link \in {"closing", "closed"} : Leave(r, link) \in SocketRecord
  BY <1>1 DEF SocketRecord, Leave
<1>5. [Shut(r) EXCEPT !.known = FALSE] \in SocketRecord
  BY <1>2 DEF SocketRecord
<1>6. [Shut(r) EXCEPT !.buffer = <<>>] \in SocketRecord
  BY <1>1, <1>2 DEF SocketRecord
<1>7. Shut(Drop(r)) \in SocketRecord
  BY <1>3 DEF SocketRecord, Shut
<1>8. [Shut(Drop(r)) EXCEPT !.known = FALSE] \in SocketRecord
  BY <1>7 DEF SocketRecord
<1>9. [Shut(r) EXCEPT !.dropped = Len(r.served)] \in SocketRecord
  BY <1>1, <1>2 DEF SocketRecord
<1>10. \A frame \in Nat : [r EXCEPT !.served = Append(@, frame)] \in SocketRecord
  BY <1>1 DEF SocketRecord
<1> QED
  BY <1>2, <1>3, <1>4, <1>5, <1>6, <1>8, <1>9, <1>10

(* What makes a socket kept after a step. *)
LEMMA KeptAfter ==
  ASSUME NEW s \in Socket, NEW flushing, NEW n \in Nat, NEW m \in Nat,
         Flushing(s)' = flushing,
         Len(sock'[s].served) = n, From(sock'[s].served, 0), Len(flushing) = m, From(flushing, n),
         From(sock'[s].buffer, n + m), n + m + Len(sock'[s].buffer) <= sock'[s].arrived,
         FramesWait(tail', s, n + m + Len(sock'[s].buffer) + 1, sock'[s].arrived),
         s \in attached' /\ sock'[s].buffer # <<>> => run'.at = "release" /\ Head(tail').socket = s
  PROVE  Kept(s)'
<1> USE DEF Kept
<1>1. FramesWait(tail, s, n + m + Len(sock[s].buffer) + 1, sock[s].arrived)'
  BY DEF FramesWait
<1> HIDE DEF FramesWait, Flushing
<1> QED
  BY <1>1 DEF From

LEMMA SocketsInitially == SocketInit => SocketInv
<1> SUFFICES ASSUME SocketInit
             PROVE  SocketInv
  OBVIOUS
<1>1. Away \in SocketRecord
  BY DEF Away, SocketRecord, Never
<1>2. SocketTypeOK
  <2>1. sock \in [Socket -> SocketRecord] /\ attached \subseteq Socket /\ tail \in Seq(QueueEntry)
    BY <1>1 DEF SocketInit
  <2>2. run \in [at : {"start", "release", "flush"}, previous : SUBSET Socket, rest : Seq(Nat)]
    BY DEF SocketInit, Starting
  <2>3. removed \in BOOLEAN /\ calls \in [{"remove", "restart"} -> {"idle", "called", "done"}]
    BY DEF SocketInit
  <2> QED
    BY <2>1, <2>2, <2>3 DEF SocketTypeOK
<1>3. RunSound /\ AttachesOnce
  BY DEF SocketInit, RunSound, AttachesOnce, Starting
<1>4. ASSUME NEW s \in Socket
      PROVE  SocketSound(s)
  <2>1. sock[s] = Away /\ attached = {} /\ tail = <<>> /\ run = Starting
    BY DEF SocketInit
  <2> QED
    BY <2>1 DEF SocketSound, Unopened, Waits, Unattached, Attached, Silent, Kept, Named, AttachWaits, Away
<1> QED
  BY <1>2, <1>3, <1>4 DEF SocketInv, SocketInit

(* A step that leaves sockets and queue as they are, or lets the queue grow *)
(* by what is not about a socket.                                           *)
LEMMA QuietStep ==
  ASSUME SocketInv, SocketTypeOK', RunSound', AttachesOnce', attached' = attached, RuntimesKept,
         \A s \in Socket : QueueKept(s) /\ SocketKept(s),
         calls'["remove"] = "done" => calls["remove"] = "done" /\ removed' = removed
  PROVE  SocketInv'
BY SoundKept DEF SocketInv

LEMMA UpgradeStep ==
  ASSUME SocketInv, NEW s \in Socket, NEW r \in Runtime, Upgrade(s, r)
  PROVE  SocketInv'
<1> USE DEF Upgrade, SocketInv
<1>1. sock' = [sock EXCEPT ![s] = [sock[s] EXCEPT !.link = "upgrading", !.runtime = r]]
      /\ UNCHANGED <<attached, tail, run, removed, calls>> /\ sock[s].link = "away" /\ sock[s] \in SocketRecord
  BY DEF SocketTypeOK
<1>2. SocketTypeOK' /\ RunSound' /\ AttachesOnce'
  <2>1. [sock[s] EXCEPT !.link = "upgrading", !.runtime = r] \in SocketRecord
    BY <1>1 DEF SocketRecord
  <2> QED
    BY <1>1, <2>1 DEF SocketTypeOK, RunSound, AttachesOnce
<1>3. Unopened(s) /\ s \notin attached
  BY <1>1 DEF SocketSound, Unopened
<1>4. RuntimesKept
  BY <1>1, <1>3 DEF RuntimesKept, SocketTypeOK
<1>5. \A x \in Socket : QueueKept(x)
  BY <1>1 DEF QueueKept, AttachWaits, Named, Flushing, FramesWait
<1>6. \A x \in Socket \ {s} : SocketSound(x)'
  <2> TAKE x \in Socket \ {s}
  <2>1. SocketKept(x)
    BY <1>1 DEF SocketKept, SocketTypeOK
  <2> QED
    BY <1>1, <1>4, <1>5, <2>1, SoundKept
<1>7. SocketSound(s)'
  <2>1. sock'[s] = [sock[s] EXCEPT !.link = "upgrading", !.runtime = r] /\ QueueKept(s) /\ s \notin attached'
    BY <1>1, <1>3, <1>5 DEF SocketTypeOK
  <2>2. /\ sock'[s].link = "upgrading" /\ sock'[s].gone = sock[s].gone /\ sock'[s].dropped = sock[s].dropped
        /\ sock'[s].arrived = sock[s].arrived /\ sock'[s].buffer = sock[s].buffer
        /\ sock'[s].served = sock[s].served
    BY <1>1, <2>1 DEF SocketRecord
  <2>3. Unopened(s)' /\ Waits(s)' /\ Unattached(s)' /\ Attached(s)' /\ Silent(s)' /\ Kept(s)'
    BY <1>1, <1>3, <2>1, <2>2
    DEF SocketSound, Unopened, Waits, Unattached, Attached, Silent, Kept, QueueKept
  <2> QED
    BY <2>3 DEF SocketSound
<1> QED
  BY <1>1, <1>2, <1>6, <1>7

LEMMA HandshakeStep ==
  ASSUME SocketInv, NEW s \in Socket, Handshake(s)
  PROVE  SocketInv'
<1> USE DEF SocketInv
<1>0. sock[s].link = "upgrading" /\ UNCHANGED <<attached, run, removed, calls>> /\ sock[s] \in SocketRecord
  BY DEF SocketTypeOK, Handshake
<1>1. /\ ~sock[s].gone /\ sock[s].dropped = Never /\ sock[s].arrived = 0 /\ sock[s].buffer = <<>>
      /\ s \notin attached /\ ~Named(tail, SocketOp, s) /\ sock[s].served = <<>>
      /\ ~Named(tail, {"frame"}, s) /\ ~AttachWaits(s)
  BY <1>0 DEF SocketSound, Unopened, Unattached, Named, AttachWaits, SocketOp
<1>2. CASE sock' = [sock EXCEPT ![s].link = "closed"] /\ UNCHANGED tail
  <2>1. sock' = [sock EXCEPT ![s] = [sock[s] EXCEPT !.link = "closed"]] /\ UNCHANGED tail
    BY <1>2 DEF SocketTypeOK
  <2>2. SocketTypeOK' /\ RunSound' /\ AttachesOnce'
    <3>1. [sock[s] EXCEPT !.link = "closed"] \in SocketRecord
      BY <1>0 DEF SocketRecord
    <3> QED
      BY <1>0, <2>1, <3>1 DEF SocketTypeOK, RunSound, AttachesOnce
  <2>3. RuntimesKept
    BY <1>0, <1>1, <2>1 DEF RuntimesKept, SocketTypeOK
  <2>4. \A x \in Socket : QueueKept(x)
    BY <1>0, <2>1 DEF QueueKept, AttachWaits, Named, Flushing, FramesWait
  <2>5. \A x \in Socket \ {s} : SocketSound(x)'
    <3> TAKE x \in Socket \ {s}
    <3>1. SocketKept(x)
      BY <1>0, <2>1 DEF SocketKept, SocketTypeOK
    <3> QED
      BY <1>0, <2>3, <2>4, <3>1, SoundKept
  <2>6. SocketSound(s)'
    BY <1>0, <1>1, <2>1 DEF SocketTypeOK, SocketRecord, SocketSound, Unopened, Waits, Unattached, Attached, Silent, Kept, Named, AttachWaits
  <2> QED
    BY <1>0, <2>2, <2>5, <2>6
<1>3. CASE /\ sock' = [sock EXCEPT ![s].link = "open", ![s].known = TRUE]
           /\ tail' = Append(tail, Attach(s))
  <2>1. sock' = [sock EXCEPT ![s] = [sock[s] EXCEPT !.link = "open", !.known = TRUE]]
    BY <1>3 DEF SocketTypeOK
  <2>2. /\ Grows(tail, tail') /\ tail'[Len(tail) + 1] = Attach(s) /\ DOMAIN tail' = DOMAIN tail \cup {Len(tail) + 1}
        /\ Len(tail) + 1 \notin DOMAIN tail /\ tail \in Seq(QueueEntry)
        /\ Attach(s).op = "attach" /\ Attach(s).socket = s
    <3>1. Attach(s) \in QueueEntry /\ Attach(s).op = "attach" /\ Attach(s).socket = s
      BY DEF Attach, Entry, QueueEntry, SocketOp
    <3>2. tail \in Seq(QueueEntry)
      BY DEF SocketTypeOK
    <3> QED
      BY <3>1, <3>2, <1>3, QueueAppend
  <2>3. /\ SocketTypeOK' /\ RunSound' /\ AttachesOnce'
        /\ \A x \in Socket : ~News(x) => QueueKept(x)
        /\ Flushing(s)' = Flushing(s)
    <3>1. [sock[s] EXCEPT !.link = "open", !.known = TRUE] \in SocketRecord
      BY <1>0 DEF SocketRecord
    <3>2. sock' \in [Socket -> SocketRecord]
      BY <2>1, <3>1 DEF SocketTypeOK
    <3>3. \A i \in DOMAIN tail' \ DOMAIN tail :
            ~Named(tail, SocketOp, tail'[i].socket) /\ DOMAIN tail' = DOMAIN tail \cup {i}
      BY <1>1, <2>2
    <3>4. /\ tail' \in Seq(QueueEntry) /\ RunSound' /\ AttachesOnce'
          /\ \A x \in Socket : ~News(x) => QueueKept(x)
          /\ Flushing(s)' = Flushing(s)
      BY <1>0, <2>2, <3>3, GrowsQueue
    <3> QED
      BY <1>0, <3>2, <3>4 DEF SocketTypeOK
  <2>4. RuntimesKept
    BY <1>0, <1>1, <2>1 DEF RuntimesKept, SocketTypeOK
  <2>5. \A x \in Socket \ {s} : SocketSound(x)'
    <3> TAKE x \in Socket \ {s}
    <3>1. SocketKept(x)
      <4>1. run.at = "release" => Head(tail') = Head(tail)
        BY <2>2 DEF RunSound, Grows
      <4> QED
        BY <1>0, <2>1, <4>1 DEF SocketKept, SocketTypeOK
    <3>2. ~News(x)
      BY <2>2 DEF News
    <3> QED
      BY <1>0, <2>3, <2>4, <3>1, <3>2, SoundKept
  <2>6. SocketSound(s)'
    <3>1. sock'[s] = [sock[s] EXCEPT !.link = "open", !.known = TRUE] /\ s \notin attached'
      BY <1>0, <1>1, <2>1 DEF SocketTypeOK
    <3>2. ~Named(tail', {"frame"}, s)
      BY <1>1, <2>2 DEF Named, Grows
    <3>3. Flushing(s) = <<>>
      BY <1>1 DEF Flushing, RunSound, SocketTypeOK
    <3>4. Kept(s)'
      <4>1. sock'[s].served = <<>> /\ sock'[s].buffer = <<>> /\ sock'[s].arrived = 0
        BY <1>1, <3>1, <1>0 DEF SocketRecord
      <4>2. Flushing(s)' = <<>>
        BY <2>3, <3>3
      <4>3. FramesWait(tail', s, 1, 0)
        BY <3>2 DEF FramesWait, Named
      <4>4. Len(<<>>) = 0 /\ From(<<>>, 0) /\ 0 + 0 = 0 /\ 0 + 0 + 0 = 0 /\ 0 + 0 + 0 + 1 = 1
        BY DEF From
      <4> HIDE DEF Flushing, FramesWait, From
      <4> QED
        <5>1. /\ Len(sock'[s].served) = 0 /\ From(sock'[s].served, 0) /\ From(sock'[s].buffer, 0 + 0)
              /\ 0 + 0 + Len(sock'[s].buffer) <= sock'[s].arrived
          BY <4>1, <4>4
        <5>2. FramesWait(tail', s, 0 + 0 + Len(sock'[s].buffer) + 1, sock'[s].arrived)
          BY <4>1, <4>3, <4>4
        <5>3. ~(s \in attached' /\ sock'[s].buffer # <<>>)
          BY <4>1
        <5> QED
          BY <5>1, <5>2, <5>3, <4>2, <4>4, KeptAfter
    <3>5. Unopened(s)' /\ Waits(s)' /\ Unattached(s)' /\ Attached(s)' /\ Silent(s)'
      BY <1>0, <1>1, <3>1, <3>2 DEF SocketRecord, Unopened, Waits, Unattached, Attached, Silent, Named
    <3> QED
      BY <3>4, <3>5 DEF SocketSound
  <2> QED
    BY <1>0, <2>3, <2>5, <2>6
<1> QED
  BY <1>2, <1>3 DEF Handshake

(* An entry came that attaches nothing. *)
LEMMA EntryCame ==
  ASSUME SocketInv, NEW e \in QueueEntry, e.op # "attach", tail' = Append(tail, e), run' = run, attached' = attached
  PROVE  /\ tail' \in Seq(QueueEntry) /\ RunSound' /\ AttachesOnce' /\ (run.at # "start" => Head(tail') = Head(tail))
         /\ \A x \in Socket : /\ Flushing(x)' = Flushing(x) /\ (AttachWaits(x)' => AttachWaits(x))
                              /\ ~(e.op \in SocketOp /\ e.socket = x) => QueueKept(x)
         /\ \A x \in Socket : \A ops : Named(tail', ops, x) <=> Named(tail, ops, x) \/ (e.op \in ops /\ e.socket = x)
<1> USE DEF SocketInv
<1>1. /\ tail \in Seq(QueueEntry) /\ Grows(tail, tail') /\ tail'[Len(tail) + 1] = e
      /\ DOMAIN tail' = DOMAIN tail \cup {Len(tail) + 1} /\ Len(tail) + 1 \notin DOMAIN tail
      /\ \A i \in DOMAIN tail : tail'[i] = tail[i]
  BY QueueAppend DEF SocketTypeOK, Grows
<1>2. /\ tail' \in Seq(QueueEntry) /\ RunSound' /\ AttachesOnce' /\ (run.at # "start" => Head(tail') = Head(tail))
      /\ \A x \in Socket : Flushing(x)' = Flushing(x) /\ (~News(x) => QueueKept(x))
  BY <1>1, GrowsQueue
<1>3. \A x \in Socket : ~(e.op \in SocketOp /\ e.socket = x) => ~News(x)
  BY <1>1 DEF News
<1>4. \A x \in Socket : AttachWaits(x)' => AttachWaits(x)
  BY <1>1 DEF AttachWaits
<1>5. \A x \in Socket : \A ops : Named(tail', ops, x) <=> Named(tail, ops, x) \/ (e.op \in ops /\ e.socket = x)
  BY <1>1 DEF Named
<1> QED
  BY <1>2, <1>3, <1>4, <1>5

LEMMA CallStep ==
  ASSUME SocketInv, NEW c \in {"remove", "restart"}, Call(c)
  PROVE  SocketInv'
<1> USE DEF SocketInv
<1>1. /\ UNCHANGED <<sock, attached, run, removed>> /\ tail' = Append(tail, Entry(c, "all", 0))
      /\ calls' = [calls EXCEPT ![c] = "called"]
  BY DEF Call
<1>2. Entry(c, "all", 0) \in QueueEntry /\ Entry(c, "all", 0).op = c
  BY DEF Entry, QueueEntry
<1> DEFINE e == Entry(c, "all", 0)
<1> HIDE DEF e
<1>3. /\ tail' \in Seq(QueueEntry) /\ RunSound' /\ AttachesOnce' /\ (run.at # "start" => Head(tail') = Head(tail))
      /\ \A x \in Socket : QueueKept(x)
  BY <1>1, <1>2, EntryCame DEF SocketOp, e
<1>4. SocketTypeOK'
  BY <1>1, <1>3 DEF SocketTypeOK
<1>5. \A x \in Socket : SocketKept(x)
  BY <1>1, <1>3 DEF SocketKept
<1>6. RuntimesKept
  BY <1>1 DEF RuntimesKept
<1>7. calls'["remove"] = "done" => calls["remove"] = "done" /\ removed' = removed
  BY <1>1 DEF SocketTypeOK
<1> QED
  BY <1>1, <1>3, <1>4, <1>5, <1>6, <1>7, QuietStep

LEMMA ServerStep ==
  ASSUME SocketInv, DrainServer \/ EndServer
  PROVE  SocketInv'
<1> USE DEF SocketInv
<1>1. UNCHANGED <<sock, attached, tail, run, removed, calls>>
  BY DEF DrainServer, EndServer
<1>2. SocketTypeOK' /\ RunSound' /\ AttachesOnce' /\ RuntimesKept
  BY <1>1 DEF SocketTypeOK, RunSound, AttachesOnce, RuntimesKept
<1>3. \A s \in Socket : QueueKept(s) /\ SocketKept(s)
  BY <1>1 DEF QueueKept, SocketKept, AttachWaits, Named, Flushing, FramesWait
<1> QED
  BY <1>1, <1>2, <1>3, QuietStep

LEMMA NewServerStep ==
  ASSUME SocketInv, NewServer
  PROVE  SocketInv'
<1> USE DEF SocketInv
<1>1. /\ sock' = [s \in Socket |-> Away] /\ attached' = {} /\ tail' = <<>> /\ run' = Starting /\ removed' = removed
      /\ calls' = [c \in DOMAIN calls |-> IF c = "remove" /\ calls[c] = "done" THEN "done" ELSE "idle"]
  BY DEF NewServer
<1>2. SocketTypeOK'
  <2>1. Away \in SocketRecord
    BY DEF Away, SocketRecord, Never
  <2>2. sock' \in [Socket -> SocketRecord] /\ attached' \subseteq Socket /\ tail' \in Seq(QueueEntry)
    BY <1>1, <2>1
  <2>3. run' \in [at : {"start", "release", "flush"}, previous : SUBSET Socket, rest : Seq(Nat)]
    BY <1>1 DEF Starting
  <2>4. removed' \in BOOLEAN /\ calls' \in [{"remove", "restart"} -> {"idle", "called", "done"}]
    BY <1>1 DEF SocketTypeOK
  <2> QED
    BY <2>2, <2>3, <2>4 DEF SocketTypeOK
<1>3. RunSound' /\ AttachesOnce'
  BY <1>1 DEF RunSound, AttachesOnce, Starting
<1>4. ASSUME NEW s \in Socket
      PROVE  SocketSound(s)'
  <2>1. sock'[s] = Away
    BY <1>1
  <2> QED
    BY <1>1, <2>1 DEF SocketSound, Unopened, Waits, Unattached, Attached, Silent, Kept, Named, AttachWaits, Away
<1>5. calls'["remove"] = "done" => removed' /\ attached' = {}
  BY <1>1 DEF SocketTypeOK
<1> QED
  BY <1>2, <1>3, <1>4, <1>5

LEMMA SocketClosesStep ==
  ASSUME SocketInv, NEW s \in Socket, SocketCloses(s)
  PROVE  SocketInv'
<1> USE DEF SocketInv
<1>1. /\ UNCHANGED <<attached, run, removed, calls>> /\ tail' = Append(tail, Detach(s))
      /\ sock' = [sock EXCEPT ![s] = [Leave(sock[s], "closed") EXCEPT !.known = FALSE]] /\ sock[s] \in SocketRecord
  BY DEF SocketCloses, SocketTypeOK
<1> DEFINE e == Detach(s)
           r == [Leave(sock[s], "closed") EXCEPT !.known = FALSE]
<1>2. e \in QueueEntry /\ e.op = "detach" /\ e.socket = s
  BY DEF Detach, Entry, QueueEntry, SocketOp
<1>3. /\ r \in SocketRecord /\ r.link = "closed" /\ r.gone /\ r.buffer = <<>> /\ r.dropped = sock[s].dropped
      /\ r.served = sock[s].served /\ r.runtime = sock[s].runtime
  <2>1. Leave(sock[s], "closed") \in SocketRecord
    BY <1>1, Records
  <2> QED
    BY <1>1, <2>1 DEF SocketRecord, Leave
<1>4. sock'[s] = r /\ \A x \in Socket \ {s} : sock'[x] = sock[x]
  BY <1>1 DEF SocketTypeOK
<1> HIDE DEF e, r
<1>5. /\ tail' \in Seq(QueueEntry) /\ RunSound' /\ AttachesOnce' /\ (run.at # "start" => Head(tail') = Head(tail))
      /\ \A x \in Socket : AttachWaits(x)' => AttachWaits(x)
      /\ \A x \in Socket \ {s} : QueueKept(x)
      /\ Named(tail', {"frame"}, s) => Named(tail, {"frame"}, s)
      /\ Named(tail', {"detach"}, s)
  BY <1>1, <1>2, EntryCame DEF e
<1>6. SocketTypeOK'
  BY <1>1, <1>3, <1>5 DEF SocketTypeOK, r
<1>7. RuntimesKept
  BY <1>1, <1>3, <1>4 DEF RuntimesKept, SocketTypeOK
<1>8. \A x \in Socket \ {s} : SocketSound(x)'
  <2> TAKE x \in Socket \ {s}
  <2>1. SocketKept(x)
    BY <1>1, <1>4, <1>5 DEF SocketKept
  <2> QED
    BY <1>1, <1>5, <1>7, <2>1, SoundKept
<1>9. SocketSound(s)'
  <2>1. Unopened(s)' /\ Waits(s)' /\ Silent(s)' /\ Kept(s)'
    BY <1>1, <1>3, <1>4, <1>5 DEF SocketSound, Unopened, Waits, Silent, Kept
  <2>2. Unattached(s)'
    <3>1. Named(tail, {"frame"}, s)' => Named(tail, {"frame"}, s)
      BY <1>5 DEF Named
    <3> QED
      BY <1>1, <1>3, <1>4, <3>1 DEF SocketSound, Unattached
  <2>3. Attached(s)'
    <3>1. Named(tail, {"detach"}, s)'
      BY <1>5 DEF Named
    <3>2. s \in attached => \A x \in attached \ {s} : sock'[x].runtime # sock'[s].runtime
      <4>1. Attached(s)
        BY DEF SocketSound
      <4>2. \A x \in attached \ {s} : sock'[x].runtime = sock[x].runtime /\ sock'[s].runtime = sock[s].runtime
        BY <1>1, <1>3, <1>4, <1>7 DEF RuntimesKept
      <4> QED
        BY <4>1, <4>2 DEF Attached
    <3> QED
      BY <1>1, <1>3, <1>4, <3>1, <3>2 DEF SocketSound, Attached
  <2> QED
    BY <2>1, <2>2, <2>3 DEF SocketSound
<1> QED
  BY <1>1, <1>5, <1>6, <1>8, <1>9

LEMMA ForgottenStep ==
  ASSUME SocketInv, NEW s \in Socket, Forgotten(s)
  PROVE  SocketInv'
<1> USE DEF SocketInv
<1>1. /\ UNCHANGED <<attached, tail, run, removed, calls>> /\ sock' = [sock EXCEPT ![s] = Away]
      /\ sock[s].link = "closed" /\ Queued(s) = {}
  BY DEF Forgotten
<1>2. ~AttachWaits(s) /\ \A ops : ~Named(tail, ops, s)
  BY <1>1 DEF Queued, AttachWaits, Named
<1>3. s \notin attached
  BY <1>1, <1>2 DEF SocketSound, Attached
<1>4. SocketTypeOK' /\ RunSound' /\ AttachesOnce'
  <2>1. Away \in SocketRecord
    BY DEF Away, SocketRecord, Never
  <2> QED
    BY <1>1, <2>1 DEF SocketTypeOK, RunSound, AttachesOnce
<1>5. sock'[s] = Away /\ \A x \in Socket \ {s} : sock'[x] = sock[x]
  BY <1>1 DEF SocketTypeOK
<1>6. RuntimesKept
  BY <1>1, <1>3, <1>5 DEF RuntimesKept, SocketTypeOK
<1>7. \A x \in Socket : QueueKept(x)
  BY <1>1 DEF QueueKept, AttachWaits, Named, Flushing, FramesWait
<1>8. \A x \in Socket \ {s} : SocketSound(x)'
  <2> TAKE x \in Socket \ {s}
  <2>1. SocketKept(x)
    BY <1>1, <1>5 DEF SocketKept
  <2> QED
    BY <1>1, <1>6, <1>7, <2>1, SoundKept
<1>9. SocketSound(s)'
  <2>1. ~Named(tail, {"frame"}, s)' /\ ~Named(tail, SocketOp, s)'
    BY <1>1, <1>2 DEF Named
  <2>2. /\ sock'[s].link = "away" /\ ~sock'[s].gone /\ sock'[s].dropped = Never /\ sock'[s].arrived = 0
        /\ sock'[s].buffer = <<>> /\ sock'[s].served = <<>>
    BY <1>5 DEF Away
  <2>3. ~AttachWaits(s)'
    BY <1>1, <1>2 DEF AttachWaits
  <2>4. Unopened(s)' /\ Waits(s)' /\ Unattached(s)' /\ Attached(s)' /\ Silent(s)' /\ Kept(s)'
    BY <1>1, <1>3, <2>1, <2>2, <2>3 DEF Unopened, Waits, Unattached, Attached, Silent, Kept
  <2> QED
    BY <2>4 DEF SocketSound
<1> QED
  BY <1>1, <1>4, <1>8, <1>9

LEMMA FrameStep ==
  ASSUME SocketInv, NEW s \in Socket, Frame(s)
  PROVE  SocketInv'
<1> USE DEF SocketInv
<1> DEFINE r == [sock[s] EXCEPT !.arrived = @ + 1]
<1>0. /\ UNCHANGED <<attached, run, removed, calls>> /\ sock[s] \in SocketRecord
      /\ r.link \in {"open", "closing"} /\ r.link = sock[s].link
      /\ \/ /\ s \in attached /\ sock' = [sock EXCEPT ![s] = r] /\ tail' = Append(tail, Entry("frame", s, r.arrived))
         \/ /\ s \notin attached /\ UNCHANGED tail
            /\ sock' = [sock EXCEPT ![s] = [r EXCEPT !.buffer = Append(@, r.arrived)]]
         \/ /\ s \notin attached /\ UNCHANGED tail
            /\ sock' = [sock EXCEPT ![s] = [Shut(r) EXCEPT !.buffer = <<>>, !.overflowed = TRUE]]
  BY DEF Frame, SocketTypeOK, SocketRecord
<1>1. /\ r \in SocketRecord /\ r.arrived = sock[s].arrived + 1 /\ r.buffer = sock[s].buffer
      /\ r.served = sock[s].served /\ r.dropped = sock[s].dropped /\ r.gone = sock[s].gone
      /\ r.runtime = sock[s].runtime /\ r.arrived \in Nat /\ r.buffer \in Seq(Nat) /\ r.served \in Seq(Nat)
      /\ sock[s].arrived \in Nat
  <2>1. /\ sock[s].arrived \in Nat /\ sock[s].arrived + 1 \in Nat /\ sock[s].buffer \in Seq(Nat)
        /\ sock[s].served \in Seq(Nat)
    BY <1>0 DEF SocketRecord
  <2>2. r \in SocketRecord
    BY <1>0, <2>1 DEF SocketRecord
  <2>3. /\ r.arrived = sock[s].arrived + 1 /\ r.buffer = sock[s].buffer
        /\ r.served = sock[s].served /\ r.dropped = sock[s].dropped /\ r.gone = sock[s].gone
        /\ r.runtime = sock[s].runtime
    BY <1>0 DEF SocketRecord
  <2> QED
    BY <2>1, <2>2, <2>3
<1> HIDE DEF r
<1>2. SocketSound(s) /\ Unopened(s) /\ Waits(s) /\ Unattached(s) /\ Attached(s) /\ Silent(s) /\ Kept(s)
  BY DEF SocketSound
<1>3. CASE /\ s \in attached /\ sock' = [sock EXCEPT ![s] = r] /\ tail' = Append(tail, Entry("frame", s, r.arrived))
  <2> DEFINE e == Entry("frame", s, r.arrived)
  <2>1. e \in QueueEntry /\ e.op = "frame" /\ e.socket = s /\ e.frame = r.arrived
    BY <1>1 DEF Entry, QueueEntry, SocketOp
  <2> HIDE DEF e
  <2>2. /\ tail' \in Seq(QueueEntry) /\ RunSound' /\ AttachesOnce' /\ (run.at # "start" => Head(tail') = Head(tail))
        /\ \A x \in Socket : (AttachWaits(x)' => AttachWaits(x)) /\ Flushing(x)' = Flushing(x)
        /\ \A x \in Socket \ {s} : QueueKept(x)
        /\ Named(tail, {"detach"}, s) => Named(tail', {"detach"}, s)
    BY <1>0, <1>3, <2>1, EntryCame DEF e
  <2>3. sock'[s] = r /\ \A x \in Socket \ {s} : sock'[x] = sock[x]
    BY <1>3 DEF SocketTypeOK
  <2>4. SocketTypeOK'
    BY <1>0, <1>1, <1>3, <2>2 DEF SocketTypeOK
  <2>5. RuntimesKept
    BY <1>0, <1>1, <2>3 DEF RuntimesKept, SocketTypeOK
  <2>6. \A x \in Socket \ {s} : SocketSound(x)'
    <3> TAKE x \in Socket \ {s}
    <3>1. SocketKept(x)
      BY <1>0, <2>2, <2>3 DEF SocketKept
    <3> QED
      BY <1>0, <2>2, <2>5, <3>1, SoundKept
  <2>7. Unopened(s)' /\ Waits(s)' /\ Unattached(s)' /\ Silent(s)'
    BY <1>0, <1>1, <1>2, <1>3, <2>2, <2>3 DEF Unopened, Waits, Unattached, Silent
  <2>8. Attached(s)'
    <3>1. Named(tail, {"detach"}, s) => Named(tail, {"detach"}, s)'
      BY <2>2 DEF Named
    <3>2. \A x \in attached \ {s} : sock'[x].runtime = sock[x].runtime /\ sock'[s].runtime = sock[s].runtime
      BY <1>0, <1>1, <2>3, <2>5 DEF RuntimesKept
    <3> QED
      BY <1>0, <1>1, <1>2, <2>3, <3>1, <3>2 DEF Attached
  <2>9. Kept(s)'
    <3> SUFFICES ASSUME sock'[s].link = "open", sock'[s].dropped = Never
                 PROVE  Kept(s)'
      BY DEF Kept
    <3> DEFINE n == Len(sock[s].served)
               m == Len(Flushing(s))
               h == n + m + Len(sock[s].buffer)
    <3>1. /\ From(sock[s].served, 0) /\ From(Flushing(s), n) /\ From(sock[s].buffer, n + m)
          /\ h <= sock[s].arrived /\ FramesWait(tail, s, h + 1, sock[s].arrived)
          /\ sock[s].buffer # <<>> => run.at = "release" /\ Head(tail).socket = s
      BY <1>0, <1>1, <1>2, <1>3, <2>3 DEF Kept
    <3>2. n \in Nat /\ m \in Nat /\ h \in Nat /\ tail \in Seq(QueueEntry)
      BY <1>0 DEF SocketTypeOK, SocketRecord, Flushing
    <3> HIDE DEF n, m, h
    <3>3. FramesWait(tail', s, h + 1, sock[s].arrived + 1)
      BY <1>1, <1>3, <3>1, <3>2, FrameCame
    <3>4. /\ sock'[s].served = sock[s].served /\ sock'[s].buffer = sock[s].buffer
          /\ sock'[s].arrived = sock[s].arrived + 1 /\ Flushing(s)' = Flushing(s)
      BY <1>1, <2>2, <2>3
    <3>5. Len(sock'[s].served) = n /\ Len(Flushing(s)) = m /\ n + m + Len(sock'[s].buffer) = h
      BY <3>4 DEF n, m, h
    <3>6. /\ From(sock'[s].served, 0) /\ From(Flushing(s), n) /\ From(sock'[s].buffer, n + m)
          /\ n + m + Len(sock'[s].buffer) <= sock'[s].arrived
      <4>1. From(sock'[s].served, 0) /\ From(Flushing(s), n) /\ From(sock'[s].buffer, n + m)
        BY <3>1, <3>4
      <4>2. h <= sock[s].arrived /\ h <= sock[s].arrived + 1
        BY <1>1, <3>1, <3>2
      <4> QED
        BY <3>4, <3>5, <4>1, <4>2
    <3>7. FramesWait(tail', s, n + m + Len(sock'[s].buffer) + 1, sock'[s].arrived)
      BY <3>3, <3>4, <3>5
    <3>8. s \in attached' /\ sock'[s].buffer # <<>> => run'.at = "release" /\ Head(tail').socket = s
      BY <1>0, <2>2, <3>1, <3>4
    <3> HIDE DEF FramesWait, Flushing, From
    <3> QED
      BY <3>2, <3>4, <3>5, <3>6, <3>7, <3>8, KeptAfter
  <2> QED
    BY <1>0, <2>2, <2>4, <2>6, <2>7, <2>8, <2>9 DEF SocketSound
<1>4. ASSUME s \notin attached, UNCHANGED tail, sock'[s] \in SocketRecord,
             sock' = [sock EXCEPT ![s] = sock'[s]], sock'[s].runtime = sock[s].runtime
      PROVE  /\ SocketTypeOK' /\ RunSound' /\ AttachesOnce' /\ \A x \in Socket \ {s} : SocketSound(x)'
             /\ QueueKept(s)
  <2>1. SocketTypeOK' /\ RunSound' /\ AttachesOnce'
    BY <1>0, <1>4 DEF SocketTypeOK, RunSound, AttachesOnce
  <2>2. \A x \in Socket : QueueKept(x)
    BY <1>0, <1>4 DEF QueueKept, AttachWaits, Named, Flushing, FramesWait
  <2>3. \A x \in Socket \ {s} : sock'[x] = sock[x]
    BY <1>4 DEF SocketTypeOK
  <2>4. RuntimesKept
    BY <1>0, <1>4, <2>3 DEF RuntimesKept, SocketTypeOK
  <2>5. ASSUME NEW x \in Socket \ {s}
        PROVE  SocketSound(x)'
    <3>1. SocketKept(x)
      BY <1>0, <1>4, <2>3 DEF SocketKept
    <3> QED
      BY <1>0, <2>2, <2>4, <3>1, SoundKept
  <2> QED
    BY <2>1, <2>2, <2>5
<1>5. CASE /\ s \notin attached /\ UNCHANGED tail
           /\ sock' = [sock EXCEPT ![s] = [r EXCEPT !.buffer = Append(@, r.arrived)]]
  <2>1. /\ sock'[s].arrived = r.arrived /\ sock'[s].buffer = Append(r.buffer, r.arrived) /\ sock'[s].gone = r.gone
        /\ sock'[s].served = r.served /\ sock'[s].dropped = r.dropped /\ sock'[s].link = r.link
        /\ sock'[s].runtime = r.runtime /\ sock'[s] \in SocketRecord /\ sock' = [sock EXCEPT ![s] = sock'[s]]
    <3>1. sock'[s] = [r EXCEPT !.buffer = Append(@, r.arrived)]
      BY <1>5 DEF SocketTypeOK
    <3>2. Append(r.buffer, r.arrived) \in Seq(Nat)
      BY <1>1
    <3>3. sock' = [sock EXCEPT ![s] = sock'[s]]
      BY <1>5, <3>1
    <3>4. [r EXCEPT !.buffer = Append(@, r.arrived)] \in SocketRecord
      BY <1>1, <3>2 DEF SocketRecord
    <3>5. \A new : new = [r EXCEPT !.buffer = Append(@, r.arrived)] =>
            /\ new.arrived = r.arrived /\ new.buffer = Append(r.buffer, r.arrived) /\ new.gone = r.gone
            /\ new.served = r.served /\ new.dropped = r.dropped /\ new.link = r.link /\ new.runtime = r.runtime
      BY <1>1 DEF SocketRecord
    <3> QED
      BY <3>1, <3>3, <3>4, <3>5
  <2>2. /\ SocketTypeOK' /\ RunSound' /\ AttachesOnce' /\ \A x \in Socket \ {s} : SocketSound(x)'
        /\ QueueKept(s)
    BY <1>1, <1>4, <1>5, <2>1
  <2>3. Unopened(s)' /\ Waits(s)' /\ Unattached(s)' /\ Attached(s)' /\ Silent(s)'
    BY <1>0, <1>1, <1>2, <1>5, <2>1, <2>2 DEF Unopened, Waits, Unattached, Attached, Silent, QueueKept
  <2>4. Kept(s)'
    <3> SUFFICES ASSUME sock'[s].link = "open", sock'[s].dropped = Never
                 PROVE  Kept(s)'
      BY DEF Kept
    <3>1. Flushing(s) = <<>> /\ Flushing(s)' = <<>>
      <4>1. Flushing(s) = <<>>
        BY <1>5 DEF Flushing, RunSound, SocketTypeOK
      <4> QED
        BY <4>1, <2>2 DEF QueueKept
    <3>2. sock[s].served = <<>> /\ ~Named(tail, {"frame"}, s) /\ tail' = tail
      BY <1>1, <1>2, <1>5, <2>1 DEF Unattached
    <3> DEFINE b == sock[s].buffer
    <3>3. b \in Seq(Nat) /\ Len(b) \in Nat
      BY <1>1
    <3>4. /\ From(b, 0) /\ Len(b) <= sock[s].arrived /\ FramesWait(tail, s, Len(b) + 1, sock[s].arrived)
      <4>1. Len(<<>>) = 0 /\ 0 + 0 = 0 /\ 0 + Len(b) = Len(b)
        BY <3>3
      <4>2. sock[s].link = "open" /\ sock[s].dropped = Never
        BY <1>0, <1>1, <2>1
      <4> HIDE DEF Flushing, FramesWait, From
      <4>3. LET served == Len(sock[s].served)
                flushed == served + Len(Flushing(s))
                held == flushed + Len(sock[s].buffer)
            IN /\ From(sock[s].buffer, flushed)
               /\ held <= sock[s].arrived /\ FramesWait(tail, s, held + 1, sock[s].arrived)
        BY <1>2, <4>2 DEF Kept
      <4> HIDE DEF b
      <4> QED
        BY <3>1, <3>2, <4>1, <4>3 DEF b
    <3>5. sock[s].arrived = Len(b)
      <4>1. {tail[i].frame : i \in {i \in DOMAIN tail : tail[i].op = "frame" /\ tail[i].socket = s}} = Len(b) + 1 .. sock[s].arrived
        BY <3>4 DEF FramesWait
      <4>2. {i \in DOMAIN tail : tail[i].op = "frame" /\ tail[i].socket = s} = {}
        BY <3>2 DEF Named
      <4>3. \A f : f \notin Len(b) + 1 .. sock[s].arrived
        BY <4>1, <4>2
      <4>4. sock[s].arrived \notin Len(b) + 1 .. sock[s].arrived
        BY <4>3
      <4> HIDE DEF b
      <4> QED
        BY <1>1, <3>3, <3>4, <4>4
    <3> DEFINE c == Append(b, Len(b) + 1)
    <3>6. sock'[s].buffer = c /\ sock'[s].arrived = Len(b) + 1 /\ sock'[s].served = <<>>
      BY <1>1, <2>1, <3>2, <3>5
    <3>7. Len(c) = Len(b) + 1 /\ From(c, 0)
      BY <3>3, <3>4 DEF From
    <3>8. FramesWait(tail', s, Len(b) + 1 + 1, Len(b) + 1)
      <4>1. Len(b) + 1 + 1 .. Len(b) + 1 = {}
        BY <3>3
      <4>2. {i \in DOMAIN tail : tail[i].op = "frame" /\ tail[i].socket = s} = {}
        BY <3>2 DEF Named
      <4> QED
        BY <3>2, <4>1, <4>2 DEF FramesWait
    <3> HIDE DEF b, c
    <3>9. /\ Len(<<>>) = 0 /\ From(<<>>, 0) /\ 0 + 0 = 0 /\ 0 + 0 + Len(c) = Len(c)
      BY <3>3, <3>7 DEF From
    <3> HIDE DEF FramesWait, Flushing, From
    <3>10. /\ Len(sock'[s].served) = 0 /\ From(sock'[s].served, 0) /\ From(sock'[s].buffer, 0 + 0)
           /\ 0 + 0 + Len(sock'[s].buffer) <= sock'[s].arrived
      BY <3>3, <3>6, <3>7, <3>9
    <3>11. FramesWait(tail', s, 0 + 0 + Len(sock'[s].buffer) + 1, sock'[s].arrived)
      BY <3>6, <3>7, <3>8, <3>9
    <3>12. s \notin attached'
      BY <1>0, <1>5
    <3> QED
      BY <3>1, <3>9, <3>10, <3>11, <3>12, KeptAfter
  <2> QED
    BY <1>0, <2>2, <2>3, <2>4 DEF SocketSound
<1>6. CASE /\ s \notin attached /\ UNCHANGED tail
           /\ sock' = [sock EXCEPT ![s] = [Shut(r) EXCEPT !.buffer = <<>>, !.overflowed = TRUE]]
  <2>1. /\ sock'[s].gone = r.gone /\ sock'[s].served = r.served /\ sock'[s].dropped = r.dropped
        /\ sock'[s].link = "closing" /\ sock'[s].runtime = r.runtime
        /\ sock'[s] \in SocketRecord /\ sock' = [sock EXCEPT ![s] = sock'[s]]
    <3>1. sock'[s] = [Shut(r) EXCEPT !.buffer = <<>>, !.overflowed = TRUE]
      BY <1>6 DEF SocketTypeOK
    <3>2. Shut(r) \in SocketRecord
      BY <1>1, Records
    <3>3. Shut(r).link = "closing"
      BY <1>0, <1>1 DEF Shut, SocketRecord
    <3>4. /\ Shut(r).gone = r.gone /\ Shut(r).served = r.served /\ Shut(r).dropped = r.dropped
          /\ Shut(r).runtime = r.runtime
      BY <1>1 DEF Shut, SocketRecord
    <3>5. sock' = [sock EXCEPT ![s] = sock'[s]]
      BY <1>6, <3>1
    <3>6. [Shut(r) EXCEPT !.buffer = <<>>, !.overflowed = TRUE] \in SocketRecord
      <4>1. <<>> \in Seq(Nat)
        OBVIOUS
      <4> QED
        BY <3>2, <4>1 DEF SocketRecord
    <3>7. \A new : new = [Shut(r) EXCEPT !.buffer = <<>>, !.overflowed = TRUE] =>
            /\ new.gone = Shut(r).gone /\ new.served = Shut(r).served /\ new.dropped = Shut(r).dropped
            /\ new.link = Shut(r).link /\ new.runtime = Shut(r).runtime
      BY <3>2 DEF SocketRecord
    <3> QED
      BY <3>1, <3>3, <3>4, <3>5, <3>6, <3>7
  <2>2. /\ SocketTypeOK' /\ RunSound' /\ AttachesOnce' /\ \A x \in Socket \ {s} : SocketSound(x)'
        /\ QueueKept(s)
    BY <1>1, <1>4, <1>6, <2>1
  <2>3. Unopened(s)' /\ Waits(s)' /\ Unattached(s)' /\ Attached(s)' /\ Silent(s)' /\ Kept(s)'
    BY <1>0, <1>1, <1>2, <1>6, <2>1, <2>2 DEF Unopened, Waits, Unattached, Attached, Silent, Kept, QueueKept
  <2> QED
    BY <1>0, <2>2, <2>3 DEF SocketSound
<1> QED
  BY <1>0, <1>3, <1>5, <1>6

(* The operation that runs is about a socket that was upgraded. *)
LEMMA HeadNamed ==
  ASSUME SocketInv, tail # <<>>, Head(tail).op \in SocketOp
  PROVE  /\ Of \in Socket /\ sock[Of] \in SocketRecord /\ sock[Of].link \notin {"away", "upgrading"}
         /\ Head(tail).frame \in Nat /\ Named(tail, {Head(tail).op}, Of)
<1> USE DEF SocketInv
<1>1. Head(tail) \in QueueEntry /\ Head(tail) = tail[1] /\ 1 \in DOMAIN tail
  BY QueueTail DEF SocketTypeOK
<1>2. Of \in Socket /\ Head(tail).frame \in Nat
  BY <1>1 DEF QueueEntry, SocketOp, Of
<1>3. Named(tail, {Head(tail).op}, Of) /\ Named(tail, SocketOp, Of)
  BY <1>1 DEF Named, Of
<1>4. sock[Of].link \notin {"away", "upgrading"}
  BY <1>2, <1>3 DEF SocketSound, Unopened
<1> QED
  BY <1>2, <1>3, <1>4 DEF SocketTypeOK

(* An operation ended whose frames were flushed. *)
LEMMA OperationEnded ==
  ASSUME SocketInv, tail # <<>>, Ends, run.rest = <<>>
  PROVE  /\ tail' \in Seq(QueueEntry)
         /\ run' \in [at : {"start", "release", "flush"}, previous : SUBSET Socket, rest : Seq(Nat)]
         /\ RunSound' /\ AttachesOnce'
         /\ \A x \in Socket :
              /\ Flushing(x) = <<>> /\ Flushing(x)' = <<>> /\ (AttachWaits(x)' => AttachWaits(x))
              /\ \A ops : Named(tail', ops, x) => Named(tail, ops, x)
              /\ ~Takes(x) => QueueKept(x)
              /\ ~(Head(tail).op = "detach" /\ Of = x) => (Named(tail, {"detach"}, x) => Named(tail', {"detach"}, x))
<1> USE DEF SocketInv
<1>1. \A x \in Socket : Flushing(x) = <<>>
  BY DEF Flushing
<1> QED
  BY <1>1, EndsQueue

LEMMA AttachRefusedStep ==
  ASSUME SocketInv, AttachRefused
  PROVE  SocketInv'
<1> USE DEF SocketInv
<1>1. /\ tail # <<>> /\ Head(tail).op = "attach" /\ run.at = "start" /\ run.rest = <<>> /\ Ends
      /\ UNCHANGED <<attached, removed, calls>>
      /\ \/ sock' = [sock EXCEPT ![Of] = [Shut(@) EXCEPT !.known = FALSE]]
         \/ UNCHANGED sock
         \/ sock' = [sock EXCEPT ![Of] = [Shut(@) EXCEPT !.buffer = <<>>]]
  BY DEF AttachRefused, Runs, Rejects, RunSound
<1>2. Of \in Socket /\ sock[Of] \in SocketRecord /\ sock[Of].link \notin {"away", "upgrading"}
  BY <1>1, HeadNamed DEF SocketOp
<1>3. /\ tail' \in Seq(QueueEntry) /\ RunSound' /\ AttachesOnce' /\ \A x \in Socket : QueueKept(x)
      /\ run' \in [at : {"start", "release", "flush"}, previous : SUBSET Socket, rest : Seq(Nat)]
  BY <1>1, OperationEnded DEF Takes
<1> DEFINE a == [Shut(sock[Of]) EXCEPT !.known = FALSE]
           b == [Shut(sock[Of]) EXCEPT !.buffer = <<>>]
<1>4. a \in SocketRecord /\ b \in SocketRecord
  BY <1>2, Records
<1>5. \A new \in {a, b} :
        /\ new.gone = sock[Of].gone /\ new.dropped = sock[Of].dropped /\ new.served = sock[Of].served
        /\ new.runtime = sock[Of].runtime /\ new.link \notin {"away", "upgrading", "open"}
        /\ new.link = "closed" => sock[Of].link = "closed"
  <2> DEFINE c == Shut(sock[Of])
  <2>0. c \in SocketRecord
    BY <1>2, Records
  <2>1. /\ c.gone = sock[Of].gone /\ c.dropped = sock[Of].dropped
        /\ c.served = sock[Of].served /\ c.runtime = sock[Of].runtime
        /\ c.link = IF sock[Of].link = "open" THEN "closing" ELSE sock[Of].link
    BY <1>2 DEF Shut, SocketRecord
  <2> HIDE DEF c
  <2>2. \A new \in {[c EXCEPT !.known = FALSE], [c EXCEPT !.buffer = <<>>]} :
          /\ new.gone = c.gone /\ new.dropped = c.dropped /\ new.served = c.served
          /\ new.runtime = c.runtime /\ new.link = c.link
    BY <2>0 DEF SocketRecord
  <2>3. a = [c EXCEPT !.known = FALSE] /\ b = [c EXCEPT !.buffer = <<>>]
    BY DEF c
  <2> HIDE DEF a, b
  <2> QED
    BY <1>2, <2>1, <2>2, <2>3
<1>6. sock' = [sock EXCEPT ![Of] = a] \/ sock' = [sock EXCEPT ![Of] = b] \/ UNCHANGED sock
  BY <1>1
<1> HIDE DEF a, b
<1>7. /\ sock' \in [Socket -> SocketRecord]
      /\ \A x \in Socket : sock'[x] = sock[x] \/ (x = Of /\ sock'[x] \in {a, b})
  BY <1>2, <1>4, <1>6 DEF SocketTypeOK
<1>8. SocketTypeOK'
  BY <1>1, <1>3, <1>7 DEF SocketTypeOK
<1>9. RuntimesKept
  BY <1>1, <1>5, <1>7 DEF RuntimesKept, SocketTypeOK
<1>10. \A x \in Socket : SocketKept(x)
  BY <1>1, <1>5, <1>7 DEF SocketKept
<1> QED
  BY <1>1, <1>3, <1>8, <1>9, <1>10, QuietStep

LEMMA RunFrameStep ==
  ASSUME SocketInv, RunFrame
  PROVE  SocketInv'
<1> USE DEF SocketInv
<1>0. tail # <<>> /\ Head(tail).op = "frame"
  BY DEF RunFrame, Runs
<1> SUFFICES ASSUME NEW s \in Socket, NEW frame \in Nat, s = Of, frame = Head(tail).frame
             PROVE  SocketInv'
  BY <1>0, HeadNamed DEF SocketOp
<1>1. /\ tail # <<>> /\ Head(tail).op = "frame" /\ run.at = "start" /\ run.rest = <<>> /\ Ends
      /\ UNCHANGED <<attached, removed, calls>>
      /\ \/ s \in attached /\ sock' = [sock EXCEPT ![s] = [sock[s] EXCEPT !.served = Append(@, frame)]]
         \/ s \in attached /\ sock' = [sock EXCEPT ![s] = Shut([sock[s] EXCEPT !.served = Append(@, frame)])]
         \/ s \notin attached /\ sock' = [sock EXCEPT ![s] = Shut(sock[s])]
  BY DEF RunFrame, Runs, StillAttached, Serve, RunSound
<1>2. s \in Socket /\ sock[s] \in SocketRecord /\ sock[s].link \notin {"away", "upgrading"} /\ frame \in Nat
  BY <1>1, HeadNamed DEF SocketOp
<1>3. /\ tail' \in Seq(QueueEntry) /\ RunSound' /\ AttachesOnce' /\ \A x \in Socket \ {s} : QueueKept(x)
      /\ run' \in [at : {"start", "release", "flush"}, previous : SUBSET Socket, rest : Seq(Nat)]
      /\ Flushing(s) = <<>> /\ Flushing(s)' = <<>> /\ (AttachWaits(s)' => AttachWaits(s))
      /\ Named(tail', {"frame"}, s) => Named(tail, {"frame"}, s)
      /\ Named(tail, {"detach"}, s) => Named(tail', {"detach"}, s)
  BY <1>1, <1>2, OperationEnded DEF Takes
<1>3a. tail' = Tail(tail) /\ tail \in Seq(QueueEntry) /\ s = Head(tail).socket
  BY <1>1 DEF Ends, SocketTypeOK, Of
<1> DEFINE a == [sock[s] EXCEPT !.served = Append(@, frame)]
           b == Shut(a)
           c == Shut(sock[s])
<1>4. a \in SocketRecord /\ b \in SocketRecord /\ c \in SocketRecord
  BY <1>2, Records
<1>5. /\ \A new \in {a, b, c} : /\ new.gone = sock[s].gone /\ new.dropped = sock[s].dropped
                                /\ new.runtime = sock[s].runtime /\ new.link \notin {"away", "upgrading"}
                                /\ new.link = "closed" => sock[s].link = "closed"
      /\ b.link # "open" /\ c.link # "open" /\ c.served = sock[s].served
      /\ a.link = sock[s].link /\ a.buffer = sock[s].buffer /\ a.arrived = sock[s].arrived
      /\ a.served = Append(sock[s].served, frame)
  <2>1. /\ a.gone = sock[s].gone /\ a.dropped = sock[s].dropped /\ a.runtime = sock[s].runtime
        /\ a.link = sock[s].link /\ a.buffer = sock[s].buffer /\ a.arrived = sock[s].arrived
        /\ a.served = Append(sock[s].served, frame)
    BY <1>2 DEF SocketRecord
  <2>2. /\ b.gone = a.gone /\ b.dropped = a.dropped /\ b.runtime = a.runtime
        /\ b.link = IF a.link = "open" THEN "closing" ELSE a.link
    <3> HIDE DEF a
    <3> QED
      BY <1>4 DEF Shut, SocketRecord
  <2>3. /\ c.gone = sock[s].gone /\ c.dropped = sock[s].dropped /\ c.runtime = sock[s].runtime
        /\ c.link = (IF sock[s].link = "open" THEN "closing" ELSE sock[s].link) /\ c.served = sock[s].served
    BY <1>2 DEF Shut, SocketRecord
  <2> HIDE DEF a, b, c
  <2> QED
    BY <1>2, <2>1, <2>2, <2>3
<1>6. \/ s \in attached /\ sock' = [sock EXCEPT ![s] = a]
      \/ s \in attached /\ sock' = [sock EXCEPT ![s] = b]
      \/ s \notin attached /\ sock' = [sock EXCEPT ![s] = c]
  BY <1>1
<1> HIDE DEF a, b, c
<1>7. /\ sock' \in [Socket -> SocketRecord] /\ \A x \in Socket \ {s} : sock'[x] = sock[x]
      /\ sock'[s] \in {a, b, c} /\ (s \in attached => sock'[s] \in {a, b}) /\ (s \notin attached => sock'[s] = c)
  BY <1>2, <1>4, <1>6 DEF SocketTypeOK
<1>8. SocketTypeOK'
  BY <1>1, <1>3, <1>7 DEF SocketTypeOK
<1>9. RuntimesKept
  <2>1. sock'[s].runtime = sock[s].runtime
    BY <1>5, <1>7
  <2>2. attached \subseteq Socket /\ attached' = attached
    BY <1>1 DEF SocketTypeOK
  <2> QED
    BY <1>7, <2>1, <2>2 DEF RuntimesKept
<1>10. \A x \in Socket \ {s} : SocketSound(x)'
  <2> TAKE x \in Socket \ {s}
  <2>1. SocketKept(x)
    BY <1>1, <1>7 DEF SocketKept
  <2> QED
    BY <1>1, <1>3, <1>9, <2>1, SoundKept
<1>11. Unopened(s) /\ Waits(s) /\ Unattached(s) /\ Attached(s) /\ Silent(s) /\ Kept(s)
  BY <1>2 DEF SocketSound
<1>12. Unopened(s)' /\ Waits(s)'
  BY <1>1, <1>3, <1>5, <1>7, <1>11 DEF Unopened, Waits
<1>13. Unattached(s)'
  <2>1. Named(tail, {"frame"}, s)' => Named(tail, {"frame"}, s)
    BY <1>3 DEF Named
  <2> QED
    BY <1>1, <1>5, <1>7, <1>11, <2>1 DEF Unattached
<1>14. Attached(s)'
  <2>1. Named(tail, {"detach"}, s) => Named(tail, {"detach"}, s)'
    BY <1>3 DEF Named
  <2>2. \A x \in attached \ {s} : sock'[x].runtime = sock[x].runtime /\ sock'[s].runtime = sock[s].runtime
    BY <1>1, <1>5, <1>7, <1>9 DEF RuntimesKept
  <2> QED
    BY <1>1, <1>5, <1>7, <1>11, <2>1, <2>2 DEF Attached
<1>15. Silent(s)'
  BY <1>1, <1>5, <1>7, <1>11 DEF Attached, Silent
<1>16. Kept(s)'
  <2> SUFFICES ASSUME sock'[s].link = "open", sock'[s].dropped = Never
               PROVE  Kept(s)'
    BY DEF Kept
  <2>1. sock'[s] = a /\ s \in attached /\ sock[s].link = "open" /\ sock[s].dropped = Never
    BY <1>5, <1>7
  <2> DEFINE n == Len(sock[s].served)
  <2>2. sock[s].buffer = <<>>
    BY <1>1, <1>11, <2>1 DEF Kept
  <2>3. n \in Nat /\ sock[s].arrived \in Nat /\ sock[s].served \in Seq(Nat)
    BY <1>2 DEF SocketRecord
  <2>4. /\ From(sock[s].served, 0) /\ n <= sock[s].arrived
        /\ FramesWait(tail, s, n + 1, sock[s].arrived)
    <3>1. Len(<<>>) = 0 /\ n + 0 = n /\ n + 0 + 0 = n
      BY <2>3
    <3> HIDE DEF Flushing, FramesWait, From
    <3>2. LET flushed == n + Len(Flushing(s))
              held == flushed + Len(sock[s].buffer)
          IN /\ From(sock[s].served, 0) /\ held <= sock[s].arrived
             /\ FramesWait(tail, s, held + 1, sock[s].arrived)
      BY <1>11, <2>1 DEF Kept
    <3> HIDE DEF n
    <3> QED
      BY <1>3, <2>2, <3>1, <3>2
  <2>5. frame = n + 1 /\ n + 1 <= sock[s].arrived /\ FramesWait(tail', s, n + 1 + 1, sock[s].arrived)
    <3> HIDE DEF n
    <3>1. Head(tail).socket = s /\ frame = Head(tail).frame
      BY <1>3a
    <3>2. n + 1 \in Int /\ sock[s].arrived \in Int
      BY <2>3
    <3> QED
      BY <1>1, <1>3a, <2>4, <3>1, <3>2, FrameTaken
  <2>6. sock'[s].served = Append(sock[s].served, n + 1) /\ sock'[s].buffer = <<>> /\ sock'[s].arrived = sock[s].arrived
    BY <1>5, <2>1, <2>2, <2>5
  <2>7. Len(sock'[s].served) = n + 1 /\ From(sock'[s].served, 0)
    BY <2>3, <2>4, <2>6 DEF From
  <2> HIDE DEF n
  <2>8. Len(<<>>) = 0 /\ From(<<>>, n + 1) /\ From(<<>>, n + 1 + 0) /\ n + 1 + 0 = n + 1 /\ n + 1 + 0 + 0 = n + 1 /\ n + 1 \in Nat
    BY <2>3 DEF From
  <2> HIDE DEF FramesWait, Flushing, From
  <2>9. FramesWait(tail', s, n + 1 + 0 + Len(sock'[s].buffer) + 1, sock'[s].arrived)
    BY <2>5, <2>6, <2>8
  <2>10. From(sock'[s].buffer, n + 1 + 0) /\ n + 1 + 0 + Len(sock'[s].buffer) <= sock'[s].arrived
    BY <2>5, <2>6, <2>8
  <2> QED
    BY <1>2, <1>3, <2>6, <2>7, <2>8, <2>9, <2>10, KeptAfter
<1> QED
  BY <1>1, <1>8, <1>3, <1>10, <1>12, <1>13, <1>14, <1>15, <1>16 DEF SocketSound

(* A socket that no longer is attached: nothing of it is flushed, it stays  *)
(* as it was but that it may be closing, and what was served is all it gets. *)
LEMMA DroppedSound ==
  ASSUME SocketInv, NEW s \in attached, s \notin attached',
         sock'[s].link = "closed" \/ sock'[s].link \in {"open", "closing"},
         sock'[s].served = sock[s].served, sock'[s].dropped = Len(sock[s].served), ~AttachWaits(s)'
  PROVE  SocketSound(s)'
<1>1. Len(sock[s].served) \in Nat
  BY DEF SocketInv, SocketTypeOK, SocketRecord
<1>2. sock'[s].dropped # Never
  BY <1>1 DEF Never
<1> QED
  BY <1>2 DEF SocketSound, Unopened, Waits, Unattached, Attached, Silent, Kept

(* An attached socket has been opened, and its attachment does not wait. *)
LEMMA AttachedOpened ==
  ASSUME SocketInv, NEW s \in attached
  PROVE  s \in Socket /\ sock[s].link \in {"open", "closing", "closed"} /\ ~AttachWaits(s)
<1>1. s \in Socket
  BY DEF SocketInv, SocketTypeOK
<1>2. sock[s] \in SocketRecord /\ Unopened(s) /\ Waits(s)
  BY <1>1 DEF SocketInv, SocketTypeOK, SocketSound
<1> QED
  BY <1>1, <1>2 DEF Unopened, Waits, SocketRecord

(* #sockets is emptied, and all of them closed. *)
LEMMA AllDropped ==
  ASSUME SocketInv, tail # <<>>, Head(tail).op \in {"remove", "restart"}, run.at = "start", Ends, DropAll,
         removed' \in BOOLEAN, calls' \in [{"remove", "restart"} -> {"idle", "called", "done"}],
         calls'["remove"] = "done" => removed'
  PROVE  SocketInv'
<1> USE DEF SocketInv
<1>1. /\ attached' = {} /\ run.rest = <<>>
      /\ \A x \in attached : sock'[x] = [Shut(sock[x]) EXCEPT !.dropped = Len(sock[x].served)]
      /\ \A x \in Socket \ attached : sock'[x] = sock[x]
      /\ sock' = [x \in Socket |-> sock'[x]]
  BY DEF DropAll, Each, RunSound, SocketTypeOK
<1>2. \A x \in Socket : sock[x] \in SocketRecord
  BY DEF SocketTypeOK
<1>3. \A x \in Socket : sock'[x] \in SocketRecord
  BY <1>1, <1>2, Records
<1>4. /\ tail' \in Seq(QueueEntry) /\ RunSound' /\ AttachesOnce'
      /\ run' \in [at : {"start", "release", "flush"}, previous : SUBSET Socket, rest : Seq(Nat)]
      /\ \A x \in Socket : QueueKept(x) /\ (AttachWaits(x)' => AttachWaits(x))
  BY <1>1, OperationEnded DEF Takes
<1>5. SocketTypeOK'
  BY <1>1, <1>3, <1>4 DEF SocketTypeOK
<1>6. \A x \in Socket \ attached : SocketSound(x)'
  <2> TAKE x \in Socket \ attached
  <2>1. SocketKept(x)
    BY <1>1 DEF SocketKept
  <2>2. RuntimesKept
    BY <1>1 DEF RuntimesKept
  <2> QED
    BY <1>4, <2>1, <2>2, SoundKept
<1>7. \A x \in attached : SocketSound(x)'
  <2> TAKE x \in attached
  <2>1. x \in Socket /\ sock[x].link \in {"open", "closing", "closed"} /\ ~AttachWaits(x)
    BY AttachedOpened
  <2>2. Shut(sock[x]) \in SocketRecord /\ Shut(sock[x]).link \in {"open", "closing", "closed"}
        /\ Shut(sock[x]).served = sock[x].served
    BY <1>2, <2>1 DEF Shut, SocketRecord
  <2>3. /\ sock'[x].link \in {"open", "closing", "closed"} /\ sock'[x].served = sock[x].served
        /\ sock'[x].dropped = Len(sock[x].served)
    BY <1>1, <2>2 DEF SocketRecord
  <2> QED
    BY <1>1, <1>4, <2>1, <2>3, DroppedSound
<1> QED
  BY <1>1, <1>4, <1>5, <1>6, <1>7 DEF SocketTypeOK

LEMMA RunRestartStep ==
  ASSUME SocketInv, RunRestart
  PROVE  SocketInv'
<1>1. /\ tail # <<>> /\ Head(tail).op \in {"remove", "restart"} /\ run.at = "start" /\ Ends /\ DropAll
      /\ calls' = [calls EXCEPT !["restart"] = "done"] /\ removed' = removed
  BY DEF RunRestart, Runs
<1>2. /\ removed' \in BOOLEAN /\ calls' \in [{"remove", "restart"} -> {"idle", "called", "done"}]
      /\ calls'["remove"] = "done" => removed'
  BY <1>1 DEF SocketInv, SocketTypeOK
<1> QED
  BY <1>1, <1>2, AllDropped

LEMMA RunRemovalStep ==
  ASSUME SocketInv, RunRemoval
  PROVE  SocketInv'
<1> USE DEF SocketInv
<1>1. tail # <<>> /\ Head(tail).op = "remove" /\ run.at = "start" /\ Ends
  BY DEF RunRemoval, Runs
<1>2. CASE removed' = TRUE /\ DropAll /\ calls' = [calls EXCEPT !["remove"] = "done"]
  <2>1. /\ removed' \in BOOLEAN /\ calls' \in [{"remove", "restart"} -> {"idle", "called", "done"}]
        /\ calls'["remove"] = "done" => removed'
    BY <1>2 DEF SocketTypeOK
  <2> QED
    BY <1>1, <1>2, <2>1, AllDropped
<1>3. CASE removed' \in {removed, TRUE} /\ calls' = [calls EXCEPT !["remove"] = "idle"] /\ UNCHANGED <<sock, attached>>
  <2>1. run.rest = <<>>
    BY <1>1 DEF RunSound
  <2>2. /\ tail' \in Seq(QueueEntry) /\ RunSound' /\ AttachesOnce' /\ \A x \in Socket : QueueKept(x)
        /\ run' \in [at : {"start", "release", "flush"}, previous : SUBSET Socket, rest : Seq(Nat)]
    BY <1>1, <2>1, OperationEnded DEF Takes
  <2>3. SocketTypeOK' /\ RuntimesKept /\ \A x \in Socket : SocketKept(x)
    BY <1>1, <1>3, <2>2 DEF SocketTypeOK, RuntimesKept, SocketKept
  <2>4. calls'["remove"] # "done"
    BY <1>3 DEF SocketTypeOK
  <2> QED
    BY <1>3, <2>2, <2>3, <2>4, QuietStep
<1> QED
  BY <1>2, <1>3 DEF RunRemoval

(* Of goes from #sockets, or was not there. *)
LEMMA OneDropped ==
  ASSUME SocketInv, NEW s \in Socket, attached' = attached \ {s}, SocketTypeOK', RunSound', AttachesOnce',
         removed' = removed, calls' = calls, \A x \in Socket \ {s} : QueueKept(x) /\ SocketKept(x) /\ sock'[x] = sock[x],
         SocketSound(s)'
  PROVE  SocketInv'
<1> USE DEF SocketInv
<1>1. RuntimesKept
  BY DEF RuntimesKept, SocketTypeOK
<1>2. \A x \in Socket \ {s} : SocketSound(x)'
  BY <1>1, SoundKept
<1> QED
  BY <1>2

LEMMA DetachSocketNowStep ==
  ASSUME SocketInv, DetachSocketNow
  PROVE  SocketInv'
<1> USE DEF SocketInv
<1>0. /\ tail # <<>> /\ Head(tail).op = "detach" /\ run.at = "start" /\ run.rest = <<>> /\ Ends
      /\ UNCHANGED <<removed, calls>>
  BY DEF DetachSocketNow, Runs, RunSound
<1> SUFFICES ASSUME NEW s \in Socket, s = Of
             PROVE  SocketInv'
  BY <1>0, HeadNamed DEF SocketOp
<1>1. attached' = attached \ {s} /\ sock' = Each({s} \cap attached, Drop) /\ Head(tail).socket = s
  BY DEF DetachSocketNow, Of
<1>2. /\ tail' \in Seq(QueueEntry) /\ RunSound' /\ AttachesOnce' /\ \A x \in Socket : QueueKept(x)
      /\ run' \in [at : {"start", "release", "flush"}, previous : SUBSET Socket, rest : Seq(Nat)]
      /\ AttachWaits(s)' => AttachWaits(s)
  BY <1>0, <1>1, OperationEnded DEF Takes
<1>3. /\ sock' = [x \in Socket |-> sock'[x]] /\ \A x \in Socket \ {s} : sock'[x] = sock[x]
      /\ s \in attached => sock'[s] = Drop(sock[s])
      /\ s \notin attached => sock'[s] = sock[s]
  BY <1>1 DEF Each, SocketTypeOK
<1>4. \A x \in Socket : sock'[x] \in SocketRecord
  <2>1. \A x \in Socket : sock[x] \in SocketRecord
    BY DEF SocketTypeOK
  <2> QED
    BY <1>3, <2>1, Records
<1>5. SocketTypeOK'
  BY <1>0, <1>1, <1>2, <1>3, <1>4 DEF SocketTypeOK
<1>6. \A x \in Socket \ {s} : SocketKept(x)
  BY <1>0, <1>3 DEF SocketKept
<1>7. SocketSound(s)'
  <2>1. CASE s \in attached
    <3>1. sock[s].link \in {"open", "closing", "closed"} /\ ~AttachWaits(s)
      BY <2>1, AttachedOpened
    <3>2. /\ sock'[s].link = sock[s].link /\ sock'[s].served = sock[s].served
          /\ sock'[s].dropped = Len(sock[s].served)
      BY <1>3, <2>1 DEF Drop, SocketTypeOK, SocketRecord
    <3> QED
      BY <1>1, <1>2, <2>1, <3>1, <3>2, DroppedSound
  <2>2. CASE s \notin attached
    <3>1. SocketKept(s)
      BY <1>0, <1>3, <2>2 DEF SocketKept
    <3>2. RuntimesKept
      BY <1>1, <1>3, <2>2 DEF RuntimesKept, SocketTypeOK
    <3> QED
      BY <1>2, <2>2, <3>1, <3>2, SoundKept
  <2> QED
    BY <2>1, <2>2
<1> QED
  BY <1>0, <1>1, <1>2, <1>5, <1>6, <1>7, <1>3, OneDropped

LEMMA GreetStep ==
  ASSUME SocketInv, Greet
  PROVE  SocketInv'
<1> USE DEF SocketInv
<1>0. /\ tail # <<>> /\ Head(tail).op = "attach" /\ run.at = "flush" /\ run.rest = <<>> /\ Ends
      /\ UNCHANGED <<removed, calls>>
  BY DEF Greet, Runs
<1>1. /\ tail' \in Seq(QueueEntry) /\ RunSound' /\ AttachesOnce' /\ \A x \in Socket : QueueKept(x)
      /\ run' \in [at : {"start", "release", "flush"}, previous : SUBSET Socket, rest : Seq(Nat)]
      /\ \A x \in Socket : AttachWaits(x)' => AttachWaits(x)
  BY <1>0, OperationEnded DEF Takes
<1>2. CASE UNCHANGED <<sock, attached>>
  <2>1. SocketTypeOK' /\ RuntimesKept
    BY <1>0, <1>1, <1>2 DEF SocketTypeOK, RuntimesKept
  <2>2. \A x \in Socket : SocketKept(x)
    BY <1>0, <1>2 DEF SocketKept
  <2> QED
    BY <1>0, <1>1, <1>2, <2>1, <2>2, QuietStep
<1>3. ASSUME attached' = attached \ {Of}, sock' = [sock EXCEPT ![Of] = [Shut(Drop(@)) EXCEPT !.known = FALSE]]
      PROVE  SocketInv'
  <2> SUFFICES ASSUME NEW s \in Socket, s = Of
               PROVE  SocketInv'
    BY <1>0, HeadNamed DEF SocketOp
  <2>1. s \in attached
    BY <1>0 DEF RunSound, Of
  <2>2. sock[s].link \in {"open", "closing", "closed"} /\ ~AttachWaits(s)
    BY <2>1, AttachedOpened
  <2>3. /\ sock'[s] = [Shut(Drop(sock[s])) EXCEPT !.known = FALSE] /\ \A x \in Socket \ {s} : sock'[x] = sock[x]
        /\ sock' = [sock EXCEPT ![s] = sock'[s]]
    BY <1>3 DEF SocketTypeOK
  <2>4. /\ Drop(sock[s]) \in SocketRecord /\ Drop(sock[s]).link = sock[s].link
        /\ Drop(sock[s]).served = sock[s].served /\ Drop(sock[s]).dropped = Len(sock[s].served)
    <3>1. sock[s] \in SocketRecord
      BY DEF SocketTypeOK
    <3>2. Drop(sock[s]) \in SocketRecord
      BY <3>1, Records
    <3> QED
      BY <3>1, <3>2 DEF Drop, SocketRecord
  <2> DEFINE d == Drop(sock[s])
             r == Shut(d)
  <2>5. /\ r \in SocketRecord /\ r.link \in {"open", "closing", "closed"} /\ r.served = sock[s].served
        /\ r.dropped = Len(sock[s].served)
    <3> HIDE DEF d
    <3>1. r \in SocketRecord
      BY <2>4, Records DEF d
    <3>2. d \in SocketRecord /\ d.link = sock[s].link /\ d.served = sock[s].served /\ d.dropped = Len(sock[s].served)
      BY <2>4 DEF d
    <3> QED
      BY <2>2, <3>1, <3>2 DEF Shut, SocketRecord
  <2>6. /\ sock'[s] \in SocketRecord /\ sock'[s].link \in {"open", "closing", "closed"}
        /\ sock'[s].served = sock[s].served /\ sock'[s].dropped = Len(sock[s].served)
    <3>1. sock'[s] = [r EXCEPT !.known = FALSE]
      BY <2>3
    <3> HIDE DEF r
    <3> QED
      BY <2>5, <3>1 DEF SocketRecord
  <2>7. SocketTypeOK'
    BY <1>0, <1>1, <1>3, <2>3, <2>6 DEF SocketTypeOK
  <2>8. \A x \in Socket \ {s} : SocketKept(x)
    BY <1>0, <2>3 DEF SocketKept
  <2>9. SocketSound(s)'
    BY <1>1, <1>3, <2>1, <2>2, <2>6, DroppedSound
  <2> QED
    BY <1>0, <1>1, <1>3, <2>3, <2>7, <2>8, <2>9, OneDropped
<1> QED
  BY <1>2, <1>3 DEF Greet

(* An operation goes on: the queue is as it was, and of no other socket are *)
(* frames flushed.                                                          *)
LEMMA OperationProceeds ==
  ASSUME SocketInv, tail # <<>>, Head(tail).op = "attach", tail' = tail, NEW s \in Socket, s = Of,
         run'.at \in {"release", "flush"}
  PROVE  /\ AttachesOnce' /\ ~AttachWaits(s)'
         /\ \A x \in Socket : /\ AttachWaits(x)' => AttachWaits(x)
                              /\ \A ops : Named(tail', ops, x) <=> Named(tail, ops, x)
         /\ \A x \in Socket \ {s} : QueueKept(x)
<1> USE DEF SocketInv
<1>1. /\ tail \in Seq(QueueEntry) /\ Head(tail) = tail[1] /\ 1 \in DOMAIN tail /\ tail[1].op = "attach"
      /\ tail[1].socket = s
  BY QueueTail DEF SocketTypeOK, Of
<1>2. AttachesOnce'
  BY DEF AttachesOnce
<1>3. ~AttachWaits(s)'
  BY <1>1 DEF AttachWaits, AttachesOnce
<1>4. \A x \in Socket : AttachWaits(x)' => AttachWaits(x)
  BY DEF AttachWaits
<1>5. \A x \in Socket : \A ops : Named(tail', ops, x) <=> Named(tail, ops, x)
  BY DEF Named
<1>6. \A x \in Socket \ {s} : QueueKept(x)
  <2> TAKE x \in Socket \ {s}
  <2>1. Flushing(x)' = Flushing(x)
    BY <1>1 DEF Flushing
  <2>2. \A n, m \in Int : FramesWait(tail, x, n, m) => FramesWait(tail, x, n, m)'
    BY DEF FramesWait
  <2> QED
    BY <1>4, <2>1, <2>2 DEF QueueKept, Named
<1> QED
  BY <1>2, <1>3, <1>4, <1>5, <1>6

LEMMA FlushNextStep ==
  ASSUME SocketInv, FlushNext
  PROVE  SocketInv'
<1> USE DEF SocketInv
<1>0. /\ tail # <<>> /\ Head(tail).op = "attach" /\ run.at = "flush" /\ run.rest # <<>> /\ tail' = tail
      /\ run' = [at |-> "flush", previous |-> {}, rest |-> Tail(run.rest)]
      /\ UNCHANGED <<attached, removed, calls>>
  BY DEF FlushNext, Runs, Proceeds
<1> DEFINE frame == Head(run.rest)
<1>1. run.rest \in Seq(Nat) /\ frame \in Nat /\ Tail(run.rest) \in Seq(Nat) /\ frame = run.rest[1] /\ 1 \in DOMAIN run.rest
      /\ Len(run.rest) \in Nat /\ Len(Tail(run.rest)) = Len(run.rest) - 1
  BY <1>0 DEF SocketTypeOK
<1> SUFFICES ASSUME NEW s \in Socket, s = Of
             PROVE  SocketInv'
  BY <1>0, HeadNamed DEF SocketOp
<1>2. /\ s \in attached /\ sock[s] \in SocketRecord /\ Head(tail).socket = s
      /\ \/ sock' = [sock EXCEPT ![s] = [sock[s] EXCEPT !.served = Append(@, frame)]]
         \/ sock' = [sock EXCEPT ![s] = Shut([sock[s] EXCEPT !.served = Append(@, frame)])]
  BY <1>0 DEF FlushNext, Serve, RunSound, Of, SocketTypeOK
<1>3. run'.at = "flush" /\ run'.rest = Tail(run.rest) /\ run' \in [at : {"start", "release", "flush"}, previous : SUBSET Socket, rest : Seq(Nat)]
  BY <1>0, <1>1
<1>4. /\ AttachesOnce' /\ ~AttachWaits(s)' /\ \A x \in Socket \ {s} : QueueKept(x)
      /\ \A ops : Named(tail', ops, s) <=> Named(tail, ops, s)
  BY <1>0, <1>3, OperationProceeds
<1>5. RunSound'
  BY <1>0, <1>3 DEF RunSound
<1> HIDE DEF frame
<1> DEFINE a == [sock[s] EXCEPT !.served = Append(@, frame)]
           b == Shut(a)
<1>6. a \in SocketRecord /\ b \in SocketRecord
  BY <1>1, <1>2, Records
<1>7. /\ \A new \in {a, b} : /\ new.gone = sock[s].gone /\ new.dropped = sock[s].dropped
                             /\ new.runtime = sock[s].runtime
                             /\ new.link = "closed" => sock[s].link = "closed"
                             /\ new.link \in {"away", "upgrading"} => sock[s].link \in {"away", "upgrading"}
      /\ b.link # "open"
      /\ a.link = sock[s].link /\ a.buffer = sock[s].buffer /\ a.arrived = sock[s].arrived
      /\ a.served = Append(sock[s].served, frame)
  <2>1. /\ a.gone = sock[s].gone /\ a.dropped = sock[s].dropped /\ a.runtime = sock[s].runtime
        /\ a.link = sock[s].link /\ a.buffer = sock[s].buffer /\ a.arrived = sock[s].arrived
        /\ a.served = Append(sock[s].served, frame)
    BY <1>2 DEF SocketRecord
  <2>2. /\ b.gone = a.gone /\ b.dropped = a.dropped /\ b.runtime = a.runtime
        /\ b.link = IF a.link = "open" THEN "closing" ELSE a.link
    <3> HIDE DEF a
    <3> QED
      BY <1>6 DEF Shut, SocketRecord
  <2> HIDE DEF a, b
  <2> QED
    BY <2>1, <2>2
<1>8. sock' = [sock EXCEPT ![s] = a] \/ sock' = [sock EXCEPT ![s] = b]
  BY <1>2
<1> HIDE DEF a, b
<1>9. /\ sock' \in [Socket -> SocketRecord] /\ \A x \in Socket \ {s} : sock'[x] = sock[x]
      /\ sock'[s] \in {a, b}
  BY <1>6, <1>8 DEF SocketTypeOK
<1>10. SocketTypeOK'
  BY <1>0, <1>3, <1>9 DEF SocketTypeOK
<1>11. RuntimesKept
  <2>1. sock'[s].runtime = sock[s].runtime
    BY <1>7, <1>9
  <2>2. attached \subseteq Socket /\ attached' = attached
    BY <1>0 DEF SocketTypeOK
  <2> QED
    BY <1>9, <2>1, <2>2 DEF RuntimesKept
<1>12. \A x \in Socket \ {s} : SocketSound(x)'
  <2> TAKE x \in Socket \ {s}
  <2>1. SocketKept(x)
    BY <1>0, <1>2, <1>9 DEF SocketKept
  <2> QED
    BY <1>0, <1>4, <1>11, <2>1, SoundKept
<1>13. Unopened(s) /\ Waits(s) /\ Unattached(s) /\ Attached(s) /\ Silent(s) /\ Kept(s)
  BY DEF SocketSound
<1>14. Unopened(s)' /\ Waits(s)' /\ Unattached(s)' /\ Silent(s)'
  BY <1>0, <1>2, <1>4, <1>7, <1>9, <1>13 DEF Unopened, Waits, Unattached, Attached, Silent
<1>15. Attached(s)'
  <2>1. Named(tail, {"detach"}, s) => Named(tail, {"detach"}, s)'
    BY <1>0 DEF Named
  <2>2. \A x \in attached \ {s} : sock'[x].runtime = sock[x].runtime /\ sock'[s].runtime = sock[s].runtime
    BY <1>0, <1>2, <1>11 DEF RuntimesKept
  <2> QED
    BY <1>0, <1>7, <1>9, <1>13, <2>1, <2>2 DEF Attached
<1>16. Kept(s)'
  <2> SUFFICES ASSUME sock'[s].link = "open", sock'[s].dropped = Never
               PROVE  Kept(s)'
    BY DEF Kept
  <2>1. sock'[s] = a /\ sock[s].link = "open" /\ sock[s].dropped = Never
    BY <1>7, <1>9
  <2> DEFINE n == Len(sock[s].served)
             rest == run.rest
             m == Len(rest)
  <2>2. sock[s].buffer = <<>> /\ Flushing(s) = rest /\ Flushing(s)' = Tail(rest)
    BY <1>0, <1>2, <1>3, <1>13, <2>1 DEF Kept, Flushing
  <2>3. /\ n \in Nat /\ sock[s].arrived \in Nat /\ sock[s].served \in Seq(Nat) /\ m \in Nat /\ m # 0
        /\ Len(Tail(rest)) = m - 1 /\ m - 1 \in Nat /\ rest \in Seq(Nat)
    BY <1>1, <1>2 DEF SocketRecord
  <2>4. /\ From(sock[s].served, 0) /\ From(rest, n) /\ n + m <= sock[s].arrived
        /\ FramesWait(tail, s, n + m + 1, sock[s].arrived)
    <3> HIDE DEF Flushing, FramesWait, From, rest
    <3>1. LET flushed == n + Len(Flushing(s))
              held == flushed + Len(sock[s].buffer)
          IN /\ From(sock[s].served, 0) /\ From(Flushing(s), n) /\ held <= sock[s].arrived
             /\ FramesWait(tail, s, held + 1, sock[s].arrived)
      BY <1>13, <2>1 DEF Kept
    <3>2. Len(<<>>) = 0 /\ n + m + 0 = n + m
      BY <2>3
    <3> HIDE DEF n
    <3>3. Len(Flushing(s)) = m
      BY <2>2
    <3> HIDE DEF m
    <3> QED
      BY <2>2, <3>1, <3>2, <3>3
  <2>5. frame = n + 1 /\ From(Tail(rest), n + 1)
    <3>1. frame = n + 1
      BY <1>1, <2>4 DEF From
    <3>2. \A i \in DOMAIN Tail(rest) : i \in Nat /\ i + 1 \in DOMAIN rest /\ Tail(rest)[i] = rest[i + 1]
      BY <1>0, <2>3
    <3>3. \A i \in DOMAIN Tail(rest) : Tail(rest)[i] = n + 1 + i
      <4> TAKE i \in DOMAIN Tail(rest)
      <4>1. rest[i + 1] = n + (i + 1) /\ i \in Nat /\ Tail(rest)[i] = rest[i + 1]
        BY <2>4, <3>2 DEF From
      <4> HIDE DEF n, rest
      <4> QED
        BY <2>3, <4>1
    <3> QED
      BY <3>1, <3>3 DEF From
  <2>6. sock'[s].served = Append(sock[s].served, n + 1) /\ sock'[s].buffer = <<>> /\ sock'[s].arrived = sock[s].arrived
    BY <1>7, <2>1, <2>2, <2>5
  <2>7. Len(sock'[s].served) = n + 1 /\ From(sock'[s].served, 0)
    BY <2>3, <2>4, <2>6 DEF From
  <2> HIDE DEF n, m, rest
  <2>8. /\ Len(<<>>) = 0 /\ From(<<>>, n + 1 + (m - 1)) /\ n + 1 + (m - 1) = n + m
        /\ n + 1 + (m - 1) + 0 = n + m /\ n + 1 \in Nat
    BY <2>3 DEF From
  <2> HIDE DEF FramesWait, Flushing, From
  <2>9. FramesWait(tail', s, n + 1 + (m - 1) + Len(sock'[s].buffer) + 1, sock'[s].arrived)
    BY <1>0, <2>4, <2>6, <2>8
  <2>10. From(sock'[s].buffer, n + 1 + (m - 1)) /\ n + 1 + (m - 1) + Len(sock'[s].buffer) <= sock'[s].arrived
    BY <2>4, <2>6, <2>8
  <2> QED
    BY <2>2, <2>3, <2>5, <2>6, <2>7, <2>8, <2>9, <2>10, KeptAfter
<1> QED
  BY <1>0, <1>4, <1>5, <1>10, <1>12, <1>14, <1>15, <1>16 DEF SocketSound

(* Shutting a socket touches its link alone. *)
LEMMA ShutFields ==
  ASSUME NEW r \in SocketRecord
  PROVE  /\ Shut(r) \in SocketRecord
         /\ Shut(r).link = IF r.link = "open" THEN "closing" ELSE r.link
         /\ Shut(r).gone = r.gone /\ Shut(r).dropped = r.dropped /\ Shut(r).served = r.served
         /\ Shut(r).runtime = r.runtime /\ Shut(r).buffer = r.buffer /\ Shut(r).arrived = r.arrived
<1>1. Shut(r) \in SocketRecord
  BY Records
<1> QED
  BY <1>1 DEF Shut, SocketRecord

(* A field that changes leaves the others alone. *)
LEMMA BufferSet ==
  ASSUME NEW r \in SocketRecord, NEW buffer \in Seq(Nat), NEW new, new = [r EXCEPT !.buffer = buffer]
  PROVE  /\ new \in SocketRecord /\ new.link = r.link /\ new.gone = r.gone /\ new.dropped = r.dropped
         /\ new.served = r.served /\ new.runtime = r.runtime /\ new.arrived = r.arrived
         /\ new.buffer = buffer
<1>1. new \in SocketRecord
  BY DEF SocketRecord
<1> QED
  BY <1>1 DEF SocketRecord

LEMMA KnownCleared ==
  ASSUME NEW r \in SocketRecord, NEW new, new = [r EXCEPT !.known = FALSE]
  PROVE  /\ new \in SocketRecord /\ new.link = r.link /\ new.gone = r.gone /\ new.dropped = r.dropped
         /\ new.served = r.served /\ new.runtime = r.runtime
<1>1. new \in SocketRecord
  BY DEF SocketRecord
<1> QED
  BY <1>1 DEF SocketRecord

(* What was buffered stays so. *)
LEMMA BufferStays ==
  ASSUME SocketInv, NEW s \in Socket, Flushing(s) = <<>>, Flushing(s)' = <<>>, tail' = tail,
         sock[s].dropped = Never, sock'[s].link = "open" => sock[s].link = "open",
         sock'[s].served = sock[s].served, sock'[s].buffer = sock[s].buffer, sock'[s].arrived = sock[s].arrived,
         s \in attached' /\ sock[s].buffer # <<>> => run'.at = "release" /\ Head(tail').socket = s
  PROVE  Kept(s)'
<1> SUFFICES ASSUME sock'[s].link = "open"
             PROVE  Kept(s)'
  BY DEF Kept
<1>1. sock[s] \in SocketRecord /\ Kept(s)
  BY DEF SocketInv, SocketTypeOK, SocketSound
<1> DEFINE n == Len(sock[s].served)
           m == Len(sock[s].buffer)
<1>2. n \in Nat /\ m \in Nat /\ sock[s].arrived \in Nat
  BY <1>1 DEF SocketRecord
<1>3. /\ From(sock[s].served, 0) /\ From(sock[s].buffer, n + 0) /\ n + 0 + m <= sock[s].arrived
      /\ FramesWait(tail', s, n + 0 + m + 1, sock[s].arrived)
  <2> HIDE DEF Flushing, FramesWait, From
  <2>1. LET flushed == n + Len(Flushing(s))
            held == flushed + m
        IN /\ From(sock[s].served, 0) /\ From(sock[s].buffer, flushed)
           /\ held <= sock[s].arrived /\ FramesWait(tail, s, held + 1, sock[s].arrived)
    BY <1>1 DEF Kept
  <2> HIDE DEF n, m
  <2>2. Len(Flushing(s)) = 0
    OBVIOUS
  <2> QED
    BY <2>1, <2>2
<1>4. Len(<<>>) = 0 /\ From(<<>>, n)
  BY DEF From
<1>5. Len(sock'[s].served) = n /\ Len(sock'[s].buffer) = m
  OBVIOUS
<1> HIDE DEF n, m
<1> HIDE DEF Flushing, FramesWait, From
<1>6. FramesWait(tail', s, n + 0 + Len(sock'[s].buffer) + 1, sock'[s].arrived)
  BY <1>3, <1>5
<1>7. /\ From(sock'[s].buffer, n + 0) /\ n + 0 + Len(sock'[s].buffer) <= sock'[s].arrived
      /\ From(sock'[s].served, 0)
  BY <1>3, <1>5
<1> QED
  BY <1>2, <1>4, <1>5, <1>6, <1>7, KeptAfter

(* What was buffered is flushed. *)
LEMMA BufferFlushed ==
  ASSUME SocketInv, NEW s \in Socket, Flushing(s) = <<>>, Flushing(s)' = sock[s].buffer, tail' = tail,
         sock[s].dropped = Never, sock'[s].link = "open" => sock[s].link = "open",
         sock'[s].served = sock[s].served, sock'[s].buffer = <<>>, sock'[s].arrived = sock[s].arrived
  PROVE  Kept(s)'
<1> SUFFICES ASSUME sock'[s].link = "open"
             PROVE  Kept(s)'
  BY DEF Kept
<1>1. sock[s] \in SocketRecord /\ Kept(s)
  BY DEF SocketInv, SocketTypeOK, SocketSound
<1> DEFINE n == Len(sock[s].served)
           m == Len(sock[s].buffer)
<1>2. n \in Nat /\ m \in Nat /\ sock[s].arrived \in Nat
  BY <1>1 DEF SocketRecord
<1>3. /\ From(sock[s].served, 0) /\ From(sock[s].buffer, n) /\ n + m <= sock[s].arrived
      /\ FramesWait(tail, s, n + m + 1, sock[s].arrived)
  <2> HIDE DEF Flushing, FramesWait, From
  <2>1. LET flushed == n + Len(Flushing(s))
            held == flushed + m
        IN /\ From(sock[s].served, 0) /\ From(sock[s].buffer, flushed)
           /\ held <= sock[s].arrived /\ FramesWait(tail, s, held + 1, sock[s].arrived)
    BY <1>1 DEF Kept
  <2> HIDE DEF n, m
  <2>2. Len(Flushing(s)) = 0 /\ n + 0 = n
    BY <1>2
  <2> QED
    BY <2>1, <2>2
<1>4. Len(<<>>) = 0 /\ From(<<>>, n + m) /\ n + m + 0 = n + m
  BY <1>2 DEF From
<1>5. Len(sock'[s].served) = n /\ Len(sock[s].buffer) = m
  OBVIOUS
<1> HIDE DEF n, m
<1> HIDE DEF Flushing, FramesWait, From
<1>6. FramesWait(tail', s, n + m + Len(sock'[s].buffer) + 1, sock'[s].arrived)
  BY <1>3, <1>4
<1>7. From(sock'[s].buffer, n + m) /\ n + m + Len(sock'[s].buffer) <= sock'[s].arrived /\ From(sock'[s].served, 0)
  BY <1>3, <1>4
<1> QED
  BY <1>2, <1>3, <1>5, <1>6, <1>7, KeptAfter

LEMMA ReleaseReplacedOffersStep ==
  ASSUME SocketInv, ReleaseReplacedOffers
  PROVE  SocketInv'
<1> USE DEF SocketInv
<1>0. /\ tail # <<>> /\ Head(tail).op = "attach" /\ run.at = "release" /\ run.rest = <<>>
      /\ UNCHANGED <<attached, removed, calls>>
  BY DEF ReleaseReplacedOffers, Runs, RunSound
<1> SUFFICES ASSUME NEW s \in Socket, s = Of
             PROVE  SocketInv'
  BY <1>0, HeadNamed DEF SocketOp
<1>1. /\ s \in attached /\ sock[s] \in SocketRecord /\ Head(tail).socket = s
      /\ \A x \in Socket : Flushing(x) = <<>>
  BY <1>0 DEF RunSound, Of, SocketTypeOK, Flushing
<1>2. CASE sock' = [Each(run.previous, Shut) EXCEPT ![Of].buffer = <<>>] /\ Proceeds("flush", {}, sock[Of].buffer)
  <2>1. /\ run'.at = "flush" /\ run'.rest = sock[s].buffer /\ tail' = tail
        /\ run' \in [at : {"start", "release", "flush"}, previous : SUBSET Socket, rest : Seq(Nat)]
    BY <1>1, <1>2 DEF Proceeds, SocketRecord
  <2>2. /\ AttachesOnce' /\ ~AttachWaits(s)' /\ \A x \in Socket \ {s} : QueueKept(x)
        /\ \A ops : Named(tail', ops, s) <=> Named(tail, ops, s)
    BY <1>0, <2>1, OperationProceeds
  <2>3. RunSound'
    BY <1>0, <1>1, <2>1 DEF RunSound
  <2> DEFINE each == Each(run.previous, Shut)
  <2>4. each \in [Socket -> SocketRecord] /\ \A x \in Socket : each[x] = sock[x] \/ each[x] = Shut(sock[x])
    BY ShutFields DEF Each, SocketTypeOK
  <2> HIDE DEF each
  <2>5. /\ sock' = [each EXCEPT ![s] = [each[s] EXCEPT !.buffer = <<>>]]
        /\ \A x \in Socket \ {s} : sock'[x] = each[x]
        /\ sock'[s] = [each[s] EXCEPT !.buffer = <<>>]
    BY <1>2, <2>4 DEF each
  <2>6. /\ sock'[s] \in SocketRecord /\ sock'[s].buffer = <<>> /\ sock'[s].link = each[s].link
        /\ sock'[s].gone = each[s].gone /\ sock'[s].dropped = each[s].dropped
        /\ sock'[s].served = each[s].served /\ sock'[s].runtime = each[s].runtime
        /\ sock'[s].arrived = each[s].arrived
    <3>1. <<>> \in Seq(Nat) /\ each[s] \in SocketRecord
      BY <2>4
    <3>2. sock'[s] = [each[s] EXCEPT !.buffer = <<>>]
      BY <2>5
    <3> QED
      <4>1. ASSUME NEW e \in SocketRecord, NEW new, new = [e EXCEPT !.buffer = <<>>]
            PROVE  /\ new \in SocketRecord /\ new.buffer = <<>> /\ new.link = e.link /\ new.gone = e.gone
                   /\ new.dropped = e.dropped /\ new.served = e.served /\ new.runtime = e.runtime
                   /\ new.arrived = e.arrived
        <5>1. <<>> \in Seq(Nat)
          OBVIOUS
        <5>2. new \in SocketRecord
          BY <4>1, <5>1 DEF SocketRecord
        <5> QED
          BY <4>1, <5>2 DEF SocketRecord
      <4> QED
        BY <3>1, <3>2, <4>1
  <2>7. \A x \in Socket : /\ each[x].gone = sock[x].gone /\ each[x].dropped = sock[x].dropped
                          /\ each[x].served = sock[x].served /\ each[x].runtime = sock[x].runtime
                          /\ each[x].buffer = sock[x].buffer /\ each[x].arrived = sock[x].arrived
                          /\ each[x].link = sock[x].link \/ (sock[x].link = "open" /\ each[x].link = "closing")
    BY <2>4, ShutFields DEF SocketTypeOK
  <2>8. SocketTypeOK'
    BY <1>0, <2>1, <2>4, <2>5, <2>6 DEF SocketTypeOK
  <2>9. RuntimesKept
    <3>1. \A x \in Socket : sock'[x].runtime = sock[x].runtime
      BY <2>5, <2>6, <2>7
    <3> QED
      BY <1>0, <3>1 DEF RuntimesKept, SocketTypeOK
  <2>10. \A x \in Socket \ {s} : SocketSound(x)'
    <3> TAKE x \in Socket \ {s}
    <3>1. SocketKept(x)
      BY <1>1, <2>5, <2>7 DEF SocketKept
    <3> QED
      BY <1>0, <2>2, <2>9, <3>1, SoundKept
  <2>11. Unopened(s) /\ Waits(s) /\ Unattached(s) /\ Attached(s) /\ Silent(s) /\ Kept(s)
    BY DEF SocketSound
  <2>12. Unopened(s)' /\ Waits(s)' /\ Unattached(s)' /\ Silent(s)'
    BY <1>0, <1>1, <2>2, <2>6, <2>7, <2>11 DEF Unopened, Waits, Unattached, Attached, Silent
  <2>13. Attached(s)'
    <3>1. Named(tail, {"detach"}, s) => Named(tail, {"detach"}, s)'
      BY <2>1 DEF Named
    <3>2. \A x \in attached \ {s} : sock'[x].runtime = sock[x].runtime /\ sock'[s].runtime = sock[s].runtime
      BY <1>0, <1>1, <2>9 DEF RuntimesKept
    <3> QED
      BY <1>0, <2>6, <2>7, <2>11, <3>1, <3>2 DEF Attached
  <2>14. Kept(s)'
    <3>1. Flushing(s)' = sock[s].buffer
      BY <1>0, <1>1, <2>1 DEF Flushing
    <3>2. sock[s].dropped = Never
      BY <1>1, <2>11 DEF Attached
    <3>3. sock'[s].link = "open" => sock[s].link = "open"
      BY <2>6, <2>7
    <3> HIDE DEF Flushing
    <3> QED
      BY <1>1, <2>1, <2>6, <2>7, <3>1, <3>2, <3>3, BufferFlushed
  <2> QED
    BY <1>0, <2>2, <2>3, <2>8, <2>10, <2>12, <2>13, <2>14 DEF SocketSound
<1>3. CASE Rejects
  <2>1. Ends /\ sock' = [sock EXCEPT ![s] = [Shut(sock[s]) EXCEPT !.known = FALSE]]
    BY <1>3 DEF Rejects
  <2>2. /\ tail' \in Seq(QueueEntry) /\ RunSound' /\ AttachesOnce' /\ \A x \in Socket : QueueKept(x)
        /\ run' \in [at : {"start", "release", "flush"}, previous : SUBSET Socket, rest : Seq(Nat)]
    BY <1>0, <2>1, OperationEnded DEF Takes
  <2> DEFINE c == Shut(sock[s])
  <2>3. /\ c \in SocketRecord /\ c.gone = sock[s].gone /\ c.dropped = sock[s].dropped
        /\ c.served = sock[s].served /\ c.runtime = sock[s].runtime
        /\ c.link = IF sock[s].link = "open" THEN "closing" ELSE sock[s].link
    BY <1>1, ShutFields
  <2> HIDE DEF c
  <2>4. /\ sock' = [sock EXCEPT ![s] = [c EXCEPT !.known = FALSE]] /\ \A x \in Socket \ {s} : sock'[x] = sock[x]
        /\ sock'[s] = [c EXCEPT !.known = FALSE]
    BY <2>1 DEF c, SocketTypeOK
  <2>5. /\ sock'[s] \in SocketRecord /\ sock'[s].link = c.link
        /\ sock'[s].gone = c.gone /\ sock'[s].dropped = c.dropped
        /\ sock'[s].served = c.served /\ sock'[s].runtime = c.runtime
    BY <2>3, <2>4, KnownCleared
  <2>6. SocketTypeOK'
    BY <1>0, <2>2, <2>4, <2>5 DEF SocketTypeOK
  <2>7. RuntimesKept
    <3>1. \A x \in Socket : sock'[x].runtime = sock[x].runtime
      BY <2>3, <2>4, <2>5
    <3> QED
      BY <1>0, <3>1 DEF RuntimesKept, SocketTypeOK
  <2>8. sock[s].link \notin {"away", "upgrading"}
    BY <1>0, HeadNamed DEF SocketOp
  <2>9. \A x \in Socket : SocketKept(x)
    BY <1>0, <1>1, <2>3, <2>4, <2>5, <2>8 DEF SocketKept
  <2> QED
    BY <1>0, <2>2, <2>6, <2>7, <2>9, QuietStep
<1> QED
  BY <1>2, <1>3 DEF ReleaseReplacedOffers

LEMMA AttachSocketNowStep ==
  ASSUME SocketInv, AttachSocketNow
  PROVE  SocketInv'
<1> USE DEF SocketInv
<1>0. /\ tail # <<>> /\ Head(tail).op = "attach" /\ run.at = "start" /\ run.rest = <<>> /\ ~removed
      /\ UNCHANGED <<removed, calls>>
  BY DEF AttachSocketNow, Runs, RunSound, ClawRemoved
<1> SUFFICES ASSUME NEW s \in Socket, s = Of
             PROVE  SocketInv'
  BY <1>0, HeadNamed DEF SocketOp
<1> DEFINE old == Replaces(s)
           buffer == IF old = {} THEN <<>> ELSE sock[s].buffer
<1>1. /\ attached' = (attached \ old) \cup {s}
      /\ sock' = [Each(old, Drop) EXCEPT ![s].buffer = IF old = {} THEN <<>> ELSE @]
      /\ IF old = {} THEN Proceeds("flush", {}, sock[s].buffer) ELSE Proceeds("release", old, <<>>)
      /\ ~sock[s].gone /\ Head(tail).socket = s
  BY DEF AttachSocketNow, Of
<1>2. /\ attached \subseteq Socket /\ sock[s] \in SocketRecord /\ Flushing(s) = <<>>
      /\ sock[s].buffer \in Seq(Nat) /\ <<>> \in Seq(Nat) /\ old \subseteq attached \ {s}
  BY <1>0 DEF SocketTypeOK, Flushing, Replaces, SocketRecord
<1>3. /\ tail' = tail /\ run' \in [at : {"start", "release", "flush"}, previous : SUBSET Socket, rest : Seq(Nat)]
      /\ old = {} => run'.at = "flush" /\ run'.rest = sock[s].buffer
      /\ old # {} => run'.at = "release" /\ run'.rest = <<>>
  <2>1. CASE old = {}
    <3>1. tail' = tail /\ run' = [at |-> "flush", previous |-> {}, rest |-> sock[s].buffer]
      BY <1>1, <2>1 DEF Proceeds
    <3> QED
      BY <1>2, <2>1, <3>1
  <2>2. CASE old # {}
    <3>1. tail' = tail /\ run' = [at |-> "release", previous |-> old, rest |-> <<>>]
      BY <1>1, <2>2 DEF Proceeds
    <3> HIDE DEF old
    <3> QED
      BY <1>2, <2>2, <3>1
  <2> QED
    BY <2>1, <2>2
<1>4. /\ AttachesOnce' /\ ~AttachWaits(s)' /\ \A x \in Socket \ {s} : QueueKept(x)
      /\ \A ops : Named(tail', ops, s) <=> Named(tail, ops, s)
      /\ \A x \in Socket : AttachWaits(x)' => AttachWaits(x)
  BY <1>0, <1>3, OperationProceeds
<1>5. RunSound'
  BY <1>0, <1>1, <1>3 DEF RunSound
<1>6. AttachWaits(s) /\ s \notin attached /\ sock[s].dropped = Never
  <2>1. AttachWaits(s)
    BY <1>0, <1>1, QueueTail DEF AttachWaits, SocketTypeOK
  <2> QED
    BY <2>1 DEF SocketSound, Waits
<1> DEFINE each == Each(old, Drop)
<1>7. /\ each \in [Socket -> SocketRecord] /\ each[s] = sock[s]
      /\ \A x \in old : each[x] = Drop(sock[x])
      /\ \A x \in Socket \ old : each[x] = sock[x]
  <2>1. \A x \in Socket : Drop(sock[x]) \in SocketRecord /\ sock[x] \in SocketRecord
    BY Records DEF SocketTypeOK
  <2> QED
    BY <1>2, <2>1 DEF Each
<1> HIDE DEF each
<1>8. /\ sock' = [each EXCEPT ![s] = [sock[s] EXCEPT !.buffer = IF old = {} THEN <<>> ELSE @]]
      /\ \A x \in Socket \ {s} : sock'[x] = each[x]
      /\ sock'[s] = [sock[s] EXCEPT !.buffer = IF old = {} THEN <<>> ELSE @]
  BY <1>1, <1>7 DEF each
<1>9. /\ sock'[s] \in SocketRecord /\ sock'[s].buffer = buffer /\ sock'[s].link = sock[s].link
      /\ sock'[s].gone = sock[s].gone /\ sock'[s].dropped = sock[s].dropped
      /\ sock'[s].served = sock[s].served /\ sock'[s].runtime = sock[s].runtime
      /\ sock'[s].arrived = sock[s].arrived
  <2>1. buffer \in Seq(Nat)
    BY <1>2
  <2>2. sock'[s] = [sock[s] EXCEPT !.buffer = buffer]
    BY <1>8
  <2> HIDE DEF buffer
  <2> QED
    BY <1>2, <2>1, <2>2, BufferSet
<1>10. \A x \in old : /\ sock'[x].runtime = sock[x].runtime /\ sock'[x].served = sock[x].served
                      /\ sock'[x].dropped = Len(sock[x].served) /\ sock'[x].link = sock[x].link
  <2> TAKE x \in old
  <2>1. sock[x] \in SocketRecord /\ sock'[x] = Drop(sock[x])
    BY <1>2, <1>7, <1>8 DEF SocketTypeOK
  <2> QED
    BY <2>1 DEF Drop, SocketRecord
<1>11. \A x \in Socket \ (old \cup {s}) : sock'[x] = sock[x]
  BY <1>7, <1>8
<1>12. SocketTypeOK'
  BY <1>0, <1>1, <1>2, <1>3, <1>7, <1>8, <1>9 DEF SocketTypeOK
<1>13. \A x \in old : SocketSound(x)'
  <2> TAKE x \in old
  <2>1. x \in attached /\ x # s /\ x \notin attached'
    BY <1>1, <1>2
  <2>2. sock[x].link \in {"open", "closing", "closed"} /\ ~AttachWaits(x) /\ x \in Socket
    BY <2>1, AttachedOpened
  <2> QED
    BY <1>4, <1>10, <2>1, <2>2, DroppedSound
<1>14. \A x \in Socket : sock'[x].runtime = sock[x].runtime
  BY <1>9, <1>10, <1>11
<1>15. ASSUME NEW x \in Socket \ (old \cup {s})
       PROVE  SocketSound(x)'
  <2>1. Unopened(x) /\ Waits(x) /\ Unattached(x) /\ Attached(x) /\ Silent(x) /\ Kept(x)
    BY DEF SocketSound
  <2>2. sock'[x] = sock[x] /\ (x \in attached' <=> x \in attached) /\ QueueKept(x) /\ x # s
    BY <1>1, <1>4, <1>11
  <2>3. Unopened(x)' /\ Waits(x)' /\ Unattached(x)' /\ Silent(x)'
    BY <2>1, <2>2 DEF Unopened, Waits, Unattached, Silent, QueueKept
  <2>4. Attached(x)'
    <3>1. x \in attached => \A y \in attached' \ {x} : sock'[y].runtime # sock'[x].runtime
      <4> SUFFICES ASSUME x \in attached, NEW y \in attached' \ {x}
                   PROVE  sock[y].runtime # sock[x].runtime
        BY <1>1, <1>2, <1>14
      <4>1. CASE y = s
        BY <4>1, <2>2 DEF Replaces
      <4>2. CASE y # s
        BY <4>2, <1>1, <2>1 DEF Attached
      <4> QED
        BY <4>1, <4>2
    <3> QED
      BY <2>1, <2>2, <3>1 DEF Attached, QueueKept
  <2>5. Kept(x)'
    <3> SUFFICES ASSUME sock[x].link = "open", sock[x].dropped = Never
                 PROVE  Kept(x)'
      BY <2>2 DEF Kept
    <3>1. Flushing(x)' = <<>> /\ Flushing(x) = <<>>
      BY <1>0, <1>1, <1>3, <2>2 DEF Flushing
    <3>2. x \in attached => sock[x].buffer = <<>>
      BY <1>0, <2>1 DEF Kept
    <3> HIDE DEF Flushing
    <3> QED
      BY <1>3, <2>2, <3>1, <3>2, BufferStays
  <2> QED
    BY <2>3, <2>4, <2>5 DEF SocketSound
<1>16. SocketSound(s)'
  <2>1. Unopened(s) /\ Waits(s) /\ Unattached(s) /\ Silent(s) /\ Kept(s)
    BY DEF SocketSound
  <2>2. s \in attached' /\ sock[s].link \notin {"away", "upgrading"}
    BY <1>0, <1>1, HeadNamed DEF SocketOp
  <2>3. Unopened(s)' /\ Waits(s)' /\ Unattached(s)' /\ Silent(s)'
    BY <1>4, <1>6, <1>9, <2>1, <2>2 DEF Unopened, Waits, Unattached, Silent
  <2>4. Attached(s)'
    <3>1. \A y \in attached' \ {s} : sock'[y].runtime # sock'[s].runtime
      <4> TAKE y \in attached' \ {s}
      <4>1. y \in attached \ old /\ y \in Socket
        BY <1>1, <1>2
      <4> QED
        BY <1>14, <4>1 DEF Replaces
    <3>2. sock[s].link = "closed" => sock[s].gone
      BY <1>6, <2>1 DEF Waits
    <3> QED
      BY <1>1, <1>6, <1>9, <3>1, <3>2 DEF Attached
  <2>5. Kept(s)'
    <3>1. CASE old = {}
      <4>1. Flushing(s)' = sock[s].buffer
        BY <1>0, <1>1, <1>3, <3>1 DEF Flushing
      <4> HIDE DEF Flushing
      <4> QED
        BY <1>2, <1>3, <1>6, <1>9, <3>1, <4>1, BufferFlushed
    <3>2. CASE old # {}
      <4>1. Flushing(s)' = <<>>
        BY <1>3, <3>2 DEF Flushing
      <4>2. run'.at = "release" /\ Head(tail').socket = s
        BY <1>1, <1>3, <3>2
      <4> HIDE DEF Flushing
      <4> QED
        BY <1>2, <1>3, <1>6, <1>9, <3>2, <4>1, <4>2, BufferStays
    <3> QED
      BY <3>1, <3>2
  <2> QED
    BY <2>3, <2>4, <2>5 DEF SocketSound
<1> QED
  BY <1>0, <1>4, <1>5, <1>12, <1>13, <1>15, <1>16

LEMMA CloseRuntimeSocketsStep ==
  ASSUME SocketInv, CloseRuntimeSockets
  PROVE  SocketInv'
<1> USE DEF SocketInv
<1> DEFINE clients == {s \in Socket : sock[s].link \in {"open", "closing"}}
           told == {s \in clients : sock[s].known}
           count == Cardinality(told)
<1>1. /\ UNCHANGED <<attached, run, removed, calls>>
      /\ sock' = [s \in Socket |-> IF s \in told THEN Leave(sock[s], "closing")
                                   ELSE IF s \in clients THEN Shut(sock[s]) ELSE sock[s]]
      /\ \E order \in [1 .. count -> told] :
           /\ \A s \in told : \E i \in DOMAIN order : order[i] = s
           /\ tail' = tail \o [i \in 1 .. count |-> Detach(order[i])]
  BY DEF CloseRuntimeSockets
<1>2. count \in Nat
  BY SocketAssumption, FS_Subset, FS_CardinalityType
<1>3. \A s \in Socket : sock[s] \in SocketRecord
  BY DEF SocketTypeOK
<1>4. \A s \in told : /\ sock'[s] \in SocketRecord /\ sock'[s].link = "closing" /\ sock'[s].gone
                      /\ sock'[s].dropped = sock[s].dropped /\ sock'[s].served = sock[s].served
                      /\ sock'[s].runtime = sock[s].runtime /\ sock[s].link \in {"open", "closing"} /\ s \in Socket
  <2> TAKE s \in told
  <2>1. sock'[s] = Leave(sock[s], "closing") /\ sock[s] \in SocketRecord /\ s \in Socket /\ sock[s].link \in {"open", "closing"}
    BY <1>1, <1>3
  <2>2. Leave(sock[s], "closing") \in SocketRecord
    BY <2>1, Records
  <2> QED
    BY <2>1, <2>2 DEF Leave, SocketRecord
<1>5. \A s \in Socket \ told : /\ sock'[s] \in SocketRecord /\ sock'[s].runtime = sock[s].runtime
                               /\ sock'[s] = sock[s] \/ (sock'[s] = Shut(sock[s]) /\ sock[s].link \in {"open", "closing"})
  <2> TAKE s \in Socket \ told
  <2>1. sock'[s] = sock[s] \/ (sock'[s] = Shut(sock[s]) /\ sock[s].link \in {"open", "closing"})
    BY <1>1
  <2> QED
    BY <1>3, <2>1, ShutFields
<1>6. sock' = [s \in Socket |-> sock'[s]] /\ told \subseteq Socket
  BY <1>1
<1> HIDE DEF clients, told, count
<1>7. PICK order \in [1 .. count -> told] :
           /\ \A s \in told : \E i \in DOMAIN order : order[i] = s
           /\ tail' = tail \o [i \in 1 .. count |-> Detach(order[i])]
  BY <1>1
<1> DEFINE new == [i \in 1 .. count |-> Detach(order[i])]
<1>8. /\ \A i \in 1 .. count : order[i] \in told /\ new[i] = Detach(order[i])
      /\ new \in Seq(QueueEntry) /\ Len(new) = count
      /\ \A i \in 1 .. count : new[i].op = "detach" /\ new[i].socket = order[i]
  <2>1. \A s \in Socket : Detach(s) \in QueueEntry /\ Detach(s).op = "detach" /\ Detach(s).socket = s
    BY DEF Detach, Entry, QueueEntry, SocketOp
  <2>2. \A i \in 1 .. count : order[i] \in told /\ new[i] = Detach(order[i])
    BY <1>7
  <2>3. \A i \in 1 .. count : new[i] \in QueueEntry /\ new[i].op = "detach" /\ new[i].socket = order[i]
    BY <1>6, <2>1, <2>2
  <2>4. new \in Seq(QueueEntry) /\ Len(new) = count
    <3>1. new \in [1 .. count -> QueueEntry]
      BY <2>3
    <3> HIDE DEF new
    <3> QED
      BY <1>2, <3>1
  <2> QED
    BY <2>2, <2>3, <2>4
<1> HIDE DEF new
<1>9. tail \in Seq(QueueEntry) /\ tail' = tail \o new /\ Len(tail) \in Nat
  BY <1>7 DEF new, SocketTypeOK
<1>10. /\ Grows(tail, tail')
       /\ \A i \in DOMAIN tail' \ DOMAIN tail : tail'[i].op = "detach" /\ tail'[i].socket \in told
       /\ \A i \in 1 .. count : Len(tail) + i \in DOMAIN tail' /\ tail'[Len(tail) + i] = new[i]
  <2>1. tail' \in Seq(QueueEntry) /\ Len(tail') = Len(tail) + count
    BY <1>2, <1>8, <1>9
  <2>2. \A i \in DOMAIN tail : i \in DOMAIN tail' /\ tail'[i] = tail[i]
    BY <1>2, <1>8, <1>9
  <2>3. \A i \in 1 .. count : Len(tail) + i \in DOMAIN tail' /\ tail'[Len(tail) + i] = new[i]
    BY <1>2, <1>8, <1>9
  <2>4. \A i \in DOMAIN tail' \ DOMAIN tail : i - Len(tail) \in 1 .. count /\ tail'[i] = new[i - Len(tail)]
    BY <1>2, <1>8, <1>9, <2>1
  <2>5. \A i \in DOMAIN tail' \ DOMAIN tail : tail'[i].op = "detach" /\ tail'[i].socket \in told
    BY <1>8, <2>4
  <2> QED
    BY <1>2, <1>9, <2>1, <2>2, <2>3, <2>5 DEF Grows
<1>11. /\ tail' \in Seq(QueueEntry) /\ RunSound' /\ AttachesOnce'
       /\ run.at # "start" => Head(tail') = Head(tail)
       /\ \A s \in Socket : ~News(s) => QueueKept(s)
  BY <1>1, <1>10, GrowsQueue
<1>12. SocketTypeOK'
  <2>1. \A s \in Socket : sock'[s] \in SocketRecord
    BY <1>4, <1>5
  <2> QED
    BY <1>1, <1>6, <1>11, <2>1 DEF SocketTypeOK
<1>13. \A s \in Socket : sock'[s].runtime = sock[s].runtime
  BY <1>4, <1>5
<1>14. RuntimesKept
  BY <1>1, <1>13 DEF RuntimesKept, SocketTypeOK
<1>15. ASSUME NEW s \in Socket \ told
       PROVE  SocketSound(s)'
  <2>1. QueueKept(s)
    BY <1>10, <1>11 DEF News
  <2>2. SocketKept(s)
    <3>1. CASE sock'[s] = sock[s]
      BY <1>1, <1>11, <3>1 DEF SocketKept
    <3>2. CASE sock'[s] = Shut(sock[s]) /\ sock[s].link \in {"open", "closing"}
      <4>1. /\ sock'[s].link = "closing" /\ sock'[s].gone = sock[s].gone /\ sock'[s].dropped = sock[s].dropped
            /\ sock'[s].served = sock[s].served
        BY <1>3, <3>2, ShutFields
      <4> QED
        BY <4>1 DEF SocketKept
    <3> QED
      BY <1>5, <3>1, <3>2
  <2> QED
    BY <1>1, <1>14, <2>1, <2>2, SoundKept
<1>16. ASSUME NEW s \in told
       PROVE  SocketSound(s)'
  <2>1. Unopened(s) /\ Waits(s) /\ Unattached(s) /\ Attached(s) /\ Silent(s) /\ s \in Socket
    BY <1>6 DEF SocketSound
  <2>2. /\ AttachWaits(s)' => AttachWaits(s)
        /\ Named(tail, {"frame"}, s)' => Named(tail, {"frame"}, s)
        /\ Named(tail, {"detach"}, s)'
    <3>1. \A i \in DOMAIN tail' : tail'[i].op # "detach" => i \in DOMAIN tail /\ tail'[i] = tail[i]
      BY <1>10 DEF Grows
    <3>2. AttachWaits(s)' => AttachWaits(s)
      BY <1>1, <3>1 DEF AttachWaits
    <3>3. Named(tail, {"frame"}, s)' => Named(tail, {"frame"}, s)
      BY <3>1 DEF Named
    <3>4. PICK i \in 1 .. count : order[i] = s
      BY <1>7
    <3>5. Named(tail, {"detach"}, s)'
      BY <1>8, <1>10, <3>4 DEF Named
    <3> QED
      BY <3>2, <3>3, <3>5
  <2>3. Unopened(s)' /\ Waits(s)' /\ Unattached(s)' /\ Silent(s)' /\ Kept(s)'
    BY <1>1, <1>4, <2>1, <2>2 DEF Unopened, Waits, Unattached, Silent, Kept
  <2>4. Attached(s)'
    <3>1. s \in attached => \A x \in attached \ {s} : sock'[x].runtime # sock'[s].runtime
      BY <1>1, <1>13, <1>14, <2>1 DEF Attached, RuntimesKept
    <3> QED
      BY <1>1, <1>4, <2>1, <2>2, <3>1 DEF Attached
  <2> QED
    BY <2>3, <2>4 DEF SocketSound
<1> QED
  BY <1>1, <1>11, <1>12, <1>15, <1>16

LEMMA SocketSteps == SocketInv /\ [SocketsNext]_socketVars => SocketInv'
<1> SUFFICES ASSUME SocketInv, [SocketsNext]_socketVars
             PROVE  SocketInv'
  OBVIOUS
<1>1. CASE UNCHANGED socketVars
  <2>1. UNCHANGED <<sock, attached, tail, run, removed, calls>>
    BY <1>1 DEF socketVars
  <2>2. SocketTypeOK' /\ RunSound' /\ AttachesOnce' /\ RuntimesKept
    BY <2>1 DEF SocketInv, SocketTypeOK, RunSound, AttachesOnce, RuntimesKept
  <2>3. \A s \in Socket : QueueKept(s) /\ SocketKept(s)
    BY <2>1 DEF QueueKept, SocketKept, AttachWaits, Named, Flushing, FramesWait
  <2> QED
    BY <2>1, <2>2, <2>3, QuietStep DEF SocketInv
<1>2. CASE SocketsNext
  <2>1. ASSUME NEW s \in Socket, NEW r \in Runtime, Upgrade(s, r) PROVE SocketInv'
    BY <2>1, UpgradeStep
  <2>2. ASSUME NEW s \in Socket, Handshake(s) PROVE SocketInv'
    BY <2>2, HandshakeStep
  <2>3. ASSUME NEW s \in Socket, Frame(s) PROVE SocketInv'
    BY <2>3, FrameStep
  <2>4. ASSUME NEW s \in Socket, SocketCloses(s) PROVE SocketInv'
    BY <2>4, SocketClosesStep
  <2>5. ASSUME NEW s \in Socket, Forgotten(s) PROVE SocketInv'
    BY <2>5, ForgottenStep
  <2>6. ASSUME NEW c \in DOMAIN calls, Call(c) PROVE SocketInv'
    <3>1. c \in {"remove", "restart"}
      BY DEF SocketInv, SocketTypeOK
    <3> QED
      BY <2>6, <3>1, CallStep
  <2>7. CASE AttachRefused
    BY <2>7, AttachRefusedStep
  <2>8. CASE AttachSocketNow
    BY <2>8, AttachSocketNowStep
  <2>9. CASE ReleaseReplacedOffers
    BY <2>9, ReleaseReplacedOffersStep
  <2>10. CASE FlushNext
    BY <2>10, FlushNextStep
  <2>11. CASE Greet
    BY <2>11, GreetStep
  <2>12. CASE RunFrame
    BY <2>12, RunFrameStep
  <2>13. CASE DetachSocketNow
    BY <2>13, DetachSocketNowStep
  <2>14. CASE RunRestart
    BY <2>14, RunRestartStep
  <2>15. CASE RunRemoval
    BY <2>15, RunRemovalStep
  <2>16. CASE CloseRuntimeSockets
    BY <2>16, CloseRuntimeSocketsStep
  <2>17. CASE DrainServer \/ EndServer
    BY <2>17, ServerStep
  <2>18. CASE NewServer
    BY <2>18, NewServerStep
  <2> QED
    BY <1>2, <2>1, <2>2, <2>3, <2>4, <2>5, <2>6, <2>7, <2>8, <2>9, <2>10, <2>11, <2>12, <2>13, <2>14,
       <2>15, <2>16, <2>17, <2>18 DEF SocketsNext
<1> QED
  BY <1>1, <1>2

(* Frames that are served, flushed and buffered one after another are one   *)
(* sequence that counts from 1.                                             *)
LEMMA JoinedInOrder ==
  ASSUME NEW a \in Seq(Nat), NEW b \in Seq(Nat), From(a, 0), From(b, Len(a))
  PROVE  a \o b \in Seq(Nat) /\ From(a \o b, 0) /\ Len(a \o b) = Len(a) + Len(b)
<1> DEFINE ab == a \o b
<1>1. ab \in Seq(Nat) /\ Len(ab) = Len(a) + Len(b) /\ Len(a) \in Nat /\ Len(b) \in Nat
  OBVIOUS
<1>2. ASSUME NEW i \in DOMAIN ab
      PROVE  ab[i] = 0 + i
  <2>1. i \in Nat /\ 1 <= i /\ i <= Len(a) + Len(b)
    BY <1>1
  <2>2. CASE i <= Len(a)
    BY <1>1, <2>1, <2>2 DEF From
  <2>3. CASE i > Len(a)
    <3>1. ab[i] = b[i - Len(a)] /\ i - Len(a) \in DOMAIN b
      BY <1>1, <2>1, <2>3
    <3> QED
      BY <1>1, <2>1, <3>1 DEF From
  <2> QED
    BY <1>1, <2>1, <2>2, <2>3
<1> QED
  BY <1>1, <1>2 DEF From

LEMMA SocketInvAccounts == SocketInv => SocketsAccounted
<1> SUFFICES ASSUME SocketInv
             PROVE  SocketsAccounted
  OBVIOUS
<1> USE DEF SocketInv
<1>1. FramesKept
  <2> SUFFICES ASSUME NEW s \in Socket, sock[s].link = "open", sock[s].dropped = Never
               PROVE  LET flushing == IF tail # <<>> /\ Head(tail) = Attach(s) THEN run.rest ELSE <<>>
                          held == sock[s].served \o flushing \o sock[s].buffer
                      IN /\ held = [i \in 1 .. Len(held) |-> i] /\ Len(held) <= sock[s].arrived
                         /\ FramesWait(tail, s, Len(held) + 1, sock[s].arrived)
    BY DEF FramesKept
  <2>1. sock[s] \in SocketRecord /\ Kept(s)
    BY DEF SocketTypeOK, SocketSound
  <2> DEFINE flushing == IF tail # <<>> /\ Head(tail) = Attach(s) THEN run.rest ELSE <<>>
             a == sock[s].served
             c == sock[s].buffer
             held == a \o flushing \o c
  <2>2. flushing = Flushing(s) /\ flushing \in Seq(Nat) /\ a \in Seq(Nat) /\ c \in Seq(Nat)
    <3>1. tail # <<>> => (Head(tail).op = "attach" /\ Head(tail).socket = s <=> Head(tail) = Attach(s))
      <4> SUFFICES ASSUME tail # <<>>
                   PROVE  Head(tail).op = "attach" /\ Head(tail).socket = s <=> Head(tail) = Attach(s)
        OBVIOUS
      <4>1. Head(tail) \in QueueEntry
        BY QueueTail DEF SocketTypeOK
      <4> DEFINE e == Head(tail)
      <4> HIDE DEF e
      <4>2. e \in QueueEntry /\ e.op = "attach" /\ e.socket = s => e = [op |-> "attach", socket |-> s, frame |-> 0]
        BY DEF QueueEntry
      <4> QED
        BY <4>1, <4>2 DEF e, Attach, Entry
    <3>2. flushing = Flushing(s)
      BY <3>1 DEF Flushing
    <3>3. Flushing(s) \in Seq(Nat) /\ a \in Seq(Nat) /\ c \in Seq(Nat)
      BY <2>1 DEF Flushing, SocketTypeOK, SocketRecord
    <3> QED
      BY <3>2, <3>3
  <2> HIDE DEF flushing
  <2>3. /\ From(a, 0) /\ From(flushing, Len(a)) /\ From(c, Len(a) + Len(flushing))
        /\ Len(a) + Len(flushing) + Len(c) <= sock[s].arrived
        /\ FramesWait(tail, s, Len(a) + Len(flushing) + Len(c) + 1, sock[s].arrived)
    <3> HIDE DEF From, FramesWait, Flushing
    <3> QED
      BY <2>1, <2>2 DEF Kept
  <2>4. held = [i \in 1 .. Len(held) |-> i] /\ Len(held) = Len(a) + Len(flushing) + Len(c)
    <3>1. held = a \o flushing \o c
      OBVIOUS
    <3> HIDE DEF a, c, held
    <3>2. a \in Seq(Nat) /\ flushing \in Seq(Nat) /\ c \in Seq(Nat)
      BY <2>2
    <3>3. From(a, 0) /\ From(flushing, Len(a)) /\ From(c, Len(a) + Len(flushing))
      BY <2>3
    <3>4. held \in Seq(Nat) /\ From(held, 0) /\ Len(held) = Len(a) + Len(flushing) + Len(c)
      <4> DEFINE ab == a \o flushing
      <4>1. ab \in Seq(Nat) /\ From(ab, 0) /\ Len(ab) = Len(a) + Len(flushing)
        BY <3>2, <3>3, JoinedInOrder
      <4>2. held = ab \o c
        BY <3>1
      <4> HIDE DEF ab
      <4>3. From(c, Len(ab))
        BY <3>3, <4>1
      <4> QED
        BY <3>2, <4>1, <4>2, <4>3, JoinedInOrder
    <3>5. ASSUME NEW h \in Seq(Nat), From(h, 0)
          PROVE  h = [i \in 1 .. Len(h) |-> i]
      BY <3>5 DEF From
    <3> QED
      BY <3>4, <3>5
  <2> HIDE DEF FramesWait, held
  <2>5. /\ held = [i \in 1 .. Len(held) |-> i] /\ Len(held) <= sock[s].arrived
        /\ FramesWait(tail, s, Len(held) + 1, sock[s].arrived)
    BY <2>3, <2>4
  <2> QED
    BY <2>5 DEF held, flushing
<1>2. DroppedStaySilent
  BY DEF DroppedStaySilent, SocketSound, Silent
<1>3. AttachedLive
  <2> SUFFICES ASSUME NEW s \in attached
               PROVE  /\ \A x \in attached \ {s} : sock[x].runtime # sock[s].runtime
                      /\ sock[s].gone => Detach(s) \in {tail[i] : i \in DOMAIN tail}
    BY DEF AttachedLive
  <2>1. Attached(s)
    BY DEF SocketTypeOK, SocketSound
  <2>2. ASSUME Named(tail, {"detach"}, s)
        PROVE  Detach(s) \in {tail[i] : i \in DOMAIN tail}
    <3>1. PICK i \in DOMAIN tail : tail[i].op = "detach" /\ tail[i].socket = s
      BY <2>2 DEF Named
    <3>2. tail[i] \in QueueEntry
      BY DEF SocketTypeOK
    <3> DEFINE e == tail[i]
    <3> HIDE DEF e
    <3>3. e \in QueueEntry /\ e.op = "detach" /\ e.socket = s => e = [op |-> "detach", socket |-> s, frame |-> 0]
      BY DEF QueueEntry
    <3>4. tail[i] = Detach(s)
      BY <3>1, <3>2, <3>3 DEF e, Detach, Entry
    <3> QED
      BY <3>4
  <2> QED
    BY <2>1, <2>2 DEF Attached
<1> QED
  BY <1>1, <1>2, <1>3 DEF SocketsAccounted

(* In every behaviour of the sockets, frames are served in the order they   *)
(* came, dropped sockets stay silent, one socket is attached for a runtime, *)
(* and none once the claw is removed, whatever sockets, failures, restarts  *)
(* and shutdowns there are (aws/postgres-coordinator.ts, aws/server.ts).    *)
THEOREM SocketsKept == SocketSpec => []SocketsAccounted
<1>1. SocketInit => SocketInv
  BY SocketsInitially
<1>2. SocketInv /\ [SocketsNext]_socketVars => SocketInv'
  BY SocketSteps
<1>3. SocketInv => SocketsAccounted
  BY SocketInvAccounts
<1> QED
  BY <1>1, <1>2, <1>3, PTL DEF SocketSpec

============================================================================
