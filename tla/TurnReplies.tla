---------------------------- MODULE TurnReplies ----------------------------
(***************************************************************************)
(* What a claw's coordinator promises about the turns it accepts, whatever *)
(* backend runs it: a turn is accepted while the claw exists, it may start *)
(* once, it gets one answer (the agent's, or a notice that there is none), *)
(* the answer is posted only while it is owed, and it is owed until it has *)
(* been posted and recorded, or given up, or withdrawn with the claw.      *)
(***************************************************************************)
EXTENDS Naturals

CONSTANT JobId

VARIABLES
  phase,   \* how far each turn has come
  posts,   \* how often each turn's answer was posted
  closed   \* the claw was removed

vars == <<phase, posts, closed>>

Open   == {"accepted", "working", "answered"}
Closed == {"delivered", "abandoned"}

TypeOK ==
  /\ phase \in [JobId -> {"new", "forgotten"} \cup Open \cup Closed]
  /\ posts \in [JobId -> Nat]
  /\ closed \in BOOLEAN

Init ==
  /\ phase = [j \in JobId |-> "new"]
  /\ posts = [j \in JobId |-> 0]
  /\ closed = FALSE

Move(j, from, to) ==
  /\ phase[j] \in from
  /\ phase' = [phase EXCEPT ![j] = to]
  /\ UNCHANGED <<posts, closed>>

Accept(j)  == ~closed /\ Move(j, {"new"}, "accepted")
Begin(j)   == Move(j, {"accepted"}, "working")
Answer(j)  == Move(j, {"accepted", "working"}, "answered")
Deliver(j) == posts[j] > 0 /\ Move(j, {"answered"}, "delivered")
Abandon(j) == Move(j, {"answered"}, "abandoned")

Post(j) ==
  /\ phase[j] = "answered" /\ ~closed
  /\ posts' = [posts EXCEPT ![j] = @ + 1]
  /\ UNCHANGED <<phase, closed>>

(* Removing the claw withdraws every turn that is still open. *)
Close ==
  /\ closed' = TRUE
  /\ phase' = [j \in JobId |-> IF phase[j] \in Open THEN "abandoned" ELSE phase[j]]
  /\ UNCHANGED posts

(* Closed turns are forgotten some time later. *)
Forget(S) ==
  /\ \A j \in S : phase[j] \in Closed
  /\ phase' = [j \in JobId |-> IF j \in S THEN "forgotten" ELSE phase[j]]
  /\ UNCHANGED <<posts, closed>>

Next ==
  \/ \E j \in JobId : \/ Accept(j)
                      \/ Begin(j)
                      \/ Answer(j)
                      \/ Post(j)
                      \/ Deliver(j)
                      \/ Abandon(j)
  \/ Close
  \/ \E S \in SUBSET JobId : Forget(S)

Spec == Init /\ [][Next]_vars

=============================================================================
