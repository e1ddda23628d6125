------------------------------- MODULE Wakeups -------------------------------
(***************************************************************************)
(* The wake-ups that keep the fleet reconciled: an alarm runs reconcileAll *)
(* over every claw and asks for the next one 15 s later while a claw is    *)
(* left (worker/control-plane-service.ts).  On AWS the alarm is a timer of *)
(* the process, CoalescingScheduler of aws/scheduler.ts; on Cloudflare it  *)
(* is the storage alarm of the object, which outlives it.  Time is in      *)
(* steps of 5 s.  The name of a deleted claw stands for another one later. *)
(***************************************************************************)
EXTENDS Integers, FiniteSets

CONSTANTS Claw,
          Soon, Later, \* the delays of a request (10 s) and of the next round (15 s)
          MaxAlarms,   \* bound: alarms that run at once
          MaxCrashes   \* bound: crashes, shutdowns and failed rounds

ASSUME WakeupAssumption ==
  {Soon, Later, MaxAlarms, MaxCrashes} \subseteq Nat \ {0} /\ Soon < Later

VARIABLES
  platform, \* "edge" or "aws"
  process,  \* "up", "stopping" (SIGTERM was received) or "down"
  live,     \* the claws that are not deleted
  creating, \* of them, those whose request has yet to ask for a wake-up
  timer,    \* the delay left, or Unarmed
  pass,     \* the claws reconcileAll has still to see, when one runs
  running,  \* #running of the reconciler
  ending,   \* alarms past reconcileAll
  crashes,
  orphans   \* ghost: claws whose request broke off with no wake-up to come,
            \* and for which none has been armed since

wakeupVars == <<platform, process, live, creating, timer, pass, running, ending, crashes, orphans>>

Unarmed == -1

WakeupInit ==
  /\ platform \in {"edge", "aws"} /\ process = "up"
  /\ live = {} /\ creating = {}
  /\ timer = Unarmed /\ pass = {} /\ running = FALSE /\ ending = 0
  /\ crashes = 0 /\ orphans = {}

Crash == crashes < MaxCrashes /\ crashes' = crashes + 1

(* schedule: the storage alarm is replaced; CoalescingScheduler keeps the   *)
(* earlier time, and nothing once it is stopped.                            *)
Scheduled(delay) ==
  IF platform = "edge" THEN delay
  ELSE IF process # "up" \/ (timer # Unarmed /\ timer <= delay) THEN timer
  ELSE delay

(* A wake-up is armed, or an alarm runs that will ask for one. *)
Attended == timer # Unarmed \/ running \/ ending > 0

(* The POST that creates a claw: its persona and reconcileOne come before   *)
(* its #schedule.                                                           *)
CreateClaw(c) ==
  /\ process # "down" /\ c \notin live
  /\ live' = live \cup {c} /\ creating' = creating \cup {c}
  /\ UNCHANGED <<platform, process, timer, pass, running, ending, crashes, orphans>>

(* ensurePersonaForClaw or reconcileOne throws: the request is answered     *)
(* with an error and never comes to its #schedule; the claw is there.       *)
CreateFails(c) ==
  /\ process # "down" /\ c \in creating
  /\ creating' = creating \ {c}
  /\ orphans' = IF Attended THEN orphans ELSE orphans \cup {c}
  /\ UNCHANGED <<platform, process, live, timer, pass, running, ending, crashes>>

(* #schedule, also of the requests that change a claw. *)
RequestWakeup(c) ==
  /\ c \in live /\ process # "down"
  /\ timer' = Scheduled(Soon) /\ creating' = creating \ {c}
  /\ orphans' = IF timer' = Unarmed THEN orphans ELSE {}
  /\ UNCHANGED <<platform, process, live, pass, running, ending, crashes>>

(* The time has come: alarm begins, and its reconcileAll reads the list     *)
(* unless another one runs.  #fire forgets the time first.                  *)
Fire ==
  /\ timer = 0 /\ process = "up" /\ ending + (IF running THEN 1 ELSE 0) < MaxAlarms
  /\ timer' = Unarmed
  /\ IF running THEN ending' = ending + 1 /\ UNCHANGED <<pass, running>>
     ELSE pass' = live /\ running' = TRUE /\ UNCHANGED ending
  /\ UNCHANGED <<platform, process, live, creating, crashes, orphans>>

(* reconcileOne, of the alarm or of a request: a removal may complete. *)
Reconcile(c) ==
  /\ process # "down" /\ c \in live
  /\ pass' = pass \ {c}
  /\ \/ live' = live \ {c} /\ creating' = creating \ {c}
     \/ UNCHANGED <<live, creating>>
  /\ orphans' = orphans \cap live'
  /\ UNCHANGED <<platform, process, timer, running, ending, crashes>>

PassEnds ==
  /\ running /\ pass \cap live = {}
  /\ pass' = {} /\ running' = FALSE /\ ending' = ending + 1
  /\ UNCHANGED <<platform, process, live, creating, timer, crashes, orphans>>

(* Mutant: a failed round asks for no other. *)
NoRetry == timer

(* The catch of #fire, 15 s later; Cloudflare runs a failed alarm again. *)
Retried == IF platform = "aws" THEN Scheduled(Later) ELSE IF timer = Unarmed THEN 0 ELSE timer

(* reconcileOne of a claw throws, when not even the failure can be written: *)
(* the rest of the list waits.                                              *)
PassFails ==
  /\ running /\ pass # {} /\ Crash
  /\ timer' = Retried /\ pass' = {} /\ running' = FALSE
  /\ UNCHANGED <<platform, process, live, creating, ending, orphans>>

(* The end of alarm: another round while a claw is not deleted. *)
AlarmEnds ==
  /\ ending > 0 /\ ending' = ending - 1
  /\ timer' = IF live # {} THEN Scheduled(Later) ELSE timer
  /\ orphans' = IF timer' = Unarmed THEN orphans ELSE {}
  /\ UNCHANGED <<platform, process, live, creating, pass, running, crashes>>

Tick ==
  /\ timer > 0 /\ timer' = timer - 1
  /\ UNCHANGED <<platform, process, live, creating, pass, running, ending, crashes, orphans>>

(* The process or the object dies: the alarm of Cloudflare stays armed, or  *)
(* is run again if it was running.                                          *)
Dies ==
  /\ pass' = {} /\ running' = FALSE /\ ending' = 0 /\ creating' = {}
  /\ IF platform = "aws" THEN process' = "down" /\ timer' = Unarmed /\ UNCHANGED orphans
     ELSE /\ UNCHANGED process
          /\ timer' = IF timer = Unarmed /\ Attended THEN 0 ELSE timer
          /\ orphans' = IF timer' = Unarmed THEN orphans \cup creating ELSE orphans
  /\ UNCHANGED <<platform, live>>

ProcessCrashes == process # "down" /\ Crash /\ Dies

(* close: the scheduler is stopped, what runs is waited for. *)
StopProcess ==
  /\ platform = "aws" /\ process = "up" /\ Crash
  /\ process' = "stopping" /\ timer' = Unarmed
  /\ UNCHANGED <<platform, live, creating, pass, running, ending, orphans>>

Drained ==
  /\ process = "stopping" /\ creating = {} /\ ~running /\ ending = 0
  /\ Dies /\ UNCHANGED crashes

(* startAwsServer schedules a round at once. *)
StartProcess ==
  /\ process = "down" /\ process' = "up" /\ timer' = 0 /\ orphans' = {}
  /\ UNCHANGED <<platform, live, creating, pass, running, ending, crashes>>

WakeupNext ==
  \/ \E c \in Claw : CreateClaw(c) \/ CreateFails(c) \/ RequestWakeup(c) \/ Reconcile(c)
  \/ Fire \/ PassEnds \/ PassFails \/ AlarmEnds \/ Tick
  \/ ProcessCrashes \/ StopProcess \/ Drained \/ StartProcess

WakeupSpec == WakeupInit /\ [][WakeupNext]_wakeupVars

----------------------------------------------------------------------------
(* While a claw is left, a round will come: the timer is armed, an alarm    *)
(* runs and will arm it, the request that created the claw will, or the     *)
(* process that is down arms it as it starts (alarm, #schedule,             *)
(* CoalescingScheduler).  One exception, which the code really has: a       *)
(* request that breaks off before its #schedule, because it fails after     *)
(* create or because Cloudflare's object dies, while no wake-up is armed    *)
(* and no alarm runs.  Its claw waits until anything else arms a wake-up;   *)
(* no other claw ever waits.                                                *)
WakeupHonoured ==
  /\ \A c \in live \ orphans : Attended \/ c \in creating \/ process # "up"
  /\ Attended => orphans = {}

=============================================================================
