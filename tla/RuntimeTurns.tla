---------------------------- MODULE RuntimeTurns ----------------------------
(***************************************************************************)
(* One claw's coordinator together with the bridge that runs its turns     *)
(* (deploy/runtime-bridge.mjs), over WebSockets that can break.            *)
(*                                                                         *)
(* The bridge dials one socket at a time.  A connection carries frames in  *)
(* order both ways until one end closes it or the network breaks it; each  *)
(* end learns of that on its own, and what was in flight may be lost.  The *)
(* frames that make up one turn (job.preparing to job.turn.ready) are sent *)
(* by one handler and are one frame here.                                  *)
(*                                                                         *)
(* TurnCoordinator lets a runtime send anything; here it sends what the    *)
(* bridge sends.  The failures inside the socket operations and of the     *)
(* write of a delivery are left to TurnCoordinator's own runs, the         *)
(* credential refresh to a module of its own: while a refresh is pending   *)
(* the bridge only claims later.                                           *)
(***************************************************************************)
EXTENDS TurnCoordinator

CONSTANTS
  Self,         \* the runtime id of the bridge
  MaxDrops,     \* bound: broken connections and reconnects asked for
  MaxRestarts,  \* bound: restarts of the bridge process
  MaxInFlight   \* bound: frames in flight when a timer of the bridge fires

ASSUME BridgeAssumption ==
  /\ Runtime = {Self}
  /\ MaxDrops \in Nat /\ MaxRestarts \in Nat /\ MaxInFlight \in Nat \ {0}

VARIABLES
  bridge,    \* the state of the bridge process
  link,      \* each socket's connection
  toServer,  \* frames on their way to the coordinator
  toBridge,  \* frames on their way to the bridge
  runs,      \* ghost: how often the bridge took up each prompt
  drops,     \* broken connections so far
  restarts   \* restarts of the bridge so far

network == <<link, toServer, toBridge>>
ghosts  == <<runs, drops, restarts>>
system  == <<vars, bridge, network, ghosts>>

(* stage: "writing" while the turn file is written, before there is an     *)
(* agent to cancel; "running" while the agent works and its file is        *)
(* removed; "done" while pendingCompletion waits for its job.ack; "stuck"  *)
(* once one of the two file operations has failed: working stays set with  *)
(* no completion.  preparing: a turn was announced and has not arrived.    *)
(* polling: the two-second timer is set.  aborted is history: the turn was *)
(* cancelled.                                                              *)
FreshBridge ==
  [socket |-> None, claiming |-> FALSE, polling |-> FALSE, preparing |-> None,
   stage |-> "idle", job |-> None, ok |-> FALSE, gen |-> None, aborted |-> FALSE]

Working(b) == b.stage # "idle"

InitSystem ==
  /\ Init
  /\ bridge = FreshBridge
  /\ link = [s \in Socket |-> "free"]
  /\ toServer = Silent /\ toBridge = Silent
  /\ runs = [j \in JobId |-> 0] /\ drops = 0 /\ restarts = 0

----------------------------------------------------------------------------
(* Connections.  "closed" is a connection that at least one end has not    *)
(* seen the end of; once both have, the socket's name is free again.       *)

Links(closing) ==
  [s \in Socket |->
     IF s \in closing \/ link[s] = "closed"
     THEN IF sockets'[s] = None /\ bridge'.socket # s THEN "free" ELSE "closed"
     ELSE link[s]]

(* What a step leaves in flight when it closes the connections `closing';  *)
(* upward and downward are the frames on their way, its own included.      *)
Transmit(closing, upward, downward) ==
  /\ link' = Links(closing)
  /\ toServer' = [s \in Socket |-> IF link'[s] = "open" THEN upward[s] ELSE <<>>]
  /\ toBridge' = [s \in Socket |-> IF bridge'.socket = s THEN downward[s] ELSE <<>>]

Delivered == [s \in Socket |-> IF link[s] = "open" THEN toBridge[s] \o outbox'[s]
                                                   ELSE toBridge[s]]

(* A step of the coordinator, after which it has closed `closing'. *)
ServerStep(closing) ==
  /\ UNCHANGED <<bridge, ghosts>>
  /\ Transmit(closing, toServer, Delivered)

AttachedSockets == {s \in Socket : sockets[s] # None}

----------------------------------------------------------------------------
(* The coordinator.                                                        *)

(* webSocketMessage: the frames of an attached socket in order. *)
Receive(s) ==
  /\ toServer[s] # <<>>
  /\ LET f == Head(toServer[s]) IN
     \/ f.type = "runtime.heartbeat" /\ Heartbeat(s)
     \/ f.type = "job.claim" /\ Claim(s)
     \/ f.type = "job.started" /\ Start(s, f.job)
     \/ f.type = "job.complete" /\ Complete(s, f.job, f.ok)
  /\ UNCHANGED <<bridge, ghosts>>
  /\ Transmit({}, [toServer EXCEPT ![s] = Tail(@)], Delivered)

(* The upgraded socket is attached; a socket it replaces is closed. *)
Attach(s) ==
  /\ link[s] = "open"
  /\ AttachSocket(s, Self)
  /\ ServerStep(Replaced(Self))

(* The claw was removed after the connection was authenticated. *)
RefuseAttach(s) ==
  /\ Idle /\ removed /\ link[s] = "open" /\ sockets[s] = None
  /\ UNCHANGED <<vars, bridge, ghosts>>
  /\ Transmit({s}, toServer, toBridge)

Detach(s) ==
  /\ link[s] = "closed"
  /\ DetachSocket(s)
  /\ ServerStep({})

ForceReconnect ==
  /\ drops < MaxDrops /\ drops' = drops + 1
  /\ RestartRuntimeConnections
  /\ UNCHANGED <<bridge, runs, restarts>>
  /\ Transmit(AttachedSockets, toServer, Delivered)

Enqueue == \E j \in JobId, e \in EventId : EnqueueTurn(j, e) /\ ServerStep({})

Administer ==
  \/ (CancelPending \/ CancelActiveTurns) /\ ServerStep({})
  \/ PrepareForRemoval /\ ServerStep(AttachedSockets)

Advance == (CleanupSweep \/ OperationStep \/ Restart \/ Tick) /\ ServerStep({})

(* A message handler that rejects closes its socket (#finishSocketEvent). *)
ServerFault ==
  \/ OperationFails /\ ServerStep({op.caller} \cap Socket)
  \/ Crash /\ ServerStep({s \in Socket : link[s] = "open"})

(* The network breaks a connection. *)
Drop(s) ==
  /\ link[s] = "open" /\ drops < MaxDrops
  /\ drops' = drops + 1
  /\ UNCHANGED <<vars, bridge, runs, restarts>>
  /\ Transmit({s}, toServer, toBridge)

----------------------------------------------------------------------------
(* The bridge.                                                             *)

Message(t, j, ok) == [type |-> t, job |-> j, ok |-> ok]
ClaimFrame        == Message("job.claim", None, FALSE)
Completion(b)     == Message("job.complete", b.job, b.ok)

(* A step that leaves the bridge in state b and sends `frames' on its      *)
(* socket, after taking a frame from it when `taken'.                      *)
BridgeStep(b, frames, taken) ==
  /\ bridge' = b
  /\ UNCHANGED <<vars, drops, restarts>>
  /\ Transmit({}, [s \in Socket |-> IF s = b.socket THEN toServer[s] \o frames
                                                    ELSE toServer[s]],
                  [s \in Socket |-> IF s = b.socket /\ taken THEN Tail(toBridge[s])
                                                             ELSE toBridge[s]])

(* requestJob: one claim in flight, and none while a turn is at hand. *)
MayClaim(b) == ~Working(b) /\ ~b.claiming /\ b.socket # None

RequestJob(b, taken) ==
  IF MayClaim(b)
  THEN BridgeStep([b EXCEPT !.claiming = TRUE], <<ClaimFrame>>, taken)
  ELSE BridgeStep(b, <<>>, taken)

(* connect: the open event resends a completion, or asks for work. *)
Connect(s) ==
  /\ bridge.socket = None /\ link[s] = "free" /\ up /\ ~removed
  /\ LET b == [bridge EXCEPT !.socket = s, !.claiming = MayClaim([bridge EXCEPT !.socket = s,
                                                                                !.claiming = FALSE])]
         first == IF b.stage = "done" THEN <<Completion(b)>>
                  ELSE IF b.claiming THEN <<ClaimFrame>> ELSE <<>>
     IN /\ bridge' = b
        /\ link' = [link EXCEPT ![s] = "open"]
        /\ toServer' = [toServer EXCEPT ![s] = first]
  /\ UNCHANGED <<vars, toBridge, ghosts>>

(* The close event ends a claim; the turn and its answer are kept, and     *)
(* with a turn what was announced.                                         *)
Closed(b) == [b EXCEPT !.socket = None, !.claiming = FALSE,
                       !.preparing = IF Working(b) THEN @ ELSE None]

Incoming(types) ==
  /\ bridge.socket # None /\ toBridge[bridge.socket] # <<>>
  /\ Head(toBridge[bridge.socket]).type \in types

Arrived == Head(toBridge[bridge.socket])

(* The close event, once the bridge has seen the connection end.  It may   *)
(* have broken between the frames of a turn.                               *)
Disconnect ==
  /\ bridge.socket # None /\ link[bridge.socket] = "closed"
  /\ \/ bridge' = Closed(bridge)
     \/ /\ Incoming({"job.turn"})
        /\ bridge' = Closed([bridge EXCEPT !.preparing = Arrived.job])
  /\ UNCHANGED <<vars, ghosts>>
  /\ Transmit({}, toServer, toBridge)

(* Mutant: only the first generation is remembered. *)
GenerationOnce(b, g) == [b EXCEPT !.gen = IF @ = None THEN g ELSE @]

(* applyResetGeneration: a generation other than the last one seen cancels *)
(* the agent that is running.  While the turn file is still written there  *)
(* is none to cancel, and the generation is stored all the same.           *)
Generation(b, g) ==
  [b EXCEPT !.gen = g,
            !.aborted = @ \/ (b.stage = "running" /\ b.gen # None /\ b.gen # g)]

OnGeneration ==
  /\ Incoming({"runtime.ready", "runtime.heartbeat"})
  /\ BridgeStep(Generation(bridge, Arrived.gen), <<>>, TRUE)
  /\ UNCHANGED runs

OnAvailable ==
  /\ Incoming({"job.available"})
  /\ RequestJob(bridge, TRUE)
  /\ UNCHANGED runs

(* An answer to a claim is passed over while a turn is announced. *)
OnNoJob ==
  /\ Incoming({"job.none", "job.retry"})
  /\ BridgeStep(IF bridge.preparing # None THEN bridge
                ELSE [bridge EXCEPT !.claiming = FALSE, !.polling = TRUE], <<>>, TRUE)
  /\ UNCHANGED runs

(* The turn is over: neither a completion nor a child is left. *)
Forgotten(b) == [b EXCEPT !.stage = "idle", !.job = None, !.ok = FALSE,
                          !.aborted = FALSE]

(* Mutant: an error also discards the completion that was refused. *)
RefusedForgets(b) ==
  [IF b.stage = "done" THEN Forgotten(b) ELSE b EXCEPT !.claiming = FALSE]

(* runtime.error only ends a claim. *)
Refused(b) == [b EXCEPT !.claiming = FALSE]

(* A start is not waited for. *)
OnOther ==
  /\ Incoming({"runtime.error", "job.started.ack"})
  /\ BridgeStep(IF Arrived.type = "runtime.error" THEN Refused(bridge) ELSE bridge,
                <<>>, TRUE)
  /\ UNCHANGED runs

(* Mutant: the acknowledgement of a cancelled turn is ignored. *)
AcknowledgedUncancelled(b, j) == b.stage = "done" /\ b.job = j /\ ~b.aborted

Acknowledged(b, j) == b.stage = "done" /\ b.job = j

OnAck ==
  /\ Incoming({"job.ack"})
  /\ IF Acknowledged(bridge, Arrived.job)
     THEN RequestJob(Forgotten(bridge), TRUE)
     ELSE BridgeStep(bridge, <<>>, TRUE)
  /\ UNCHANGED runs

(* handleTurn: a turn that arrives while another is at hand is refused;    *)
(* any other is started for the coordinator, and its file written.         *)
OnTurn ==
  /\ Incoming({"job.turn"})
  /\ LET j == Arrived.job
         b == [bridge EXCEPT !.claiming = FALSE, !.preparing = None]
     IN IF Working(bridge)
        THEN BridgeStep(b, <<>>, TRUE) /\ UNCHANGED runs
        ELSE /\ BridgeStep([b EXCEPT !.stage = "writing", !.job = j],
                           <<Message("job.started", j, FALSE)>>, TRUE)
             /\ runs' = [runs EXCEPT ![j] = @ + 1]

(* run: once the turn file is written the agent is spawned. *)
StartAgent ==
  /\ bridge.stage = "writing"
  /\ BridgeStep([bridge EXCEPT !.stage = "running"], <<>>, FALSE)
  /\ UNCHANGED runs

(* The turn file cannot be written, or not be removed after the agent:     *)
(* runTurn rejects, and nothing ends the turn but a restart.  (The error   *)
(* the bridge reports for it is only logged.)                              *)
TurnFileFails ==
  /\ bridge.stage \in {"writing", "running"}
  /\ BridgeStep([bridge EXCEPT !.stage = "stuck"], <<>>, FALSE)
  /\ UNCHANGED runs

(* runTurn: the agent answers, fails, is cancelled or runs out of time.  A *)
(* cancelled agent may still answer first.                                 *)
FinishTurn ==
  /\ bridge.stage = "running"
  /\ \E ok \in BOOLEAN :
       LET b == [bridge EXCEPT !.stage = "done", !.ok = ok]
       IN BridgeStep(b, IF b.socket # None THEN <<Completion(b)>> ELSE <<>>, FALSE)
  /\ UNCHANGED runs

Room == Len(toServer[bridge.socket]) + Len(toBridge[bridge.socket]) < MaxInFlight

(* The timers: two seconds after an empty claim, every 45 and 10 seconds. *)
Poll ==
  /\ bridge.polling
  /\ RequestJob([bridge EXCEPT !.polling = FALSE], FALSE)
  /\ UNCHANGED runs

Beat ==
  /\ bridge.socket # None /\ Room
  /\ BridgeStep(bridge, <<Message("runtime.heartbeat", None, FALSE)>>, FALSE)
  /\ UNCHANGED runs

Resend ==
  /\ bridge.socket # None /\ bridge.stage = "done" /\ Room
  /\ BridgeStep(bridge, <<Completion(bridge)>>, FALSE)
  /\ UNCHANGED runs

(* The bridge dies and the launcher starts it again with no memory. *)
RestartBridge ==
  /\ restarts < MaxRestarts
  /\ restarts' = restarts + 1
  /\ bridge' = FreshBridge
  /\ UNCHANGED <<vars, runs, drops>>
  /\ Transmit({bridge.socket} \cap Socket, toServer, toBridge)

OnMessage == OnGeneration \/ OnAvailable \/ OnNoJob \/ OnOther \/ OnAck \/ OnTurn

----------------------------------------------------------------------------
NextSystem ==
  \/ \E s \in Socket : \/ Receive(s)
                       \/ Attach(s)
                       \/ RefuseAttach(s)
                       \/ Detach(s)
                       \/ Drop(s)
                       \/ Connect(s)
  \/ ForceReconnect
  \/ Enqueue
  \/ Administer
  \/ Advance
  \/ ServerFault
  \/ Disconnect
  \/ OnMessage
  \/ StartAgent
  \/ TurnFileFails
  \/ FinishTurn
  \/ Poll
  \/ Beat
  \/ Resend
  \/ RestartBridge

SystemSpec == InitSystem /\ [][NextSystem]_system

(* Bridge and coordinator go on handling what has arrived, the bridge      *)
(* reconnects and its timers fire, and the coordinator attaches and        *)
(* detaches sockets.  An agent owes nothing until it is cancelled; then    *)
(* its process group is killed.  Leases, retention and sweeps are no part  *)
(* of it: what these properties promise must not have to wait for them.    *)
SystemFairness ==
  /\ WF_system((OperationStep \/ Restart) /\ Advance)
  /\ SF_system(\E s \in Socket : Receive(s))
  /\ SF_system(\E s \in Socket : Attach(s) \/ Detach(s))
  /\ WF_system(\E s \in Socket : Connect(s))
  /\ WF_system(Disconnect \/ OnMessage)
  /\ WF_system(Poll) /\ SF_system(Beat) /\ SF_system(Resend)
  /\ WF_system(bridge.aborted /\ FinishTurn)

FairSystemSpec == SystemSpec /\ SystemFairness

(* Time passes and sweeps run, as in the coordinator's own Fairness. *)
TimedSystemSpec ==
  /\ FairSystemSpec
  /\ SF_system(CleanupSweep /\ Advance)
  /\ SF_system(Tick /\ Advance)

----------------------------------------------------------------------------
(* Properties.                                                             *)

BridgeState ==
  [socket : Socket \cup {None}, claiming : BOOLEAN, polling : BOOLEAN,
   preparing : JobId \cup {None}, job : JobId \cup {None}, ok : BOOLEAN,
   stage : {"idle", "writing", "running", "done", "stuck"},
   gen : Nat \cup {None}, aborted : BOOLEAN]

SystemTypeOK ==
  /\ bridge \in BridgeState
  /\ Working(bridge) <=> bridge.job # None
  /\ link \in [Socket -> {"free", "open", "closed"}]
  /\ runs \in [JobId -> Nat] /\ drops \in Nat /\ restarts \in Nat

(* A job the coordinator records as running is at hand in the bridge, or   *)
(* the bridge was restarted: however connections break, no turn waits out  *)
(* the 20 minutes of runningTimeoutMs because nobody has it.  (A bridge    *)
(* that is stuck over a turn has it, and lets it wait.)                    *)
RunningIsBacked ==
  \A j \in Running : bridge.job = j \/ restarts > 0

(* Unless the bridge restarts, it takes up a prompt at most once, so that  *)
(* the agent is not given it again: an offer that was released and made    *)
(* again is not run a second time; and the bridge has the turn the         *)
(* coordinator waits for (claim, handleTurn, requestJob).                  *)
PromptRunOnce ==
  /\ RunningIsBacked
  /\ \A j \in JobId : runs[j] <= 1 + restarts

(* The bridge forgets an answer only after the coordinator has finished    *)
(* the job it belongs to.                                                  *)
AnswerKept ==
  [][bridge.stage = "done" /\ bridge'.stage # "done" /\ restarts' = restarts
       => jobs[bridge.job].status \in Terminal \cup {"purged"}]_system

(* A reset the bridge has not heard of while its agent runs stops the      *)
(* agent, without waiting for its answer: the new generation reaches the   *)
(* bridge with a heartbeat or a reconnect (applyResetGeneration).  Nothing *)
(* is said of a generation heard while the turn file was still written:    *)
(* the code stores it and cancels nothing, and that turn runs on.          *)
ResetStopsTurn ==
  bridge.stage = "running" /\ bridge.gen # resetGen
    ~> bridge.stage # "running" \/ removed

(* A completion of a job the coordinator knows as this runtime's own is    *)
(* acknowledged, unless the job is purged or withdrawn with the claw.      *)
Owned(j) ==
  /\ jobs[j].runtimeId = Self
  /\ jobs[j].status \in Terminal \cup {"running"}

OwnedCompletionAcknowledged ==
  bridge.stage = "done" /\ Owned(bridge.job)
    ~> \/ bridge.stage # "done"
       \/ removed
       \/ jobs[bridge.job].status = "purged"

(* Every completion the bridge has prepared is acknowledged in the end, so *)
(* that the bridge claims again: turns keep being answered after a forced  *)
(* reconnect or a deployment that closed the socket.                       *)
CompletionAcknowledged ==
  bridge.stage = "done" ~> bridge.stage # "done" \/ removed

=============================================================================
