------------------------- MODULE RuntimeTurnsProofs -------------------------
(***************************************************************************)
(* What the bridge and the network do to the coordinator is something a    *)
(* runtime may do in TurnCoordinator: whatever is proved of TurnCoordinator *)
(* holds of the system with the bridge in it.  And the bridge gives a      *)
(* prompt to the agent once and keeps the answer until it is recorded.     *)
(* For any number of jobs, sockets, broken connections, restarts and       *)
(* frames in flight.                                                       *)
(***************************************************************************)
EXTENDS RuntimeTurns, TurnRepliesProofs

(* A frame about a turn names one, and so does a bridge that works. *)
UpFrame ==
  {f \in [type : {"runtime.heartbeat", "job.claim", "job.started", "job.complete"},
          job : JobId \cup {None}, ok : BOOLEAN] :
     f.type \in {"job.started", "job.complete"} => f.job \in JobId}

DownFrame ==
  {f \in [type : {"runtime.ready", "runtime.heartbeat", "runtime.error",
                  "job.available", "job.retry", "job.none", "job.turn",
                  "job.started.ack", "job.ack"},
          job : JobId \cup {None}, gen : Nat] :
     f.type = "job.turn" => f.job \in JobId}

FramesOK ==
  /\ toServer \in [Socket -> Seq(UpFrame)]
  /\ toBridge \in [Socket -> Seq(DownFrame)]

SystemInv == SystemTypeOK /\ FramesOK

----------------------------------------------------------------------------
(* The frames the coordinator writes.                                      *)

(* Frames written to one socket leave every outbox well-formed. *)
LEMMA WriteTyped ==
  ASSUME NEW s, NEW fs \in Seq(DownFrame), Write(s, fs)
  PROVE  outbox' \in [Socket -> Seq(DownFrame)]
<1>. DEFINE S == Seq(DownFrame)
<1>1. <<>> \in S
  OBVIOUS
<1>2. fs \in S
  OBVIOUS
<1>. HIDE DEF S
<1>3. [Silent EXCEPT ![s] = fs] \in [Socket -> S]
  BY <1>1, <1>2 DEF Silent
<1>. QED
  BY <1>3 DEF Write, S

(* So does a single frame. *)
LEMMA WriteOneTyped ==
  ASSUME NEW s, NEW f \in DownFrame, Write(s, <<f>>)
  PROVE  outbox' \in [Socket -> Seq(DownFrame)]
<1>1. <<f>> \in Seq(DownFrame)
  OBVIOUS
<1>. QED
  BY <1>1, WriteTyped

(* So does writing nothing. *)
LEMMA QuietTyped ==
  ASSUME Quiet
  PROVE  outbox' \in [Socket -> Seq(DownFrame)]
BY DEF Quiet, Silent

(* attachSocket writes runtime.ready, and job.available if work waits. *)
LEMMA AttachWrites ==
  ASSUME TypeOK, NEW s \in Socket, AttachSocket(s, Self)
  PROVE  outbox' \in [Socket -> Seq(DownFrame)]
<1>. DEFINE fs == <<GenFrame("runtime.ready", resetGen)>> \o
                    (IF \E j \in JobId : jobs'[j].status = "pending"
                     THEN <<Frame("job.available", None)>> ELSE <<>>)
<1>1. GenFrame("runtime.ready", resetGen) \in DownFrame
  BY DEF Frame, GenFrame, DownFrame, TypeOK
<1>2. Frame("job.available", None) \in DownFrame
  BY DEF Frame, DownFrame
<1>3. fs \in Seq(DownFrame)
  BY <1>1, <1>2
<1>4. Write(s, fs)
  BY DEF AttachSocket
<1>. QED
  BY <1>3, <1>4, WriteTyped

(* enqueueTurn announces the job to every attached socket. *)
LEMMA EnqueueWrites ==
  ASSUME NEW j, NEW e, EnqueueTurn(j, e)
  PROVE  outbox' \in [Socket -> Seq(DownFrame)]
<1>1. Frame("job.available", None) \in DownFrame
  BY DEF Frame, DownFrame
<1>. QED
  BY <1>1 DEF EnqueueTurn

(* Every answer to a frame of the bridge is a well-formed frame. *)
LEMMA ReceiveWrites ==
  ASSUME TypeOK, NEW s \in Socket,
         \/ Heartbeat(s)
         \/ Claim(s)
         \/ \E j \in JobId : Start(s, j)
         \/ \E j \in JobId, ok \in BOOLEAN : Complete(s, j, ok)
  PROVE  outbox' \in [Socket -> Seq(DownFrame)]
<1>1. CASE Heartbeat(s)
  <2>1. GenFrame("runtime.heartbeat", resetGen) \in DownFrame
    BY DEF Frame, GenFrame, DownFrame, TypeOK
  <2>. QED
    BY <1>1, <2>1, WriteOneTyped DEF Heartbeat
<1>2. CASE Claim(s)
  <2>1. /\ Frame("job.retry", None) \in DownFrame
        /\ Frame("job.none", None) \in DownFrame
        /\ \A j \in JobId : Frame("job.turn", j) \in DownFrame
    BY DEF Frame, DownFrame
  <2>2. \A j \in Oldest(OwnedOffers(sockets[s])) : j \in JobId
    BY DEF Oldest, OwnedOffers, OfferedTo
  <2>3. \/ \E j \in JobId : Write(s, <<Frame("job.turn", j)>>)
        \/ Write(s, <<Frame("job.retry", None)>>)
        \/ Write(s, <<Frame("job.none", None)>>)
    BY <1>2, <2>2 DEF Claim, SendOffer
  <2>. QED
    BY <2>1, <2>3, WriteOneTyped
<1>3. ASSUME NEW j \in JobId, Start(s, j)
      PROVE  outbox' \in [Socket -> Seq(DownFrame)]
  <2>1. /\ Frame("job.started.ack", j) \in DownFrame
        /\ Frame("runtime.error", j) \in DownFrame
    BY DEF Frame, DownFrame
  <2>2. \/ Write(s, <<Frame("job.started.ack", j)>>)
        \/ Write(s, <<Frame("runtime.error", j)>>)
    BY <1>3 DEF Start
  <2>. QED
    BY <2>1, <2>2, WriteOneTyped
<1>4. ASSUME NEW j \in JobId, NEW ok \in BOOLEAN, Complete(s, j, ok)
      PROVE  outbox' \in [Socket -> Seq(DownFrame)]
  <2>1. Frame("runtime.error", j) \in DownFrame
    BY DEF Frame, DownFrame
  <2>2. Quiet \/ Write(s, <<Frame("runtime.error", j)>>)
    BY <1>4 DEF Complete, RejectCompletion
  <2>. QED
    BY <2>1, <2>2, WriteOneTyped, QuietTyped
<1>. QED
  BY <1>1, <1>2, <1>3, <1>4

(* A running operation writes nothing before it acknowledges. *)
LEMMA OperationWrites ==
  ASSUME TypeOK, OperationStep
  PROVE  outbox' \in [Socket -> Seq(DownFrame)]
<1>1. CASE Quiet
  BY <1>1, QuietTyped
<1>2. CASE Acknowledge
  <2>1. /\ Frame("job.ack", op.job) \in DownFrame
        /\ Frame("job.available", None) \in DownFrame
    BY DEF Frame, GenFrame, DownFrame, TypeOK
  <2>2. /\ <<Frame("job.ack", op.job)>> \in Seq(DownFrame)
        /\ <<Frame("job.available", None)>> \in Seq(DownFrame)
        /\ <<>> \in Seq(DownFrame)
    BY <2>1
  <2>3. \A fs \in Seq(DownFrame) :
          <<Frame("job.ack", op.job)>> \o fs \in Seq(DownFrame)
    BY <2>2
  <2>. QED
    BY <1>2, <2>2, <2>3, WriteTyped DEF Acknowledge
<1>. QED
  BY <1>1, <1>2 DEF OperationStep

----------------------------------------------------------------------------
(* Frames stay what they are on their way.                                 *)

(* Closing connections and losing frames leaves the rest well-formed. *)
LEMMA TransmitTyped ==
  ASSUME NEW closing, link \in [Socket -> {"free", "open", "closed"}],
         NEW upward \in [Socket -> Seq(UpFrame)],
         NEW downward \in [Socket -> Seq(DownFrame)],
         Transmit(closing, upward, downward)
  PROVE  /\ link' \in [Socket -> {"free", "open", "closed"}]
         /\ FramesOK'
<1>1. link' \in [Socket -> {"free", "open", "closed"}]
  BY DEF Transmit, Links
<1>. DEFINE U == Seq(UpFrame)
            D == Seq(DownFrame)
<1>2. <<>> \in U /\ <<>> \in D
  OBVIOUS
<1>3. upward \in [Socket -> U] /\ downward \in [Socket -> D]
  OBVIOUS
<1>. HIDE DEF U, D
<1>4. toServer' \in [Socket -> U] /\ toBridge' \in [Socket -> D]
  BY <1>2, <1>3 DEF Transmit
<1>. QED
  BY <1>1, <1>4 DEF FramesOK, U, D

(* Frames just written follow those already in flight. *)
LEMMA DeliveredTyped ==
  ASSUME FramesOK, outbox' \in [Socket -> Seq(DownFrame)]
  PROVE  Delivered \in [Socket -> Seq(DownFrame)]
<1>1. \A s \in Socket : toBridge[s] \o outbox'[s] \in Seq(DownFrame)
  BY DEF FramesOK
<1>. QED
  BY <1>1 DEF Delivered, FramesOK

(* A step of the coordinator and what it closes. *)
LEMMA ServerTyped ==
  ASSUME SystemInv, outbox' \in [Socket -> Seq(DownFrame)],
         NEW closing, NEW upward \in [Socket -> Seq(UpFrame)],
         UNCHANGED <<bridge, runs, restarts>>, drops' \in Nat,
         Transmit(closing, upward, Delivered)
  PROVE  SystemInv'
<1>1. Delivered \in [Socket -> Seq(DownFrame)]
  BY DeliveredTyped DEF SystemInv
<1>2. /\ link' \in [Socket -> {"free", "open", "closed"}]
      /\ FramesOK'
  BY <1>1, TransmitTyped DEF SystemInv, SystemTypeOK
<1>. QED
  BY <1>2 DEF SystemInv, SystemTypeOK, Working

(* The same for a step that takes no frame from the bridge. *)
LEMMA ServerStepTyped ==
  ASSUME SystemInv, outbox' \in [Socket -> Seq(DownFrame)],
         NEW closing, ServerStep(closing)
  PROVE  SystemInv'
BY ServerTyped DEF ServerStep, ghosts, SystemInv, SystemTypeOK, FramesOK

(* Taking a frame off a connection yields a well-formed frame. *)
LEMMA TailTyped ==
  ASSUME FramesOK, NEW s \in Socket
  PROVE  /\ toServer[s] # <<>> =>
              /\ Head(toServer[s]) \in UpFrame
              /\ [toServer EXCEPT ![s] = Tail(@)] \in [Socket -> Seq(UpFrame)]
         /\ toBridge[s] # <<>> =>
              /\ Head(toBridge[s]) \in DownFrame
              /\ Tail(toBridge[s]) \in Seq(DownFrame)
<1>1. /\ toServer[s] \in Seq(UpFrame)
      /\ toBridge[s] \in Seq(DownFrame)
  BY DEF FramesOK
<1>2. /\ toServer[s] # <<>> => /\ Head(toServer[s]) \in UpFrame
                               /\ Tail(toServer[s]) \in Seq(UpFrame)
      /\ toBridge[s] # <<>> => /\ Head(toBridge[s]) \in DownFrame
                               /\ Tail(toBridge[s]) \in Seq(DownFrame)
  BY <1>1
<1>. QED
  BY <1>2 DEF FramesOK

(* A step of the bridge: the coordinator does not move. *)
LEMMA BridgeStepTyped ==
  ASSUME SystemInv, NEW b, b \in BridgeState, Working(b) <=> b.job # None,
         NEW frames \in Seq(UpFrame), NEW taken \in BOOLEAN,
         taken /\ b.socket \in Socket => toBridge[b.socket] # <<>>,
         BridgeStep(b, frames, taken), runs' \in [JobId -> Nat]
  PROVE  SystemInv' /\ UNCHANGED vars
<1>. DEFINE up2 == [s \in Socket |-> IF s = b.socket THEN toServer[s] \o frames
                                                     ELSE toServer[s]]
            down2 == [s \in Socket |-> IF s = b.socket /\ taken THEN Tail(toBridge[s])
                                                                ELSE toBridge[s]]
<1>1. up2 \in [Socket -> Seq(UpFrame)]
  <2>1. \A s \in Socket : toServer[s] \o frames \in Seq(UpFrame)
    BY DEF SystemInv, FramesOK
  <2>. QED
    BY <2>1 DEF SystemInv, FramesOK
<1>2. down2 \in [Socket -> Seq(DownFrame)]
  <2>1. \A s \in Socket : s = b.socket /\ taken => Tail(toBridge[s]) \in Seq(DownFrame)
    BY TailTyped DEF SystemInv
  <2>. QED
    BY <2>1 DEF SystemInv, FramesOK
<1>3. Transmit({}, up2, down2)
  BY DEF BridgeStep
<1>4. /\ link' \in [Socket -> {"free", "open", "closed"}]
      /\ FramesOK'
  BY <1>1, <1>2, <1>3, TransmitTyped DEF SystemInv, SystemTypeOK
<1>. QED
  BY <1>4 DEF SystemInv, SystemTypeOK, BridgeStep

----------------------------------------------------------------------------
(* The coordinator's steps.                                                *)

(* A frame of the bridge is one that TurnCoordinator lets a runtime send. *)
LEMMA ReceiveStep ==
  ASSUME TypeOK, SystemInv, NEW s \in Socket, Receive(s)
  PROVE  SystemInv' /\ Next
<1>. DEFINE f == Head(toServer[s])
<1>1. f \in UpFrame /\ [toServer EXCEPT ![s] = Tail(@)] \in [Socket -> Seq(UpFrame)]
  BY TailTyped DEF Receive, SystemInv
<1>2. \/ Heartbeat(s)
      \/ Claim(s)
      \/ \E j \in JobId : Start(s, j)
      \/ \E j \in JobId, ok \in BOOLEAN : Complete(s, j, ok)
  BY <1>1 DEF Receive, UpFrame
<1>3. outbox' \in [Socket -> Seq(DownFrame)]
  BY <1>2, ReceiveWrites
<1>4. SystemInv'
  <2>1. Transmit({}, [toServer EXCEPT ![s] = Tail(@)], Delivered)
    BY DEF Receive
  <2>2. UNCHANGED <<bridge, runs, restarts>> /\ drops' \in Nat
    BY DEF Receive, ghosts, SystemInv, SystemTypeOK
  <2>. QED
    BY <1>1, <1>3, <2>1, <2>2, ServerTyped
<1>5. Next
  BY <1>2 DEF Next, RuntimeFrame
<1>. QED
  BY <1>4, <1>5

(* Attaching, detaching and forced reconnects. *)
LEMMA ConnectionStep ==
  ASSUME TypeOK, SystemInv,
         \/ \E s \in Socket : Attach(s) \/ Detach(s)
         \/ ForceReconnect
  PROVE  SystemInv' /\ Next
<1>1. ASSUME NEW s \in Socket, Attach(s) PROVE SystemInv' /\ Next
  <2>1. outbox' \in [Socket -> Seq(DownFrame)]
    BY <1>1, AttachWrites DEF Attach
  <2>2. SystemInv'
    BY <1>1, <2>1, ServerStepTyped DEF Attach
  <2>3. Self \in Runtime
    BY BridgeAssumption
  <2>4. Next
    BY <1>1, <2>3 DEF Attach, Next, Connections
  <2>. QED
    BY <2>2, <2>4
<1>2. ASSUME NEW s \in Socket, Detach(s) PROVE SystemInv' /\ Next
  <2>1. outbox' \in [Socket -> Seq(DownFrame)]
    BY <1>2, QuietTyped DEF Detach, DetachSocket
  <2>2. SystemInv'
    BY <1>2, <2>1, ServerStepTyped DEF Detach
  <2>3. Next
    BY <1>2 DEF Detach, Next, Connections
  <2>. QED
    BY <2>2, <2>3
<1>3. ASSUME ForceReconnect PROVE SystemInv' /\ Next
  <2>1. outbox' \in [Socket -> Seq(DownFrame)]
    BY <1>3, QuietTyped DEF ForceReconnect, RestartRuntimeConnections
  <2>2. /\ Transmit(AttachedSockets, toServer, Delivered)
        /\ UNCHANGED <<bridge, runs, restarts>> /\ drops' \in Nat
        /\ toServer \in [Socket -> Seq(UpFrame)]
    BY <1>3 DEF ForceReconnect, SystemInv, SystemTypeOK, FramesOK
  <2>3. SystemInv'
    BY <2>1, <2>2, ServerTyped
  <2>4. Next
    BY <1>3 DEF ForceReconnect, Next, Connections
  <2>. QED
    BY <2>3, <2>4
<1>. QED
  BY <1>1, <1>2, <1>3

(* Sweeps, running operations, restarts of the process and time. *)
LEMMA AdvanceStep ==
  ASSUME TypeOK, SystemInv, Advance
  PROVE  SystemInv' /\ Next
<1>1. ServerStep({}) /\ (CleanupSweep \/ OperationStep \/ Restart \/ Tick)
  BY DEF Advance
<1>2. outbox' \in [Socket -> Seq(DownFrame)]
  BY <1>1, OperationWrites, QuietTyped DEF CleanupSweep, Restart, Tick
<1>3. SystemInv'
  BY <1>1, <1>2, ServerStepTyped
<1>4. Next
  BY <1>1 DEF Next
<1>. QED
  BY <1>3, <1>4

(* Turns that arrive and administrators' requests. *)
LEMMA AdministrationStep ==
  ASSUME TypeOK, SystemInv, Enqueue \/ Administer
  PROVE  SystemInv' /\ Next
<1>1. ASSUME NEW j \in JobId, NEW e \in EventId, EnqueueTurn(j, e), ServerStep({})
      PROVE  SystemInv' /\ Next
  <2>1. outbox' \in [Socket -> Seq(DownFrame)]
    BY <1>1, EnqueueWrites
  <2>2. SystemInv'
    BY <1>1, <2>1, ServerStepTyped
  <2>3. Next
    BY <1>1 DEF Next
  <2>. QED
    BY <2>2, <2>3
<1>2. ASSUME Administer PROVE SystemInv' /\ Next
  <2>1. /\ CancelPending \/ CancelActiveTurns \/ PrepareForRemoval
        /\ ServerStep({}) \/ ServerStep(AttachedSockets)
    BY <1>2 DEF Administer
  <2>2. outbox' \in [Socket -> Seq(DownFrame)]
    BY <2>1, QuietTyped DEF CancelPending, CancelActiveTurns, PrepareForRemoval
  <2>3. SystemInv'
    BY <2>1, <2>2, ServerStepTyped
  <2>4. Next
    BY <2>1 DEF Next, Administration
  <2>. QED
    BY <2>3, <2>4
<1>. QED
  BY <1>1, <1>2 DEF Enqueue

(* A failing operation and a crash. *)
LEMMA FaultStep ==
  ASSUME TypeOK, SystemInv, ServerFault
  PROVE  SystemInv' /\ Next
<1>1. /\ OperationFails \/ Crash
      /\ \/ ServerStep({op.caller} \cap Socket)
         \/ ServerStep({s \in Socket : link[s] = "open"})
  BY DEF ServerFault
<1>2. outbox' \in [Socket -> Seq(DownFrame)]
  BY <1>1, QuietTyped DEF OperationFails, Crash
<1>3. SystemInv'
  BY <1>1, <1>2, ServerStepTyped
<1>4. Next
  BY <1>1 DEF Next, Fault
<1>. QED
  BY <1>3, <1>4

(* The network, and a connection that is refused. *)
LEMMA NetworkStep ==
  ASSUME SystemInv, NEW s \in Socket, Drop(s) \/ RefuseAttach(s)
  PROVE  SystemInv' /\ UNCHANGED vars
<1>1. /\ Transmit({s}, toServer, toBridge)
      /\ UNCHANGED <<vars, bridge, runs, restarts>>
      /\ drops' \in Nat
  BY DEF Drop, RefuseAttach, ghosts, SystemInv, SystemTypeOK
<1>2. /\ link' \in [Socket -> {"free", "open", "closed"}]
      /\ FramesOK'
  BY <1>1, TransmitTyped DEF SystemInv, SystemTypeOK, FramesOK
<1>. QED
  BY <1>1, <1>2 DEF SystemInv, SystemTypeOK, Working

----------------------------------------------------------------------------
(* The bridge's steps.                                                     *)

(* The frames the bridge sends are well-formed. *)
LEMMA SentTyped ==
  /\ ClaimFrame \in UpFrame
  /\ Message("runtime.heartbeat", None, FALSE) \in UpFrame
  /\ \A j \in JobId : Message("job.started", j, FALSE) \in UpFrame
  /\ \A b \in BridgeState : b.job \in JobId => Completion(b) \in UpFrame
BY DEF ClaimFrame, Message, Completion, UpFrame, BridgeState

(* Sequences of at most one frame. *)
LEMMA SequencesTyped ==
  /\ <<>> \in Seq(UpFrame)
  /\ \A f \in UpFrame : <<f>> \in Seq(UpFrame)
OBVIOUS

(* An incoming frame is there to be taken. *)
LEMMA IncomingTyped ==
  ASSUME SystemInv, NEW types, Incoming(types)
  PROVE  /\ bridge.socket \in Socket /\ toBridge[bridge.socket] # <<>>
         /\ Arrived \in DownFrame /\ Arrived.type \in types
<1>1. bridge.socket \in Socket
  BY DEF Incoming, SystemInv, SystemTypeOK, BridgeState
<1>. QED
  BY <1>1, TailTyped DEF Incoming, Arrived, SystemInv

(* requestJob sends a claim or nothing. *)
LEMMA RequestJobTyped ==
  ASSUME SystemInv, NEW b \in BridgeState, Working(b) <=> b.job # None,
         NEW taken \in BOOLEAN,
         taken /\ b.socket \in Socket => toBridge[b.socket] # <<>>,
         RequestJob(b, taken), UNCHANGED runs
  PROVE  SystemInv' /\ UNCHANGED vars
<1>. DEFINE c == [b EXCEPT !.claiming = TRUE]
<1>1. /\ c \in BridgeState /\ (Working(c) <=> c.job # None)
      /\ c.socket = b.socket
  BY DEF BridgeState, Working
<1>2. <<ClaimFrame>> \in Seq(UpFrame) /\ <<>> \in Seq(UpFrame)
  BY SentTyped, SequencesTyped
<1>3. runs' \in [JobId -> Nat]
  BY DEF SystemInv, SystemTypeOK
<1>4. \/ BridgeStep(c, <<ClaimFrame>>, taken)
      \/ BridgeStep(b, <<>>, taken)
  BY DEF RequestJob
<1>5. CASE BridgeStep(c, <<ClaimFrame>>, taken)
  BY <1>1, <1>2, <1>3, <1>5, BridgeStepTyped
<1>6. CASE BridgeStep(b, <<>>, taken)
  BY <1>2, <1>3, <1>6, BridgeStepTyped
<1>. QED
  BY <1>4, <1>5, <1>6

(* A new connection starts with a completion, a claim or nothing. *)
LEMMA ConnectStep ==
  ASSUME SystemInv, NEW s \in Socket, Connect(s)
  PROVE  SystemInv' /\ UNCHANGED vars
<1>. DEFINE c == MayClaim([bridge EXCEPT !.socket = s, !.claiming = FALSE])
            b == [bridge EXCEPT !.socket = s, !.claiming = c]
            first == IF b.stage = "done" THEN <<Completion(b)>>
                     ELSE IF b.claiming THEN <<ClaimFrame>> ELSE <<>>
<1>1. c \in BOOLEAN
  BY DEF MayClaim
<1>2. /\ b \in BridgeState /\ (Working(b) <=> b.job # None)
      /\ b.stage = "done" => b.job \in JobId
  BY <1>1 DEF SystemInv, SystemTypeOK, BridgeState, Working
<1>3. first \in Seq(UpFrame)
  <2>1. b.stage = "done" => Completion(b) \in UpFrame
    BY <1>2, SentTyped
  <2>. QED
    BY <2>1, SentTyped, SequencesTyped
<1>4. /\ bridge' = b
      /\ link' = [link EXCEPT ![s] = "open"]
      /\ toServer' = [toServer EXCEPT ![s] = first]
      /\ UNCHANGED <<vars, toBridge, runs, drops, restarts>>
  BY DEF Connect, ghosts
<1>. HIDE DEF b, first
<1>. QED
  BY <1>2, <1>3, <1>4 DEF SystemInv, SystemTypeOK, FramesOK, Working

(* The close event keeps the turn at hand. *)
LEMMA DisconnectStep ==
  ASSUME SystemInv, Disconnect
  PROVE  SystemInv' /\ UNCHANGED vars
<1>1. /\ Transmit({}, toServer, toBridge)
      /\ UNCHANGED <<vars, runs, drops, restarts>>
      /\ \/ bridge' = Closed(bridge)
         \/ /\ Incoming({"job.turn"})
            /\ bridge' = Closed([bridge EXCEPT !.preparing = Arrived.job])
  BY DEF Disconnect, ghosts
<1>2. /\ link' \in [Socket -> {"free", "open", "closed"}]
      /\ FramesOK'
  BY <1>1, TransmitTyped DEF SystemInv, SystemTypeOK, FramesOK
<1>3. ASSUME NEW b \in BridgeState, b.stage = bridge.stage, b.job = bridge.job
      PROVE  Closed(b) \in BridgeState /\ (Working(Closed(b)) <=> Closed(b).job # None)
  BY <1>3 DEF Closed, SystemInv, SystemTypeOK, BridgeState, Working
<1>4. ASSUME Incoming({"job.turn"})
      PROVE  LET b == [bridge EXCEPT !.preparing = Arrived.job]
             IN b \in BridgeState /\ b.stage = bridge.stage /\ b.job = bridge.job
  <2>1. Arrived.job \in JobId
    BY <1>4, IncomingTyped DEF DownFrame
  <2>. QED
    BY <2>1 DEF SystemInv, SystemTypeOK, BridgeState
<1>5. bridge' \in BridgeState /\ (Working(bridge') <=> bridge'.job # None)
  BY <1>1, <1>3, <1>4 DEF SystemInv, SystemTypeOK
<1>. QED
  BY <1>1, <1>2, <1>5 DEF SystemInv, SystemTypeOK, Working

(* A restarted bridge has no turn. *)
LEMMA RestartBridgeStep ==
  ASSUME SystemInv, RestartBridge
  PROVE  SystemInv' /\ UNCHANGED vars
<1>1. /\ Transmit({bridge.socket} \cap Socket, toServer, toBridge)
      /\ bridge' = FreshBridge
      /\ UNCHANGED <<vars, runs, drops>>
      /\ restarts' \in Nat
  BY DEF RestartBridge, SystemInv, SystemTypeOK
<1>2. /\ link' \in [Socket -> {"free", "open", "closed"}]
      /\ FramesOK'
  BY <1>1, TransmitTyped DEF SystemInv, SystemTypeOK, FramesOK
<1>3. bridge' \in BridgeState /\ (Working(bridge') <=> bridge'.job # None)
  BY <1>1 DEF FreshBridge, BridgeState, Working
<1>. QED
  BY <1>1, <1>2, <1>3 DEF SystemInv, SystemTypeOK, Working

(* Every frame the bridge handles. *)
LEMMA OnMessageStep ==
  ASSUME TypeOK, SystemInv, OnMessage
  PROVE  SystemInv' /\ UNCHANGED vars
<1>. USE SequencesTyped
<1>1. /\ bridge \in BridgeState /\ (Working(bridge) <=> bridge.job # None)
      /\ runs \in [JobId -> Nat]
  BY DEF SystemInv, SystemTypeOK
<1>2. CASE OnGeneration
  <2>1. /\ bridge.socket \in Socket /\ toBridge[bridge.socket] # <<>>
        /\ Arrived.gen \in Nat
    BY <1>2, IncomingTyped DEF OnGeneration, DownFrame
  <2>. DEFINE b == Generation(bridge, Arrived.gen)
  <2>2. /\ b \in BridgeState /\ (Working(b) <=> b.job # None)
        /\ b.socket = bridge.socket
    BY <1>1, <2>1 DEF Generation, BridgeState, Working
  <2>3. BridgeStep(b, <<>>, TRUE) /\ runs' \in [JobId -> Nat]
    BY <1>1, <1>2 DEF OnGeneration
  <2>. QED
    BY <2>1, <2>2, <2>3, BridgeStepTyped
<1>3. CASE OnAvailable
  <2>1. bridge.socket \in Socket /\ toBridge[bridge.socket] # <<>>
    BY <1>3, IncomingTyped DEF OnAvailable
  <2>. QED
    BY <1>1, <1>3, <2>1, RequestJobTyped DEF OnAvailable
<1>4. CASE OnNoJob
  <2>1. bridge.socket \in Socket /\ toBridge[bridge.socket] # <<>>
    BY <1>4, IncomingTyped DEF OnNoJob
  <2>. DEFINE b == IF bridge.preparing # None THEN bridge
                   ELSE [bridge EXCEPT !.claiming = FALSE, !.polling = TRUE]
  <2>2. /\ b \in BridgeState /\ (Working(b) <=> b.job # None)
        /\ b.socket = bridge.socket
    BY <1>1 DEF BridgeState, Working
  <2>3. BridgeStep(b, <<>>, TRUE) /\ runs' \in [JobId -> Nat]
    BY <1>1, <1>4 DEF OnNoJob
  <2>. QED
    BY <2>1, <2>2, <2>3, BridgeStepTyped
<1>5. CASE OnOther
  <2>1. bridge.socket \in Socket /\ toBridge[bridge.socket] # <<>>
    BY <1>5, IncomingTyped DEF OnOther
  <2>. DEFINE b == IF Arrived.type = "runtime.error" THEN Refused(bridge) ELSE bridge
  <2>2. /\ b \in BridgeState /\ (Working(b) <=> b.job # None)
        /\ b.socket = bridge.socket
    BY <1>1 DEF Refused, BridgeState, Working
  <2>3. BridgeStep(b, <<>>, TRUE) /\ runs' \in [JobId -> Nat]
    BY <1>1, <1>5 DEF OnOther
  <2>. QED
    BY <2>1, <2>2, <2>3, BridgeStepTyped
<1>6. CASE OnAck
  <2>1. bridge.socket \in Socket /\ toBridge[bridge.socket] # <<>>
    BY <1>6, IncomingTyped DEF OnAck
  <2>. DEFINE b == Forgotten(bridge)
  <2>2. /\ b \in BridgeState /\ (Working(b) <=> b.job # None)
        /\ b.socket = bridge.socket
    BY <1>1 DEF Forgotten, BridgeState, Working
  <2>3. /\ RequestJob(b, TRUE) \/ BridgeStep(bridge, <<>>, TRUE)
        /\ UNCHANGED runs /\ runs' \in [JobId -> Nat]
    BY <1>1, <1>6 DEF OnAck
  <2>4. CASE RequestJob(b, TRUE)
    BY <2>1, <2>2, <2>3, <2>4, RequestJobTyped
  <2>5. CASE BridgeStep(bridge, <<>>, TRUE)
    BY <1>1, <2>1, <2>3, <2>5, BridgeStepTyped
  <2>. QED
    BY <2>3, <2>4, <2>5
<1>7. CASE OnTurn
  <2>. DEFINE j == Arrived.job
              b == [bridge EXCEPT !.claiming = FALSE, !.preparing = None]
              c == [b EXCEPT !.stage = "writing", !.job = j]
  <2>1. /\ bridge.socket \in Socket /\ toBridge[bridge.socket] # <<>>
        /\ j \in JobId
    BY <1>7, IncomingTyped DEF OnTurn, DownFrame
  <2>2. CASE Working(bridge)
    <3>1. /\ b \in BridgeState /\ (Working(b) <=> b.job # None)
          /\ b.socket = bridge.socket
      BY <1>1 DEF BridgeState, Working
    <3>2. BridgeStep(b, <<>>, TRUE) /\ runs' \in [JobId -> Nat]
      BY <1>1, <1>7, <2>2 DEF OnTurn
    <3>. QED
      BY <2>1, <3>1, <3>2, BridgeStepTyped
  <2>3. CASE ~Working(bridge)
    <3>1. /\ c \in BridgeState /\ (Working(c) <=> c.job # None)
          /\ c.socket = bridge.socket
      BY <1>1, <2>1, ConstantsAssumption DEF BridgeState, Working, TypeOK
    <3>2. <<Message("job.started", j, FALSE)>> \in Seq(UpFrame)
      BY <2>1, SentTyped
    <3>3. /\ BridgeStep(c, <<Message("job.started", j, FALSE)>>, TRUE)
          /\ runs' = [runs EXCEPT ![j] = @ + 1]
      BY <1>7, <2>3 DEF OnTurn
    <3>4. runs' \in [JobId -> Nat]
      BY <1>1, <2>1, <3>3
    <3>. QED
      BY <2>1, <3>1, <3>2, <3>3, <3>4, BridgeStepTyped
  <2>. QED
    BY <2>2, <2>3
<1>. QED
  BY <1>2, <1>3, <1>4, <1>5, <1>6, <1>7 DEF OnMessage

(* The agent is started, or the turn file fails. *)
LEMMA AgentStep ==
  ASSUME SystemInv, StartAgent \/ TurnFileFails
  PROVE  SystemInv' /\ UNCHANGED vars
<1>1. /\ bridge \in BridgeState /\ (Working(bridge) <=> bridge.job # None)
      /\ bridge.stage \in {"writing", "running"} /\ runs \in [JobId -> Nat]
  BY DEF SystemInv, SystemTypeOK, StartAgent, TurnFileFails
<1>2. PICK stage \in {"running", "stuck"} :
        BridgeStep([bridge EXCEPT !.stage = stage], <<>>, FALSE) /\ UNCHANGED runs
  BY DEF StartAgent, TurnFileFails
<1>. DEFINE b == [bridge EXCEPT !.stage = stage]
<1>3. b \in BridgeState /\ (Working(b) <=> b.job # None)
  BY <1>1 DEF BridgeState, Working
<1>. QED
  BY <1>1, <1>2, <1>3, BridgeStepTyped, SequencesTyped

(* The agent's end and the timers. *)
LEMMA TimerStep ==
  ASSUME SystemInv, FinishTurn \/ Poll \/ Beat \/ Resend
  PROVE  SystemInv' /\ UNCHANGED vars
<1>. USE SequencesTyped
<1>1. /\ bridge \in BridgeState /\ (Working(bridge) <=> bridge.job # None)
      /\ runs \in [JobId -> Nat]
  BY DEF SystemInv, SystemTypeOK
<1>2. CASE FinishTurn
  <2>1. PICK ok \in BOOLEAN :
          LET b == [bridge EXCEPT !.stage = "done", !.ok = ok]
          IN BridgeStep(b, IF b.socket # None THEN <<Completion(b)>> ELSE <<>>, FALSE)
    BY <1>2 DEF FinishTurn
  <2>. DEFINE b == [bridge EXCEPT !.stage = "done", !.ok = ok]
              frames == IF b.socket # None THEN <<Completion(b)>> ELSE <<>>
  <2>2. /\ b \in BridgeState /\ (Working(b) <=> b.job # None)
        /\ b.job \in JobId
    BY <1>1, <1>2 DEF FinishTurn, BridgeState, Working
  <2>3. frames \in Seq(UpFrame)
    BY <2>2, SentTyped
  <2>4. BridgeStep(b, frames, FALSE) /\ runs' \in [JobId -> Nat]
    BY <1>1, <1>2, <2>1 DEF FinishTurn
  <2>. QED
    BY <2>2, <2>3, <2>4, BridgeStepTyped
<1>3. CASE Poll
  <2>. DEFINE b == [bridge EXCEPT !.polling = FALSE]
  <2>1. b \in BridgeState /\ (Working(b) <=> b.job # None)
    BY <1>1 DEF BridgeState, Working
  <2>2. RequestJob(b, FALSE) /\ UNCHANGED runs
    BY <1>3 DEF Poll
  <2>. QED
    BY <2>1, <2>2, RequestJobTyped
<1>4. CASE Beat
  <2>1. <<Message("runtime.heartbeat", None, FALSE)>> \in Seq(UpFrame)
    BY SentTyped
  <2>2. /\ BridgeStep(bridge, <<Message("runtime.heartbeat", None, FALSE)>>, FALSE)
        /\ runs' \in [JobId -> Nat]
    BY <1>1, <1>4 DEF Beat
  <2>. QED
    BY <1>1, <2>1, <2>2, BridgeStepTyped
<1>5. CASE Resend
  <2>1. Completion(bridge) \in UpFrame
    BY <1>1, <1>5, SentTyped DEF Resend, BridgeState, Working
  <2>2. /\ BridgeStep(bridge, <<Completion(bridge)>>, FALSE)
        /\ runs' \in [JobId -> Nat]
    BY <1>1, <1>5 DEF Resend
  <2>. QED
    BY <1>1, <2>1, <2>2, BridgeStepTyped
<1>. QED
  BY <1>2, <1>3, <1>4, <1>5

----------------------------------------------------------------------------
(* Every step of the system is a step of TurnCoordinator, or leaves it     *)
(* where it is; IInv makes sure that the frames are well-formed.           *)
LEMMA SystemSteps ==
  ASSUME TypeOK, SystemInv, [NextSystem]_system
  PROVE  SystemInv' /\ [Next]_vars
<1>1. CASE UNCHANGED system
  BY <1>1 DEF system, network, ghosts, vars, SystemInv, SystemTypeOK, FramesOK, Working
<1>2. CASE \E s \in Socket : Receive(s)
  BY <1>2, ReceiveStep
<1>3. CASE (\E s \in Socket : Attach(s) \/ Detach(s)) \/ ForceReconnect
  BY <1>3, ConnectionStep
<1>4. CASE Enqueue \/ Administer
  BY <1>4, AdministrationStep
<1>5. CASE Advance
  BY <1>5, AdvanceStep
<1>6. CASE ServerFault
  BY <1>6, FaultStep
<1>7. CASE \E s \in Socket : Drop(s) \/ RefuseAttach(s)
  BY <1>7, NetworkStep
<1>8. CASE \E s \in Socket : Connect(s)
  BY <1>8, ConnectStep
<1>9. CASE Disconnect
  BY <1>9, DisconnectStep
<1>10. CASE OnMessage
  BY <1>10, OnMessageStep
<1>11. CASE FinishTurn \/ Poll \/ Beat \/ Resend
  BY <1>11, TimerStep
<1>12. CASE RestartBridge
  BY <1>12, RestartBridgeStep
<1>13. CASE StartAgent \/ TurnFileFails
  BY <1>13, AgentStep
<1>. QED
  BY <1>1, <1>2, <1>3, <1>4, <1>5, <1>6, <1>7, <1>8, <1>9, <1>10, <1>11, <1>12, <1>13
  DEF NextSystem

(* Nothing is in flight at the start. *)
LEMMA SystemInit == InitSystem => Init /\ SystemInv
<1>. USE SequencesTyped
<1>1. <<>> \in Seq(DownFrame)
  OBVIOUS
<1>2. InitSystem => FramesOK
  BY <1>1 DEF InitSystem, Silent, FramesOK
<1>3. InitSystem => SystemTypeOK
  BY DEF InitSystem, FreshBridge, SystemTypeOK, BridgeState, Working
<1>. QED
  BY <1>2, <1>3 DEF InitSystem, SystemInv

(* The coordinator's inductive invariant holds with the bridge in place. *)
LEMMA SystemInvariance == SystemSpec => [](IInv /\ SystemInv)
<1>1. InitSystem => IInv /\ SystemInv
  BY SystemInit, InitIInv
<1>2. IInv /\ SystemInv /\ [NextSystem]_system => IInv' /\ SystemInv'
  <2>1. IInv => TypeOK
    BY DEF IInv
  <2>. QED
    BY <2>1, SystemSteps, NextIInv
<1>. QED
  BY <1>1, <1>2, PTL DEF SystemSpec

(* Bridge, coordinator and frames keep their types; a working bridge has a *)
(* job at hand.                                                            *)
THEOREM SystemTypeCorrect == SystemSpec => []SystemTypeOK
<1>1. SystemInv => SystemTypeOK
  BY DEF SystemInv
<1>. QED
  BY <1>1, SystemInvariance, PTL

(* The bridge and its unreliable connections behave like a runtime of      *)
(* TurnCoordinator: everything proved of the coordinator holds here.       *)
THEOREM SystemImplementsCoordinator == SystemSpec => Spec
<1>1. InitSystem => Init
  BY SystemInit
<1>2. IInv /\ SystemInv /\ [NextSystem]_system => [Next]_vars
  <2>1. IInv => TypeOK
    BY DEF IInv
  <2>. QED
    BY <2>1, SystemSteps
<1>. QED
  BY <1>1, <1>2, SystemInvariance, PTL DEF SystemSpec, Spec

----------------------------------------------------------------------------
(* A prompt is run once.                                                   *)

(* The bridge has taken up job j's prompt since it was last started; for  *)
(* the coordinator the job is over; a queue holds a frame about it.        *)
Ran(j)       == runs[j] > restarts
Over(j)      == jobs[j].status \in Terminal \cup {"purged"}
Has(q, t, j) == \E i \in 1..Len(q) : q[i].type = t /\ q[i].job = j

(* A job's turn is never behind its own acknowledgement. *)
AcksLast(q) ==
  \A i, k \in 1..Len(q) : k < i /\ q[k].type = "job.ack" /\ q[i].type = "job.turn"
                            => q[k].job # q[i].job

(* A prompt the bridge was given is at hand in it until the coordinator is *)
(* done with the job, so a turn that is still in flight is refused; what   *)
(* is on its way, in either direction, agrees with that.                   *)
OnceInv ==
  /\ \A j \in JobId : /\ runs[j] <= restarts + 1
                      /\ Ran(j) => bridge.job = j \/ Over(j)
                      /\ j \in Running => Ran(j) \/ restarts > 0
  /\ \A s \in Socket : AcksLast(toBridge[s])
  /\ \A s \in Socket, j \in JobId :
       /\ Has(toBridge[s], "job.ack", j) => Over(j)
       /\ Has(toBridge[s], "job.turn", j) /\ Ran(j) => bridge.job = j
       /\ Has(toServer[s], "job.started", j) => Ran(j) \/ restarts > 0

(* Frames in queues that are written to, taken from and lost. *)
LEMMA HasEmpty == \A t, j : ~Has(<<>>, t, j)
BY DEF Has

LEMMA HasOne ==
  ASSUME NEW f, NEW t, NEW j, Has(<<f>>, t, j)
  PROVE  f.type = t /\ f.job = j
BY DEF Has

LEMMA HasHead ==
  ASSUME NEW S, NEW q \in Seq(S), q # <<>>
  PROVE  Has(q, Head(q).type, Head(q).job)
<1>1. 1 \in 1..Len(q) /\ Head(q) = q[1]
  OBVIOUS
<1>. QED
  BY <1>1 DEF Has

LEMMA HasConcat ==
  ASSUME NEW S, NEW p \in Seq(S), NEW q \in Seq(S), NEW t, NEW j, Has(p \o q, t, j)
  PROVE  Has(p, t, j) \/ Has(q, t, j)
<1>1. PICK i \in 1..Len(p \o q) : (p \o q)[i].type = t /\ (p \o q)[i].job = j
  BY DEF Has
<1>2. CASE i \in 1..Len(p)
  BY <1>1, <1>2 DEF Has
<1>3. CASE i \notin 1..Len(p)
  <2>1. i - Len(p) \in 1..Len(q) /\ (p \o q)[i] = q[i - Len(p)]
    BY <1>3
  <2>. QED
    BY <1>1, <2>1 DEF Has
<1>. QED
  BY <1>2, <1>3

LEMMA HasTail ==
  ASSUME NEW S, NEW q \in Seq(S), q # <<>>
  PROVE  /\ \A t, j : Has(Tail(q), t, j) => Has(q, t, j)
         /\ AcksLast(q) => AcksLast(Tail(q))
         /\ \A j : AcksLast(q) /\ Head(q).type = "job.ack" /\ Head(q).job = j
                     => ~Has(Tail(q), "job.turn", j)
<1>1. \A i \in 1..Len(Tail(q)) : i + 1 \in 1..Len(q) /\ Tail(q)[i] = q[i + 1]
  OBVIOUS
<1>2. \A t, j : Has(Tail(q), t, j) => Has(q, t, j)
  BY <1>1 DEF Has
<1>3. AcksLast(q) => AcksLast(Tail(q))
  <2>. SUFFICES ASSUME AcksLast(q), NEW i \in 1..Len(Tail(q)), NEW k \in 1..Len(Tail(q)),
                       k < i, Tail(q)[k].type = "job.ack", Tail(q)[i].type = "job.turn"
                PROVE  Tail(q)[k].job # Tail(q)[i].job
    BY DEF AcksLast
  <2>. QED
    BY <1>1 DEF AcksLast
<1>4. 1 \in 1..Len(q) /\ Head(q) = q[1]
  OBVIOUS
<1>5. ASSUME NEW j, AcksLast(q), Head(q).type = "job.ack", Head(q).job = j,
             Has(Tail(q), "job.turn", j)
      PROVE  FALSE
  <2>1. PICK i \in 1..Len(Tail(q)) : Tail(q)[i].type = "job.turn" /\ Tail(q)[i].job = j
    BY <1>5 DEF Has
  <2>. QED
    BY <1>1, <1>4, <1>5, <2>1 DEF AcksLast
<1>. QED
  BY <1>2, <1>3, <1>5

LEMMA AcksConcat ==
  ASSUME NEW S, NEW p \in Seq(S), NEW q \in Seq(S), AcksLast(p), AcksLast(q),
         \A j : ~(Has(p, "job.ack", j) /\ Has(q, "job.turn", j))
  PROVE  AcksLast(p \o q)
<1>. SUFFICES ASSUME NEW i \in 1..Len(p \o q), NEW k \in 1..Len(p \o q), k < i,
                     (p \o q)[k].type = "job.ack", (p \o q)[i].type = "job.turn"
              PROVE  (p \o q)[k].job # (p \o q)[i].job
  BY DEF AcksLast
<1>1. CASE i \in 1..Len(p)
  BY <1>1 DEF AcksLast
<1>2. CASE k \notin 1..Len(p)
  <2>1. /\ i - Len(p) \in 1..Len(q) /\ (p \o q)[i] = q[i - Len(p)]
        /\ k - Len(p) \in 1..Len(q) /\ (p \o q)[k] = q[k - Len(p)]
        /\ k - Len(p) < i - Len(p)
    BY <1>2
  <2>. QED
    BY <2>1 DEF AcksLast
<1>3. CASE i \notin 1..Len(p) /\ k \in 1..Len(p)
  <2>1. i - Len(p) \in 1..Len(q) /\ (p \o q)[i] = q[i - Len(p)]
    BY <1>3
  <2>2. (p \o q)[k] = p[k]
    BY <1>3
  <2>3. Has(q, "job.turn", (p \o q)[i].job) /\ Has(p, "job.ack", (p \o q)[k].job)
    BY <1>3, <2>1, <2>2 DEF Has
  <2>. QED
    BY <2>3
<1>. QED
  BY <1>1, <1>2, <1>3

(* A queue whose turns are of jobs not yet over, and whose                 *)
(* acknowledgements are of jobs that are, has its acknowledgements last.   *)
LEMMA AcksApart ==
  ASSUME NEW q, \A j : ~(Has(q, "job.ack", j) /\ Has(q, "job.turn", j))
  PROVE  AcksLast(q)
<1>. SUFFICES ASSUME NEW i \in 1..Len(q), NEW k \in 1..Len(q), k < i,
                     q[k].type = "job.ack", q[i].type = "job.turn"
              PROVE  q[k].job # q[i].job
  BY DEF AcksLast
<1>1. Has(q, "job.turn", q[i].job) /\ Has(q, "job.ack", q[k].job)
  BY DEF Has
<1>. QED
  BY <1>1

----------------------------------------------------------------------------
(* The coordinator's jobs: what is over stays over, and only a start makes *)
(* a job a running one.                                                    *)

(* No move of TurnReplies leads back from "forgotten". *)
LEMMA ForgottenStays ==
  ASSUME [Replies!Next]_Replies!vars, NEW j \in JobId, PhaseOf(jobs[j]) = "forgotten"
  PROVE  PhaseOf(jobs'[j]) = "forgotten"
<1>1. CASE UNCHANGED Replies!vars
  <2>1. \A k \in JobId : PhaseOf(jobs'[k]) = PhaseOf(jobs[k])
    BY <1>1 DEF Replies!vars
  <2>. QED
    BY <2>1
<1>2. ASSUME NEW k \in JobId,
             \/ Replies!Accept(k) \/ Replies!Begin(k) \/ Replies!Answer(k)
             \/ Replies!Deliver(k) \/ Replies!Abandon(k)
      PROVE  PhaseOf(jobs'[j]) = "forgotten"
  <2>1. \E from, to : Replies!Move(k, from, to) /\ "forgotten" \notin from
    BY <1>2 DEF Replies!Accept, Replies!Begin, Replies!Answer, Replies!Deliver, Replies!Abandon
  <2>. QED
    BY <2>1 DEF Replies!Move
<1>3. ASSUME NEW k \in JobId, Replies!Post(k)
      PROVE  PhaseOf(jobs'[j]) = PhaseOf(jobs[j])
  BY <1>3 DEF Replies!Post
<1>4. CASE Replies!Close
  BY <1>4 DEF Replies!Close, Replies!Open
<1>5. CASE \E S \in SUBSET JobId : Replies!Forget(S)
  BY <1>5 DEF Replies!Forget, Replies!Closed
<1>. QED
  BY <1>1, <1>2, <1>3, <1>4, <1>5 DEF Replies!Next

(* A job that is finished or deleted is never again anything else. *)
LEMMA OverStays ==
  ASSUME IInv, IInv', [Next]_vars, NEW j \in JobId, Over(j)
  PROVE  Over(j)'
<1>1. CASE jobs[j].status \in Terminal
  BY <1>1, OutcomeStep DEF OutcomeKept, Over, Terminal
<1>2. CASE jobs[j].status = "purged"
  <2>1. Rows /\ Rows'
    BY IInvSplit, IInvSplitNext
  <2>2. PhaseOf(jobs'[j]) = "forgotten"
    BY <1>2, <2>1, NextImplements, ForgottenStays, PhaseFacts DEF Rows
  <2>. QED
    BY <2>1, <2>2, PhaseFacts DEF Rows, Over
<1>. QED
  BY <1>1, <1>2 DEF Over

(* The moves of TurnReplies that begin no turn. *)
NothingBegins ==
  \/ UNCHANGED Replies!vars
  \/ \E k \in JobId : \/ Replies!Accept(k) \/ Replies!Answer(k) \/ Replies!Post(k)
                      \/ Replies!Deliver(k) \/ Replies!Abandon(k)
  \/ Replies!Close
  \/ \E S \in SUBSET JobId : Replies!Forget(S)

LEMMA NothingBegun ==
  ASSUME IInv, IInv', NothingBegins, NEW j \in JobId, jobs'[j].status = "running"
  PROVE  jobs[j].status = "running"
<1>1. Rows /\ Rows'
  BY IInvSplit, IInvSplitNext
<1>2. PhaseOf(jobs'[j]) = "working"
  BY <1>1, PhaseFacts DEF Rows
<1>3. PhaseOf(jobs[j]) = "working"
  <2>1. CASE UNCHANGED Replies!vars
    <3>1. \A k \in JobId : PhaseOf(jobs'[k]) = PhaseOf(jobs[k])
      BY <2>1 DEF Replies!vars
    <3>. QED
      BY <1>2, <3>1
  <2>2. ASSUME NEW k \in JobId, NEW from, NEW to, to # "working", Replies!Move(k, from, to)
        PROVE  PhaseOf(jobs[j]) = "working"
    BY <1>2, <2>2 DEF Replies!Move
  <2>3. ASSUME NEW k \in JobId, Replies!Post(k)
        PROVE  PhaseOf(jobs[j]) = "working"
    BY <1>2, <2>3 DEF Replies!Post
  <2>4. CASE Replies!Close
    BY <1>2, <2>4 DEF Replies!Close
  <2>5. CASE \E S \in SUBSET JobId : Replies!Forget(S)
    BY <1>2, <2>5 DEF Replies!Forget
  <2>. QED
    BY <2>1, <2>2, <2>3, <2>4, <2>5
    DEF NothingBegins, Replies!Accept, Replies!Answer, Replies!Deliver, Replies!Abandon
<1>. QED
  BY <1>1, <1>3, PhaseFacts DEF Rows

(* Every step but a start begins nothing. *)
LEMMA OnlyStartBegins ==
  ASSUME IInv, IInv',
         \/ \E j \in JobId, e \in EventId : EnqueueTurn(j, e)
         \/ \E s \in Socket : Heartbeat(s) \/ Claim(s)
         \/ \E s \in Socket, j \in JobId, ok \in BOOLEAN : Complete(s, j, ok)
         \/ Connections \/ Administration \/ CleanupSweep
         \/ OperationStep \/ Fault \/ Restart \/ Tick
  PROVE  NothingBegins
<1>1. CASE \E j \in JobId, e \in EventId : EnqueueTurn(j, e)
  BY <1>1, EnqueueImplements DEF NothingBegins
<1>2. CASE \E s \in Socket : Heartbeat(s)
  BY <1>2, Stutters DEF Heartbeat, control, NothingBegins
<1>3. CASE \E s \in Socket : Claim(s)
  BY <1>3, ClaimStutters DEF NothingBegins
<1>4. CASE \E s \in Socket, j \in JobId, ok \in BOOLEAN : Complete(s, j, ok)
  BY <1>4, CompleteImplements DEF NothingBegins
<1>5. CASE Connections
  BY <1>5, ConnectionsStutter DEF NothingBegins
<1>6. CASE Administration \/ CleanupSweep
  BY <1>6, AdministrationImplements DEF NothingBegins
<1>7. CASE OperationStep
  <2>1. CASE Acknowledge
    BY <2>1, Stutters DEF Acknowledge, control, NothingBegins
  <2>2. ASSUME NEW j \in JobId, UNCHANGED control,
               CancelNext(j) \/ FailNext(j) \/ ExpireNext(j) \/ DeliverNext(j)
        PROVE  NothingBegins
    BY <2>2, NextJobImplements DEF NothingBegins
  <2>3. CASE EndPhase /\ UNCHANGED control
    BY <2>3, EndPhaseImplements DEF NothingBegins
  <2>4. CASE (DeliverClaim \/ DeliverPost \/ DeliverRecord) /\ UNCHANGED removed
    BY <2>4, DeliveryImplements DEF NothingBegins
  <2>. QED
    BY <1>7, <2>1, <2>2, <2>3, <2>4 DEF OperationStep
<1>8. CASE Fault \/ Restart \/ Tick
  BY <1>8, EnvironmentImplements DEF NothingBegins
<1>. QED
  BY <1>1, <1>2, <1>3, <1>4, <1>5, <1>6, <1>7, <1>8

----------------------------------------------------------------------------
(* The coordinator's steps keep OnceInv.                                   *)

(* A turn is written only for a job that is not over, an acknowledgement   *)
(* only for one that is.                                                   *)
WritesAgree ==
  /\ outbox' \in [Socket -> Seq(DownFrame)]
  /\ \A s \in Socket, j \in JobId :
       /\ Has(outbox'[s], "job.turn", j) => ~Over(j)'
       /\ Has(outbox'[s], "job.ack", j) => Over(j)'

LEMMA WrittenOne ==
  ASSUME NEW s, NEW f, Write(s, <<f>>)
  PROVE  \A r \in Socket : \A t, j : Has(outbox'[r], t, j) => f.type = t /\ f.job = j
<1>1. \A r \in Socket : outbox'[r] \in {<<>>, <<f>>}
  BY DEF Write, Silent
<1>. QED
  BY <1>1, HasEmpty, HasOne

(* Writing one frame that is neither, or nothing. *)
LEMMA PlainWrite ==
  ASSUME Quiet \/ \E s, f : /\ Write(s, <<f>>) /\ f \in DownFrame
                            /\ f.type \notin {"job.turn", "job.ack"}
  PROVE  WritesAgree
<1>1. CASE Quiet
  <2>1. \A r \in Socket : outbox'[r] = <<>>
    BY <1>1 DEF Quiet, Silent
  <2>. QED
    BY <1>1, <2>1, HasEmpty, QuietTyped DEF WritesAgree
<1>2. ASSUME NEW s, NEW f \in DownFrame, Write(s, <<f>>),
             f.type \notin {"job.turn", "job.ack"}
      PROVE  WritesAgree
  BY <1>2, WrittenOne, WriteOneTyped DEF WritesAgree
<1>. QED
  BY <1>1, <1>2

LEMMA AttachAgrees ==
  ASSUME TypeOK, NEW s \in Socket, AttachSocket(s, Self)
  PROVE  WritesAgree
<1>. DEFINE ready == <<GenFrame("runtime.ready", resetGen)>>
            more  == IF \E j \in JobId : jobs'[j].status = "pending"
                     THEN <<Frame("job.available", None)>> ELSE <<>>
<1>1. /\ GenFrame("runtime.ready", resetGen) \in DownFrame
      /\ Frame("job.available", None) \in DownFrame
  BY DEF Frame, GenFrame, DownFrame, TypeOK
<1>2. ready \in Seq(DownFrame) /\ more \in Seq(DownFrame)
  BY <1>1
<1>3. \A t, j : Has(ready, t, j) \/ Has(more, t, j) => t \notin {"job.turn", "job.ack"}
  BY HasEmpty, HasOne DEF Frame, GenFrame
<1>4. Write(s, ready \o more)
  BY DEF AttachSocket
<1>. HIDE DEF ready, more
<1>5. \A r \in Socket : outbox'[r] \in {<<>>, ready \o more}
  BY <1>4 DEF Write, Silent
<1>6. \A t, j : Has(ready \o more, t, j) => Has(ready, t, j) \/ Has(more, t, j)
  BY <1>2, HasConcat
<1>7. \A r \in Socket : \A t, j : Has(outbox'[r], t, j) => t \notin {"job.turn", "job.ack"}
  BY <1>3, <1>5, <1>6, HasEmpty
<1>. QED
  BY <1>7, AttachWrites DEF WritesAgree

LEMMA EnqueueAgrees ==
  ASSUME NEW j, NEW e, EnqueueTurn(j, e)
  PROVE  WritesAgree
<1>1. \A r \in Socket : outbox'[r] \in {<<>>, <<Frame("job.available", None)>>}
  BY DEF EnqueueTurn
<1>2. \A r \in Socket : \A t, i : Has(outbox'[r], t, i) => t = "job.available"
  BY <1>1, HasEmpty, HasOne DEF Frame
<1>. QED
  BY <1>2, EnqueueWrites DEF WritesAgree

LEMMA ClaimAgrees ==
  ASSUME TypeOK, NEW s \in Socket, Claim(s)
  PROVE  WritesAgree
<1>1. outbox' \in [Socket -> Seq(DownFrame)]
  BY ReceiveWrites
<1>2. ASSUME NEW t \in {"job.retry", "job.none"}, Write(s, <<Frame(t, None)>>)
      PROVE  WritesAgree
  <2>1. \A r \in Socket : \A u, k : Has(outbox'[r], u, k) => u = t
    BY <1>2, WrittenOne DEF Frame
  <2>. QED
    BY <1>1, <2>1 DEF WritesAgree
<1>3. ASSUME NEW j \in JobId, jobs[j].status = "offered", SendOffer(s, j)
      PROVE  WritesAgree
  <2>1. CASE Write(s, <<Frame("job.turn", j)>>) /\ UNCHANGED jobs
    <3>1. ~Over(j)'
      BY <1>3, <2>1 DEF Over, Terminal
    <3>2. \A r \in Socket : \A t, k : Has(outbox'[r], t, k) => t = "job.turn" /\ k = j
      BY <2>1, WrittenOne DEF Frame
    <3>. QED
      BY <1>1, <3>1, <3>2 DEF WritesAgree
  <2>2. CASE Write(s, <<Frame("job.retry", None)>>)
    BY <1>2, <2>2
  <2>. QED
    BY <1>3, <2>1, <2>2 DEF SendOffer
<1>. QED
  BY <1>2, <1>3 DEF Claim, Oldest, OwnedOffers, OfferedTo

LEMMA AnswerAgrees ==
  ASSUME TypeOK, NEW s \in Socket,
         \/ Heartbeat(s)
         \/ \E j \in JobId : Start(s, j)
         \/ \E j \in JobId, ok \in BOOLEAN : Complete(s, j, ok)
  PROVE  WritesAgree
<1>1. CASE Heartbeat(s)
  BY <1>1, PlainWrite DEF Heartbeat, Frame, GenFrame, DownFrame, TypeOK
<1>2. ASSUME NEW j \in JobId, Start(s, j)
      PROVE  WritesAgree
  <2>1. \A t \in {"job.started.ack", "runtime.error"} : Frame(t, j) \in DownFrame /\ Frame(t, j).type = t
    BY DEF Frame, DownFrame
  <2>2. \E t \in {"job.started.ack", "runtime.error"} : Write(s, <<Frame(t, j)>>)
    BY <1>2 DEF Start
  <2>. QED
    BY <2>1, <2>2, PlainWrite
<1>3. ASSUME NEW j \in JobId, NEW ok \in BOOLEAN, Complete(s, j, ok)
      PROVE  WritesAgree
  <2>1. Frame("runtime.error", j) \in DownFrame /\ Frame("runtime.error", j).type = "runtime.error"
    BY DEF Frame, DownFrame
  <2>2. Quiet \/ Write(s, <<Frame("runtime.error", j)>>)
    BY <1>3 DEF Complete, RejectCompletion
  <2>. QED
    BY <2>1, <2>2, PlainWrite
<1>. QED
  BY <1>1, <1>2, <1>3

LEMMA OperationAgrees ==
  ASSUME TypeOK, OperationShape, OperationStep
  PROVE  WritesAgree
<1>1. CASE Quiet
  BY <1>1, PlainWrite
<1>2. CASE Acknowledge
  <2>. DEFINE first == <<Frame("job.ack", op.job)>>
              more  == IF Pending # {} THEN <<Frame("job.available", None)>> ELSE <<>>
  <2>1. /\ op.job \in JobId /\ jobs[op.job].status \in Terminal /\ UNCHANGED jobs
    BY <1>2 DEF Acknowledge, Step, OperationShape
  <2>2. /\ Frame("job.ack", op.job) \in DownFrame
        /\ Frame("job.available", None) \in DownFrame
    BY <2>1 DEF Frame, DownFrame
  <2>3. first \in Seq(DownFrame) /\ more \in Seq(DownFrame)
    BY <2>2
  <2>4. \A t, j : Has(first, t, j) \/ Has(more, t, j) =>
                    \/ t = "job.ack" /\ j = op.job
                    \/ t = "job.available"
    BY HasEmpty, HasOne DEF Frame
  <2>5. Write(op.caller, first) \/ Write(op.caller, first \o more)
    BY <1>2 DEF Acknowledge
  <2>. HIDE DEF first, more
  <2>6. \A r \in Socket : outbox'[r] \in {<<>>, first, first \o more}
    BY <2>5 DEF Write, Silent
  <2>7. \A t, j : Has(first \o more, t, j) => Has(first, t, j) \/ Has(more, t, j)
    BY <2>3, HasConcat
  <2>8. \A r \in Socket : \A t, j : Has(outbox'[r], t, j) =>
                                      \/ t = "job.ack" /\ j = op.job
                                      \/ t = "job.available"
    BY <2>4, <2>6, <2>7, HasEmpty
  <2>9. \A j \in JobId : j = op.job => jobs'[j].status \in Terminal
    BY <2>1
  <2>. QED
    BY <2>8, <2>9, OperationWrites DEF WritesAgree, Over
<1>. QED
  BY <1>1, <1>2 DEF OperationStep

(* A turn on its way names a job. *)
LEMMA TurnsName ==
  ASSUME NEW q \in Seq(DownFrame), NEW j, Has(q, "job.turn", j)
  PROVE  j \in JobId
<1>1. PICK i \in 1..Len(q) : q[i].type = "job.turn" /\ q[i].job = j
  BY DEF Has
<1>2. q[i] \in DownFrame
  OBVIOUS
<1>. QED
  BY <1>1, <1>2 DEF DownFrame

(* What a step leaves of each queue. *)
LEMMA TransmitQueues ==
  ASSUME NEW closing, NEW upward, NEW downward, Transmit(closing, upward, downward),
         NEW s \in Socket
  PROVE  /\ toServer'[s] \in {<<>>, upward[s]}
         /\ toBridge'[s] = IF bridge'.socket = s THEN downward[s] ELSE <<>>
BY DEF Transmit

(* A step of the coordinator that writes what it may, and starts only what *)
(* the bridge has started.                                                 *)
LEMMA ServerKeeps ==
  ASSUME IInv, IInv', SystemInv, OnceInv, [Next]_vars, WritesAgree,
         NEW closing, NEW upward, Transmit(closing, upward, Delivered),
         UNCHANGED <<bridge, runs, restarts>>,
         \A s \in Socket, j \in JobId :
           Has(upward[s], "job.started", j) => Has(toServer[s], "job.started", j),
         \A j \in JobId : jobs'[j].status = "running" => Ran(j) \/ restarts > 0
  PROVE  OnceInv'
<1>1. \A j \in JobId : Over(j) => Over(j)'
  BY OverStays
<1>2. \A j \in JobId : Ran(j)' <=> Ran(j)
  BY DEF Ran
<1>3. ASSUME NEW j \in JobId
      PROVE  /\ runs'[j] <= restarts' + 1
             /\ Ran(j)' => bridge'.job = j \/ Over(j)'
             /\ jobs'[j].status = "running" => Ran(j)' \/ restarts' > 0
  BY <1>1, <1>2 DEF OnceInv
<1>4. ASSUME NEW s \in Socket
      PROVE  /\ toBridge[s] \in Seq(DownFrame) /\ outbox'[s] \in Seq(DownFrame)
             /\ toBridge'[s] \in {<<>>, toBridge[s], toBridge[s] \o outbox'[s]}
             /\ toServer'[s] \in {<<>>, upward[s]}
  BY TransmitQueues DEF Delivered, SystemInv, FramesOK, WritesAgree
<1>5. ASSUME NEW s \in Socket, NEW t, NEW j, Has(toBridge'[s], t, j)
      PROVE  Has(toBridge[s], t, j) \/ Has(outbox'[s], t, j)
  <2>1. CASE toBridge'[s] = toBridge[s] \o outbox'[s]
    <3>1. Has(toBridge[s] \o outbox'[s], t, j)
      BY <1>5, <2>1
    <3>. QED
      BY <1>4, <3>1, HasConcat
  <2>2. CASE toBridge'[s] \in {<<>>, toBridge[s]}
    BY <1>5, <2>2, HasEmpty
  <2>. QED
    BY <1>4, <2>1, <2>2
<1>6. ASSUME NEW s \in Socket
      PROVE  AcksLast(toBridge'[s])
  <2>1. \A j : Has(outbox'[s], "job.turn", j) => j \in JobId
    BY <1>4, TurnsName
  <2>2. AcksLast(outbox'[s])
    BY <2>1, AcksApart DEF WritesAgree
  <2>3. \A j : ~(Has(toBridge[s], "job.ack", j) /\ Has(outbox'[s], "job.turn", j))
    BY <1>1, <2>1 DEF WritesAgree, OnceInv
  <2>4. AcksLast(toBridge[s])
    BY DEF OnceInv
  <2>5. AcksLast(toBridge[s] \o outbox'[s])
    BY <1>4, <2>2, <2>3, <2>4, AcksConcat
  <2>6. AcksLast(<<>>)
    BY DEF AcksLast
  <2>. QED
    BY <1>4, <2>4, <2>5, <2>6
<1>7. ASSUME NEW s \in Socket, NEW j \in JobId
      PROVE  /\ Has(toBridge'[s], "job.ack", j) => Over(j)'
             /\ Has(toBridge'[s], "job.turn", j) /\ Ran(j)' => bridge'.job = j
             /\ Has(toServer'[s], "job.started", j) => Ran(j)' \/ restarts' > 0
  <2>1. Has(toBridge'[s], "job.ack", j) => Over(j)'
    BY <1>1, <1>5 DEF OnceInv, WritesAgree
  <2>2. Has(toBridge'[s], "job.turn", j) /\ Ran(j)' => bridge'.job = j
    BY <1>2, <1>3, <1>5 DEF OnceInv, WritesAgree
  <2>3. Has(toServer'[s], "job.started", j) => Ran(j)' \/ restarts' > 0
    <3>1. Has(toServer'[s], "job.started", j) => Has(toServer[s], "job.started", j)
      <4>1. CASE toServer'[s] = <<>>
        BY <4>1, HasEmpty
      <4>2. CASE toServer'[s] = upward[s]
        BY <4>2
      <4>. QED
        BY <1>4, <4>1, <4>2
    <3>. QED
      BY <1>2, <3>1 DEF OnceInv
  <2>. QED
    BY <2>1, <2>2, <2>3
<1>. QED
  BY <1>3, <1>6, <1>7 DEF OnceInv, Running

(* The same for a step that begins no turn. *)
LEMMA ServerStepKeeps ==
  ASSUME IInv, IInv', SystemInv, OnceInv, Next, WritesAgree, NothingBegins,
         NEW closing, NEW upward, Transmit(closing, upward, Delivered),
         UNCHANGED <<bridge, runs, restarts>>,
         \A s \in Socket, j \in JobId :
           Has(upward[s], "job.started", j) => Has(toServer[s], "job.started", j)
  PROVE  OnceInv'
<1>1. \A j \in JobId : jobs'[j].status = "running" => Ran(j) \/ restarts > 0
  BY NothingBegun DEF OnceInv, Running
<1>. QED
  BY <1>1, ServerKeeps

(* A frame of the bridge. *)
LEMMA ReceiveKeeps ==
  ASSUME IInv, IInv', SystemInv, OnceInv, NEW s \in Socket, Receive(s)
  PROVE  OnceInv'
<1>. DEFINE f == Head(toServer[s])
            upward == [toServer EXCEPT ![s] = Tail(@)]
<1>1. TypeOK /\ toServer[s] # <<>>
  BY DEF IInv, Receive
<1>2. /\ toServer \in [Socket -> Seq(UpFrame)] /\ toServer[s] \in Seq(UpFrame)
      /\ f \in UpFrame
  BY <1>1, TailTyped DEF SystemInv, FramesOK
<1>3. /\ Transmit({}, upward, Delivered)
      /\ UNCHANGED <<bridge, runs, restarts>>
  BY DEF Receive, ghosts
<1>4. Has(toServer[s], f.type, f.job)
  BY <1>1, <1>2, HasHead
<1>5. \A t, j : Has(Tail(toServer[s]), t, j) => Has(toServer[s], t, j)
  BY <1>1, <1>2, HasTail
<1>6. ASSUME NEW r \in Socket, NEW j \in JobId, Has(upward[r], "job.started", j)
      PROVE  Has(toServer[r], "job.started", j)
  <2>1. upward[r] = IF r = s THEN Tail(toServer[s]) ELSE toServer[r]
    BY <1>2
  <2>. QED
    BY <1>5, <1>6, <2>1
<1>7. Next
  BY <1>1, ReceiveStep
<1>8. \/ Heartbeat(s)
      \/ Claim(s)
      \/ f.type = "job.started" /\ f.job \in JobId /\ Start(s, f.job)
      \/ \E j \in JobId, ok \in BOOLEAN : Complete(s, j, ok)
  BY <1>2 DEF Receive, UpFrame
<1>. HIDE DEF upward, f
<1>9. ASSUME Heartbeat(s) \/ Claim(s) \/ \E j \in JobId, ok \in BOOLEAN : Complete(s, j, ok)
      PROVE  OnceInv'
  <2>1. WritesAgree
    BY <1>1, <1>9, ClaimAgrees, AnswerAgrees
  <2>2. NothingBegins
    BY <1>9, OnlyStartBegins
  <2>. QED
    BY <1>3, <1>6, <1>7, <2>1, <2>2, ServerStepKeeps
<1>10. ASSUME f.type = "job.started", NEW j \in JobId, j = f.job, Start(s, j)
       PROVE  OnceInv'
  <2>1. WritesAgree
    BY <1>1, <1>10, AnswerAgrees
  <2>2. Ran(j) \/ restarts > 0
    BY <1>4, <1>10 DEF OnceInv
  <2>3. ASSUME NEW k \in JobId, jobs'[k].status = "running"
        PROVE  Ran(k) \/ restarts > 0
    <3>1. k = j \/ jobs'[k] = jobs[k]
      BY <1>1, <1>10 DEF Start, TypeOK
    <3>. QED
      BY <2>2, <2>3, <3>1 DEF OnceInv, Running
  <2>. QED
    BY <1>3, <1>6, <1>7, <2>1, <2>3, ServerKeeps
<1>. QED
  BY <1>8, <1>9, <1>10

(* The coordinator's other steps. *)
LEMMA CoordinatorKeeps ==
  ASSUME IInv, IInv', SystemInv, OnceInv,
         \/ \E s \in Socket : Attach(s) \/ Detach(s)
         \/ ForceReconnect \/ Enqueue \/ Administer \/ Advance \/ ServerFault
  PROVE  OnceInv'
<1>1. TypeOK /\ OperationShape /\ Self \in Runtime
  BY BridgeAssumption DEF IInv
<1>2. ASSUME WritesAgree, NothingBegins, Next, UNCHANGED <<bridge, runs, restarts>>,
             \E closing : Transmit(closing, toServer, Delivered)
      PROVE  OnceInv'
  BY <1>2, ServerStepKeeps
<1>3. ASSUME NEW s \in Socket, Attach(s)
      PROVE  OnceInv'
  <2>1. AttachSocket(s, Self) /\ ServerStep(Replaced(Self))
    BY <1>3 DEF Attach
  <2>2. WritesAgree
    BY <1>1, <2>1, AttachAgrees
  <2>3. Connections
    BY <1>1, <2>1 DEF Connections
  <2>. QED
    BY <1>2, <2>1, <2>2, <2>3, OnlyStartBegins DEF Next, ServerStep, ghosts
<1>4. ASSUME NEW s \in Socket, Detach(s)
      PROVE  OnceInv'
  <2>1. DetachSocket(s) /\ ServerStep({})
    BY <1>4 DEF Detach
  <2>2. WritesAgree
    BY <2>1, PlainWrite DEF DetachSocket
  <2>3. Connections
    BY <2>1 DEF Connections
  <2>. QED
    BY <1>2, <2>1, <2>2, <2>3, OnlyStartBegins DEF Next, ServerStep, ghosts
<1>5. CASE ForceReconnect
  <2>1. /\ RestartRuntimeConnections /\ UNCHANGED <<bridge, runs, restarts>>
        /\ Transmit(AttachedSockets, toServer, Delivered)
    BY <1>5 DEF ForceReconnect
  <2>2. WritesAgree
    BY <2>1, PlainWrite DEF RestartRuntimeConnections
  <2>3. Connections
    BY <2>1 DEF Connections
  <2>. QED
    BY <1>2, <2>1, <2>2, <2>3, OnlyStartBegins DEF Next
<1>6. CASE Enqueue
  <2>1. PICK j \in JobId, e \in EventId : EnqueueTurn(j, e) /\ ServerStep({})
    BY <1>6 DEF Enqueue
  <2>2. WritesAgree
    BY <2>1, EnqueueAgrees
  <2>3. Next /\ NothingBegins
    BY <2>1, OnlyStartBegins DEF Next
  <2>. QED
    BY <1>2, <2>1, <2>2, <2>3 DEF ServerStep, ghosts
<1>7. CASE Administer
  <2>1. Administration /\ (ServerStep({}) \/ ServerStep(AttachedSockets))
    BY <1>7 DEF Administer, Administration
  <2>2. WritesAgree
    BY <2>1, PlainWrite DEF Administration, CancelPending, CancelActiveTurns, PrepareForRemoval
  <2>. QED
    BY <1>2, <2>1, <2>2, OnlyStartBegins DEF Next, ServerStep, ghosts
<1>8. CASE Advance
  <2>1. ServerStep({}) /\ (CleanupSweep \/ OperationStep \/ Restart \/ Tick)
    BY <1>8 DEF Advance
  <2>2. WritesAgree
    BY <1>1, <2>1, OperationAgrees, PlainWrite DEF CleanupSweep, Restart, Tick
  <2>. QED
    BY <1>2, <2>1, <2>2, OnlyStartBegins DEF Next, ServerStep, ghosts
<1>9. CASE ServerFault
  <2>1. /\ OperationFails \/ Crash
        /\ \E closing : ServerStep(closing)
    BY <1>9 DEF ServerFault
  <2>2. WritesAgree
    BY <2>1, PlainWrite DEF OperationFails, Crash
  <2>. QED
    BY <1>2, <2>1, <2>2, OnlyStartBegins DEF Next, Fault, ServerStep, ghosts
<1>. QED
  BY <1>3, <1>4, <1>5, <1>6, <1>7, <1>8, <1>9

----------------------------------------------------------------------------
(* The bridge's steps keep OnceInv.                                        *)

(* What a step of the bridge leaves in flight. *)
LEMMA BridgeQueues ==
  ASSUME SystemInv, NEW b, NEW frames \in Seq(UpFrame), NEW taken,
         BridgeStep(b, frames, taken), NEW s \in Socket
  PROVE  /\ toBridge'[s] # <<>> =>
              /\ s = b.socket
              /\ toBridge'[s] = IF taken THEN Tail(toBridge[s]) ELSE toBridge[s]
         /\ \A t, j : Has(toServer'[s], t, j) => Has(toServer[s], t, j) \/ Has(frames, t, j)
<1>. DEFINE up2 == [r \in Socket |-> IF r = b.socket THEN toServer[r] \o frames
                                                     ELSE toServer[r]]
            down2 == [r \in Socket |-> IF r = b.socket /\ taken THEN Tail(toBridge[r])
                                                                ELSE toBridge[r]]
<1>1. Transmit({}, up2, down2) /\ bridge' = b
  BY DEF BridgeStep
<1>. HIDE DEF up2, down2
<1>2. /\ toServer'[s] \in {<<>>, up2[s]}
      /\ toBridge'[s] = IF b.socket = s THEN down2[s] ELSE <<>>
  BY <1>1, TransmitQueues
<1>. USE DEF up2, down2
<1>3. toServer'[s] \in {<<>>, toServer[s], toServer[s] \o frames}
  BY <1>2
<1>4. toServer[s] \in Seq(UpFrame)
  BY DEF SystemInv, FramesOK
<1>5. ASSUME NEW t, NEW j, Has(toServer'[s], t, j)
      PROVE  Has(toServer[s], t, j) \/ Has(frames, t, j)
  <2>1. CASE toServer'[s] = toServer[s] \o frames
    <3>1. Has(toServer[s] \o frames, t, j)
      BY <1>5, <2>1
    <3>. QED
      BY <1>4, <3>1, HasConcat
  <2>2. CASE toServer'[s] \in {<<>>, toServer[s]}
    BY <1>5, <2>2, HasEmpty
  <2>. QED
    BY <1>3, <2>1, <2>2
<1>. QED
  BY <1>2, <1>5

(* Frames taken from the bridge's connection, or lost. *)
LEMMA QueuesShrink ==
  ASSUME SystemInv, OnceInv, NEW s \in Socket,
         \/ toBridge'[s] \in {<<>>, toBridge[s]}
         \/ toBridge[s] # <<>> /\ toBridge'[s] = Tail(toBridge[s])
  PROVE  /\ AcksLast(toBridge'[s])
         /\ \A t, j : Has(toBridge'[s], t, j) => Has(toBridge[s], t, j)
<1>1. toBridge[s] \in Seq(DownFrame) /\ AcksLast(toBridge[s])
  BY DEF SystemInv, FramesOK, OnceInv
<1>2. CASE toBridge'[s] = <<>>
  BY <1>2, HasEmpty DEF AcksLast
<1>3. CASE toBridge'[s] = toBridge[s]
  BY <1>1, <1>3
<1>4. CASE toBridge[s] # <<>> /\ toBridge'[s] = Tail(toBridge[s])
  BY <1>1, <1>4, HasTail
<1>. QED
  BY <1>2, <1>3, <1>4

(* A bridge that keeps the turn at hand, and starts none. *)
LEMMA QuietKeeps ==
  ASSUME SystemInv, OnceInv, UNCHANGED <<vars, runs, restarts>>, bridge'.job = bridge.job,
         \A s \in Socket : \/ toBridge'[s] \in {<<>>, toBridge[s]}
                           \/ toBridge[s] # <<>> /\ toBridge'[s] = Tail(toBridge[s]),
         \A s \in Socket, j \in JobId :
           Has(toServer'[s], "job.started", j) => Has(toServer[s], "job.started", j)
  PROVE  OnceInv'
<1>1. jobs' = jobs
  BY DEF vars
<1>2. \A j \in JobId : (Over(j)' <=> Over(j)) /\ (Ran(j)' <=> Ran(j))
  BY <1>1 DEF Over, Ran
<1>3. \A j \in JobId : /\ runs'[j] <= restarts' + 1
                       /\ Ran(j)' => bridge'.job = j \/ Over(j)'
                       /\ jobs'[j].status = "running" => Ran(j)' \/ restarts' > 0
  BY <1>1, <1>2 DEF OnceInv, Running
<1>4. \A s \in Socket : /\ AcksLast(toBridge'[s])
                        /\ \A t, j : Has(toBridge'[s], t, j) => Has(toBridge[s], t, j)
  BY QueuesShrink
<1>5. \A s \in Socket, j \in JobId :
        /\ Has(toBridge'[s], "job.ack", j) => Over(j)'
        /\ Has(toBridge'[s], "job.turn", j) /\ Ran(j)' => bridge'.job = j
        /\ Has(toServer'[s], "job.started", j) => Ran(j)' \/ restarts' > 0
  BY <1>2, <1>4 DEF OnceInv
<1>. QED
  BY <1>3, <1>4, <1>5 DEF OnceInv, Running

(* A step of the bridge that starts no turn.  It gives up the turn at hand *)
(* only for its acknowledgement, behind which no copy of the turn is left. *)
LEMMA BridgeStepKeeps ==
  ASSUME SystemInv, OnceInv, NEW b, NEW frames \in Seq(UpFrame), NEW taken \in BOOLEAN,
         taken /\ b.socket \in Socket => toBridge[b.socket] # <<>>,
         BridgeStep(b, frames, taken), UNCHANGED runs,
         \A j \in JobId : ~Has(frames, "job.started", j),
         \/ b.job = bridge.job
         \/ /\ taken /\ b.socket \in Socket
            /\ Head(toBridge[b.socket]).type = "job.ack"
            /\ Head(toBridge[b.socket]).job = bridge.job
  PROVE  OnceInv'
<1>1. bridge' = b /\ UNCHANGED <<vars, runs, restarts>>
  BY DEF BridgeStep
<1>2. \A s \in Socket : \/ toBridge'[s] \in {<<>>, toBridge[s]}
                        \/ toBridge[s] # <<>> /\ toBridge'[s] = Tail(toBridge[s])
  BY BridgeQueues
<1>3. \A s \in Socket, j \in JobId :
        Has(toServer'[s], "job.started", j) => Has(toServer[s], "job.started", j)
  BY BridgeQueues
<1>4. CASE b.job = bridge.job
  BY <1>1, <1>2, <1>3, <1>4, QuietKeeps
<1>5. CASE /\ taken /\ b.socket \in Socket
           /\ Head(toBridge[b.socket]).type = "job.ack"
           /\ Head(toBridge[b.socket]).job = bridge.job
  <2>. DEFINE q == toBridge[b.socket]
  <2>1. q \in Seq(DownFrame) /\ q # <<>> /\ AcksLast(q)
    BY <1>5 DEF SystemInv, FramesOK, OnceInv
  <2>2. \A j \in JobId : bridge.job = j => Over(j)
    <3>1. Has(q, "job.ack", bridge.job)
      BY <1>5, <2>1, HasHead
    <3>. QED
      BY <1>5, <3>1 DEF OnceInv
  <2>3. ~Has(Tail(q), "job.turn", bridge.job)
    BY <1>5, <2>1, HasTail
  <2>4. jobs' = jobs
    BY <1>1 DEF vars
  <2>5. \A j \in JobId : (Over(j)' <=> Over(j)) /\ (Ran(j)' <=> Ran(j))
    BY <1>1, <2>4 DEF Over, Ran
  <2>6. \A j \in JobId : /\ runs'[j] <= restarts' + 1
                         /\ Ran(j)' => Over(j)'
                         /\ jobs'[j].status = "running" => Ran(j)' \/ restarts' > 0
    BY <1>1, <2>2, <2>4, <2>5 DEF OnceInv, Running
  <2>7. \A s \in Socket : /\ AcksLast(toBridge'[s])
                          /\ \A t, j : Has(toBridge'[s], t, j) => Has(toBridge[s], t, j)
    BY <1>2, QueuesShrink
  <2>8. ASSUME NEW s \in Socket, NEW j \in JobId, Has(toBridge'[s], "job.turn", j), Ran(j)
        PROVE  FALSE
    <3>1. bridge.job = j
      BY <2>7, <2>8 DEF OnceInv
    <3>2. toBridge'[s] # <<>>
      BY <2>8, HasEmpty
    <3>3. s = b.socket /\ toBridge'[s] = IF taken THEN Tail(toBridge[s]) ELSE toBridge[s]
      BY <3>2, BridgeQueues
    <3>. QED
      BY <1>5, <2>3, <2>8, <3>1, <3>3
  <2>9. \A s \in Socket, j \in JobId :
          /\ Has(toBridge'[s], "job.ack", j) => Over(j)'
          /\ ~(Has(toBridge'[s], "job.turn", j) /\ Ran(j)')
          /\ Has(toServer'[s], "job.started", j) => Ran(j)' \/ restarts' > 0
    BY <1>1, <1>3, <2>5, <2>7, <2>8 DEF OnceInv
  <2>. QED
    BY <2>6, <2>7, <2>9 DEF OnceInv, Running
<1>. QED
  BY <1>4, <1>5

(* Frames other than job.started. *)
LEMMA PlainFrames ==
  /\ <<>> \in Seq(UpFrame) /\ \A j : ~Has(<<>>, "job.started", j)
  /\ \A f \in UpFrame : /\ <<f>> \in Seq(UpFrame)
                        /\ f.type # "job.started" => \A j : ~Has(<<f>>, "job.started", j)
BY HasEmpty, HasOne

(* requestJob. *)
LEMMA RequestKeeps ==
  ASSUME SystemInv, OnceInv, NEW b \in BridgeState, NEW taken \in BOOLEAN,
         taken /\ b.socket \in Socket => toBridge[b.socket] # <<>>,
         RequestJob(b, taken), UNCHANGED runs,
         \/ b.job = bridge.job
         \/ /\ taken /\ b.socket \in Socket
            /\ Head(toBridge[b.socket]).type = "job.ack"
            /\ Head(toBridge[b.socket]).job = bridge.job
  PROVE  OnceInv'
<1>. DEFINE c == [b EXCEPT !.claiming = TRUE]
<1>1. c.socket = b.socket /\ c.job = b.job
  BY DEF BridgeState
<1>2. ClaimFrame \in UpFrame /\ ClaimFrame.type # "job.started"
  BY SentTyped DEF ClaimFrame, Message
<1>3. \/ BridgeStep(c, <<ClaimFrame>>, taken)
      \/ BridgeStep(b, <<>>, taken)
  BY DEF RequestJob
<1>. HIDE DEF c
<1>4. CASE BridgeStep(c, <<ClaimFrame>>, taken)
  BY <1>1, <1>2, <1>4, PlainFrames, BridgeStepKeeps
<1>5. CASE BridgeStep(b, <<>>, taken)
  BY <1>5, PlainFrames, BridgeStepKeeps
<1>. QED
  BY <1>3, <1>4, <1>5

(* A turn is started only by an idle bridge, and then never a second time: *)
(* what it has run since it was started is over, and a turn of such a job  *)
(* is in flight only while the bridge still has it at hand.                *)
LEMMA OnTurnKeeps ==
  ASSUME TypeOK, SystemInv, OnceInv, OnTurn
  PROVE  OnceInv'
<1>. DEFINE i == Arrived.job
            b == [bridge EXCEPT !.claiming = FALSE, !.preparing = None]
            c == [b EXCEPT !.stage = "writing", !.job = i]
<1>1. /\ bridge.socket \in Socket /\ toBridge[bridge.socket] # <<>>
      /\ i \in JobId /\ Arrived.type = "job.turn"
  BY IncomingTyped DEF OnTurn, DownFrame
<1>2. /\ bridge \in BridgeState /\ (Working(bridge) <=> bridge.job # None)
      /\ runs \in [JobId -> Nat] /\ restarts \in Nat
  BY DEF SystemInv, SystemTypeOK
<1>3. CASE Working(bridge)
  <2>1. b.job = bridge.job /\ b.socket = bridge.socket
    BY <1>2 DEF BridgeState
  <2>2. BridgeStep(b, <<>>, TRUE) /\ UNCHANGED runs
    BY <1>3 DEF OnTurn
  <2>. HIDE DEF b
  <2>. QED
    BY <1>1, <2>1, <2>2, PlainFrames, BridgeStepKeeps
<1>4. CASE ~Working(bridge)
  <2>. DEFINE frames == <<Message("job.started", i, FALSE)>>
  <2>1. c.job = i /\ c.socket = bridge.socket
    BY <1>2 DEF BridgeState
  <2>2. BridgeStep(c, frames, TRUE) /\ runs' = [runs EXCEPT ![i] = @ + 1]
    BY <1>4 DEF OnTurn
  <2>3. frames \in Seq(UpFrame)
    BY <1>1, SentTyped, SequencesTyped
  <2>4. \A j : Has(frames, "job.started", j) => j = i
    BY HasOne DEF Message
  <2>. HIDE DEF b, c, frames
  <2>5. bridge' = c /\ jobs' = jobs /\ restarts' = restarts
    BY <2>2 DEF BridgeStep, vars
  <2>6. /\ \A s \in Socket : \/ toBridge'[s] \in {<<>>, toBridge[s]}
                             \/ toBridge[s] # <<>> /\ toBridge'[s] = Tail(toBridge[s])
        /\ \A s \in Socket : \A t, j : Has(toServer'[s], t, j) =>
                                         Has(toServer[s], t, j) \/ Has(frames, t, j)
    BY <1>1, <2>1, <2>2, <2>3, BridgeQueues
  <2>7. \A s \in Socket : /\ AcksLast(toBridge'[s])
                          /\ \A t, j : Has(toBridge'[s], t, j) => Has(toBridge[s], t, j)
    BY <2>6, QueuesShrink
  <2>8. bridge.job = None /\ None \notin JobId
    BY <1>2, <1>4, ConstantsAssumption DEF ConstantsAssumption
  <2>9. \A s \in Socket, j \in JobId : ~(Has(toBridge[s], "job.turn", j) /\ Ran(j))
    BY <2>8 DEF OnceInv
  <2>10. ~Ran(i)
    <3>1. toBridge[bridge.socket] \in Seq(DownFrame)
      BY <1>1 DEF SystemInv, FramesOK
    <3>2. Has(toBridge[bridge.socket], "job.turn", i)
      BY <1>1, <3>1, HasHead DEF Arrived
    <3>. QED
      BY <1>1, <2>9, <3>2
  <2>11. /\ \A j \in JobId : runs'[j] = IF j = i THEN runs[j] + 1 ELSE runs[j]
         /\ runs[i] <= restarts /\ runs[i] \in Nat
    BY <1>1, <1>2, <2>2, <2>10 DEF Ran
  <2>12. \A j \in JobId : /\ j # i => (Ran(j)' <=> Ran(j))
                          /\ Over(j)' <=> Over(j)
    BY <2>5, <2>11 DEF Ran, Over
  <2>13. \A j \in JobId : j = i => runs'[j] > restarts' \/ restarts' > 0
    BY <1>2, <2>5, <2>11
  <2>14. \A j \in JobId : /\ runs'[j] <= restarts' + 1
                          /\ Ran(j)' => bridge'.job = j \/ Over(j)'
                          /\ jobs'[j].status = "running" => Ran(j)' \/ restarts' > 0
    <3>1. ASSUME NEW j \in JobId, j # i
          PROVE  /\ runs'[j] <= restarts' + 1
                 /\ Ran(j)' => bridge'.job = j \/ Over(j)'
                 /\ jobs'[j].status = "running" => Ran(j)' \/ restarts' > 0
      BY <2>5, <2>8, <2>11, <2>12, <3>1 DEF OnceInv, Running
    <3>2. ASSUME NEW j \in JobId, j = i
          PROVE  /\ runs'[j] <= restarts' + 1
                 /\ bridge'.job = j
                 /\ Ran(j)' \/ restarts' > 0
      BY <1>2, <2>1, <2>5, <2>11, <2>13, <3>2 DEF Ran
    <3>. QED
      BY <3>1, <3>2
  <2>15. ASSUME NEW s \in Socket, NEW j \in JobId
         PROVE  /\ Has(toBridge'[s], "job.ack", j) => Over(j)'
                /\ Has(toBridge'[s], "job.turn", j) /\ Ran(j)' => bridge'.job = j
                /\ Has(toServer'[s], "job.started", j) => Ran(j)' \/ restarts' > 0
    <3>1. Has(toBridge'[s], "job.ack", j) => Over(j)'
      BY <2>7, <2>12 DEF OnceInv
    <3>2. Has(toBridge'[s], "job.turn", j) /\ Ran(j)' => bridge'.job = j
      BY <2>1, <2>5, <2>7, <2>9, <2>12
    <3>3. Has(toServer'[s], "job.started", j) => Ran(j)' \/ restarts' > 0
      BY <2>4, <2>5, <2>6, <2>12, <2>13 DEF OnceInv, Ran
    <3>. QED
      BY <3>1, <3>2, <3>3
  <2>. QED
    BY <2>7, <2>14, <2>15 DEF OnceInv, Running
<1>. QED
  BY <1>3, <1>4

(* The other frames the bridge handles. *)
LEMMA OnMessageKeeps ==
  ASSUME TypeOK, SystemInv, OnceInv, OnMessage
  PROVE  OnceInv'
<1>1. bridge \in BridgeState
  BY DEF SystemInv, SystemTypeOK
<1>2. ASSUME NEW types, Incoming(types)
      PROVE  /\ bridge.socket \in Socket /\ toBridge[bridge.socket] # <<>>
             /\ Arrived = Head(toBridge[bridge.socket]) /\ Arrived.type \in types
  BY <1>2, IncomingTyped DEF Arrived
<1>3. ASSUME NEW b, b.job = bridge.job, b.socket = bridge.socket,
             bridge.socket \in Socket, toBridge[bridge.socket] # <<>>,
             BridgeStep(b, <<>>, TRUE), UNCHANGED runs
      PROVE  OnceInv'
  BY <1>3, PlainFrames, BridgeStepKeeps
<1>4. CASE OnGeneration
  <2>. DEFINE b == Generation(bridge, Arrived.gen)
  <2>1. b.job = bridge.job /\ b.socket = bridge.socket
    BY <1>1 DEF Generation, BridgeState
  <2>2. BridgeStep(b, <<>>, TRUE) /\ UNCHANGED runs
    BY <1>4 DEF OnGeneration
  <2>. HIDE DEF b
  <2>. QED
    BY <1>2, <1>3, <1>4, <2>1, <2>2 DEF OnGeneration
<1>5. CASE OnAvailable
  <2>1. bridge.socket \in Socket /\ toBridge[bridge.socket] # <<>>
    BY <1>2, <1>5 DEF OnAvailable
  <2>2. RequestJob(bridge, TRUE) /\ UNCHANGED runs
    BY <1>5 DEF OnAvailable
  <2>. QED
    BY <1>1, <2>1, <2>2, RequestKeeps
<1>6. CASE OnNoJob
  <2>. DEFINE b == IF bridge.preparing # None THEN bridge
                   ELSE [bridge EXCEPT !.claiming = FALSE, !.polling = TRUE]
  <2>1. b.job = bridge.job /\ b.socket = bridge.socket
    BY <1>1 DEF BridgeState
  <2>2. BridgeStep(b, <<>>, TRUE) /\ UNCHANGED runs
    BY <1>6 DEF OnNoJob
  <2>. HIDE DEF b
  <2>. QED
    BY <1>2, <1>3, <1>6, <2>1, <2>2 DEF OnNoJob
<1>7. CASE OnOther
  <2>. DEFINE b == IF Arrived.type = "runtime.error" THEN Refused(bridge) ELSE bridge
  <2>1. b.job = bridge.job /\ b.socket = bridge.socket
    BY <1>1 DEF Refused, BridgeState
  <2>2. BridgeStep(b, <<>>, TRUE) /\ UNCHANGED runs
    BY <1>7 DEF OnOther
  <2>. HIDE DEF b
  <2>. QED
    BY <1>2, <1>3, <1>7, <2>1, <2>2 DEF OnOther
<1>8. CASE OnAck
  <2>. DEFINE b == Forgotten(bridge)
  <2>1. b \in BridgeState /\ b.socket = bridge.socket
    BY <1>1 DEF Forgotten, BridgeState
  <2>2. /\ bridge.socket \in Socket /\ toBridge[bridge.socket] # <<>>
        /\ Head(toBridge[bridge.socket]).type = "job.ack" /\ UNCHANGED runs
    BY <1>2, <1>8 DEF OnAck
  <2>3. CASE Acknowledged(bridge, Arrived.job)
    <3>1. RequestJob(b, TRUE)
      BY <1>8, <2>3 DEF OnAck
    <3>2. Head(toBridge[bridge.socket]).job = bridge.job
      BY <2>3 DEF Acknowledged, Arrived
    <3>. HIDE DEF b
    <3>. QED
      BY <2>1, <2>2, <3>1, <3>2, RequestKeeps
  <2>4. CASE ~Acknowledged(bridge, Arrived.job)
    BY <1>3, <1>8, <2>2, <2>4 DEF OnAck
  <2>. QED
    BY <2>3, <2>4
<1>9. CASE OnTurn
  BY <1>9, OnTurnKeeps
<1>. QED
  BY <1>4, <1>5, <1>6, <1>7, <1>8, <1>9 DEF OnMessage

(* The agent's steps and the timers keep the turn at hand. *)
LEMMA TimerKeeps ==
  ASSUME SystemInv, OnceInv,
         StartAgent \/ TurnFileFails \/ FinishTurn \/ Poll \/ Beat \/ Resend
  PROVE  OnceInv'
<1>1. bridge \in BridgeState /\ (Working(bridge) <=> bridge.job # None)
  BY DEF SystemInv, SystemTypeOK
<1>2. ASSUME NEW b \in BridgeState, b.job = bridge.job, UNCHANGED runs,
             \/ BridgeStep(b, <<>>, FALSE)
             \/ \E f \in UpFrame : f.type # "job.started" /\ BridgeStep(b, <<f>>, FALSE)
      PROVE  OnceInv'
  BY <1>2, PlainFrames, BridgeStepKeeps
<1>3. CASE FinishTurn
  <2>1. PICK ok \in BOOLEAN :
          LET b == [bridge EXCEPT !.stage = "done", !.ok = ok]
          IN BridgeStep(b, IF b.socket # None THEN <<Completion(b)>> ELSE <<>>, FALSE)
    BY <1>3 DEF FinishTurn
  <2>. DEFINE b == [bridge EXCEPT !.stage = "done", !.ok = ok]
  <2>2. b \in BridgeState /\ b.job \in JobId /\ b.job = bridge.job
    BY <1>1, <1>3 DEF FinishTurn, BridgeState, Working
  <2>3. UNCHANGED runs /\ (BridgeStep(b, <<>>, FALSE) \/ BridgeStep(b, <<Completion(b)>>, FALSE))
    BY <1>3, <2>1 DEF FinishTurn
  <2>. HIDE DEF b
  <2>4. Completion(b) \in UpFrame /\ Completion(b).type # "job.started"
    BY <2>2, SentTyped DEF Completion, Message
  <2>. QED
    BY <1>2, <2>2, <2>3, <2>4
<1>4. CASE Poll
  <2>. DEFINE b == [bridge EXCEPT !.polling = FALSE]
  <2>1. b \in BridgeState /\ b.job = bridge.job
    BY <1>1 DEF BridgeState
  <2>2. RequestJob(b, FALSE) /\ UNCHANGED runs
    BY <1>4 DEF Poll
  <2>. HIDE DEF b
  <2>. QED
    BY <2>1, <2>2, RequestKeeps
<1>5. CASE Beat
  <2>. DEFINE f == Message("runtime.heartbeat", None, FALSE)
  <2>1. f \in UpFrame /\ f.type # "job.started"
    BY SentTyped DEF Message
  <2>2. BridgeStep(bridge, <<f>>, FALSE) /\ UNCHANGED runs
    BY <1>5 DEF Beat
  <2>. HIDE DEF f
  <2>. QED
    BY <1>1, <1>2, <2>1, <2>2
<1>6. CASE Resend
  <2>1. Completion(bridge) \in UpFrame /\ Completion(bridge).type # "job.started"
    BY <1>1, <1>6, SentTyped DEF Resend, BridgeState, Working, Completion, Message
  <2>2. BridgeStep(bridge, <<Completion(bridge)>>, FALSE) /\ UNCHANGED runs
    BY <1>6 DEF Resend
  <2>. QED
    BY <1>1, <1>2, <2>1, <2>2
<1>7. CASE StartAgent \/ TurnFileFails
  <2>1. PICK stage \in {"running", "stuck"} :
          BridgeStep([bridge EXCEPT !.stage = stage], <<>>, FALSE) /\ UNCHANGED runs
    BY <1>7 DEF StartAgent, TurnFileFails
  <2>. DEFINE b == [bridge EXCEPT !.stage = stage]
  <2>2. b \in BridgeState /\ b.job = bridge.job
    BY <1>1 DEF BridgeState
  <2>. HIDE DEF b
  <2>. QED
    BY <1>2, <2>1, <2>2 DEF b
<1>. QED
  BY <1>3, <1>4, <1>5, <1>6, <1>7

(* Connections open, break and are refused; the turn at hand is kept. *)
LEMMA NetworkKeeps ==
  ASSUME SystemInv, OnceInv,
         \/ \E s \in Socket : Drop(s) \/ RefuseAttach(s) \/ Connect(s)
         \/ Disconnect
  PROVE  OnceInv'
<1>1. bridge \in BridgeState /\ toServer \in [Socket -> Seq(UpFrame)]
  BY DEF SystemInv, SystemTypeOK, FramesOK
<1>2. ASSUME NEW closing, Transmit(closing, toServer, toBridge),
             UNCHANGED <<vars, runs, restarts>>, bridge'.job = bridge.job
      PROVE  OnceInv'
  <2>1. \A s \in Socket : /\ toServer'[s] \in {<<>>, toServer[s]}
                          /\ toBridge'[s] \in {<<>>, toBridge[s]}
    BY <1>2, TransmitQueues
  <2>2. \A s \in Socket, j \in JobId :
          Has(toServer'[s], "job.started", j) => Has(toServer[s], "job.started", j)
    BY <2>1, HasEmpty
  <2>. QED
    BY <1>2, <2>1, <2>2, QuietKeeps
<1>3. ASSUME NEW s \in Socket, Drop(s) \/ RefuseAttach(s)
      PROVE  OnceInv'
  BY <1>2, <1>3 DEF Drop, RefuseAttach, ghosts
<1>4. CASE Disconnect
  <2>2. \A p : Closed([bridge EXCEPT !.preparing = p]).job = bridge.job
    BY <1>1 DEF Closed, BridgeState
  <2>3. bridge'.job = bridge.job
    BY <1>1, <1>4, <2>2 DEF Disconnect, Closed, BridgeState
  <2>. QED
    BY <1>2, <1>4, <2>3 DEF Disconnect, ghosts
<1>5. ASSUME NEW s \in Socket, Connect(s)
      PROVE  OnceInv'
  <2>. DEFINE b == [bridge EXCEPT !.socket = s,
                                  !.claiming = MayClaim([bridge EXCEPT !.socket = s,
                                                                       !.claiming = FALSE])]
  <2>1. b.job = bridge.job
    BY <1>1 DEF BridgeState
  <2>2. /\ bridge' = b /\ UNCHANGED <<vars, runs, restarts>> /\ toBridge' = toBridge
        /\ \/ toServer' = [toServer EXCEPT ![s] = <<Completion(b)>>]
           \/ toServer' = [toServer EXCEPT ![s] = <<ClaimFrame>>]
           \/ toServer' = [toServer EXCEPT ![s] = <<>>]
    BY <1>5 DEF Connect, ghosts
  <2>. HIDE DEF b
  <2>3. \A r \in Socket : toServer'[r] \in {toServer[r], <<Completion(b)>>, <<ClaimFrame>>, <<>>}
    BY <1>1, <2>2
  <2>4. Completion(b).type # "job.started" /\ ClaimFrame.type # "job.started"
    BY DEF Completion, ClaimFrame, Message
  <2>5. \A r \in Socket, j \in JobId :
          Has(toServer'[r], "job.started", j) => Has(toServer[r], "job.started", j)
    BY <2>3, <2>4, HasEmpty, HasOne
  <2>. QED
    BY <2>1, <2>2, <2>5, QuietKeeps
<1>. QED
  BY <1>3, <1>4, <1>5

(* A restarted bridge has run nothing yet. *)
LEMMA RestartKeeps ==
  ASSUME SystemInv, OnceInv, RestartBridge
  PROVE  OnceInv'
<1>1. /\ Transmit({bridge.socket} \cap Socket, toServer, toBridge)
      /\ restarts' = restarts + 1 /\ runs' = runs /\ jobs' = jobs
      /\ restarts \in Nat /\ runs \in [JobId -> Nat]
  BY DEF RestartBridge, vars, SystemInv, SystemTypeOK
<1>2. \A s \in Socket : /\ AcksLast(toBridge'[s])
                        /\ \A t, j : Has(toBridge'[s], t, j) => Has(toBridge[s], t, j)
  <2>1. \A s \in Socket : toBridge'[s] \in {<<>>, toBridge[s]}
    BY <1>1, TransmitQueues
  <2>. QED
    BY <2>1, QueuesShrink
<1>3. restarts' > 0 /\ \A j \in JobId : runs'[j] <= restarts' /\ runs'[j] \in Nat
  BY <1>1 DEF OnceInv
<1>4. \A j \in JobId : ~Ran(j)' /\ runs'[j] <= restarts' + 1 /\ (Over(j)' <=> Over(j))
  BY <1>1, <1>3 DEF Ran, Over
<1>. QED
  BY <1>2, <1>3, <1>4 DEF OnceInv

LEMMA OnceStep ==
  ASSUME IInv, IInv', SystemInv, OnceInv, [NextSystem]_system
  PROVE  OnceInv'
<1>1. TypeOK
  BY DEF IInv
<1>2. CASE UNCHANGED system
  BY <1>2 DEF system, network, ghosts, vars, OnceInv, Ran, Over, Running
<1>3. CASE \E s \in Socket : Receive(s)
  BY <1>3, ReceiveKeeps
<1>4. CASE \/ \E s \in Socket : Attach(s) \/ Detach(s)
           \/ ForceReconnect \/ Enqueue \/ Administer \/ Advance \/ ServerFault
  BY <1>4, CoordinatorKeeps
<1>5. CASE \/ \E s \in Socket : Drop(s) \/ RefuseAttach(s) \/ Connect(s)
           \/ Disconnect
  BY <1>5, NetworkKeeps
<1>6. CASE OnMessage
  BY <1>1, <1>6, OnMessageKeeps
<1>7. CASE StartAgent \/ TurnFileFails \/ FinishTurn \/ Poll \/ Beat \/ Resend
  BY <1>7, TimerKeeps
<1>8. CASE RestartBridge
  BY <1>8, RestartKeeps
<1>. QED
  BY <1>2, <1>3, <1>4, <1>5, <1>6, <1>7, <1>8 DEF NextSystem

LEMMA OnceInit == InitSystem => OnceInv
<1>. SUFFICES ASSUME InitSystem PROVE OnceInv
  OBVIOUS
<1>1. /\ \A s \in Socket : toBridge[s] = <<>> /\ toServer[s] = <<>>
      /\ \A j \in JobId : runs[j] = 0 /\ jobs[j].status = "absent"
      /\ restarts = 0
  BY DEF InitSystem, Init, Silent, AbsentRow
<1>2. AcksLast(<<>>)
  BY DEF AcksLast
<1>. QED
  BY <1>1, <1>2, HasEmpty DEF OnceInv, Ran, Running

LEMMA OnceInvariance == SystemSpec => []OnceInv
<1>1. IInv /\ IInv' /\ SystemInv /\ OnceInv /\ [NextSystem]_system => OnceInv'
  BY OnceStep
<1>. QED
  BY <1>1, OnceInit, SystemInvariance, PTL DEF SystemSpec

(* Between two starts of the bridge the bridge takes up a prompt at most   *)
(* once, however connections break, offers are released and made again and *)
(* the coordinator crashes; and a job the coordinator waits for is at hand *)
(* in the bridge, unless the bridge was restarted.                         *)
THEOREM PromptsRunOnce == SystemSpec => []PromptRunOnce
<1>1. IInv /\ SystemInv /\ OnceInv => PromptRunOnce
  <2>. SUFFICES ASSUME SystemInv, OnceInv PROVE PromptRunOnce
    OBVIOUS
  <2>1. \A j \in Running : j \in JobId /\ ~Over(j)
    BY DEF Running, Over, Terminal
  <2>2. RunningIsBacked
    BY <2>1 DEF RunningIsBacked, OnceInv
  <2>3. \A j \in JobId : runs[j] <= 1 + restarts
    BY DEF OnceInv, SystemInv, SystemTypeOK
  <2>. QED
    BY <2>2, <2>3 DEF PromptRunOnce
<1>. QED
  BY <1>1, OnceInvariance, SystemInvariance, PTL

(* Of all steps only an acknowledgement ends the turn that is done. *)
LEMMA AnswerStep ==
  ASSUME IInv, SystemInv, OnceInv, [NextSystem]_system,
         bridge.stage = "done", bridge'.stage # "done", restarts' = restarts
  PROVE  jobs[bridge.job].status \in Terminal \cup {"purged"}
<1>1. /\ bridge \in BridgeState /\ (Working(bridge) <=> bridge.job # None)
      /\ restarts \in Nat
  BY DEF SystemInv, SystemTypeOK
<1>2. bridge' # bridge
  OBVIOUS
<1>3. ASSUME NEW b, b.stage = bridge.stage, NEW frames, NEW taken, BridgeStep(b, frames, taken)
      PROVE  FALSE
  BY <1>3 DEF BridgeStep
<1>4. ASSUME NEW b \in BridgeState, b.stage = bridge.stage, NEW taken, RequestJob(b, taken)
      PROVE  FALSE
  <2>1. [b EXCEPT !.claiming = TRUE].stage = bridge.stage
    BY <1>4 DEF BridgeState
  <2>. QED
    BY <1>3, <1>4, <2>1 DEF RequestJob
<1>5. ~(\E s \in Socket : \/ Receive(s) \/ Attach(s) \/ RefuseAttach(s) \/ Detach(s) \/ Drop(s))
  BY <1>2 DEF Receive, Attach, RefuseAttach, Detach, Drop, ServerStep
<1>6. ~(ForceReconnect \/ Enqueue \/ Administer \/ Advance \/ ServerFault)
  BY <1>2 DEF ForceReconnect, Enqueue, Administer, Advance, ServerFault, ServerStep
<1>7. ~(\E s \in Socket : Connect(s)) /\ ~Disconnect /\ ~RestartBridge
  <2>1. ASSUME NEW s \in Socket, NEW c
        PROVE  [bridge EXCEPT !.socket = s, !.claiming = c].stage = bridge.stage
    BY <1>1 DEF BridgeState
  <2>2. ~(\E s \in Socket : Connect(s))
    BY <2>1 DEF Connect
  <2>3. /\ Closed(bridge).stage = bridge.stage
        /\ \A p : Closed([bridge EXCEPT !.preparing = p]).stage = bridge.stage
    BY <1>1 DEF Closed, BridgeState
  <2>4. ~Disconnect
    BY <2>3 DEF Disconnect
  <2>5. ~RestartBridge
    BY <1>1 DEF RestartBridge
  <2>. QED
    BY <2>2, <2>4, <2>5
<1>8. ~FinishTurn /\ ~StartAgent /\ ~TurnFileFails
  BY DEF FinishTurn, StartAgent, TurnFileFails
<1>9. ~Poll /\ ~Beat /\ ~Resend
  <2>1. LET b == [bridge EXCEPT !.polling = FALSE]
        IN b \in BridgeState /\ b.stage = bridge.stage
    BY <1>1 DEF BridgeState
  <2>. QED
    BY <1>3, <1>4, <2>1 DEF Poll, Beat, Resend
<1>10. ~OnGeneration /\ ~OnNoJob /\ ~OnOther /\ ~OnAvailable
  <2>1. /\ Generation(bridge, Arrived.gen).stage = bridge.stage
        /\ [bridge EXCEPT !.claiming = FALSE, !.polling = TRUE].stage = bridge.stage
        /\ Refused(bridge).stage = bridge.stage
    BY <1>1 DEF BridgeState, Generation, Refused
  <2>2. ~OnGeneration
    BY <1>3, <2>1 DEF OnGeneration
  <2>3. ~OnNoJob
    BY <1>3, <2>1 DEF OnNoJob
  <2>4. ~OnOther
    BY <1>3, <2>1 DEF OnOther
  <2>5. ~OnAvailable
    BY <1>1, <1>4 DEF OnAvailable
  <2>. QED
    BY <2>2, <2>3, <2>4, <2>5
<1>11. ~OnTurn
  <2>1. /\ Working(bridge)
        /\ [bridge EXCEPT !.claiming = FALSE, !.preparing = None].stage = bridge.stage
    BY <1>1 DEF Working, BridgeState
  <2>. QED
    BY <1>3, <2>1 DEF OnTurn
<1>12. OnAck
  BY <1>2, <1>5, <1>6, <1>7, <1>8, <1>9, <1>10, <1>11 DEF NextSystem, OnMessage, system
<1>13. Acknowledged(bridge, Arrived.job)
  BY <1>3, <1>12 DEF OnAck
<1>14. /\ bridge.socket \in Socket /\ toBridge[bridge.socket] # <<>>
       /\ Arrived.type = "job.ack" /\ Arrived.job = bridge.job
  BY <1>12, <1>13, IncomingTyped DEF OnAck, Acknowledged
<1>15. Has(toBridge[bridge.socket], "job.ack", bridge.job)
  <2>1. toBridge[bridge.socket] \in Seq(DownFrame)
    BY <1>14 DEF SystemInv, FramesOK
  <2>. QED
    BY <1>14, <2>1, HasHead DEF Arrived
<1>16. bridge.job \in JobId
  BY <1>1 DEF Working, BridgeState
<1>. QED
  BY <1>14, <1>15, <1>16 DEF OnceInv, Over

(* The bridge keeps the answer it has prepared through errors, broken      *)
(* connections and refused frames; only an acknowledgement makes it forget *)
(* the answer, and then the coordinator has finished the job.              *)
THEOREM AnswersAreKept == SystemSpec => AnswerKept
<1>1. IInv /\ SystemInv /\ OnceInv /\ [NextSystem]_system =>
        [bridge.stage = "done" /\ bridge'.stage # "done" /\ restarts' = restarts
           => jobs[bridge.job].status \in Terminal \cup {"purged"}]_system
  BY AnswerStep
<1>. QED
  BY <1>1, OnceInvariance, SystemInvariance, PTL DEF SystemSpec, AnswerKept

=============================================================================
