--------------------------- MODULE RuntimeSockets ---------------------------
(***************************************************************************)
(* The WebSockets of the runtimes of one claw on AWS: the upgrade and the  *)
(* shutdown of aws/server.ts, and how AwsClawCoordinator                   *)
(* (aws/postgres-coordinator.ts) observes, buffers, attaches and drops     *)
(* them.  Operations of the coordinator queue on #tail and run one at a    *)
(* time; the events of the sockets come at any time.  Frames are numbered  *)
(* as they arrive; what their handlers do is in TurnCoordinator.           *)
(***************************************************************************)
EXTENDS Integers, Sequences, FiniteSets

CONSTANTS Socket, Runtime,
          MaxPending,     \* MAX_PENDING_RUNTIME_FRAMES
          MaxFrames,      \* bound: frames of the sockets there are
          MaxTail,        \* bound: operations that wait, one that runs included
          MaxQueryFaults  \* bound: queries that fail

ASSUME SocketAssumption ==
  /\ {MaxPending, MaxFrames, MaxTail, MaxQueryFaults} \subseteq Nat
  /\ IsFiniteSet(Socket)

VARIABLES
  sock,     \* the WebSockets
  attached, \* #sockets of the coordinator
  tail,     \* #tail: the operations that wait, the first of them runs
  run,      \* how far it is
  removed,  \* removed_at of the claw is set
  calls,    \* the calls of an administrator
  server,   \* "up", "closing" (its sockets), "draining" or "ended"
  leaving,  \* the sockets closeRuntimeSockets found
  faults

socketVars == <<sock, attached, tail, run, removed, calls, server, leaving, faults>>

(* `dropped' is a ghost: the frames it was served when #sockets lost it. *)
Never == -1
Away ==
  [link |-> "away", runtime |-> CHOOSE r \in Runtime : TRUE, known |-> FALSE, arrived |-> 0,
   buffer |-> <<>>, served |-> <<>>, overflowed |-> FALSE, gone |-> FALSE, dropped |-> Never]
Starting == [at |-> "start", previous |-> {}, rest |-> <<>>]

SocketInit ==
  /\ sock = [s \in Socket |-> Away] /\ attached = {} /\ tail = <<>> /\ run = Starting
  /\ removed = FALSE /\ calls = [c \in {"remove", "restart"} |-> "idle"]
  /\ server = "up" /\ leaving = {} /\ faults = 0

QueryFails == faults < MaxQueryFaults /\ faults' = faults + 1

(* socket.close, forgetting a socket's attachment, and the close event.    *)
Shut(r) == [r EXCEPT !.link = IF @ = "open" THEN "closing" ELSE @]
Drop(r) == [r EXCEPT !.dropped = Len(r.served), !.buffer = <<>>]
Leave(r, link) == [r EXCEPT !.link = link, !.gone = TRUE, !.buffer = <<>>]
Each(set, Op(_)) == [s \in Socket |-> IF s \in set THEN Op(sock[s]) ELSE sock[s]]

Entry(op, s, frame) == [op |-> op, socket |-> s, frame |-> frame]
Attach(s) == Entry("attach", s, 0)
Detach(s) == Entry("detach", s, 0)
Room(n) == Len(tail) + n <= MaxTail
Queued(s) == {i \in DOMAIN tail : tail[i].socket = s}
FramesSoFar == Cardinality({f \in Socket \X (1 .. MaxFrames) : f[2] <= sock[f[1]].arrived})

----------------------------------------------------------------------------
(* The events of a socket. *)

(* upgradeRuntimeSocket until the ticket is consumed: not during shutdown. *)
Upgrade(s, r) ==
  /\ server = "up" /\ ~removed /\ sock[s].link = "away"
  /\ sock' = [sock EXCEPT ![s].link = "upgrading", ![s].runtime = r]
  /\ UNCHANGED <<attached, tail, run, removed, calls, server, leaving, faults>>

(* handleUpgrade, which a closed server refuses; the socket is observed     *)
(* before it is resumed, and attached.                                      *)
Handshake(s) ==
  /\ sock[s].link = "upgrading" /\ server # "ended" /\ Room(1)
  /\ IF server = "draining" THEN sock' = [sock EXCEPT ![s].link = "closed"] /\ UNCHANGED tail
     ELSE /\ sock' = [sock EXCEPT ![s].link = "open", ![s].known = TRUE]
          /\ tail' = Append(tail, Attach(s))
  /\ UNCHANGED <<attached, run, removed, calls, server, leaving, faults>>

(* #enqueueSocketMessage: a socket that is gone or has overflowed is heard   *)
(* no more; the buffer holds so many frames, and so many bytes, which fewer *)
(* frames may be.                                                           *)
Frame(s) ==
  LET r == [sock[s] EXCEPT !.arrived = @ + 1] IN
  /\ r.link \in {"open", "closing"} /\ ~r.overflowed /\ ~r.gone /\ server # "ended"
  /\ Room(1) /\ FramesSoFar < MaxFrames
  /\ \/ /\ s \in attached
        /\ sock' = [sock EXCEPT ![s] = r]
        /\ tail' = Append(tail, Entry("frame", s, r.arrived))
     \/ /\ s \notin attached /\ UNCHANGED tail
        /\ \/ /\ Len(r.buffer) < MaxPending
              /\ sock' = [sock EXCEPT ![s] = [r EXCEPT !.buffer = Append(@, r.arrived)]]
           \/ sock' = [sock EXCEPT ![s] = [Shut(r) EXCEPT !.buffer = <<>>, !.overflowed = TRUE]]
  /\ UNCHANGED <<attached, run, removed, calls, server, leaving, faults>>

(* webSocketClose, of the close event; the error event is another one. *)
SocketCloses(s) ==
  /\ sock[s].link \in {"open", "closing"} /\ server # "ended" /\ Room(1)
  /\ sock' = [sock EXCEPT ![s] = [Leave(@, "closed") EXCEPT !.known = FALSE]]
  /\ tail' = Append(tail, Detach(s))
  /\ UNCHANGED <<attached, run, removed, calls, server, leaving, faults>>

(* A closed socket is garbage: its name is free. *)
Forgotten(s) ==
  /\ sock[s].link = "closed" /\ Queued(s) = {} /\ server # "ended"
  /\ sock' = [sock EXCEPT ![s] = Away]
  /\ UNCHANGED <<attached, tail, run, removed, calls, server, leaving, faults>>

(* prepareForRemoval, called again if it failed, and                        *)
(* restartRuntimeConnections, are called.                                   *)
Call(c) ==
  /\ calls[c] = "idle" /\ server \in {"up", "closing"} /\ Room(1)
  /\ calls' = [calls EXCEPT ![c] = "called"]
  /\ tail' = Append(tail, Entry(c, "all", 0))
  /\ UNCHANGED <<sock, attached, run, removed, server, leaving, faults>>

----------------------------------------------------------------------------
(* The operation that runs, in the steps between its awaits. *)

Runs(op, at) == tail # <<>> /\ Head(tail).op = op /\ run.at = at /\ server # "ended"
Of == Head(tail).socket
Proceeds(at, previous, rest) ==
  run' = [at |-> at, previous |-> previous, rest |-> rest] /\ UNCHANGED tail
Ends == tail' = Tail(tail) /\ run' = Starting

(* attachSocket rejects: the server forgets the socket and closes it. *)
Rejects == Ends /\ sock' = [sock EXCEPT ![Of] = [Shut(@) EXCEPT !.known = FALSE]]

ClawRemoved == removed

(* assertActive rejects; or the socket went, or overflowed, while it waited. *)
AttachRefused ==
  /\ Runs("attach", "start")
  /\ \/ ClawRemoved /\ Rejects /\ UNCHANGED faults
     \/ QueryFails /\ Rejects
     \/ /\ ~ClawRemoved /\ sock[Of].gone
        /\ Ends /\ UNCHANGED <<sock, faults>>
     \/ /\ ~ClawRemoved /\ ~sock[Of].gone /\ sock[Of].overflowed
        /\ sock' = [sock EXCEPT ![Of] = [Shut(@) EXCEPT !.buffer = <<>>]]
        /\ Ends /\ UNCHANGED faults
  /\ UNCHANGED <<attached, removed, calls, server, leaving>>

Replaces(s) == {x \in attached \ {s} : sock[x].runtime = sock[s].runtime}

(* It takes the place of its runtime's earlier socket, and then the frames  *)
(* buffered, at once if there is none to release the offers of.             *)
AttachSocketNow ==
  LET s == Of
      old == Replaces(s)
  IN
  /\ Runs("attach", "start") /\ ~ClawRemoved /\ ~sock[s].gone /\ ~sock[s].overflowed
  /\ attached' = (attached \ old) \cup {s}
  /\ sock' = [Each(old, Drop) EXCEPT ![s].buffer = IF old = {} THEN <<>> ELSE @]
  /\ IF old = {} THEN Proceeds("flush", {}, sock[s].buffer) ELSE Proceeds("release", old, <<>>)
  /\ UNCHANGED <<removed, calls, server, leaving, faults>>

(* The offers are released and the earlier socket is closed. *)
ReleaseReplacedOffers ==
  /\ Runs("attach", "release")
  /\ \/ /\ sock' = [Each(run.previous, Shut) EXCEPT ![Of].buffer = <<>>]
        /\ Proceeds("flush", {}, sock[Of].buffer) /\ UNCHANGED faults
     \/ QueryFails /\ Rejects
  /\ UNCHANGED <<attached, removed, calls, server, leaving>>

(* #webSocketMessage; finishSocketEvent closes the socket when it fails. *)
Serve(s, frame) ==
  LET r == [sock[s] EXCEPT !.served = Append(@, frame)] IN
  \/ sock' = [sock EXCEPT ![s] = r] /\ UNCHANGED faults
  \/ sock' = [sock EXCEPT ![s] = Shut(r)] /\ QueryFails

FlushNext ==
  /\ Runs("attach", "flush") /\ run.rest # <<>>
  /\ Serve(Of, Head(run.rest)) /\ Proceeds("flush", {}, Tail(run.rest))
  /\ UNCHANGED <<attached, removed, calls, server, leaving>>

(* runtime.ready: a failure drops the socket again. *)
Greet ==
  /\ Runs("attach", "flush") /\ run.rest = <<>>
  /\ \/ Ends /\ UNCHANGED <<sock, attached, faults>>
     \/ /\ QueryFails /\ Ends /\ attached' = attached \ {Of}
        /\ sock' = [sock EXCEPT ![Of] = [Shut(Drop(@)) EXCEPT !.known = FALSE]]
  /\ UNCHANGED <<removed, calls, server, leaving>>

(* Mutant: whether the socket is attached was decided when the frame came. *)
WasAttached(s) == TRUE

StillAttached(s) == s \in attached

(* webSocketMessage: the attachment is looked up when its turn comes. *)
RunFrame ==
  /\ Runs("frame", "start") /\ Ends
  /\ IF StillAttached(Of) THEN Serve(Of, Head(tail).frame)
     ELSE sock' = [sock EXCEPT ![Of] = Shut(@)] /\ UNCHANGED faults
  /\ UNCHANGED <<attached, removed, calls, server, leaving>>

DetachSocketNow ==
  /\ Runs("detach", "start") /\ Ends
  /\ attached' = attached \ {Of} /\ sock' = Each({Of} \cap attached, Drop)
  /\ UNCHANGED <<removed, calls, server, leaving, faults>>

(* Their buffers stay; nothing reads them again. *)
DropAll ==
  /\ attached' = {}
  /\ sock' = Each(attached, LAMBDA r : [Shut(r) EXCEPT !.dropped = Len(r.served)])

RunRestart ==
  /\ Runs("restart", "start") /\ Ends /\ DropAll
  /\ calls' = [calls EXCEPT !["restart"] = "done"]
  /\ UNCHANGED <<removed, server, leaving, faults>>

(* The transaction of prepareForRemoval may fail, or commit and not say so: *)
(* the sockets stay.                                                        *)
RunRemoval ==
  /\ Runs("remove", "start") /\ Ends
  /\ \/ /\ removed' = TRUE /\ DropAll /\ calls' = [calls EXCEPT !["remove"] = "done"]
        /\ UNCHANGED faults
     \/ /\ QueryFails /\ removed' \in {removed, TRUE}
        /\ calls' = [calls EXCEPT !["remove"] = "idle"] /\ UNCHANGED <<sock, attached>>
  /\ UNCHANGED <<server, leaving>>

----------------------------------------------------------------------------
(* The shutdown of the process. *)

(* closeRuntimeSockets: the clients of the moment are closed, and the       *)
(* coordinator told of those it knows, in the order the server lists them.  *)
CloseRuntimeSockets ==
  LET clients == {s \in Socket : sock[s].link \in {"open", "closing"}}
      told == {s \in clients : sock[s].known}
  IN
  /\ server = "up" /\ server' = "closing" /\ leaving' = clients /\ Room(Cardinality(told))
  /\ sock' = [s \in Socket |-> IF s \in told THEN Leave(sock[s], "closing")
                               ELSE IF s \in clients THEN Shut(sock[s]) ELSE sock[s]]
  /\ \E order \in [1 .. Cardinality(told) -> told] :
       /\ \A s \in told : \E i \in DOMAIN order : order[i] = s
       /\ tail' = tail \o [i \in 1 .. Cardinality(told) |-> Detach(order[i])]
  /\ UNCHANGED <<attached, run, removed, calls, faults>>

(* They have closed or, 5 s later, been terminated; the servers close. *)
DrainServer ==
  /\ server = "closing" /\ server' = "draining"
  /\ \A s \in leaving : sock[s].link \in {"closed", "away"} /\ Queued(s) = {}
  /\ UNCHANGED <<sock, attached, tail, run, removed, calls, leaving, faults>>

(* The servers call back once no connection is left, upgraded ones          *)
(* included; the pool ends.                                                 *)
EndServer ==
  /\ server = "draining" /\ \A s \in Socket : sock[s].link \in {"closed", "away"}
  /\ server' = "ended"
  /\ UNCHANGED <<sock, attached, tail, run, removed, calls, leaving, faults>>

(* A new process; the tombstone is in the database. *)
NewServer ==
  /\ server = "ended" /\ server' = "up" /\ leaving' = {}
  /\ sock' = [s \in Socket |-> Away] /\ attached' = {} /\ tail' = <<>> /\ run' = Starting
  /\ calls' = [c \in DOMAIN calls |-> IF c = "remove" /\ calls[c] = "done" THEN "done" ELSE "idle"]
  /\ UNCHANGED <<removed, faults>>

SocketsNext ==
  \/ \E s \in Socket, r \in Runtime : Upgrade(s, r)
  \/ \E s \in Socket : Handshake(s) \/ Frame(s) \/ SocketCloses(s) \/ Forgotten(s)
  \/ \E c \in DOMAIN calls : Call(c)
  \/ AttachRefused \/ AttachSocketNow \/ ReleaseReplacedOffers \/ FlushNext \/ Greet
  \/ RunFrame \/ DetachSocketNow \/ RunRestart \/ RunRemoval
  \/ CloseRuntimeSockets \/ DrainServer \/ EndServer \/ NewServer

SocketSpec == SocketInit /\ [][SocketsNext]_socketVars

----------------------------------------------------------------------------
(* The frames of a socket that wait in a queue are those numbered first to  *)
(* last, in that order.                                                     *)
FramesWait(queue, s, first, last) ==
  LET mine == {i \in DOMAIN queue : queue[i].op = "frame" /\ queue[i].socket = s}
  IN /\ {queue[i].frame : i \in mine} = first .. last
     /\ \A i, j \in mine : i < j => queue[i].frame < queue[j].frame

(* While the server leaves a socket open, and did not drop it, every frame  *)
(* that arrived was served, or waits to be, in the order of arrival:        *)
(* buffered frames before those that came after the attachment              *)
(* (#enqueueSocketMessage, #flushPendingSocketMessages).                    *)
FramesKept ==
  \A s \in Socket :
    LET flushing == IF tail # <<>> /\ Head(tail) = Attach(s) THEN run.rest ELSE <<>>
        held == sock[s].served \o flushing \o sock[s].buffer
    IN sock[s].link = "open" /\ sock[s].dropped = Never
         => /\ held = [i \in 1 .. Len(held) |-> i] /\ Len(held) <= sock[s].arrived
            /\ FramesWait(tail, s, Len(held) + 1, sock[s].arrived)

(* A socket that was replaced, disconnected or detached is served no        *)
(* further frame, not even one that was queued (#socketAttachment).         *)
DroppedStaySilent ==
  \A s \in Socket : sock[s].dropped = Never \/ Len(sock[s].served) = sock[s].dropped

(* A runtime has one socket; one that has closed is not kept but until its  *)
(* detach runs (attachSocket, webSocketClose).                              *)
AttachedLive ==
  \A s \in attached :
    /\ \A x \in attached \ {s} : sock[x].runtime # sock[s].runtime
    /\ sock[s].gone => Detach(s) \in {tail[i] : i \in DOMAIN tail}

(* Sockets are served in order, silenced when dropped, and replaced; and    *)
(* once prepareForRemoval has returned none is attached, whatever upgrade   *)
(* was under way (attachSocket, prepareForRemoval).                         *)
SocketsAccounted ==
  /\ FramesKept /\ DroppedStaySilent /\ AttachedLive
  /\ calls["remove"] = "done" => attached = {}

=============================================================================
