------------------------------- MODULE RoomSync -------------------------------
(***************************************************************************)
(* The Durable Object of a room together with the browser replicas of its  *)
(* users: RoomBrainWorker composed with ManagedRoomBrainClient             *)
(* (lib/realtime/roomBrainClient.ts) and its replica                       *)
(* (packages/domain/src/room-brain-client-sync.ts), over sockets that      *)
(* deliver in order and may be lost at any moment.                         *)
(*                                                                         *)
(* Each page runs one client at a time, which is started once and stopped  *)
(* when the page is left, as components/LiveRoomClient.tsx does; a page    *)
(* that is opened again has a client of its own.                           *)
(*                                                                         *)
(* forceReconnect closes the socket with code 1012.  The close() of a      *)
(* browser accepts 1000 and 3000 to 4999 only and throws on any other code,*)
(* leaving the socket open (CloseThrows); the socket the unit tests        *)
(* substitute accepts it (~CloseThrows).                                   *)
(***************************************************************************)
EXTENDS RoomBrainWorker

CONSTANTS
    NoRoom,        \* a replica that holds no room
    NoConn,        \* a client that holds no socket
    Pages,         \* users whose browser has the page of the room open
    MaxUnderWay,   \* bound on the messages under way on a socket that sends
    Spoken,        \* bound: the types of commands the pages send
    MayModerateRooms,  \* whether moderation actions are explored
    CloseThrows    \* WebSocket.close(1012) throws, as browsers have it

ASSUME SyncAssumption ==
    /\ NoRoom \notin Rooms
    /\ NoConn \notin Conns
    /\ Pages \subseteq Users
    /\ {"join", "leave"} \cap Spoken = {}
    /\ MayModerateRooms \in BOOLEAN
    /\ CloseThrows \in BOOLEAN

VARIABLES
    client,    \* the clients of the users
    up,        \* commands under way on each socket
    down,      \* server messages under way on each socket
    history,   \* history variable: the room at every sequence so far
    shown      \* history variable: the room each page showed last

syncVars == <<workerVars, client, up, down, history, shown>>

-----------------------------------------------------------------------------
(* The replica *)

AwaitingSnapshot == [status |-> "awaiting_snapshot", room |-> NoRoom]

Synchronized(r) == [status |-> "synchronized", room |-> r]

ResyncNeeded(r) == [status |-> "resync_required", room |-> r]

\* The defect of applying a change to whatever room the replica holds.
FollowsAnyway(s, n) == s.room # NoRoom

\* A change applies only to a synchronized replica one sequence behind it.
Follows(s, n) ==
    /\ s.status = "synchronized"
    /\ s.room # NoRoom
    /\ n = s.room.sequence + 1

\* A snapshot older than the replica is ignored.
IsStale(s, r) == s.room # NoRoom /\ r.sequence < s.room.sequence

\* The defect of advancing the replica when the ack arrives.
AckAdvances(s, m) ==
    IF s.room = NoRoom THEN s
    ELSE Synchronized([s.room EXCEPT !.sequence = m.sequence])

\* An ack leaves the replica alone: the broadcast brings the change.
Acknowledged(s, m) == s

\* The replica s after server message m.
Received(s, m) ==
    CASE m.type \in {"snapshot", "resync_required"} ->
           IF IsStale(s, m.room) THEN s ELSE Synchronized(m.room)
      [] m.type = "state_changed" ->
           IF Follows(s, m.sequence) /\ Accepts(s.room, m.command)
           THEN Synchronized(Applied(s.room, m.command))
           ELSE ResyncNeeded(s.room)
      [] m.type = "ack" -> Acknowledged(s, m)
      [] m.type \in {"duplicate", "error"} -> s

-----------------------------------------------------------------------------
(* Clients and channels *)

\* A client waits for a ticket, is connected, closes its socket, waits to
\* reconnect (mode "backoff") or is stopped.  start() requests the ticket at once.
StartedClient == [mode |-> "ticket", conn |-> NoConn, sync |-> AwaitingSnapshot]
StoppedClient == [StartedClient EXCEPT !.mode = "stopped"]

Holds(u, c) == client[u].mode = "connected" /\ client[u].conn = c

HeldConns == {c \in Conns : \E u \in Users : Holds(u, c)}

SyncInit ==
    /\ Init
    /\ client = [u \in Users |-> IF u \in Pages THEN StartedClient
                               ELSE StoppedClient]
    /\ up = [c \in Conns |-> << >>]
    /\ down = [c \in Conns |-> << >>]
    /\ history = <<InitialRoom>>
    /\ shown = [u \in Users |-> NoRoom]

\* What the object's handler sent is under way on the sockets clients hold,
\* and the history grows with the room.
Transmitted(held) ==
    /\ down' = [c \in Conns |-> IF c \in held THEN down[c] \o sent'[c] ELSE << >>]
    /\ history' = IF room' = room THEN history ELSE Append(history, room')

\* The page shows the replica whenever it holds a room.
Displayed ==
    shown' = [u \in Users |-> IF client'[u].sync.room = NoRoom THEN shown[u]
                              ELSE client'[u].sync.room]

\* Only clients and channels change.
ClientStep ==
    /\ Displayed
    /\ UNCHANGED <<workerVars, history>>

\* The ticket request fails.
TicketFails(u) ==
    /\ client[u].mode = "ticket"
    /\ client' = [client EXCEPT ![u].mode = "backoff"]
    /\ ClientStep
    /\ UNCHANGED <<up, down>>

\* The ticket arrives and its upgrade reaches the object, which accepts it or
\* fails it.
Upgrade(u, c) ==
    /\ client[u].mode = "ticket"
    /\ Connect(c, u)
    /\ LET upgraded == socket'[c].status = "open" /\ sent'[c] # << >>
       IN  /\ client' = IF upgraded
                        THEN [client EXCEPT ![u].mode = "connected", ![u].conn = c]
                        ELSE [client EXCEPT ![u].mode = "backoff"]
           /\ Transmitted(IF upgraded THEN HeldConns \cup {c} ELSE HeldConns)
    /\ Displayed
    /\ UNCHANGED up

\* forceReconnect closed the socket: it dispatches no further message.
IsClosedBy(s) == s.status = "resync_required" /\ ~CloseThrows

\* onMessage: the replica takes the next message; a gap forces a reconnect.
Deliver(u) ==
    LET c == client[u].conn
        s == Received(client[u].sync, Head(down[c]))
    IN  /\ client[u].mode = "connected"
        /\ down[c] # << >>
        /\ client' = [client EXCEPT ![u].sync = s,
                                   ![u].mode = IF IsClosedBy(s) THEN "closing"
                                               ELSE @]
        /\ down' = [down EXCEPT ![c] = IF IsClosedBy(s) THEN << >> ELSE Tail(@)]
        /\ ClientStep
        /\ UNCHANGED up

\* onClose: a synchronized replica needs a resync, a reconnect is scheduled.
ConnectionLost(u) ==
    LET c == client[u].conn
    IN  /\ client[u].mode \in {"connected", "closing"}
        /\ client' = [client EXCEPT
                        ![u].mode = "backoff",
                        ![u].conn = NoConn,
                        ![u].sync = IF @.status = "synchronized"
                                    THEN ResyncNeeded(@.room) ELSE @]
        /\ down' = [down EXCEPT ![c] = << >>]
        /\ ClientStep
        /\ UNCHANGED up

\* The scheduled reconnect: openConnection starts from an empty replica.
Reconnect(u) ==
    /\ client[u].mode = "backoff"
    /\ client' = [client EXCEPT ![u].mode = "ticket",
                                ![u].sync = AwaitingSnapshot]
    /\ ClientStep
    /\ UNCHANGED <<up, down>>

Stop(u) ==
    LET c == client[u].conn
    IN  /\ client[u].mode # "stopped"
        /\ client' = [client EXCEPT ![u] = StoppedClient]
        /\ down' = [d \in Conns |-> IF d = c THEN << >> ELSE down[d]]
        /\ ClientStep
        /\ UNCHANGED up

\* The page is opened again, while the socket of the one before may linger.
Return(u) ==
    /\ u \in Pages
    /\ client[u].mode = "stopped"
    /\ client' = [client EXCEPT ![u] = StartedClient]
    /\ ClientStep
    /\ UNCHANGED <<up, down>>

\* What the page lets its user send: it never joins or leaves by command.
PageCommands(u) == {cmd \in ClientCommandsOf[u] : cmd.type \in Spoken}

\* A key no envelope under way and no remembered one carries: the code draws a
\* random UUID for every command.
IsFreshId(id) ==
    /\ ~Remembered(recent, id)
    /\ \A c \in Conns : \A i \in DOMAIN up[c] : up[c][i].id # id

\* sendCommand: only a synchronized client sends, under its own sequence.
SendCommand(u, id, cmd) ==
    LET c == client[u].conn
    IN  /\ client[u].mode = "connected"
        /\ client[u].sync.status = "synchronized"
        /\ Len(up[c]) + Len(down[c]) < MaxUnderWay
        /\ IsFreshId(id)
        /\ up' = [up EXCEPT ![c] =
                    Append(@, EnvelopeOf(id, client[u].sync.room.sequence, cmd))]
        /\ UNCHANGED <<client, down>>
        /\ ClientStep

-----------------------------------------------------------------------------
(* The object *)

\* Steps of the object that no client takes part in.
ServerStep ==
    /\ Transmitted(HeldConns)
    /\ UNCHANGED <<client, shown>>

HandleMessage(c) ==
    /\ up[c] # << >>
    /\ Message(c, Head(up[c]))
    /\ up' = [up EXCEPT ![c] = Tail(@)]
    /\ ServerStep

EndConnection(c) ==
    /\ Close(c)
    /\ up' = [up EXCEPT ![c] = << >>]
    /\ ServerStep

\* The backend draws a key of its own for every action, and refuses one by which
\* a user would remove themselves.
RelayModeration(e) ==
    /\ MayModerateRooms
    /\ IsFreshId(e.id)
    /\ e.command.actor # e.command.target
    /\ Moderate(e)
    /\ UNCHANGED up
    /\ ServerStep

RestartObject ==
    /\ Restart
    /\ up' = [c \in Conns |-> << >>]
    /\ ServerStep

\* A stale moderation action only changes the HTTP reply, which no page reads.
SyncNext ==
    \/ \E u \in Users :
          \/ TicketFails(u)
          \/ \E c \in Conns : Upgrade(u, c)
          \/ Deliver(u) \/ ConnectionLost(u) \/ Reconnect(u) \/ Stop(u)
          \/ Return(u)
          \/ \E id \in CommandIds, cmd \in PageCommands(u) :
                SendCommand(u, id, cmd)
    \/ \E c \in Conns : HandleMessage(c) \/ EndConnection(c)
    \/ \E id \in CommandIds, cmd \in RemovalCommands :
          RelayModeration(EnvelopeOf(id, room.sequence, cmd))
    \/ RestartObject

SyncSpec == SyncInit /\ [][SyncNext]_syncVars

\* Messages that are under way on a socket a client holds are delivered: the
\* browser dispatches the events of an open socket.
FairSyncSpec == SyncSpec /\ \A u \in Users : WF_syncVars(Deliver(u))

-----------------------------------------------------------------------------
(* Properties *)

\* A room a replica holds is the room the object had at that sequence: no
\* interleaving of commands, broadcasts, resyncs, lost sockets and storage
\* failures makes a page show a room that never was.
ReplicaAgreement ==
    \A u \in Users :
        LET r == client[u].sync.room
        IN  r # NoRoom => /\ r.sequence < Len(history)
                          /\ r = history[r.sequence + 1]

\* While no ejection closes sockets, a live connection never sees a gap,
\* whatever writes fail: the snapshot and the broadcasts that follow it leave in
\* one unbroken order, and what is not stored is not announced.
NoGaps == \A u \in Users : client[u].sync.status = "resync_required" =>
                                client[u].mode = "backoff"

\* "closes and schedules reconnect when a sequence gap is detected"
\* (lib/realtime/roomBrainClient.test.ts): a replica that needs a resync does
\* not go on listening to the connection that lost the change.
GapClosesConnection ==
    \A u \in Users : client[u].sync.status = "resync_required" =>
                         client[u].mode # "connected"

\* Every page shows rooms of the one history and never goes back in it,
\* through lost sockets, resyncs, reconnects and a new empty replica.
Log == INSTANCE ReplicatedRoom WITH history <- history, shown <- shown

ImplementsReplicatedRoom == Log!Spec

IsConnected(u) == \E c \in OpenConns : Holds(u, c)

HasShown(u, n) == shown[u] # NoRoom /\ shown[u].sequence >= n

\* Every change the object stored reaches each page whose client keeps its
\* connection.
ChangesArrive ==
    \A u \in Users, n \in 1 .. MaxSequence :
        (IsConnected(u) /\ room.sequence >= n)
          ~> (client[u].mode # "connected" \/ HasShown(u, n))

=============================================================================
