--------------------------- MODULE RoomBrainWorker ---------------------------
(***************************************************************************)
(* The Durable Object of one room: services/room-brain-worker/src/index.ts *)
(* over the domain code of room-brain-transport.ts and                     *)
(* room-brain-presence.ts.  It keeps the room and the presence registry in *)
(* storage, accepts sockets, answers and broadcasts.                       *)
(*                                                                         *)
(* A handler is one action: between its storage operations the runtime     *)
(* delivers no other event to the object.  What can cut a handler short is *)
(* modelled: a storage write that fails (StorageMayFail), the restart of   *)
(* the object (MayRestart), and a send on a socket that the object itself  *)
(* has closed, which throws; until the peer confirms the closing,          *)
(* getWebSockets() still lists that socket, so a broadcast then stops at an*)
(* unspecified place of its loop.                                          *)
(*                                                                         *)
(* A socket is opened with a ticket, which carries its user and its        *)
(* connectionId.  The registry knows connectionIds.  Nothing stops a       *)
(* ticket from opening several sockets while it is valid: they share one   *)
(* entry of the registry.                                                  *)
(***************************************************************************)
EXTENDS RoomBrain, FiniteSets

CONSTANTS
    Conns,             \* sockets, each opened at most once
    IdOf,              \* function: the connectionId of the ticket of each socket
    ConnectionLimit,   \* registered connections per user (4 in the code)
    NoUser,            \* owner of a socket that was never opened
    MaxSequence,       \* bound on the number of changes explored by TLC
    StorageMayFail,    \* a storage.put may reject
    MayRestart         \* the object may restart and lose its sockets

ASSUME WorkerAssumption ==
    /\ ConnectionLimit \in Nat \ {0}
    /\ NoUser \notin Users
    /\ StorageMayFail \in BOOLEAN
    /\ MayRestart \in BOOLEAN

VARIABLES
    room,       \* storage: the authoritative room
    recent,     \* storage: keys of the newest accepted envelopes
    presence,   \* storage: the connectionIds registered for each user
    socket,     \* the sockets the runtime holds for the object
    sent,       \* what the handler that ran last sent on each socket
    reply       \* the HTTP reply of that handler, if it was a moderation

stored == <<room, recent, presence>>
workerVars == <<room, recent, presence, socket, sent, reply>>

-----------------------------------------------------------------------------
(* Server messages and replies *)

Snapshot(r)        == [type |-> "snapshot", room |-> r]
ResyncRequired(r)  == [type |-> "resync_required", room |-> r]
StateChanged(r, c) == [type |-> "state_changed", sequence |-> r.sequence,
                       command |-> c]
Ack(r)             == [type |-> "ack", sequence |-> r.sequence]
Duplicate(r)       == [type |-> "duplicate", sequence |-> r.sequence]
ErrorMessage       == [type |-> "error"]

NoReply == [status |-> "none"]

Reply(status, target) == [status |-> status, target |-> target]

Silence == [c \in Conns |-> << >>]

-----------------------------------------------------------------------------
(* Sockets *)

Ids == {IdOf[c] : c \in Conns}

Unused == [status |-> "unused", user |-> NoUser]

OpenConns == {c \in Conns : socket[c].status = "open"}

ClosingConns == {c \in Conns : socket[c].status = "closing"}

OpenConnsOf(u) == {c \in OpenConns : socket[c].user = u}

\* The sets of open sockets a broadcast may reach.
Reachable == IF ClosingConns = {} THEN {OpenConns} ELSE SUBSET OpenConns

\* The broadcast as docs/ROOM_BRAIN_TRANSPORT.md describes it, which leaves out
\* the sender of the command: a defect, for the sender never sees its own change.
ReachableOthers(c) == {reached \ {c} : reached \in Reachable}

\* The defect of a broadcast to the participants, who are not all who listen.
ReachableParticipants(c) ==
    {{d \in reached : socket[d].user \in Participants(room)} : reached \in Reachable}

\* The broadcast of a command addresses the socket it came from, too: the ack
\* alone does not bring the sender's replica forward.
ReachableFrom(c) == Reachable

\* A broadcast that threw also abandons the statements after it.
BroadcastCompletes == ClosingConns = {}

\* Sockets of u after closeParticipantSockets(u).
ClosedSocketsOf(u) ==
    [c \in Conns |-> IF c \in OpenConnsOf(u)
                     THEN [socket[c] EXCEPT !.status = "closing"]
                     ELSE socket[c]]

Init ==
    /\ room = InitialRoom
    /\ recent = << >>
    /\ presence = [u \in Users |-> {}]
    /\ socket = [c \in Conns |-> Unused]
    /\ sent = Silence
    /\ reply = NoReply

-----------------------------------------------------------------------------
(* fetch: the WebSocket upgrade of socket c with a ticket of user u *)

\* A ticket belongs to one user.
MayCarry(c, u) == \A d \in Conns : IdOf[d] = IdOf[c] => socket[d].user \in {u, NoUser}

Arriving(c, u) == socket[c].status = "unused" /\ MayCarry(c, u)

NeedsJoin(u) == u \notin Participants(room)

\* The defect of a limit that lets one connection too many in.
BelowLimitOffByOne(c, u) ==
    IdOf[c] \in presence[u] \/ Cardinality(presence[u]) <= ConnectionLimit

\* claimRoomBrainPresence: a registered id is accepted even at the limit.
BelowLimit(c, u) ==
    IdOf[c] \in presence[u] \/ Cardinality(presence[u]) < ConnectionLimit

\* The registry with the connection of c; a registered id stays as it is.
Claimed(c, u) == [presence EXCEPT ![u] = @ \cup {IdOf[c]}]

MayEnter(u) == NeedsJoin(u) => Accepts(room, Join(u, TokenRole(u)))

\* The upgrade is refused: too many connections, or the join throws.
RefuseConnection(c, u) ==
    /\ Arriving(c, u)
    /\ ~BelowLimit(c, u) \/ ~MayEnter(u)
    /\ socket' = [socket EXCEPT ![c] = [status |-> "closed", user |-> u]]
    /\ sent' = Silence
    /\ reply' = NoReply
    /\ UNCHANGED stored

\* The defect of greeting a user with the room as it was before the join.
GreetingBeforeJoin(joined) == Snapshot(room)

\* A user who joins sees the joined room and misses only its own announcement.
Greeting(joined) == Snapshot(joined)

\* The user already is a participant: only the connection is registered.
ConnectAgain(c, u) ==
    /\ Arriving(c, u)
    /\ BelowLimit(c, u)
    /\ ~NeedsJoin(u)
    /\ presence' = Claimed(c, u)
    /\ socket' = [socket EXCEPT ![c] = [status |-> "open", user |-> u]]
    /\ sent' = [Silence EXCEPT ![c] = <<Snapshot(room)>>]
    /\ reply' = NoReply
    /\ UNCHANGED <<room, recent>>

\* The first connection joins the user and announces it to the others; when
\* the announcement throws, the upgrade fails although the socket is accepted.
ConnectAndJoin(c, u) ==
    LET joining == Join(u, TokenRole(u))
        joined  == Applied(room, joining)
    IN  /\ room.sequence < MaxSequence
        /\ Arriving(c, u)
        /\ BelowLimit(c, u)
        /\ NeedsJoin(u)
        /\ Accepts(room, joining)
        /\ room' = joined
        /\ presence' = Claimed(c, u)
        /\ socket' = [socket EXCEPT ![c] = [status |-> "open", user |-> u]]
        /\ \E reached \in Reachable :
              sent' = [d \in Conns |->
                         IF d = c /\ BroadcastCompletes THEN <<Greeting(joined)>>
                         ELSE IF d \in reached
                              THEN <<StateChanged(joined, joining)>>
                              ELSE << >>]
        /\ reply' = NoReply
        /\ UNCHANGED recent

\* The registry is stored and the write of the room then fails.
ConnectHalfStored(c, u) ==
    /\ StorageMayFail
    /\ Arriving(c, u)
    /\ BelowLimit(c, u)
    /\ NeedsJoin(u)
    /\ Accepts(room, Join(u, TokenRole(u)))
    /\ presence' = Claimed(c, u)
    /\ socket' = [socket EXCEPT ![c] = [status |-> "closed", user |-> u]]
    /\ sent' = Silence
    /\ reply' = NoReply
    /\ UNCHANGED <<room, recent>>

-----------------------------------------------------------------------------
(* webSocketMessage: envelope e arrived on socket c *)

\* Undecodable, or not authorized for the identity of the connection.
MessageRefused(c) ==
    /\ c \in OpenConns
    /\ sent' = [Silence EXCEPT ![c] = <<ErrorMessage>>]
    /\ reply' = NoReply
    /\ UNCHANGED <<stored, socket>>

MayHandle(c, e) ==
    /\ c \in OpenConns
    /\ e.command \in ClientCommandsOf[socket[c].user]

\* The defect of storing the room without the key of the envelope.
KeysForgotten(e) == recent

\* The keys stored with the room that envelope e changed.
KeysAfter(e) == Remember(recent, e.id)

\* The reply goes out first, then the state is stored, then it is broadcast.
MessageAccepted(c, e) ==
    LET changed == Applied(room, e.command)
    IN  /\ room.sequence < MaxSequence
        /\ MayHandle(c, e)
        /\ Verdict(room, recent, e) = "accepted"
        /\ room' = changed
        /\ recent' = KeysAfter(e)
        /\ \E reached \in ReachableFrom(c) :
              sent' = [d \in Conns |->
                         (IF d = c THEN <<Ack(changed)>> ELSE << >>) \o
                         (IF d \in reached
                          THEN <<StateChanged(changed, e.command)>> ELSE << >>)]
        /\ reply' = NoReply
        /\ UNCHANGED <<presence, socket>>

\* The acknowledged change is not stored.
MessageNotStored(c, e) ==
    /\ StorageMayFail
    /\ MayHandle(c, e)
    /\ Verdict(room, recent, e) = "accepted"
    /\ sent' = [Silence EXCEPT ![c] = <<Ack(Applied(room, e.command))>>]
    /\ reply' = NoReply
    /\ UNCHANGED <<stored, socket>>

\* A duplicate, stale or impossible command changes nothing.
MessageAnswered(c, e) ==
    LET verdict == Verdict(room, recent, e)
    IN  /\ MayHandle(c, e)
        /\ verdict # "accepted"
        /\ sent' = [Silence EXCEPT ![c] =
                      <<CASE verdict = "duplicate"         -> Duplicate(room)
                          [] verdict = "sequence_mismatch" -> ResyncRequired(room)
                          [] verdict = "rejected"          -> ErrorMessage>>]
        /\ reply' = NoReply
        /\ UNCHANGED <<stored, socket>>

-----------------------------------------------------------------------------
(* webSocketClose and webSocketError: removeConnection *)

Ends(c) ==
    /\ c \in OpenConns \cup ClosingConns
    /\ socket' = [socket EXCEPT ![c].status = "closed"]
    /\ reply' = NoReply

\* The defect of leaving the registry as it is.
KeptRegistry(c) == presence

\* The connection of c is registered.
IsRegistered(c) == IdOf[c] \in presence[socket[c].user]

\* The registry without the connection of c.
Released(c) == [presence EXCEPT ![socket[c].user] = @ \ {IdOf[c]}]

\* The defect of treating the end of any connection as the user's departure.
IsLastOfAny(c) == TRUE

\* The defect of looking at the registry before c is taken out.
IsLastAlready(c) == presence[socket[c].user] = {}

\* No other connection of the user of c is registered.
IsLast(c) == presence[socket[c].user] \subseteq {IdOf[c]}

\* The connection is not registered, is not the user's last, or its user is
\* no participant any more: no leave.
ConnectionEnds(c) ==
    LET u == socket[c].user
    IN  /\ Ends(c)
        /\ ~IsRegistered(c) \/ ~IsLast(c) \/ u \notin Participants(room)
        /\ presence' = Released(c)
        /\ sent' = Silence
        /\ UNCHANGED <<room, recent>>

\* The end of the last connection removes the participant.
LastConnectionEnds(c) ==
    LET u    == socket[c].user
        left == Applied(room, Leave(u))
    IN  /\ room.sequence < MaxSequence
        /\ Ends(c)
        /\ IsRegistered(c)
        /\ IsLast(c)
        /\ u \in Participants(room)
        /\ presence' = Released(c)
        /\ room' = left
        /\ \E reached \in Reachable :
              sent' = [d \in Conns |-> IF d \in reached \ {c}
                                       THEN <<StateChanged(left, Leave(u))>>
                                       ELSE << >>]
        /\ UNCHANGED recent

\* The registry is stored and the write of the room then fails.
LastConnectionHalfRemoved(c) ==
    LET u == socket[c].user
    IN  /\ StorageMayFail
        /\ Ends(c)
        /\ IsRegistered(c)
        /\ IsLast(c)
        /\ u \in Participants(room)
        /\ presence' = Released(c)
        /\ sent' = Silence
        /\ UNCHANGED <<room, recent>>

-----------------------------------------------------------------------------
(* applyModerationAction: envelope e relayed by the backend *)

IsEjection(e) == e.command.type = "eject_participant"

MayModerate(e) ==
    /\ e.command \in RemovalCommands
    /\ TokenRole(e.command.actor) \in ModeratingRoles

\* The defect of an ejection that leaves the sockets of its target open.
KeptSockets(u) == socket

\* The sockets after an ejection of u has done its work.
SocketsAfterEjection(u) == ClosedSocketsOf(u)

\* The target is not in the room, or the ejection was done under this key: its
\* lingering sockets are closed.
EjectionRepeated(e) ==
    LET u == e.command.target
    IN  /\ MayModerate(e)
        /\ IsEjection(e)
        /\ u \notin Participants(room) \/ Remembered(recent, e.id)
        /\ socket' = SocketsAfterEjection(u)
        /\ sent' = Silence
        /\ reply' = Reply("ejected", u)
        /\ UNCHANGED stored

\* The change is stored and broadcast; an ejection then closes the sockets of
\* its target, unless the broadcast threw.
ModerationAccepted(e) ==
    LET u       == e.command.target
        changed == Applied(room, e.command)
    IN  /\ room.sequence < MaxSequence
        /\ MayModerate(e)
        /\ IsEjection(e) => u \in Participants(room)
        /\ Verdict(room, recent, e) = "accepted"
        /\ room' = changed
        /\ recent' = KeysAfter(e)
        /\ \E reached \in Reachable :
              sent' = [d \in Conns |-> IF d \in reached
                                       THEN <<StateChanged(changed, e.command)>>
                                       ELSE << >>]
        /\ socket' = IF IsEjection(e) /\ BroadcastCompletes
                     THEN SocketsAfterEjection(u) ELSE socket
        /\ reply' = IF ~BroadcastCompletes THEN Reply("failed", u)
                    ELSE IF IsEjection(e) THEN Reply("ejected", u)
                         ELSE Reply("demoted", u)
        /\ UNCHANGED presence

\* A repeated demotion, a stale sequence or an impossible action: answered
\* with the role, a snapshot or an error, and nothing changes.
ModerationAnswered(e) ==
    LET u       == e.command.target
        verdict == Verdict(room, recent, e)
    IN  /\ MayModerate(e)
        /\ IsEjection(e) => u \in Participants(room) /\ verdict # "duplicate"
        /\ verdict # "accepted"
        /\ sent' = Silence
        /\ reply' = Reply(verdict, u)
        /\ UNCHANGED <<stored, socket>>

-----------------------------------------------------------------------------

\* The object is restarted: the runtime's sockets are gone, storage stays.
Restart ==
    /\ MayRestart
    /\ OpenConns \cup ClosingConns # {}
    /\ socket' = [c \in Conns |->
                    IF c \in OpenConns \cup ClosingConns
                    THEN [socket[c] EXCEPT !.status = "closed"] ELSE socket[c]]
    /\ sent' = Silence
    /\ reply' = NoReply
    /\ UNCHANGED stored

Connect(c, u) ==
    \/ RefuseConnection(c, u)
    \/ ConnectAgain(c, u)
    \/ ConnectAndJoin(c, u)
    \/ ConnectHalfStored(c, u)

Message(c, e) ==
    \/ MessageAccepted(c, e)
    \/ MessageNotStored(c, e)
    \/ MessageAnswered(c, e)

Close(c) ==
    \/ ConnectionEnds(c)
    \/ LastConnectionEnds(c)
    \/ LastConnectionHalfRemoved(c)

Moderate(e) ==
    \/ EjectionRepeated(e)
    \/ ModerationAccepted(e)
    \/ ModerationAnswered(e)

EnvelopeOf(id, n, c) == [id |-> id, expected |-> n, command |-> c]

\* A sender's expected sequence is the current one or not; zero stands for
\* every stale one.
Next ==
    \/ \E c \in Conns, u \in Users : Connect(c, u)
    \/ \E c \in Conns : MessageRefused(c)
    \/ \E c \in OpenConns : \E cmd \in ClientCommandsOf[socket[c].user],
          id \in CommandIds, n \in {0, room.sequence} :
             Message(c, EnvelopeOf(id, n, cmd))
    \/ \E c \in Conns : Close(c)
    \/ \E id \in CommandIds, n \in {0, room.sequence},
          cmd \in RemovalCommands : Moderate(EnvelopeOf(id, n, cmd))
    \/ Restart

Spec == Init /\ [][Next]_workerVars

-----------------------------------------------------------------------------
(* Properties *)

TypeOK ==
    /\ room \in Rooms
    /\ recent \in Seq(CommandIds) /\ Len(recent) <= RecentLimit
    /\ presence \in [Users -> SUBSET Ids]
    /\ socket \in [Conns -> [status : {"unused", "open", "closing", "closed"},
                             user   : Users \cup {NoUser}]]
    /\ DOMAIN sent = Conns
    /\ reply.status \in {"none", "ejected", "demoted", "failed", "duplicate",
                         "sequence_mismatch", "rejected"}

\* The object implements the promise of RoomBrainProtocol, storage failures,
\* aborted broadcasts and restarts included.
Protocol == INSTANCE RoomBrainProtocol WITH room <- room, recent <- recent

ImplementsProtocol == Protocol!Spec

\* No other socket of the ticket of c was refused or has ended: only the end of
\* a socket takes its id out of the registry, for all the sockets of the ticket.
Undisturbed(c) ==
    \A d \in Conns \ {c} : IdOf[d] = IdOf[c] => socket[d].status # "closed"

\* The registry names sockets that are still to report their end, and all of
\* them but those of a ticket of which one socket has ended already: none else is
\* forgotten, none is kept, whatever overlaps of reconnecting sockets and
\* ejections occur (without storage failures and restarts).
PresenceTracksSockets ==
    \A u \in Users :
        LET live == {c \in OpenConns \cup ClosingConns : socket[c].user = u}
        IN  /\ presence[u] \subseteq {IdOf[c] : c \in live}
            /\ {IdOf[c] : c \in {d \in live : Undisturbed(d)}} \subseteq presence[u]

\* Nobody is in the room without a connection in the registry, the end of which
\* will remove them (without storage failures), but a user of whose ticket one
\* socket ended while another lived: that one may join again by command, and no
\* end will be taken for the user's last.
NoGhosts ==
    \A u \in Participants(room) :
       \/ presence[u] # {}
       \/ \E c \in Conns : socket[c].user = u /\ ~Undisturbed(c)

\* A user never holds open sockets of more tickets than the limit allows
\* connections, leaving out a ticket of which one socket has ended already.
ConnectionLimitHolds ==
    \A u \in Users :
       Cardinality({IdOf[c] : c \in {d \in OpenConnsOf(u) : Undisturbed(d)}})
          <= ConnectionLimit

\* An ejection reported as done left the target no open socket.
EjectionDisconnects ==
    reply.status = "ejected" => OpenConnsOf(reply.target) = {}

\* The end of one connection, whenever it is reported, never removes a user
\* who has another connection open: a socket that dies after its user reconnected
\* does not take the user out of the room. Sockets of one ticket are one
\* connection, which the end of any of them ends. (Only envelopes touch recent.)
LateEndKeepsUser ==
    [][UNCHANGED recent =>
         \A u \in Participants(room) :
            room'.role[u] = Absent => \A c \in OpenConnsOf(u)' : ~Undisturbed(c)'
      ]_workerVars

\* c is told in this step that the room now is at its new sequence.
IsToldOfChange(c) ==
    \E i \in DOMAIN sent'[c] : /\ sent'[c][i].type = "state_changed"
                               /\ sent'[c][i].sequence = room'.sequence

\* As long as no ejected socket lingers, the handler that stores a change
\* announces it on every open socket: those of users who left the room but stay
\* connected included, and the sender's too, whose replica takes the change from
\* the broadcast and not from its ack. (docs/ROOM_BRAIN_TRANSPORT.md would "send
\* to other room sockets" only.)
ChangesAreBroadcast ==
    [][room' # room /\ ClosingConns = {} =>
         \A c \in OpenConns : socket'[c].status = "open" => IsToldOfChange(c)
      ]_workerVars

=============================================================================
