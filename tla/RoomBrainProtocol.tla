-------------------------- MODULE RoomBrainProtocol --------------------------
(***************************************************************************)
(* What the Room Brain of one room promises: a single authoritative room,  *)
(* changed one accepted command at a time.  A change is a command submitted*)
(* by an authenticated connection, a moderation action of the host that the*)
(* backend relays, or the join and leave the edge actor applies itself when*)
(* a user's first connection opens and the last one closes.  Connections,  *)
(* storage and broadcast are left to RoomBrainWorker, which is checked to  *)
(* implement this specification.                                           *)
(***************************************************************************)
EXTENDS RoomBrain

CONSTANT MaxSequence    \* bound on the number of changes explored by TLC

VARIABLES
    room,     \* the authoritative room
    recent    \* idempotency keys of the newest accepted envelopes

protocolVars == <<room, recent>>

Init ==
    /\ room = InitialRoom
    /\ recent = << >>

\* An envelope is accepted: the command is applied and its key remembered.
Submit(e) ==
    /\ Verdict(room, recent, e) = "accepted"
    /\ room' = Applied(room, e.command)
    /\ recent' = Remember(recent, e.id)

\* A command that arrived on a socket of user u.
ClientCommand(u, e) ==
    /\ e.command \in ClientCommandsOf[u]
    /\ Submit(e)

\* A demotion or an ejection the backend relays for a moderator.
ModerationAction(e) ==
    /\ e.command \in RemovalCommands
    /\ TokenRole(e.command.actor) \in ModeratingRoles
    /\ Submit(e)

\* The actor itself joins a user whose first connection opened.
ConnectionJoin(u) ==
    /\ u \notin Participants(room)
    /\ Accepts(room, Join(u, TokenRole(u)))
    /\ room' = Applied(room, Join(u, TokenRole(u)))
    /\ UNCHANGED recent

\* The actor itself removes a user whose last connection closed.
ConnectionLeave(u) ==
    /\ u \in Participants(room)
    /\ room' = Applied(room, Leave(u))
    /\ UNCHANGED recent

\* An accepted envelope expects the current sequence.
Next ==
    /\ room.sequence < MaxSequence
    /\ \/ \E u \in Users, id \in CommandIds : \E c \in ClientCommandsOf[u] :
            ClientCommand(u, [id |-> id, expected |-> room.sequence, command |-> c])
       \/ \E id \in CommandIds, c \in RemovalCommands :
            ModerationAction([id |-> id, expected |-> room.sequence, command |-> c])
       \/ \E u \in Users : ConnectionJoin(u)
       \/ \E u \in Users : ConnectionLeave(u)

Spec == Init /\ [][Next]_protocolVars

-----------------------------------------------------------------------------
(* Properties *)

\* The room and its window of idempotency keys have the shape the code gives
\* them; the window never outgrows its limit.
TypeOK ==
    /\ room \in Rooms
    /\ recent \in Seq(CommandIds)
    /\ Len(recent) <= RecentLimit

\* The speaker queue lists each user at most once and only viewers: whoever
\* leaves, is ejected, is seated or is demoted gives up the place, whatever
\* the order of the commands (room-brain.ts, every branch that filters the
\* queue, and the re-join that keeps it).
QueueHoldsViewers ==
    /\ \A i, j \in DOMAIN room.queue : room.queue[i] = room.queue[j] => i = j
    /\ \A i \in DOMAIN room.queue : room.role[room.queue[i]] = "viewer"

\* The actor never mints a privilege: whoever moderates the room holds a token
\* of a moderating role, through any sequence of joins, seats and demotions.
NoMintedPrivilege ==
    \A u \in Users : Moderates(room, u) => TokenRole(u) \in ModeratingRoles

\* While the room is locked nobody becomes a viewer from outside, neither by
\* the first connection nor by a join command on an open socket.
LockedRoomAdmitsNoViewer ==
    [][room.locked =>
         \A u \in Users : (u \notin Participants(room)) => room'.role[u] # "viewer"
      ]_protocolVars

=============================================================================
