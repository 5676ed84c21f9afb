------------------------------ MODULE RoomBrain ------------------------------
(***************************************************************************)
(* The pure state machine of a live room: packages/domain/src/             *)
(* room-brain.ts, with the command authorization of room-brain-auth.ts and *)
(* the envelope rules of room-brain-protocol.ts.  The edge actor and every *)
(* browser replica both run it, so it is a module of operators that the    *)
(* modules of the actor (RoomBrainProtocol, RoomBrainWorker) and of the    *)
(* replicas (RoomSync) share.                                              *)
(*                                                                         *)
(* A reaction is a member of a small set; ValidReactions are the ones whose*)
(* trimmed text has 1 to 32 characters.                                    *)
(***************************************************************************)
EXTENDS Naturals, Sequences

CONSTANTS
    Users,            \* user ids
    Host,             \* the creator of the room
    Reactions,        \* reaction strings a client may send
    ValidReactions,   \* those the room counts
    CommandIds,       \* idempotency keys
    RecentLimit       \* how many keys the room remembers (256 in the code)

ASSUME HostAssumption == Host \in Users
ASSUME ReactionAssumption == ValidReactions \subseteq Reactions
ASSUME RecentLimitAssumption == RecentLimit \in Nat \ {0}

-----------------------------------------------------------------------------
(* Rooms *)

Roles == {"host", "moderator", "speaker", "viewer"}

ModeratingRoles == {"host", "moderator"}

Absent == "absent"

Rooms == [sequence  : Nat,
          locked    : BOOLEAN,
          role      : [Users -> Roles \cup {Absent}],
          queue     : Seq(Users),
          reactions : [ValidReactions -> Nat]]

InitialRoom == [sequence  |-> 0,
                locked    |-> FALSE,
                role      |-> [u \in Users |-> Absent],
                queue     |-> << >>,
                reactions |-> [r \in ValidReactions |-> 0]]

Participants(room) == {u \in Users : room.role[u] # Absent}

Moderates(room, u) == room.role[u] \in ModeratingRoles

Queued(room) == {room.queue[i] : i \in DOMAIN room.queue}

\* The queue with every occurrence of u filtered out.
Without(queue, u) ==
    LET kept[n \in 0 .. Len(queue)] ==
          IF n = 0 THEN << >>
          ELSE IF queue[n] = u THEN kept[n - 1]
               ELSE Append(kept[n - 1], queue[n])
    IN  kept[Len(queue)]

\* The defect of a role change that forgets the speaker queue.
AssignedButQueued(room, u, r) == [room EXCEPT !.role[u] = r]

\* u takes role r (Absent: is deleted) and gives up its place in the queue.
Assigned(room, u, r) == [room EXCEPT !.role[u] = r,
                                     !.queue = Without(@, u)]

-----------------------------------------------------------------------------
(* Commands *)

JoinCommands     == [type : {"join"}, user : Users, role : Roles]
PersonalCommands == [type : {"leave", "request_seat", "cancel_seat"},
                     user : Users]
SeatCommands     == [type : {"grant_seat"}, actor : Users, target : Users]
RemovalCommands  == [type : {"demote_speaker", "eject_participant"},
                     actor : Users, target : Users]
LockCommands     == [type : {"set_room_lock"}, actor : Users, locked : BOOLEAN]
ReactCommands    == [type : {"react"}, user : Users, reaction : Reactions]

\* What decodeCommand lets through from a socket: no demotion, no ejection.
ClientCommands == JoinCommands \cup PersonalCommands \cup SeatCommands
                    \cup LockCommands \cup ReactCommands

Commands == ClientCommands \cup RemovalCommands

Join(u, r) == [type |-> "join", user |-> u, role |-> r]

Leave(u) == [type |-> "leave", user |-> u]

\* The defect of admitting viewers to a locked room.
AdmitsEveryone(room, r) == TRUE

\* A locked room turns viewers away.
Admits(room, r) == ~(room.locked /\ r = "viewer")

\* Only viewers ask for a seat.
MayRequestSeat(room, u) == room.role[u] = "viewer"

\* The command does not throw in this room.
Accepts(room, c) ==
    \/ c.type = "join" /\ Admits(room, c.role)
    \/ c.type \in {"leave", "cancel_seat"}
    \/ c.type = "request_seat" /\ MayRequestSeat(room, c.user)
    \/ /\ c.type = "grant_seat"
       /\ Moderates(room, c.actor)
       /\ c.target \in Participants(room)
    \/ /\ c.type = "demote_speaker"
       /\ Moderates(room, c.actor)
       /\ c.actor # c.target
       /\ room.role[c.target] = "speaker"
    \/ /\ c.type = "eject_participant"
       /\ Moderates(room, c.actor)
       /\ c.actor # c.target
       /\ room.role[c.target] \notin {Absent, "host"}
    \/ c.type = "set_room_lock" /\ Moderates(room, c.actor)
    \/ /\ c.type = "react"
       /\ c.user \in Participants(room)
       /\ c.reaction \in ValidReactions

\* What an accepted command makes of the room, before its sequence advances.
Effect(room, c) ==
    CASE c.type = "join"              -> [room EXCEPT !.role[c.user] = c.role]
      [] c.type = "leave"             -> Assigned(room, c.user, Absent)
      [] c.type = "request_seat"      -> IF c.user \in Queued(room) THEN room
                                         ELSE [room EXCEPT !.queue = Append(@, c.user)]
      [] c.type = "cancel_seat"       -> [room EXCEPT !.queue = Without(@, c.user)]
      [] c.type = "grant_seat"        -> Assigned(room, c.target, "speaker")
      [] c.type = "demote_speaker"    -> Assigned(room, c.target, "viewer")
      [] c.type = "eject_participant" -> Assigned(room, c.target, Absent)
      [] c.type = "set_room_lock"     -> [room EXCEPT !.locked = c.locked]
      [] c.type = "react"             -> [room EXCEPT !.reactions[c.reaction] = @ + 1]

Applied(room, c) == [Effect(room, c) EXCEPT !.sequence = room.sequence + 1]

-----------------------------------------------------------------------------
(* Who may send what *)

\* The role the ticket endpoint puts in a user's token.
TokenRole(u) == IF u = Host THEN "host" ELSE "viewer"

\* The defect of believing the role a join message claims.
MayClaimAnyRole(u, r) == TRUE

\* A join must claim the role of the connection's token.
MayClaim(u, r) == r = TokenRole(u)

\* A socket of user u, whose token carries TokenRole(u), may submit c.
Authorized(u, c) ==
    \/ /\ c.type = "join"
       /\ c.user = u
       /\ MayClaim(u, c.role)
    \/ /\ c.type \in {"leave", "request_seat", "cancel_seat", "react"}
       /\ c.user = u
    \/ /\ c.type \in {"grant_seat", "set_room_lock"}
       /\ c.actor = u
       /\ TokenRole(u) \in ModeratingRoles

\* The commands a socket of each user may submit.
ClientCommandsOf == [u \in Users |-> {c \in ClientCommands : Authorized(u, c)}]

-----------------------------------------------------------------------------
(* Envelopes *)

Envelopes == [id : CommandIds, expected : Nat, command : Commands]

Remembered(recent, id) == \E i \in DOMAIN recent : recent[i] = id

\* The defect of trimming the wrong end of the window.
RememberOldest(recent, id) ==
    IF Len(recent) < RecentLimit THEN Append(recent, id) ELSE recent

\* Remember id, keeping the RecentLimit newest keys.
Remember(recent, id) ==
    LET all == Append(recent, id)
    IN  IF Len(all) <= RecentLimit THEN all
        ELSE SubSeq(all, Len(all) - RecentLimit + 1, Len(all))

\* The defect of relying on the remembered keys alone.
IsAlwaysCurrent(room, e) == TRUE

\* The sender saw this very state of the room.
IsCurrent(room, e) == e.expected = room.sequence

\* The fate of an envelope: the key is looked up before the sequence is
\* compared, and only then is the command tried.
Verdict(room, recent, e) ==
    IF Remembered(recent, e.id) THEN "duplicate"
    ELSE IF ~IsCurrent(room, e) THEN "sequence_mismatch"
    ELSE IF ~Accepts(room, e.command) THEN "rejected"
    ELSE "accepted"

=============================================================================
