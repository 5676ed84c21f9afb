------------------------- MODULE RoomCompositionProofs -------------------------
(***************************************************************************)
(* Proofs about the two compositions of the object, for every value of     *)
(* their constants.                                                        *)
(*                                                                         *)
(* RoomAccess, with the routes and the database: the object behaves as     *)
(* RoomBrainWorker describes it, and the promises about membership hold    *)
(* through every race of the database, the tickets, the pages and the      *)
(* object.                                                                 *)
(*                                                                         *)
(* RoomSync, with the clients: the rooms the replicas hold are rooms the   *)
(* object had, no page ever goes back in the history of the room, and      *)
(* without ejections a live connection never sees a gap.                   *)
(***************************************************************************)
EXTENDS RoomAccess, RoomSync, RoomBrainWorkerProofs

-----------------------------------------------------------------------------
(* RoomAccess: who is inside: the steps of the object *)

\* The users in the room or connected to it.
Inside == {u \in Users : u \in Participants(room) \/ OpenConnsOf(u) # {}}

\* No accepted command but a user's own join makes a participant of an outsider.
LEMMA RoomGrowth ==
    ASSUME StoredInv, NEW c, Permitted(c), Accepts(room, c),
           room' = Applied(room, c), NEW u \in Users, u \in Participants(room)'
    PROVE  u \in Participants(room) \/ (c.type = "join" /\ c.user = u)
<1>. SUFFICES ASSUME room.role[u] = Absent, ~(c.type = "join" /\ c.user = u)
              PROVE  room'.role[u] = Absent
  BY DEF Participants
<1>1. Applied(room, c).role[u] = Absent
  BY OutsiderEffect DEF StoredInv
<1> QED
  BY <1>1, Zenon

\* The stored room changes by accepted commands only, so its sequence never
\* falls.
LEMMA SequenceGrows ==
    ASSUME SocketOwners, StoredInv, [Next]_workerVars
    PROVE  /\ room.sequence \in Nat /\ room'.sequence \in Nat
           /\ room.sequence <= room'.sequence
<1>1. room.sequence \in Nat
  BY DEF StoredInv, RoomInv, Rooms
<1>2. ASSUME NEW c, Permitted(c), Accepts(room, c), room' = Applied(room, c)
      PROVE  room'.sequence = room.sequence + 1
  BY <1>2, ChangeKeepsRoomInv DEF StoredInv
<1>3. ASSUME NEW c \in Conns, NEW u \in Users, ConnectAndJoin(c, u)
      PROVE  room'.sequence = room.sequence + 1
  BY <1>2, <1>3, ConnectionCommandsPermitted DEF ConnectAndJoin
<1>4. ASSUME NEW c \in Conns, LastConnectionEnds(c)
      PROVE  room'.sequence = room.sequence + 1
  <2>1. socket[c].user \in Users
    BY <1>4 DEF LastConnectionEnds, Ends, OpenConns, ClosingConns, SocketOwners
  <2> QED
    BY <1>2, <1>4, <2>1, ConnectionCommandsPermitted DEF LastConnectionEnds
<1>5. room' = room \/ room'.sequence = room.sequence + 1
  BY <1>2, <1>3, <1>4, StoredStep, Zenon DEF workerVars
<1> QED
  BY <1>1, <1>5

\* Closing sockets and taking roles away lets nobody in.
LEMMA NobodyEnters ==
    ASSUME \A u \in Users : u \in Participants(room)' => u \in Inside,
           \A c \in Conns : /\ socket'[c].status = "open" => socket[c].status = "open"
                            /\ socket'[c].user = socket[c].user
    PROVE  Inside' \subseteq Inside
  BY DEF Inside, OpenConnsOf, OpenConns

\* An upgrade lets in nobody but the user of its token.
LEMMA ConnectInside ==
    ASSUME SocketOwners, StoredInv, NEW c \in Conns, NEW u \in Users, Connect(c, u)
    PROVE  Inside' \subseteq Inside \cup {u}
<1>1. \A v \in Users : v \in Participants(room)' => v \in Participants(room) \cup {u}
  <2>1. CASE ConnectAndJoin(c, u)
    <3>1. Accepts(room, Join(u, TokenRole(u))) /\ room' = Applied(room, Join(u, TokenRole(u)))
      BY <2>1 DEF ConnectAndJoin
    <3>2. Join(u, TokenRole(u)).user = u
      BY DEF Join
    <3> QED
      BY <3>1, <3>2, RoomGrowth, ConnectionCommandsPermitted
  <2>2. CASE room' = room
    BY <2>2 DEF Participants
  <2> QED
    BY <2>1, <2>2 DEF Connect, RefuseConnection, ConnectAgain, ConnectHalfStored,
                      stored
<1>2. \E s \in {"open", "closed"} : socket' = [socket EXCEPT ![c] = [status |-> s, user |-> u]]
  BY DEF Connect, RefuseConnection, ConnectAgain, ConnectAndJoin, ConnectHalfStored
<1>3. \A d \in Conns : d # c => socket'[d] = socket[d]
  BY <1>2 DEF SocketOwners, SocketTable
<1>4. socket'[c].user = u
  BY <1>2 DEF SocketOwners, SocketTable
<1>5. \A v \in Users : v # u => OpenConnsOf(v)' \subseteq OpenConnsOf(v)
  BY <1>3, <1>4 DEF OpenConnsOf, OpenConns
<1> QED
  BY <1>1, <1>5 DEF Inside

\* A message lets in nobody who is not connected.
LEMMA MessageInside ==
    ASSUME SocketOwners, StoredInv, NEW c \in OpenConns,
           NEW cmd \in ClientCommandsOf[socket[c].user],
           NEW id \in CommandIds, NEW n, Message(c, EnvelopeOf(id, n, cmd))
    PROVE  Inside' \subseteq Inside
<1>. DEFINE e == EnvelopeOf(id, n, cmd)
<1>1. e.id = id /\ e.command = cmd
  BY DEF EnvelopeOf
<1>2. c \in Conns /\ socket[c].user \in Users /\ socket[c].status = "open"
  BY DEF OpenConns, SocketOwners
<1>3. Permitted(cmd)
  BY <1>2, ClientCommandsPermitted
<1>4. cmd.type = "join" => cmd.user = socket[c].user
  BY <1>2 DEF ClientCommandsOf, Authorized
<1>5. socket[c].user \in Inside
  BY <1>2 DEF Inside, OpenConnsOf, OpenConns
<1>. HIDE DEF e
<1>6. Message(c, e)
  BY DEF e
<1>7. socket' = socket
  BY <1>6 DEF Message, MessageAccepted, MessageNotStored, MessageAnswered, stored
<1>8. \A u \in Users : u \in Participants(room)' => u \in Inside
  <2>1. CASE MessageAccepted(c, e)
    <3>1. Accepts(room, cmd) /\ room' = Applied(room, cmd)
      BY <1>1, <2>1 DEF MessageAccepted, Verdict
    <3> QED
      BY <1>3, <1>4, <1>5, <3>1, RoomGrowth DEF Inside
  <2>2. CASE room' = room
    BY <2>2 DEF Participants, Inside
  <2> QED
    BY <1>6, <2>1, <2>2 DEF Message, MessageNotStored, MessageAnswered, stored
<1> QED
  BY <1>7, <1>8, NobodyEnters

\* The end of a connection lets nobody in.
LEMMA CloseInside ==
    ASSUME SocketOwners, StoredInv, NEW c \in Conns, Close(c)
    PROVE  Inside' \subseteq Inside
<1>1. /\ c \in OpenConns \cup ClosingConns
      /\ socket' = [socket EXCEPT ![c].status = "closed"]
  BY DEF Close, ConnectionEnds, LastConnectionEnds, LastConnectionHalfRemoved, Ends
<1>2. \A d \in Conns : /\ socket'[d].status = "open" => socket[d].status = "open"
                       /\ socket'[d].user = socket[d].user
  BY <1>1 DEF SocketOwners, SocketTable
<1>3. socket[c].user \in Users
  BY <1>1 DEF OpenConns, ClosingConns, SocketOwners
<1>4. \A u \in Users : u \in Participants(room)' => u \in Inside
  <2>1. CASE LastConnectionEnds(c)
    <3>1. room' = Applied(room, Leave(socket[c].user))
      BY <2>1 DEF LastConnectionEnds
    <3>2. Leave(socket[c].user).type # "join"
      BY DEF Leave
    <3> QED
      BY <1>3, <3>1, <3>2, RoomGrowth, ConnectionCommandsPermitted DEF Inside
  <2>2. CASE room' = room
    BY <2>2 DEF Participants, Inside
  <2> QED
    BY <2>1, <2>2 DEF Close, ConnectionEnds, LastConnectionHalfRemoved
<1> QED
  BY <1>2, <1>4, NobodyEnters

\* A moderation lets nobody in, and after an ejection reported as done its target
\* is outside.
LEMMA ModerateInside ==
    ASSUME SocketOwners, StoredInv, NEW cmd \in RemovalCommands,
           NEW id \in CommandIds, NEW n, Moderate(EnvelopeOf(id, n, cmd))
    PROVE  /\ Inside' \subseteq Inside
           /\ reply'.status = "ejected" /\ ~Remembered(recent, id) =>
                 cmd.type = "eject_participant" /\ cmd.target \notin Inside'
<1>. DEFINE e == EnvelopeOf(id, n, cmd)
<1>1. e.id = id /\ e.command = cmd
  BY DEF EnvelopeOf
<1>2. Permitted(cmd) /\ cmd.type \in {"demote_speaker", "eject_participant"}
                     /\ cmd.target \in Users
  BY RemovalCommandsPermitted DEF RemovalCommands
<1>. HIDE DEF e
<1>3. Moderate(e)
  BY DEF e
<1>4. socket' = socket \/ socket' = ClosedSocketsOf(cmd.target)
  BY <1>1, <1>3 DEF Moderate, EjectionRepeated, ModerationAccepted,
                    ModerationAnswered, SocketsAfterEjection
<1>5. \A d \in Conns : /\ socket'[d].status = "open" => socket[d].status = "open"
                       /\ socket'[d].user = socket[d].user
  <2>1. CASE socket' = socket
    BY <2>1
  <2>2. CASE socket' = ClosedSocketsOf(cmd.target)
    <3>1. \A d \in Conns : socket'[d].status = "open" => socket[d].status = "open"
      BY <2>2 DEF ClosedSocketsOf, OpenConnsOf, OpenConns, SocketOwners, SocketTable
    <3> QED
      BY <2>2, <3>1, ClosedSocketsOwners
  <2> QED
    BY <1>4, <2>1, <2>2
<1>6. ModerationAccepted(e) => /\ Accepts(room, cmd)
                               /\ room' = Applied(room, cmd)
  BY <1>1 DEF ModerationAccepted, Verdict
<1>7. ~ModerationAccepted(e) => room' = room
  BY <1>3 DEF Moderate, EjectionRepeated, ModerationAnswered, stored
<1>8. \A u \in Users : u \in Participants(room)' => u \in Inside
  <2>1. CASE ModerationAccepted(e)
    BY <1>2, <1>6, <2>1, RoomGrowth DEF Inside
  <2>2. CASE ~ModerationAccepted(e)
    BY <1>7, <2>2 DEF Participants, Inside
  <2> QED
    BY <2>1, <2>2
<1>9. ASSUME reply'.status = "ejected", ~Remembered(recent, id)
      PROVE  cmd.type = "eject_participant" /\ cmd.target \notin Inside'
  <2>1. ASSUME socket' = ClosedSocketsOf(cmd.target)
        PROVE  OpenConnsOf(cmd.target)' = {}
    <3>1. \A d \in Conns : ~(socket'[d].status = "open" /\ socket'[d].user = cmd.target)
      BY <2>1 DEF ClosedSocketsOf, OpenConnsOf, OpenConns, SocketOwners, SocketTable
    <3> QED
      BY <3>1 DEF OpenConnsOf, OpenConns
  <2>2. CASE EjectionRepeated(e)
    <3>1. /\ cmd.type = "eject_participant" /\ cmd.target \notin Participants(room)
          /\ socket' = ClosedSocketsOf(cmd.target) /\ room' = room
      BY <1>1, <1>9, <2>2 DEF EjectionRepeated, IsEjection, SocketsAfterEjection, stored
    <3> QED
      BY <2>1, <3>1 DEF Inside, Participants
  <2>3. CASE ModerationAccepted(e)
    <3>1. cmd.type = "eject_participant" /\ socket' = ClosedSocketsOf(cmd.target)
      BY <1>1, <1>9, <2>3 DEF ModerationAccepted, IsEjection, SocketsAfterEjection, Reply
    <3>2. Effect(room, cmd) = Assigned(room, cmd.target, Absent)
      BY <3>1 DEF Effect
    <3>3. /\ room \in Rooms /\ QueueOfViewers(room)
          /\ room.role \in [Users -> Roles \cup {Absent}]
      BY DEF StoredInv, RoomInv, Rooms
    <3>4. /\ Effect(room, cmd) \in Rooms
          /\ Effect(room, cmd).role = [room.role EXCEPT ![cmd.target] = Absent]
      <4>1. ASSUME NEW u \in Users
            PROVE  /\ Assigned(room, u, Absent) \in Rooms
                   /\ Assigned(room, u, Absent).role = [room.role EXCEPT ![u] = Absent]
        BY <3>3, AssignedRoom
      <4> QED
        BY <1>2, <3>2, <4>1, Zenon
    <3>5. room'.role[cmd.target] = Absent
      BY <1>2, <1>6, <2>3, <3>3, <3>4, AppliedRoom
    <3> QED
      BY <2>1, <3>1, <3>5 DEF Inside, Participants
  <2>4. CASE ModerationAnswered(e)
    BY <1>9, <2>4 DEF ModerationAnswered, Verdict, Reply
  <2> QED
    BY <1>3, <2>2, <2>3, <2>4 DEF Moderate
<1> QED
  BY <1>5, <1>8, <1>9, NobodyEnters


-----------------------------------------------------------------------------
(* RoomAccess: the invariant *)

\* A request that is under way is somebody's.
EntriesOK ==
    \A r \in Entries : \/ entry[r] = NoEntry
                       \/ /\ entry[r].place \in EntryCalls \cup {"admitted"}
                          /\ entry[r].user \in Viewers

DeparturesOK ==
    \A r \in Departures : \/ departure[r] = NoDeparture
                          \/ /\ departure[r].place \in {"reading", "marking"}
                             /\ departure[r].user \in Viewers

\* The sequence a removal expects is one the room had, and the object is asked
\* for an ejection only after the database has it.
RemovalsOK ==
    \A r \in Removals : removal[r].place # "idle" =>
       /\ removal[r].kind \in {"eject_participant", "demote_speaker"}
       /\ removal[r].target \in Viewers
       /\ removal[r].expected <= room.sequence
       /\ removal[r].place = "asking" /\ removal[r].kind = "eject_participant" =>
             member[removal[r].target] = "ejected"

\* Whoever is inside or on the way has a row.
EveryoneKnown ==
    \A u \in Viewers :
       \/ u \in Inside
       \/ \E id \in Ids : ticket[id] = u
       \/ \E r \in Entries : entry[r].place = "admitted" /\ entry[r].user = u
       => member[u] # "missing"

\* Whoever is out for good is ejected, and a new request of theirs has not even
\* read the row.
ShutOut ==
    \A u \in Viewers : outcome[u] = "final" =>
       /\ member[u] = "ejected"
       /\ u \notin Inside
       /\ \A id \in Ids : ticket[id] # u
       /\ \A r \in Entries : entry[r].user = u => entry[r].place = "reading"

AccessInv ==
    /\ WorkerInv
    /\ AccessTypeOK
    /\ EntriesOK
    /\ DeparturesOK
    /\ RemovalsOK
    /\ EveryoneKnown
    /\ ShutOut

-----------------------------------------------------------------------------
(* RoomAccess: the steps of the requests *)

Ticketing(id) == HostTicket(id) \/ TicketExpires(id)

Entering(r) ==
    \/ \E u \in Viewers : EnterBegins(r, u)
    \/ EnterReads(r) \/ EnterInserts(r) \/ EnterReactivates(r) \/ EnterFails(r)
    \/ \E id \in Ids : EnterIssues(r, id)

Leaving(r) ==
    \/ \E u \in Viewers : LeaveBegins(r, u)
    \/ LeaveReads(r) \/ LeaveMarks(r) \/ LeaveEnds(r)

Removing(r) ==
    \/ \E kind \in {"eject_participant", "demote_speaker"}, u \in Viewers :
          RemovalBegins(r, kind, u)
    \/ EjectionPersisted(r) \/ DemotionChecked(r)
    \/ RemovalAnswered(r) \/ RemovalUnanswered(r) \/ RemovalEnds(r)

Alone == (\E c \in OpenConns : Speaks(c)) \/ (\E c \in Conns : Disconnects(c))

\* Every step is one of a ticket, an upgrade, of a request or of the object on its
\* own.
LEMMA AccessSteps ==
    AccessNext <=> \/ \E id \in Ids : Ticketing(id)
                   \/ \E c \in Conns : Arrives(c)
                   \/ \E r \in Entries : Entering(r)
                   \/ \E r \in Departures : Leaving(r)
                   \/ \E r \in Removals : Removing(r)
                   \/ Alone
  BY DEF AccessNext, Ticketing, Entering, Leaving, Removing, Alone

\* What the steps leave alone.
LEMMA LeftAlone ==
    /\ \A id \in Ids : Ticketing(id) =>
          UNCHANGED <<workerVars, member, requests, outcome>>
    /\ \A c \in Conns : Arrives(c) => UNCHANGED <<member, ticket, requests, outcome>>
    /\ \A r \in Entries : Entering(r) =>
          UNCHANGED <<workerVars, departure, removal, outcome>>
    /\ \A r \in Departures : Leaving(r) =>
          UNCHANGED <<workerVars, ticket, entry, removal, outcome>>
    /\ \A r \in Removals : Removing(r) => UNCHANGED <<ticket, entry, departure>>
    /\ Alone => UNCHANGED <<member, ticket, requests, outcome>>
<1>1. /\ \A id \in Ids : Ticketing(id) =>
              UNCHANGED <<workerVars, member, requests, outcome>>
      /\ \A c \in Conns : Arrives(c) =>
              UNCHANGED <<member, ticket, requests, outcome>>
  BY Zenon DEF Ticketing, HostTicket, TicketExpires, Arrives
<1>2. \A r \in Entries : Entering(r) =>
          UNCHANGED <<workerVars, departure, removal, outcome>>
  BY Zenon DEF Entering, EnterBegins, EnterReads, EnterInserts, EnterReactivates,
         EnterFails, EnterIssues
<1>3. \A r \in Departures : Leaving(r) =>
          UNCHANGED <<workerVars, ticket, entry, removal, outcome>>
  BY Zenon DEF Leaving, LeaveBegins, LeaveReads, LeaveMarks, LeaveEnds
<1>4. \A r \in Removals : Removing(r) => UNCHANGED <<ticket, entry, departure>>
  BY Zenon DEF Removing, RemovalBegins, EjectionPersisted, DemotionChecked,
         RemovalAnswered, RemovalUnanswered, RemovalEnds
<1>5. Alone => UNCHANGED <<member, ticket, requests, outcome>>
  BY Zenon DEF Alone, Speaks, Disconnects
<1> QED
  BY <1>1, <1>2, <1>3, <1>4, <1>5

\* The object, asked by a removal, makes a step of its own: a sequence that is not
\* the current one is an old one, and all old ones are answered alike.
LEMMA AskedObject ==
    ASSUME AccessInv, NEW r \in Removals, removal[r].place # "idle", Asks(r)
    PROVE  Next
<1>1. PICK id \in CommandIds :
         Moderate(EnvelopeOf(id, removal[r].expected, RemovalCommand(r)))
  BY DEF Asks
<1>. DEFINE cmd == RemovalCommand(r)
            n   == removal[r].expected
            e   == EnvelopeOf(id, n, cmd)
            e0  == EnvelopeOf(id, 0, cmd)
<1>2. n \in Nat /\ n <= room.sequence /\ room.sequence \in Nat
  BY DEF AccessInv, AccessTypeOK, RemovalsOK, WorkerInv, StoredInv, RoomInv, Rooms
<1>3. cmd \in RemovalCommands
  BY HostAssumption DEF RemovalCommand, RemovalCommands, AccessInv, RemovalsOK, Viewers
<1>4. /\ e.id = id /\ e.command = cmd /\ e.expected = n
      /\ e0.id = id /\ e0.command = cmd /\ e0.expected = 0
  BY DEF EnvelopeOf
<1>. HIDE DEF cmd, n, e, e0
<1>5. Moderate(e)
  BY <1>1 DEF e, cmd, n
<1>6. CASE n = room.sequence
  BY <1>3, <1>5, <1>6 DEF Next, e
<1>7. CASE n # room.sequence
  <2>1. room.sequence # 0 /\ n # room.sequence
    BY <1>2, <1>7
  <2>2. Verdict(room, recent, e) = Verdict(room, recent, e0)
    BY <1>4, <2>1 DEF Verdict, IsCurrent
  <2>3. Verdict(room, recent, e) # "accepted"
    BY <1>4, <2>1 DEF Verdict, IsCurrent
  <2>4. MayModerate(e) = MayModerate(e0) /\ IsEjection(e) = IsEjection(e0)
    BY <1>4 DEF MayModerate, IsEjection
  <2>5. EjectionRepeated(e) => EjectionRepeated(e0)
    BY <1>4, <2>4 DEF EjectionRepeated
  <2>6. ModerationAnswered(e) => ModerationAnswered(e0)
    BY <1>4, <2>2, <2>4 DEF ModerationAnswered
  <2>7. Moderate(e0)
    BY <1>5, <2>3, <2>5, <2>6 DEF Moderate, ModerationAccepted
  <2> QED
    BY <1>3, <2>7 DEF Next, e0
<1> QED
  BY <1>6, <1>7

\* Whatever the requests do, the object makes a step of its own or none.
LEMMA ObjectSteps ==
    ASSUME AccessInv, [AccessNext]_accessVars
    PROVE  [Next]_workerVars
<1>1. ASSUME NEW c \in Conns, Arrives(c)
      PROVE  [Next]_workerVars
  <2>1. ticket[IdOf[c]] \in Users
    BY <1>1 DEF Arrives, AccessInv, AccessTypeOK, Ids
  <2> QED
    BY <1>1, <2>1 DEF Arrives, Next
<1>2. ASSUME NEW r \in Removals, Removing(r)
      PROVE  [Next]_workerVars
  <2>1. removal[r].place = "asking" /\ Asks(r) => Next
    BY AskedObject
  <2> QED
    BY <1>2, <2>1 DEF Removing, RemovalBegins, EjectionPersisted, DemotionChecked,
         RemovalAnswered, RemovalUnanswered, RemovalEnds
<1>3. ASSUME Alone
      PROVE  [Next]_workerVars
  <2>1. ASSUME NEW c \in OpenConns, Speaks(c)
        PROVE  Next
    <3>1. PICK cmd \in ClientCommandsOf[socket[c].user], id \in CommandIds :
             Message(c, EnvelopeOf(id, room.sequence, cmd))
      BY <2>1 DEF Speaks
    <3> QED
      BY <3>1 DEF Next
  <2>2. ASSUME NEW c \in Conns, Disconnects(c)
        PROVE  Next
    BY <2>2 DEF Disconnects, Next
  <2> QED
    BY <1>3, <2>1, <2>2 DEF Alone
<1>4. CASE UNCHANGED accessVars
  BY <1>4 DEF accessVars
<1> QED
  BY <1>1, <1>2, <1>3, <1>4, AccessSteps, LeftAlone

\* Only the users of tickets get inside.
LEMMA OnlyTicketsEnter ==
    ASSUME AccessInv, [AccessNext]_accessVars
    PROVE  Inside' \subseteq Inside \cup {ticket[id] : id \in Ids}
<1>0. SocketOwners /\ StoredInv
  BY DEF AccessInv, WorkerInv
<1>u. UNCHANGED workerVars => Inside' = Inside
  BY DEF workerVars, Inside, Participants, OpenConnsOf, OpenConns
<1>1. ASSUME NEW c \in Conns, Arrives(c)
      PROVE  Inside' \subseteq Inside \cup {ticket[id] : id \in Ids}
  <2>1. /\ ticket[IdOf[c]] \in Users /\ Connect(c, ticket[IdOf[c]])
        /\ IdOf[c] \in Ids
    BY <1>1 DEF Arrives, AccessInv, AccessTypeOK, Ids
  <2>2. Inside' \subseteq Inside \cup {ticket[IdOf[c]]}
    BY <1>0, <2>1, ConnectInside
  <2> QED
    BY <2>1, <2>2
<1>2. ASSUME NEW r \in Removals, Removing(r)
      PROVE  Inside' \subseteq Inside
  <2>1. ASSUME removal[r].place = "asking", Asks(r)
        PROVE  Inside' \subseteq Inside
    <3>1. PICK id \in CommandIds :
             Moderate(EnvelopeOf(id, removal[r].expected, RemovalCommand(r)))
      BY <2>1 DEF Asks
    <3>2. RemovalCommand(r) \in RemovalCommands
      BY <2>1, HostAssumption DEF RemovalCommand, RemovalCommands, AccessInv,
                                  RemovalsOK, Viewers
    <3> QED
      BY <1>0, <3>1, <3>2, ModerateInside
  <2> QED
    BY <1>2, <1>u, <2>1 DEF Removing, RemovalBegins, EjectionPersisted, DemotionChecked,
         RemovalAnswered, RemovalUnanswered, RemovalEnds
<1>3. ASSUME Alone
      PROVE  Inside' \subseteq Inside
  <2>1. ASSUME NEW c \in OpenConns, Speaks(c)
        PROVE  Inside' \subseteq Inside
    <3>1. PICK cmd \in ClientCommandsOf[socket[c].user], id \in CommandIds :
             Message(c, EnvelopeOf(id, room.sequence, cmd))
      BY <2>1 DEF Speaks
    <3> QED
      BY <1>0, <3>1, MessageInside
  <2>2. ASSUME NEW c \in Conns, Disconnects(c)
        PROVE  Inside' \subseteq Inside
    BY <1>0, <2>2, CloseInside DEF Disconnects
  <2> QED
    BY <1>3, <2>1, <2>2 DEF Alone
<1>4. CASE UNCHANGED accessVars
  BY <1>4, <1>u DEF accessVars
<1> QED
  BY <1>1, <1>2, <1>3, <1>4, <1>u, AccessSteps, LeftAlone

\* No row is ever taken away, and an ejected one stays ejected.
LEMMA MemberStep ==
    ASSUME AccessInv, [AccessNext]_accessVars
    PROVE  /\ member' \in [Viewers -> Standings]
           /\ \A u \in Viewers : /\ member[u] # "missing" => member'[u] # "missing"
                                 /\ member[u] = "ejected" => member'[u] = "ejected"
<1>0. member \in [Viewers -> Standings]
  BY DEF AccessInv, AccessTypeOK
<1>1. ASSUME NEW u \in Viewers,
             \/ member' = [member EXCEPT ![u] = Inserted(u)]
             \/ member' = [member EXCEPT ![u] = Reactivated(u)]
             \/ member' = [member EXCEPT ![u] = Left(u)]
             \/ member' = [member EXCEPT ![u] = "ejected"]
      PROVE  /\ member' \in [Viewers -> Standings]
             /\ \A v \in Viewers : /\ member[v] # "missing" => member'[v] # "missing"
                                   /\ member[v] = "ejected" => member'[v] = "ejected"
  BY <1>0, <1>1 DEF Inserted, Reactivated, Left, Standings
<1>2. ASSUME NEW r \in Entries, Entering(r)
      PROVE  UNCHANGED member \/ \E u \in Viewers :
                \/ member' = [member EXCEPT ![u] = Inserted(u)]
                \/ member' = [member EXCEPT ![u] = Reactivated(u)]
  <2>1. entry[r].place \in EntryCalls => entry[r].user \in Viewers
    BY DEF AccessInv, EntriesOK, NoEntry, EntryCalls
  <2> QED
    BY <1>2, <2>1 DEF Entering, EnterBegins, EnterReads, EnterInserts,
                      EnterReactivates, EnterFails, EnterIssues, EntryCalls
<1>3. ASSUME NEW r \in Departures, Leaving(r)
      PROVE  UNCHANGED member \/ \E u \in Viewers :
                member' = [member EXCEPT ![u] = Left(u)]
  <2>1. departure[r].place = "marking" => departure[r].user \in Viewers
    BY DEF AccessInv, DeparturesOK, NoDeparture
  <2> QED
    BY <1>3, <2>1 DEF Leaving, LeaveBegins, LeaveReads, LeaveMarks, LeaveEnds
<1>4. ASSUME NEW r \in Removals, Removing(r)
      PROVE  UNCHANGED member \/ \E u \in Viewers :
                member' = [member EXCEPT ![u] = "ejected"]
  <2>1. removal[r].place = "checking" => removal[r].target \in Viewers
    BY DEF AccessInv, RemovalsOK
  <2> QED
    BY <1>4, <2>1 DEF Removing, RemovalBegins, EjectionPersisted, EjectedNow,
         DemotionChecked, RemovalAnswered, RemovalUnanswered, RemovalEnds
<1>5. CASE UNCHANGED member
  BY <1>0, <1>5
<1>6. UNCHANGED accessVars => UNCHANGED member
  BY DEF accessVars
<1> QED
  BY <1>1, <1>2, <1>3, <1>4, <1>5, <1>6, AccessSteps, LeftAlone

\* How a ticket request moves: it is answered, begins, or makes its next call; it
\* is admitted with an active row only, and a read finds an ejected row out.
LEMMA EntryStep ==
    ASSUME AccessInv, [AccessNext]_accessVars, NEW r \in Entries
    PROVE  \/ entry'[r] = entry[r]
           \/ entry'[r] = NoEntry
           \/ /\ entry'[r].place = "reading"
              /\ entry'[r] \in [place : EntryCalls \cup {"idle", "admitted"},
                                user  : Viewers \cup {NoUser}]
              /\ entry'[r].user \in Viewers
           \/ /\ entry'[r].place \in EntryCalls \cup {"admitted"}
              /\ entry'[r] \in [place : EntryCalls \cup {"idle", "admitted"},
                                user  : Viewers \cup {NoUser}]
              /\ entry'[r].user = entry[r].user /\ entry[r].user \in Viewers
              /\ entry'[r].place = "admitted" => member'[entry[r].user] = "active"
              /\ entry[r].place = "reading" => member[entry[r].user] # "ejected"
<1>. DEFINE Entered == [place : EntryCalls \cup {"idle", "admitted"},
                        user  : Viewers \cup {NoUser}]
<1>0. entry \in [Entries -> Entered] /\ member \in [Viewers -> Standings]
  BY DEF AccessInv, AccessTypeOK
<1>1. entry[r].place \in EntryCalls => entry[r].user \in Viewers
  BY DEF AccessInv, EntriesOK, NoEntry, EntryCalls
<1>2. ASSUME NEW place \in EntryCalls \cup {"idle", "admitted"}, EntryAt(r, place)
      PROVE  IF place = "idle" THEN entry'[r] = NoEntry
             ELSE /\ entry'[r] \in Entered
                  /\ entry'[r].place = place /\ entry'[r].user = entry[r].user
  BY <1>0, <1>2 DEF EntryAt
<1>3. CASE UNCHANGED entry
  BY <1>3
<1>4. ASSUME NEW q \in Entries, Entering(q), q # r
      PROVE  entry'[r] = entry[r]
  BY <1>0, <1>4 DEF Entering, EnterBegins, EnterReads, EnterInserts,
                    EnterReactivates, EnterFails, EnterIssues, EntryAt
<1>5. ASSUME NEW u \in Viewers, EnterBegins(r, u)
      PROVE  entry'[r].place = "reading" /\ entry'[r].user = u /\ entry'[r] \in Entered
  BY <1>0, <1>5 DEF EnterBegins, EntryCalls
<1>6. ASSUME EnterReads(r)
      PROVE  \E place \in EntryCalls \cup {"idle", "admitted"} :
                /\ EntryAt(r, place)
                /\ entry[r].user \in Viewers
                /\ place = "admitted" => member'[entry[r].user] = "active"
                /\ entry[r].place = "reading" /\ place # "idle" =>
                      member[entry[r].user] # "ejected"
  <2>1. entry[r].user \in Viewers /\ member' = member
    BY <1>1, <1>6 DEF EnterReads, EntryCalls
  <2>2. member[entry[r].user] \in Standings
    BY <1>0, <2>1
  <2>3. CASE entry[r].place = "reading"
    <3>1. EntryAt(r, AfterRead(member[entry[r].user]))
      BY <1>6, <2>3 DEF EnterReads
    <3> QED
      BY <2>1, <2>2, <2>3, <3>1 DEF AfterRead, EntryCalls, Standings
  <2>4. CASE entry[r].place = "rereading"
    <3>1. EntryAt(r, AfterReread(member[entry[r].user]))
      BY <1>6, <2>4 DEF EnterReads
    <3> QED
      BY <2>1, <2>2, <2>4, <3>1 DEF AfterReread, AfterRead, EntryCalls, Standings
  <2>5. CASE entry[r].place = "confirming"
    <3>1. EntryAt(r, AfterConfirm(member[entry[r].user]))
      BY <1>6, <2>5 DEF EnterReads
    <3> QED
      BY <2>1, <2>2, <2>5, <3>1 DEF AfterConfirm, EntryCalls, Standings
  <2> QED
    BY <1>6, <2>3, <2>4, <2>5 DEF EnterReads
<1>7. ASSUME EnterInserts(r)
      PROVE  \E place \in EntryCalls \cup {"idle", "admitted"} :
                /\ EntryAt(r, place)
                /\ entry[r].user \in Viewers
                /\ place = "admitted" => member'[entry[r].user] = "active"
                /\ entry[r].place = "reading" /\ place # "idle" =>
                      member[entry[r].user] # "ejected"
  BY <1>0, <1>1, <1>7 DEF EnterInserts, EntryCalls, Inserted
<1>8. ASSUME EnterReactivates(r)
      PROVE  \E place \in EntryCalls \cup {"idle", "admitted"} :
                /\ EntryAt(r, place)
                /\ entry[r].user \in Viewers
                /\ place = "admitted" => member'[entry[r].user] = "active"
                /\ entry[r].place = "reading" /\ place # "idle" =>
                      member[entry[r].user] # "ejected"
  BY <1>0, <1>1, <1>8 DEF EnterReactivates, EntryCalls, Reactivated, AfterUpdate
<1>9. ASSUME EnterFails(r) \/ \E id \in Ids : EnterIssues(r, id)
      PROVE  entry'[r] = NoEntry
  BY <1>2, <1>9 DEF EnterFails, EnterIssues
<1>10. ASSUME Entering(r)
       PROVE  \/ entry'[r] = NoEntry
              \/ /\ entry'[r].place = "reading" /\ entry'[r] \in Entered
                 /\ entry'[r].user \in Viewers
              \/ /\ entry'[r].place \in EntryCalls \cup {"admitted"}
                 /\ entry'[r] \in Entered
                 /\ entry'[r].user = entry[r].user /\ entry[r].user \in Viewers
                 /\ entry'[r].place = "admitted" => member'[entry[r].user] = "active"
                 /\ entry[r].place = "reading" => member[entry[r].user] # "ejected"
  BY <1>2, <1>5, <1>6, <1>7, <1>8, <1>9, <1>10 DEF Entering
<1>11. UNCHANGED accessVars => UNCHANGED entry
  BY DEF accessVars, requests
<1>12. CASE \E q \in Entries : Entering(q)
  BY <1>4, <1>10, <1>12
<1> QED
  BY <1>3, <1>11, <1>12, AccessSteps, LeftAlone, Zenon DEF requests

\* A ticket is the host's, or that of an admitted request.
LEMMA TicketStep ==
    ASSUME AccessInv, [AccessNext]_accessVars
    PROVE  /\ ticket' \in [Ids -> Users \cup {NoUser}]
           /\ \A id \in Ids : \/ ticket'[id] \in {ticket[id], Host, NoUser}
                              \/ \E r \in Entries : /\ entry[r].place = "admitted"
                                                    /\ ticket'[id] = entry[r].user
<1>0. ticket \in [Ids -> Users \cup {NoUser}]
  BY DEF AccessInv, AccessTypeOK
<1>1. CASE UNCHANGED ticket
  BY <1>0, <1>1
<1>2. ASSUME NEW i \in Ids, Ticketing(i)
      PROVE  ticket' = [ticket EXCEPT ![i] = Host] \/ ticket' = [ticket EXCEPT ![i] = NoUser]
  BY <1>2 DEF Ticketing, HostTicket, TicketExpires
<1>3. ASSUME NEW i \in Ids, Ticketing(i)
      PROVE  /\ ticket' \in [Ids -> Users \cup {NoUser}]
             /\ \A id \in Ids : ticket'[id] \in {ticket[id], Host, NoUser}
  BY <1>0, <1>2, <1>3, HostAssumption
<1>4. ASSUME NEW r \in Entries, Entering(r)
      PROVE  /\ ticket' \in [Ids -> Users \cup {NoUser}]
             /\ \A id \in Ids : \/ ticket'[id] = ticket[id]
                                \/ /\ entry[r].place = "admitted"
                                   /\ ticket'[id] = entry[r].user
  <2>1. CASE UNCHANGED ticket
    BY <1>0, <2>1
  <2>2. ASSUME NEW i \in Ids, EnterIssues(r, i)
        PROVE  /\ ticket' = [ticket EXCEPT ![i] = entry[r].user]
               /\ entry[r].place = "admitted" /\ entry[r].user \in Users
    BY <2>2 DEF EnterIssues, AccessInv, EntriesOK, NoEntry, Viewers
  <2>3. CASE \E id \in Ids : EnterIssues(r, id)
    BY <1>0, <2>2, <2>3
  <2>4. UNCHANGED ticket \/ \E id \in Ids : EnterIssues(r, id)
    BY <1>4, Zenon DEF Entering, EnterBegins, EnterReads, EnterInserts,
                       EnterReactivates, EnterFails
  <2> QED
    BY <2>1, <2>3, <2>4
<1>5. CASE \E r \in Entries : Entering(r)
  BY <1>4, <1>5
<1>6. UNCHANGED accessVars => UNCHANGED ticket
  BY DEF accessVars
<1> QED
  BY <1>1, <1>3, <1>5, <1>6, AccessSteps, LeftAlone

\* What one removal does to its own record.
LEMMA RemovalMoves ==
    ASSUME AccessInv, NEW r \in Removals, Removing(r), room'.sequence \in Nat,
           room.sequence <= room'.sequence
    PROVE  LET q == removal'[r]
           IN  /\ q \in [place    : {"idle", "checking", "asking", "revoking"},
                         kind     : {"none", "eject_participant", "demote_speaker"},
                         target   : Viewers \cup {NoUser},
                         expected : Nat,
                         attempt  : {1, 2}]
               /\ \A p \in Removals : p # r => removal'[p] = removal[p]
               /\ DOMAIN removal' = Removals
               /\ removal' = [p \in Removals |-> removal'[p]]
               /\ q.place # "idle" =>
                    /\ q.kind \in {"eject_participant", "demote_speaker"}
                    /\ q.target \in Viewers
                    /\ q.expected <= room'.sequence
                    /\ q.place = "asking" /\ q.kind = "eject_participant" =>
                          member'[q.target] = "ejected"
<1>. DEFINE Asked == [place    : {"idle", "checking", "asking", "revoking"},
                      kind     : {"none", "eject_participant", "demote_speaker"},
                      target   : Viewers \cup {NoUser},
                      expected : Nat,
                      attempt  : {1, 2}]
            OK(q) == q.place # "idle" =>
                    /\ q.kind \in {"eject_participant", "demote_speaker"}
                    /\ q.target \in Viewers
                    /\ q.expected <= room'.sequence
                    /\ q.place = "asking" /\ q.kind = "eject_participant" =>
                          member'[q.target] = "ejected"
<1>0. /\ removal \in [Removals -> Asked] /\ removal[r] \in Asked
      /\ room.sequence \in Nat
      /\ member \in [Viewers -> Standings]
  BY DEF AccessInv, AccessTypeOK, WorkerInv, StoredInv, RoomInv, Rooms
<1>1. NoRemoval \in Asked /\ OK(NoRemoval)
  BY DEF NoRemoval
<1>2. ASSUME NEW q \in Asked, removal' = [removal EXCEPT ![r] = q], OK(q)
      PROVE  /\ removal'[r] \in Asked /\ OK(removal'[r])
             /\ \A p \in Removals : p # r => removal'[p] = removal[p]
             /\ DOMAIN removal' = Removals
             /\ removal' = [p \in Removals |-> removal'[p]]
  BY <1>0, <1>2
<1>3. SUFFICES \E q \in Asked : removal' = [removal EXCEPT ![r] = q] /\ OK(q)
  BY <1>2
<1>4. /\ removal[r].place # "idle" =>
           /\ removal[r].kind \in {"eject_participant", "demote_speaker"}
           /\ removal[r].target \in Viewers
           /\ removal[r].expected \in Nat /\ removal[r].expected <= room.sequence
      /\ removal[r].place = "asking" /\ removal[r].kind = "eject_participant" =>
           member[removal[r].target] = "ejected"
  BY <1>0 DEF AccessInv, RemovalsOK
<1>5. ASSUME NEW place \in {"idle", "asking", "revoking"}, RemovalAt(r, place),
             removal[r].place # "idle",
             place = "asking" /\ removal[r].kind = "eject_participant" =>
                member'[removal[r].target] = "ejected"
      PROVE  \E q \in Asked : removal' = [removal EXCEPT ![r] = q] /\ OK(q)
  <2>1. CASE place = "idle"
    BY <1>1, <1>5, <2>1 DEF RemovalAt
  <2>2. CASE place # "idle"
    <3>. DEFINE q == [removal[r] EXCEPT !.place = place]
    <3>1. removal' = [removal EXCEPT ![r] = q]
      BY <1>5, <2>2 DEF RemovalAt
    <3>2. q \in Asked
      BY <1>0
    <3>3. /\ q.place = place /\ q.kind = removal[r].kind
          /\ q.target = removal[r].target /\ q.expected = removal[r].expected
      BY <1>0
    <3>4. removal[r].expected <= room'.sequence
      BY <1>0, <1>4, <1>5
    <3>. HIDE DEF q
    <3>5. OK(q)
      BY <1>4, <1>5, <3>3, <3>4
    <3> QED
      BY <3>1, <3>2, <3>5
  <2> QED
    BY <2>1, <2>2
<1>6. ASSUME NEW kind \in {"eject_participant", "demote_speaker"}, NEW u \in Viewers,
             RemovalBegins(r, kind, u)
      PROVE  \E q \in Asked : removal' = [removal EXCEPT ![r] = q] /\ OK(q)
  <2>. DEFINE q == [NoRemoval EXCEPT !.place = "checking", !.kind = kind,
                                     !.target = u, !.expected = room.sequence]
  <2>1. removal' = [removal EXCEPT ![r] = q]
    BY <1>6 DEF RemovalBegins
  <2>2. q \in Asked
    BY <1>0 DEF NoRemoval
  <2>3. q.place = "checking" /\ q.kind = kind /\ q.target = u /\ q.expected = room.sequence
    BY DEF NoRemoval
  <2>. HIDE DEF q
  <2> QED
    BY <2>1, <2>2, <2>3
<1>7. ASSUME EjectionPersisted(r)
      PROVE  \E q \in Asked : removal' = [removal EXCEPT ![r] = q] /\ OK(q)
  <2>1. removal[r].place = "checking" /\ member' = [member EXCEPT ![removal[r].target] = "ejected"]
    BY <1>7 DEF EjectionPersisted, EjectedNow
  <2>2. member'[removal[r].target] = "ejected"
    BY <1>0, <1>4, <2>1
  <2> QED
    BY <1>5, <1>7, <2>1, <2>2 DEF EjectionPersisted
<1>8. ASSUME DemotionChecked(r)
      PROVE  \E q \in Asked : removal' = [removal EXCEPT ![r] = q] /\ OK(q)
  BY <1>5, <1>8 DEF DemotionChecked
<1>9. ASSUME RemovalAnswered(r)
      PROVE  \E q \in Asked : removal' = [removal EXCEPT ![r] = q] /\ OK(q)
  <2>1. CASE Repeats(r, reply'.status)
    <3>. DEFINE q == [removal[r] EXCEPT !.attempt = 2, !.expected = room.sequence]
    <3>0. removal[r].attempt + 1 = 2
      BY <2>1 DEF Repeats
    <3>1. removal' = [removal EXCEPT ![r] = q]
      BY <1>0, <1>9, <2>1, <3>0 DEF RemovalAnswered
    <3>2. q \in Asked
      BY <1>0
    <3>3. /\ q.place = removal[r].place /\ q.kind = removal[r].kind
          /\ q.target = removal[r].target /\ q.expected = room.sequence
      BY <1>0
    <3>4. removal[r].place = "asking" /\ member' = member
      BY <1>9 DEF RemovalAnswered
    <3>. HIDE DEF q
    <3> QED
      BY <1>4, <3>1, <3>2, <3>3, <3>4
  <2>2. CASE ~Repeats(r, reply'.status)
    <3>1. /\ RemovalAt(r, AfterAnswer(r, reply'.status))
          /\ removal[r].place = "asking"
      BY <1>9, <2>2, Zenon DEF RemovalAnswered
    <3>2. AfterAnswer(r, reply'.status) \in {"revoking", "idle"}
      BY DEF AfterAnswer
    <3> QED
      BY <1>5, <3>1, <3>2
  <2> QED
    BY <2>1, <2>2
<1>10. ASSUME RemovalUnanswered(r)
       PROVE  \E q \in Asked : removal' = [removal EXCEPT ![r] = q] /\ OK(q)
  <2>1. AfterAnswer(r, "lost") \in {"revoking", "idle"}
    BY DEF AfterAnswer
  <2> QED
    BY <1>5, <1>10, <2>1 DEF RemovalUnanswered
<1>11. ASSUME RemovalEnds(r)
       PROVE  \E q \in Asked : removal' = [removal EXCEPT ![r] = q] /\ OK(q)
  BY <1>5, <1>11 DEF RemovalEnds
<1> QED
  BY <1>6, <1>7, <1>8, <1>9, <1>10, <1>11 DEF Removing

\* The removals stay well-formed and what they rely on stays true.
LEMMA RemovalStep ==
    ASSUME AccessInv, [AccessNext]_accessVars
    PROVE  /\ RemovalsOK'
           /\ removal' \in [Removals ->
                [place    : {"idle", "checking", "asking", "revoking"},
                 kind     : {"none", "eject_participant", "demote_speaker"},
                 target   : Viewers \cup {NoUser},
                 expected : Nat,
                 attempt  : {1, 2}]]
<1>. DEFINE Asked == [place    : {"idle", "checking", "asking", "revoking"},
                      kind     : {"none", "eject_participant", "demote_speaker"},
                      target   : Viewers \cup {NoUser},
                      expected : Nat,
                      attempt  : {1, 2}]
            OK(p) == removal'[p].place # "idle" =>
               /\ removal'[p].kind \in {"eject_participant", "demote_speaker"}
               /\ removal'[p].target \in Viewers
               /\ removal'[p].expected <= room'.sequence
               /\ removal'[p].place = "asking"
                  /\ removal'[p].kind = "eject_participant" =>
                     member'[removal'[p].target] = "ejected"
<1>0. removal \in [Removals -> Asked] /\ member \in [Viewers -> Standings]
  BY DEF AccessInv, AccessTypeOK
<1>1. /\ room.sequence \in Nat /\ room'.sequence \in Nat
      /\ room.sequence <= room'.sequence
  BY ObjectSteps, SequenceGrows DEF AccessInv, WorkerInv
<1>2. ASSUME NEW p \in Removals, removal'[p] = removal[p]
      PROVE  OK(p)
  <2>1. removal[p].place # "idle" =>
           /\ removal[p].kind \in {"eject_participant", "demote_speaker"}
           /\ removal[p].target \in Viewers
           /\ removal[p].expected \in Nat /\ removal[p].expected <= room.sequence
           /\ removal[p].place = "asking" /\ removal[p].kind = "eject_participant" =>
                 member[removal[p].target] = "ejected"
    BY <1>0 DEF AccessInv, RemovalsOK
  <2> QED
    BY <1>1, <1>2, <2>1, MemberStep
<1>3. CASE UNCHANGED removal
  <2>1. \A p \in Removals : OK(p)
    BY <1>2, <1>3
  <2> QED
    BY <1>0, <1>3, <2>1 DEF RemovalsOK
<1>4. ASSUME NEW r \in Removals, Removing(r)
      PROVE  RemovalsOK' /\ removal' \in [Removals -> Asked]
  <2>1. /\ removal'[r] \in Asked /\ OK(r)
        /\ \A p \in Removals : p # r => removal'[p] = removal[p]
        /\ removal' = [p \in Removals |-> removal'[p]]
    BY <1>1, <1>4, RemovalMoves
  <2>2. \A p \in Removals : OK(p)
    BY <1>2, <2>1
  <2>3. \A p \in Removals : removal'[p] \in Asked
    BY <1>0, <2>1
  <2> QED
    BY <2>1, <2>2, <2>3 DEF RemovalsOK
<1>5. UNCHANGED accessVars => UNCHANGED removal
  BY DEF accessVars, requests
<1> QED
  BY <1>3, <1>4, <1>5, AccessSteps, LeftAlone, Zenon DEF requests

\* The departures stay well-formed.
LEMMA DepartureStep ==
    ASSUME AccessInv, [AccessNext]_accessVars
    PROVE  /\ DeparturesOK'
           /\ departure' \in [Departures -> [place : {"idle", "reading", "marking"},
                                             user  : Viewers \cup {NoUser}]]
<1>. DEFINE Gone == [place : {"idle", "reading", "marking"}, user : Viewers \cup {NoUser}]
<1>0. departure \in [Departures -> Gone] /\ DeparturesOK
  BY DEF AccessInv, AccessTypeOK
<1>1. CASE UNCHANGED departure
  BY <1>0, <1>1 DEF DeparturesOK
<1>2. ASSUME NEW r \in Departures, NEW q \in Gone,
             departure' = [departure EXCEPT ![r] = q],
             q = NoDeparture \/ (q.place \in {"reading", "marking"} /\ q.user \in Viewers)
      PROVE  DeparturesOK' /\ departure' \in [Departures -> Gone]
  BY <1>0, <1>2 DEF DeparturesOK
<1>3. NoDeparture \in Gone
  BY DEF NoDeparture
<1>4. ASSUME NEW r \in Departures, Leaving(r)
      PROVE  DeparturesOK' /\ departure' \in [Departures -> Gone]
  <2>1. ASSUME NEW u \in Viewers, LeaveBegins(r, u)
        PROVE  DeparturesOK' /\ departure' \in [Departures -> Gone]
    BY <1>2, <2>1 DEF LeaveBegins
  <2>2. ASSUME DepartureAt(r, "idle")
        PROVE  DeparturesOK' /\ departure' \in [Departures -> Gone]
    BY <1>2, <1>3, <2>2 DEF DepartureAt
  <2>3. ASSUME DepartureAt(r, "marking"), departure[r].place = "reading"
        PROVE  DeparturesOK' /\ departure' \in [Departures -> Gone]
    <3>. DEFINE q == [departure[r] EXCEPT !.place = "marking"]
    <3>1. departure' = [departure EXCEPT ![r] = q]
      BY <2>3 DEF DepartureAt
    <3>2. departure[r].user \in Viewers
      BY <1>0, <2>3 DEF DeparturesOK, NoDeparture
    <3>3. q \in Gone /\ q.place = "marking" /\ q.user = departure[r].user
      BY <1>0
    <3>. HIDE DEF q
    <3> QED
      BY <1>2, <3>1, <3>2, <3>3
  <2> QED
    BY <1>4, <2>1, <2>2, <2>3 DEF Leaving, LeaveReads, LeaveMarks, LeaveEnds
<1>5. UNCHANGED accessVars => UNCHANGED departure
  BY DEF accessVars, requests
<1> QED
  BY <1>1, <1>4, <1>5, AccessSteps, LeftAlone, Zenon DEF requests

\* An ejection is recorded as final only when the database has it, its target is
\* outside and no ticket or request of theirs is left.
LEMMA OutcomeStep ==
    ASSUME AccessInv, [AccessNext]_accessVars
    PROVE  /\ outcome' \in [Viewers -> {"none", "confirmed", "final"}]
           /\ \A u \in Viewers : outcome'[u] = "final" =>
                 \/ outcome[u] = "final"
                 \/ /\ member[u] = "ejected" /\ u \notin Inside'
                    /\ UNCHANGED <<member, ticket, entry>>
                    /\ ~MayStillEnter(u)
<1>0. outcome \in [Viewers -> {"none", "confirmed", "final"}]
  BY DEF AccessInv, AccessTypeOK
<1>1. CASE UNCHANGED outcome
  BY <1>0, <1>1
<1>2. ASSUME NEW r \in Removals, RemovalAnswered(r)
      PROVE  /\ outcome' \in [Viewers -> {"none", "confirmed", "final"}]
             /\ \A u \in Viewers : outcome'[u] = "final" =>
                   \/ outcome[u] = "final"
                   \/ /\ member[u] = "ejected" /\ u \notin Inside'
                      /\ UNCHANGED <<member, ticket, entry>>
                      /\ ~MayStillEnter(u)
  <2>. DEFINE v == removal[r].target
  <2>1. /\ removal[r].place = "asking" /\ v \in Viewers
        /\ UNCHANGED <<member, ticket, entry>>
    BY <1>2 DEF RemovalAnswered, AccessInv, RemovalsOK
  <2>2. CASE reply'.status # "ejected"
    BY <1>0, <1>2, <2>2 DEF RemovalAnswered
  <2>3. CASE reply'.status = "ejected"
    <3>1. PICK id \in CommandIds :
             /\ ~Remembered(recent, id)
             /\ Moderate(EnvelopeOf(id, removal[r].expected, RemovalCommand(r)))
      BY <1>2 DEF RemovalAnswered, Asks
    <3>2. /\ RemovalCommand(r) \in RemovalCommands
          /\ RemovalCommand(r).type = removal[r].kind
          /\ RemovalCommand(r).target = v
      BY <2>1, HostAssumption DEF RemovalCommand, RemovalCommands, AccessInv,
                                  RemovalsOK, Viewers
    <3>3. removal[r].kind = "eject_participant" /\ v \notin Inside'
      BY <2>3, <3>1, <3>2, ModerateInside DEF AccessInv, WorkerInv
    <3>4. member[v] = "ejected"
      BY <2>1, <3>3 DEF AccessInv, RemovalsOK
    <3>5. outcome' = [outcome EXCEPT ![v] = IF MayStillEnter(v) THEN Stronger(@)
                                            ELSE "final"]
      BY <1>2, <2>3 DEF RemovalAnswered
    <3>6. /\ Stronger(outcome[v]) \in {"confirmed", "final"}
          /\ Stronger(outcome[v]) = "final" => outcome[v] = "final"
      BY DEF Stronger
    <3>. HIDE DEF v
    <3>7. /\ outcome' \in [Viewers -> {"none", "confirmed", "final"}]
          /\ \A u \in Viewers : u # v => outcome'[u] = outcome[u]
          /\ outcome'[v] = "final" => outcome[v] = "final" \/ ~MayStillEnter(v)
      BY <1>0, <2>1, <3>5, <3>6
    <3> QED
      BY <2>1, <3>3, <3>4, <3>7
  <2> QED
    BY <2>2, <2>3
<1>3. ASSUME NEW r \in Removals, Removing(r)
      PROVE  UNCHANGED outcome \/ RemovalAnswered(r)
  BY <1>3 DEF Removing, RemovalBegins, EjectionPersisted, DemotionChecked,
              RemovalUnanswered, RemovalEnds
<1>4. UNCHANGED accessVars => UNCHANGED outcome
  BY DEF accessVars
<1> QED
  BY <1>1, <1>2, <1>3, <1>4, AccessSteps, LeftAlone

-----------------------------------------------------------------------------
(* RoomAccess: the theorems *)

\* A fresh room, without rows, tickets or requests.
LEMMA InitAccess == AccessInit => AccessInv
<1>. SUFFICES ASSUME AccessInit PROVE AccessInv
  OBVIOUS
<1>1. WorkerInv
  BY InitOwners, InitStored, InitRegistry DEF AccessInit, WorkerInv
<1>2. AccessTypeOK /\ EntriesOK /\ DeparturesOK /\ RemovalsOK
  BY DEF AccessInit, AccessTypeOK, EntriesOK, DeparturesOK, RemovalsOK, NoEntry,
         NoDeparture, NoRemoval, Standings
<1>3. Inside = {}
  BY DEF AccessInit, Init, InitialRoom, Unused, Inside, Participants, OpenConnsOf,
         OpenConns
<1>4. EveryoneKnown
  BY <1>3, WorkerAssumption DEF AccessInit, NoEntry, EveryoneKnown, Viewers
<1>5. ShutOut
  BY DEF AccessInit, ShutOut
<1> QED
  BY <1>1, <1>2, <1>4, <1>5 DEF AccessInv

\* Every step keeps the invariant.
LEMMA NextAccess == AccessInv /\ [AccessNext]_accessVars => AccessInv'
<1>. SUFFICES ASSUME AccessInv, [AccessNext]_accessVars PROVE AccessInv'
  OBVIOUS
<1>1. WorkerInv'
  BY ObjectSteps, NextOwners, NextStored, NextRegistry DEF AccessInv, WorkerInv
<1>t. /\ ticket \in [Ids -> Users \cup {NoUser}]
      /\ entry \in [Entries -> [place : EntryCalls \cup {"idle", "admitted"},
                                user  : Viewers \cup {NoUser}]]
  BY DEF AccessInv, AccessTypeOK
<1>v. NoUser \notin Viewers /\ Host \notin Viewers /\ Viewers \subseteq Users
  BY WorkerAssumption DEF Viewers
<1>e. /\ NoEntry.place = "idle" /\ NoEntry.user = NoUser
      /\ NoEntry \in [place : EntryCalls \cup {"idle", "admitted"},
                      user  : Viewers \cup {NoUser}]
  BY DEF NoEntry
<1>2. /\ entry' \in [Entries -> [place : EntryCalls \cup {"idle", "admitted"},
                                 user  : Viewers \cup {NoUser}]]
      /\ EntriesOK'
  <2>1. entry' = [r \in Entries |-> entry'[r]]
    <3>1. ASSUME NEW r \in Entries, Entering(r)
          PROVE  \E x : entry' = [entry EXCEPT ![r] = x]
      BY <3>1 DEF Entering, EnterBegins, EnterReads, EnterInserts,
                  EnterReactivates, EnterFails, EnterIssues, EntryAt
    <3>2. UNCHANGED entry \/ \E r \in Entries : Entering(r)
      BY AccessSteps, LeftAlone, Zenon DEF accessVars, requests
    <3> QED
      BY <1>t, <3>1, <3>2
  <2>2. ASSUME NEW r \in Entries
        PROVE  /\ entry'[r] \in [place : EntryCalls \cup {"idle", "admitted"},
                                 user  : Viewers \cup {NoUser}]
               /\ \/ entry'[r] = NoEntry
                  \/ /\ entry'[r].place \in EntryCalls \cup {"admitted"}
                     /\ entry'[r].user \in Viewers
    <3>1. "reading" \in EntryCalls
      BY DEF EntryCalls
    <3>2. \/ entry[r] = NoEntry
          \/ entry[r].place \in EntryCalls \cup {"admitted"} /\ entry[r].user \in Viewers
      BY DEF AccessInv, EntriesOK
    <3> QED
      BY <1>t, <1>e, <3>1, <3>2, EntryStep
  <2> QED
    BY <2>1, <2>2 DEF EntriesOK
<1>3. AccessTypeOK'
  BY <1>2, MemberStep, TicketStep, DepartureStep, RemovalStep, OutcomeStep
     DEF AccessTypeOK
<1>4. EveryoneKnown'
  <2>. SUFFICES ASSUME NEW u \in Viewers,
                       \/ u \in Inside'
                       \/ \E id \in Ids : ticket'[id] = u
                       \/ \E r \in Entries : entry'[r].place = "admitted"
                                             /\ entry'[r].user = u
                PROVE  member'[u] # "missing"
    BY DEF EveryoneKnown
  <2>0. /\ \/ u \in Inside
           \/ \E id \in Ids : ticket[id] = u
           \/ \E r \in Entries : entry[r].place = "admitted" /\ entry[r].user = u
           => member[u] # "missing"
        /\ member[u] # "missing" => member'[u] # "missing"
    BY MemberStep DEF AccessInv, EveryoneKnown
  <2>1. CASE u \in Inside'
    <3>1. u \in Inside \/ \E id \in Ids : ticket[id] = u
      BY <2>1, OnlyTicketsEnter
    <3> QED
      BY <2>0, <3>1
  <2>2. CASE \E id \in Ids : ticket'[id] = u
    <3>1. \/ \E id \in Ids : ticket[id] = u
          \/ \E r \in Entries : entry[r].place = "admitted" /\ entry[r].user = u
      BY <1>v, <2>2, TicketStep
    <3> QED
      BY <2>0, <3>1
  <2>3. ASSUME NEW r \in Entries, entry'[r].place = "admitted", entry'[r].user = u
        PROVE  member'[u] # "missing"
    <3>1. entry'[r] # NoEntry
      BY <1>e, <2>3
    <3>2. CASE entry'[r] = entry[r]
      BY <2>0, <2>3, <3>2
    <3>3. CASE entry'[r] # entry[r]
      <4>1. member'[u] = "active"
        BY <2>3, <3>1, <3>3, EntryStep
      <4> QED
        BY <4>1
    <3> QED
      BY <3>2, <3>3
  <2> QED
    BY <2>1, <2>2, <2>3
<1>5. ShutOut'
  <2>. SUFFICES ASSUME NEW u \in Viewers, outcome'[u] = "final"
                PROVE  /\ member'[u] = "ejected"
                       /\ u \notin Inside'
                       /\ \A id \in Ids : ticket'[id] # u
                       /\ \A r \in Entries : entry'[r].user = u => entry'[r].place = "reading"
    BY DEF ShutOut
  <2>1. CASE outcome[u] = "final"
    <3>1. /\ member[u] = "ejected" /\ u \notin Inside
          /\ \A id \in Ids : ticket[id] # u
          /\ \A r \in Entries : entry[r].user = u => entry[r].place = "reading"
      BY <2>1 DEF AccessInv, ShutOut
    <3>2. member'[u] = "ejected"
      BY <3>1, MemberStep
    <3>3. u \notin Inside'
      BY <3>1, OnlyTicketsEnter
    <3>4. \A id \in Ids : ticket'[id] # u
      BY <1>v, <3>1, TicketStep
    <3>5. ASSUME NEW r \in Entries, entry'[r].user = u
          PROVE  entry'[r].place = "reading"
      <4>1. entry'[r] # NoEntry
        BY <1>e, <1>v, <3>5
      <4> QED
        BY <3>1, <3>5, <4>1, EntryStep
    <3> QED
      BY <3>2, <3>3, <3>4, <3>5
  <2>2. CASE outcome[u] # "final"
    <3>1. /\ member[u] = "ejected" /\ u \notin Inside'
          /\ UNCHANGED <<member, ticket, entry>>
          /\ ~MayStillEnter(u)
      BY <2>2, OutcomeStep
    <3> QED
      BY <3>1 DEF MayStillEnter
  <2> QED
    BY <2>1, <2>2
<1> QED
  BY <1>1, <1>2, <1>3, <1>4, <1>5, DepartureStep, RemovalStep DEF AccessInv

\* The inductive invariant holds in every reachable state.
THEOREM AccessInvariant == AccessSpec => []AccessInv
  BY InitAccess, NextAccess, PTL DEF AccessSpec

\* Rows, tickets and requests have their shape.
THEOREM AccessTypes == AccessSpec => []AccessTypeOK
<1>1. AccessInv => AccessTypeOK
  BY DEF AccessInv
<1> QED
  BY <1>1, AccessInvariant, PTL

\* The object in the composition is the object of RoomBrainWorker: whatever
\* tickets, rows and removals do to it, it does nothing that module does not say,
\* so that all that is proved of it there holds here.
THEOREM AccessImplementsWorker == AccessSpec => Spec
<1>1. AccessInit => Init
  BY DEF AccessInit
<1>2. AccessInv /\ [AccessNext]_accessVars => [Next]_workerVars
  BY ObjectSteps
<1> QED
  BY <1>1, <1>2, AccessInvariant, PTL DEF AccessSpec, Spec

\* An ejected row stays ejected, whatever first joins, returns, departures and
\* ejections cross between the reads and the writes of roomMembership.ts.
THEOREM EjectionIsPersistent == AccessSpec => EjectedRowsStay
<1>1. AccessInv /\ [AccessNext]_accessVars =>
        [\A u \in Viewers : member[u] = "ejected" => member'[u] = "ejected"]_accessVars
  BY MemberStep
<1> QED
  BY <1>1, AccessInvariant, PTL DEF AccessSpec, EjectedRowsStay

\* Whoever ensureActiveMembership admits is an active member at that moment.
THEOREM AdmissionTheorem == AccessSpec => AdmissionIsCurrent
<1>1. AccessInv /\ [AccessNext]_accessVars =>
        [\A r \in Entries :
            entry[r].place # "admitted" /\ entry'[r].place = "admitted" =>
               member'[entry[r].user] = "active"]_accessVars
  <2>. SUFFICES ASSUME AccessInv, [AccessNext]_accessVars, NEW r \in Entries,
                       entry[r].place # "admitted", entry'[r].place = "admitted"
                PROVE  member'[entry[r].user] = "active"
    OBVIOUS
  <2>1. NoEntry.place = "idle"
    BY DEF NoEntry
  <2> QED
    BY <2>1, EntryStep
<1> QED
  BY <1>1, AccessInvariant, PTL DEF AccessSpec, AdmissionIsCurrent

\* Everyone in the room, connected to it or about to be has a row that an ejection
\* can mark.
THEOREM EjectableTheorem == AccessSpec => []EveryoneIsEjectable
<1>1. AccessInv => EveryoneIsEjectable
  BY DEF AccessInv, EveryoneKnown, EveryoneIsEjectable, Inside, Viewers
<1> QED
  BY <1>1, AccessInvariant, PTL

\* Once the object has confirmed an ejection and no ticket from before it is valid
\* any more, used or not, and no request for one is under way, the user is out for
\* good.
THEOREM ShutOutTheorem == AccessSpec => []ShutOutForGood
<1>1. AccessInv => ShutOutForGood
  BY DEF AccessInv, ShutOut, ShutOutForGood, Inside, Viewers
<1> QED
  BY <1>1, AccessInvariant, PTL

-----------------------------------------------------------------------------
(* RoomSync: what the object sends *)

Snapshots == [type : {"snapshot", "resync_required"}, room : Rooms]

Changes == [type : {"state_changed"}, sequence : Nat, command : Commands]

\* The messages that leave a replica as it is.
QuietMessages == [type : {"ack", "duplicate"}, sequence : Nat]
                   \cup [type : {"error"}]

Messages == Snapshots \cup Changes \cup QuietMessages

\* The handler of this step stores the room after command cmd.
Commits(cmd) ==
    /\ Permitted(cmd)
    /\ Accepts(room, cmd)
    /\ room.sequence < MaxSequence
    /\ room' = Applied(room, cmd)

\* A handler that stores nothing sends connection d at most one message, which
\* is none or the stored room.
Answers(d) ==
    \/ sent'[d] = << >>
    \/ \E m \in QuietMessages : sent'[d] = <<m>>
    \/ sent'[d] = <<Snapshot(room)>>
    \/ sent'[d] = <<ResyncRequired(room)>>

\* A handler that stores the change cmd greets a new connection or sends the
\* others at most an ack and the change.
Announces(d, cmd) ==
    \/ sent'[d] = << >>
    \/ \E m \in QuietMessages : sent'[d] = <<m>>
    \/ sent'[d] = <<Snapshot(room')>>
    \/ sent'[d] = <<StateChanged(room', cmd)>>
    \/ \E m \in QuietMessages : sent'[d] = <<m>> \o <<StateChanged(room', cmd)>>

\* An accepted command makes a room one sequence further.
LEMMA CommitsRoom ==
    ASSUME RoomInv(room), NEW cmd, Commits(cmd)
    PROVE  /\ RoomInv(room') /\ room' \in Rooms /\ room' # room
           /\ room'.sequence = room.sequence + 1
           /\ cmd \in Commands
           /\ StateChanged(room', cmd) \in Changes
<1>1. RoomInv(Applied(room, cmd)) /\ Applied(room, cmd) \in Rooms
  BY ChangeKeepsRoomInv DEF Commits, RoomInv
<1>2. Applied(room, cmd).sequence = room.sequence + 1 /\ room.sequence \in Nat
  BY EffectKeepsRoomInv, AppliedRoom DEF Commits, RoomInv, Rooms
<1>3. cmd \in Commands
  BY DEF Commits, Permitted
<1>4. RoomInv(room') /\ room' \in Rooms /\ room'.sequence = room.sequence + 1
  BY <1>1, <1>2, Zenon DEF Commits
<1> QED
  BY <1>2, <1>3, <1>4 DEF StateChanged, Changes

\* The acknowledged sequences are natural numbers.
LEMMA Quiet ==
    ASSUME NEW r \in Rooms
    PROVE  Ack(r) \in QuietMessages /\ Duplicate(r) \in QuietMessages
             /\ ErrorMessage \in QuietMessages
  BY DEF QuietMessages, Ack, Duplicate, ErrorMessage, Rooms

\* Every handler either stores one permitted change and announces it, or stores
\* nothing and answers.
LEMMA ObjectSends ==
    ASSUME SocketOwners, RoomInv(room), Next
    PROVE  \/ room' = room /\ \A d \in Conns : Answers(d)
           \/ \E cmd : Commits(cmd) /\ \A d \in Conns : Announces(d, cmd)
<1>0. room \in Rooms
  BY DEF RoomInv
<1>s. ASSUME room' = room, sent' = Silence
      PROVE  room' = room /\ \A d \in Conns : Answers(d)
  BY <1>s DEF Silence, Answers
<1>o. ASSUME NEW c \in Conns, room' = room, NEW m, sent' = [Silence EXCEPT ![c] = <<m>>],
             m \in QuietMessages \/ m \in {Snapshot(room), ResyncRequired(room)}
      PROVE  room' = room /\ \A d \in Conns : Answers(d)
  <2>. SUFFICES ASSUME NEW d \in Conns PROVE Answers(d)
    BY <1>o
  <2>1. sent'[d] = <<m>> \/ sent'[d] = << >>
    BY <1>o DEF Silence
  <2> QED
    BY <1>o, <2>1 DEF Answers
<1>1. ASSUME NEW c \in Conns, NEW u \in Users, Connect(c, u)
      PROVE  \/ room' = room /\ \A d \in Conns : Answers(d)
             \/ \E cmd : Commits(cmd) /\ \A d \in Conns : Announces(d, cmd)
  <2>1. CASE RefuseConnection(c, u) \/ ConnectHalfStored(c, u)
    BY <1>s, <2>1 DEF RefuseConnection, ConnectHalfStored, stored
  <2>2. CASE ConnectAgain(c, u)
    BY <1>o, <2>2 DEF ConnectAgain
  <2>3. CASE ConnectAndJoin(c, u)
    <3>. DEFINE cmd == Join(u, TokenRole(u))
    <3>1. Commits(cmd)
      BY <2>3, ConnectionCommandsPermitted DEF ConnectAndJoin, Commits
    <3>. HIDE DEF cmd
    <3>2. ASSUME NEW d \in Conns PROVE Announces(d, cmd)
      <4>1. \/ sent'[d] = <<Snapshot(room')>> \/ sent'[d] = << >>
            \/ sent'[d] = <<StateChanged(room', cmd)>>
        BY <2>3 DEF ConnectAndJoin, Greeting, cmd
      <4> QED
        BY <4>1 DEF Announces
    <3> QED
      BY <3>1, <3>2
  <2> QED
    BY <1>1, <2>1, <2>2, <2>3 DEF Connect
<1>2. ASSUME NEW c \in Conns, MessageRefused(c)
      PROVE  room' = room /\ \A d \in Conns : Answers(d)
  BY <1>0, <1>o, <1>2, Quiet DEF MessageRefused, stored
<1>3. ASSUME NEW c \in OpenConns, NEW e, e.command \in ClientCommandsOf[socket[c].user],
             Message(c, e)
      PROVE  \/ room' = room /\ \A d \in Conns : Answers(d)
             \/ \E cmd : Commits(cmd) /\ \A d \in Conns : Announces(d, cmd)
  <2>0. c \in Conns /\ Permitted(e.command)
    BY <1>3, ClientCommandsPermitted DEF OpenConns, SocketOwners
  <2>1. CASE MessageAccepted(c, e)
    <3>1. Commits(e.command)
      BY <2>0, <2>1 DEF MessageAccepted, Commits, Verdict
    <3>2. Ack(room') \in QuietMessages
      BY <3>1, CommitsRoom, Quiet
    <3>3. ASSUME NEW d \in Conns PROVE Announces(d, e.command)
      <4>1. \/ sent'[d] = <<Ack(room')>> \o <<StateChanged(room', e.command)>>
            \/ sent'[d] = <<Ack(room')>> \o << >>
            \/ sent'[d] = << >> \o <<StateChanged(room', e.command)>>
            \/ sent'[d] = << >> \o << >>
        BY <2>1 DEF MessageAccepted
      <4>2. \A m : <<m>> \o << >> = <<m>> /\ << >> \o <<m>> = <<m>>
        OBVIOUS
      <4>3. << >> \o << >> = << >>
        OBVIOUS
      <4> QED
        BY <3>2, <4>1, <4>2, <4>3, Zenon DEF Announces
    <3> QED
      BY <3>1, <3>3
  <2>2. CASE MessageNotStored(c, e)
    <3>1. /\ Verdict(room, recent, e) = "accepted" /\ room' = room
          /\ sent' = [Silence EXCEPT ![c] = <<Ack(Applied(room, e.command))>>]
      BY <2>2 DEF MessageNotStored, stored
    <3>2. Accepts(room, e.command)
      BY <3>1 DEF Verdict
    <3>3. Applied(room, e.command) \in Rooms
      BY <2>0, <3>2, ChangeKeepsRoomInv DEF RoomInv
    <3> QED
      BY <1>o, <2>0, <3>1, <3>3, Quiet
  <2>3. CASE MessageAnswered(c, e)
    <3>1. /\ room' = room
          /\ sent' = [Silence EXCEPT ![c] =
                      <<CASE Verdict(room, recent, e) = "duplicate" -> Duplicate(room)
                          [] Verdict(room, recent, e) = "sequence_mismatch" -> ResyncRequired(room)
                          [] Verdict(room, recent, e) = "rejected" -> ErrorMessage>>]
          /\ Verdict(room, recent, e) \in {"duplicate", "sequence_mismatch", "rejected"}
      BY <2>3 DEF MessageAnswered, Verdict, stored
    <3>2. \E m \in {Duplicate(room), ResyncRequired(room), ErrorMessage} :
             sent' = [Silence EXCEPT ![c] = <<m>>]
      BY <3>1
    <3> QED
      BY <1>0, <1>o, <2>0, <3>1, <3>2, Quiet
  <2> QED
    BY <1>3, <2>1, <2>2, <2>3 DEF Message
<1>4. ASSUME NEW c \in Conns, Close(c)
      PROVE  \/ room' = room /\ \A d \in Conns : Answers(d)
             \/ \E cmd : Commits(cmd) /\ \A d \in Conns : Announces(d, cmd)
  <2>1. CASE ConnectionEnds(c) \/ LastConnectionHalfRemoved(c)
    BY <1>s, <2>1 DEF ConnectionEnds, LastConnectionHalfRemoved
  <2>2. CASE LastConnectionEnds(c)
    <3>. DEFINE cmd == Leave(socket[c].user)
    <3>0. socket[c].user \in Users
      BY <2>2 DEF LastConnectionEnds, Ends, OpenConns, ClosingConns, SocketOwners
    <3>1. Commits(cmd)
      BY <2>2, <3>0, ConnectionCommandsPermitted DEF LastConnectionEnds, Commits
    <3>. HIDE DEF cmd
    <3>2. ASSUME NEW d \in Conns PROVE Announces(d, cmd)
      <4>1. sent'[d] = << >> \/ sent'[d] = <<StateChanged(room', cmd)>>
        BY <2>2 DEF LastConnectionEnds, cmd
      <4> QED
        BY <4>1 DEF Announces
    <3> QED
      BY <3>1, <3>2
  <2> QED
    BY <1>4, <2>1, <2>2 DEF Close
<1>5. ASSUME NEW e, e.command \in RemovalCommands, Moderate(e)
      PROVE  \/ room' = room /\ \A d \in Conns : Answers(d)
             \/ \E cmd : Commits(cmd) /\ \A d \in Conns : Announces(d, cmd)
  <2>1. CASE EjectionRepeated(e) \/ ModerationAnswered(e)
    BY <1>s, <2>1 DEF EjectionRepeated, ModerationAnswered, stored
  <2>2. CASE ModerationAccepted(e)
    <3>1. Commits(e.command)
      BY <1>5, <2>2, RemovalCommandsPermitted
         DEF ModerationAccepted, Commits, Verdict
    <3>2. ASSUME NEW d \in Conns PROVE Announces(d, e.command)
      <4>1. sent'[d] = << >> \/ sent'[d] = <<StateChanged(room', e.command)>>
        BY <2>2 DEF ModerationAccepted
      <4> QED
        BY <4>1 DEF Announces
    <3> QED
      BY <3>1, <3>2
  <2> QED
    BY <1>5, <2>1, <2>2 DEF Moderate
<1>6. ASSUME Restart
      PROVE  room' = room /\ \A d \in Conns : Answers(d)
  BY <1>s, <1>6 DEF Restart, stored
<1>7. \A id, n, cmd : EnvelopeOf(id, n, cmd).command = cmd
  BY DEF EnvelopeOf
<1> QED
  BY <1>1, <1>2, <1>3, <1>4, <1>5, <1>6, <1>7 DEF Next

-----------------------------------------------------------------------------
(* RoomSync: the inductive invariant *)

\* Room r is the room that history h has at r's sequence.
InHistory(r, h) ==
    /\ r \in Rooms
    /\ r.sequence + 1 \in DOMAIN h
    /\ h[r.sequence + 1] = r

\* The history holds every room so far at the place its sequence tells, and ends
\* with the room of the object.
HistoryInv ==
    /\ history \in Seq(Rooms)
    /\ Len(history) = room.sequence + 1
    /\ history[Len(history)] = room
    /\ \A i \in DOMAIN history : history[i].sequence + 1 = i

\* Message m tells of history h: a room of it, or a step of it.
Tells(m, h) ==
    /\ m \in Snapshots => InHistory(m.room, h)
    /\ m \in Changes =>
          /\ m.sequence \in 1 .. Len(h) - 1
          /\ Accepts(h[m.sequence], m.command)
          /\ h[m.sequence + 1] = Applied(h[m.sequence], m.command)

\* The replica is empty while it waits, and synchronized with some room.
Replicas ==
    {s \in [status : {"awaiting_snapshot", "synchronized", "resync_required"},
            room   : Rooms \cup {NoRoom}] :
        /\ s.status = "awaiting_snapshot" => s.room = NoRoom
        /\ s.status = "synchronized" => s.room # NoRoom}

Modes == {"ticket", "connected", "closing", "backoff", "stopped"}

\* A client that is connected or closes its socket has one of its own; one that
\* waits for a ticket has an empty replica.
ClientsInv ==
    /\ client \in [Users -> [mode : Modes, conn : Conns \cup {NoConn},
                             sync : Replicas]]
    /\ \A u \in Users :
          IF client[u].mode \in {"connected", "closing"}
          THEN /\ client[u].conn \in Conns
               /\ socket[client[u].conn].status # "unused"
               /\ socket[client[u].conn].user = u
          ELSE client[u].conn = NoConn
    /\ \A u \in Users : client[u].mode = "ticket" => client[u].sync = AwaitingSnapshot

\* Commands under way carry a sequence the object has reached.
UpInv ==
    /\ up \in [Conns -> Seq(Envelopes)]
    /\ \A c \in Conns : \A i \in DOMAIN up[c] : up[c][i].expected <= room.sequence

\* Messages are under way on held sockets only, and tell of the history.
DownInv ==
    /\ down \in [Conns -> Seq(Messages)]
    /\ \A c \in Conns \ HeldConns : down[c] = << >>
    /\ \A c \in Conns : \A i \in DOMAIN down[c] : Tells(down[c][i], history)

\* Replicas hold rooms of the history.
ReplicasInv ==
    \A u \in Users : client[u].sync.room # NoRoom => InHistory(client[u].sync.room, history)

\* A page shows its replica, or, as long as that is empty, a room of the history
\* that is no newer than any room under way to the page.
ShownInv ==
    /\ shown \in [Users -> Rooms \cup {NoRoom}]
    /\ \A u \in Users :
          /\ client[u].sync.room # NoRoom => shown[u] = client[u].sync.room
          /\ shown[u] # NoRoom => InHistory(shown[u], history)
          /\ /\ shown[u] # NoRoom /\ client[u].sync.room = NoRoom
             /\ client[u].mode = "connected"
             =>
                \A i \in DOMAIN down[client[u].conn] :
                   LET m == down[client[u].conn][i]
                   IN  m \in Snapshots => shown[u].sequence <= m.room.sequence

SyncInv ==
    /\ WorkerInv
    /\ HistoryInv
    /\ ClientsInv
    /\ UpInv
    /\ DownInv
    /\ ReplicasInv
    /\ ShownInv

-----------------------------------------------------------------------------
(* RoomSync: the history *)

\* A step of the object leaves the history alone or appends the room it stores.
Recorded ==
    \/ room' = room /\ history' = history
    \/ \E cmd : Commits(cmd) /\ history' = Append(history, room')

\* The history only grows, so what was true of it stays true.
LEMMA HistoryGrows ==
    ASSUME RoomInv(room), HistoryInv, Recorded
    PROVE  /\ HistoryInv'
           /\ \A r : InHistory(r, history) => InHistory(r, history')
           /\ \A m : Tells(m, history) => Tells(m, history')
           /\ room.sequence <= room'.sequence
<1>0. /\ room \in Rooms /\ room.sequence \in Nat /\ Len(history) \in Nat
      /\ DOMAIN history = 1 .. Len(history)
  BY DEF RoomInv, Rooms, HistoryInv
<1>1. CASE room' = room /\ history' = history
  BY <1>0, <1>1 DEF HistoryInv, InHistory, Tells
<1>2. CASE \E cmd : Commits(cmd) /\ history' = Append(history, room')
  <2>1. PICK cmd : Commits(cmd) /\ history' = Append(history, room')
    BY <1>2
  <2>2. room' \in Rooms /\ room'.sequence = room.sequence + 1
    BY <2>1, CommitsRoom
  <2>3. /\ history' \in Seq(Rooms) /\ Len(history') = Len(history) + 1
        /\ history'[Len(history) + 1] = room'
        /\ \A i \in DOMAIN history : history'[i] = history[i]
        /\ DOMAIN history' = 1 .. Len(history) + 1
    BY <1>0, <2>1, <2>2 DEF HistoryInv
  <2>4. HistoryInv'
    <3>1. \A i \in DOMAIN history' : i \in DOMAIN history \/ i = Len(history) + 1
      BY <1>0, <2>3
    <3> QED
      BY <1>0, <2>2, <2>3, <3>1 DEF HistoryInv
  <2>5. \A r : InHistory(r, history) => InHistory(r, history')
    BY <1>0, <2>3 DEF InHistory
  <2>6. ASSUME NEW m, Tells(m, history) PROVE Tells(m, history')
    <3>1. CASE m \in Changes
      <4>1. /\ m.sequence \in DOMAIN history /\ m.sequence + 1 \in DOMAIN history
            /\ m.sequence \in 1 .. Len(history') - 1
        BY <1>0, <2>3, <2>6, <3>1 DEF Tells, Changes
      <4> QED
        BY <2>3, <2>5, <2>6, <3>1, <4>1 DEF Tells
    <3>2. CASE m \notin Changes
      BY <2>5, <2>6, <3>2 DEF Tells
    <3> QED
      BY <3>1, <3>2
  <2> QED
    BY <1>0, <2>2, <2>4, <2>5, <2>6
<1> QED
  BY <1>1, <1>2 DEF Recorded

\* No room of the history is newer than the room of the object.
LEMMA NewestRoom ==
    ASSUME RoomInv(room), HistoryInv
    PROVE  /\ InHistory(room, history)
           /\ \A r : InHistory(r, history) => r.sequence \in Nat /\ r.sequence <= room.sequence
<1>0. /\ room \in Rooms /\ room.sequence \in Nat /\ Len(history) = room.sequence + 1
      /\ DOMAIN history = 1 .. Len(history)
  BY DEF RoomInv, Rooms, HistoryInv
<1>1. InHistory(room, history)
  BY <1>0 DEF HistoryInv, InHistory
<1>2. ASSUME NEW r, InHistory(r, history) PROVE r.sequence \in Nat /\ r.sequence <= room.sequence
  BY <1>0, <1>2 DEF InHistory, Rooms
<1> QED
  BY <1>1, <1>2

\* The elements of two sequences put together.
LEMMA PlusElements ==
    ASSUME NEW S, NEW p \in Seq(S), NEW q \in Seq(S), NEW s, s = p \o q
    PROVE  /\ s \in Seq(S)
           /\ \A i \in DOMAIN s : \/ i \in DOMAIN p /\ s[i] = p[i]
                                  \/ \E j \in DOMAIN q : s[i] = q[j]
<1>1. s \in Seq(S) /\ Len(s) = Len(p) + Len(q) /\ Len(p) \in Nat /\ Len(q) \in Nat
  OBVIOUS
<1>2. ASSUME NEW i \in DOMAIN s, i <= Len(p)
      PROVE  i \in DOMAIN p /\ s[i] = p[i]
  BY <1>1, <1>2
<1>3. ASSUME NEW i \in DOMAIN s, ~(i <= Len(p))
      PROVE  \E j \in DOMAIN q : s[i] = q[j]
  <2>1. i - Len(p) \in DOMAIN q /\ s[i] = q[i - Len(p)]
    BY <1>1, <1>3
  <2> QED
    BY <2>1
<1> QED
  BY <1>1, <1>2, <1>3

\* The messages under way on a socket after a handler sent on it.
LEMMA SentElements ==
    ASSUME NEW c, down[c] \in Seq(Messages), sent'[c] \in Seq(Messages),
           down'[c] = down[c] \o sent'[c]
    PROVE  /\ down'[c] \in Seq(Messages)
           /\ \A i \in DOMAIN down'[c] :
                 \/ i \in DOMAIN down[c] /\ down'[c][i] = down[c][i]
                 \/ \E j \in DOMAIN sent'[c] : down'[c][i] = sent'[c][j]
<1>. DEFINE p == down[c] q == sent'[c] s == down'[c]
<1>1. p \in Seq(Messages) /\ q \in Seq(Messages) /\ s = p \o q
  OBVIOUS
<1>. HIDE DEF p, q, s
<1>2. /\ s \in Seq(Messages)
      /\ \A i \in DOMAIN s : \/ i \in DOMAIN p /\ s[i] = p[i]
                             \/ \E j \in DOMAIN q : s[i] = q[j]
  BY <1>1, PlusElements
<1> QED
  BY <1>2 DEF p, q, s

\* The kinds of messages differ in type.
LEMMA MessageKinds ==
    /\ \A r \in Rooms : /\ Snapshot(r) \in Snapshots /\ Snapshot(r).room = r
                        /\ ResyncRequired(r) \in Snapshots
                        /\ ResyncRequired(r).room = r
    /\ \A m \in Snapshots : m \notin Changes /\ m \notin QuietMessages
    /\ \A m \in Changes : m \notin QuietMessages
  BY DEF Snapshots, Changes, QuietMessages, Snapshot, ResyncRequired

\* What a handler sends tells of the history it leaves behind, and the rooms it
\* sends are the room it leaves behind.
LEMMA SentTells ==
    ASSUME RoomInv(room), HistoryInv, NEW d \in Conns,
           \/ room' = room /\ history' = history /\ Answers(d)
           \/ \E cmd : /\ Commits(cmd) /\ history' = Append(history, room')
                       /\ Announces(d, cmd)
    PROVE  /\ sent'[d] \in Seq(Messages)
           /\ \A i \in DOMAIN sent'[d] :
                /\ Tells(sent'[d][i], history')
                /\ sent'[d][i] \in Snapshots => sent'[d][i].room = room'
<1>. DEFINE Good(m) == /\ m \in Messages
                       /\ Tells(m, history')
                       /\ m \in Snapshots => m.room = room'
            Fine(s) == s \in Seq(Messages) /\ \A i \in DOMAIN s : Good(s[i])
<1>0. Recorded
  BY DEF Recorded
<1>1. RoomInv(room') /\ HistoryInv' /\ room' \in Rooms
  BY <1>0, HistoryGrows, CommitsRoom DEF Recorded, RoomInv
<1>2. InHistory(room', history') /\ room'.sequence \in Nat
  <2>1. Len(history') = room'.sequence + 1 /\ room'.sequence \in Nat
    BY <1>1 DEF HistoryInv, Rooms
  <2> QED
    BY <1>1, <2>1 DEF HistoryInv, InHistory
<1>3. \A m \in QuietMessages : Good(m)
  BY MessageKinds DEF Messages, Tells
<1>4. Good(Snapshot(room')) /\ Good(ResyncRequired(room'))
  BY <1>1, <1>2, MessageKinds DEF Messages, Tells, InHistory
<1>5. ASSUME NEW cmd, Commits(cmd), history' = Append(history, room')
      PROVE  Good(StateChanged(room', cmd))
  <2>1. /\ StateChanged(room', cmd) \in Changes /\ room'.sequence = room.sequence + 1
        /\ room.sequence \in Nat /\ room' = Applied(room, cmd) /\ Accepts(room, cmd)
    BY <1>5, CommitsRoom DEF RoomInv, Rooms, Commits
  <2>2. /\ StateChanged(room', cmd).sequence = room'.sequence
        /\ StateChanged(room', cmd).command = cmd
    BY DEF StateChanged
  <2>3. /\ Len(history) = room.sequence + 1 /\ history[Len(history)] = room
        /\ history \in Seq(Rooms)
    BY DEF HistoryInv
  <2>4. /\ history'[room.sequence + 1] = room
        /\ history'[room.sequence + 2] = room'
        /\ Len(history') = room.sequence + 2
    BY <1>1, <1>5, <2>1, <2>3
  <2>. HIDE DEF Good
  <2>5. Tells(StateChanged(room', cmd), history')
    <3>. DEFINE m == StateChanged(room', cmd)
    <3>1. m \in Changes /\ m \notin Snapshots /\ m.sequence = room.sequence + 1 /\ m.command = cmd
      BY <2>1, <2>2, MessageKinds
    <3>. HIDE DEF m
    <3>2. /\ m.sequence \in 1 .. Len(history') - 1
          /\ history'[m.sequence] = room
          /\ history'[m.sequence + 1] = room'
      BY <2>1, <2>4, <3>1
    <3>3. Tells(m, history')
      BY <2>1, <3>1, <3>2 DEF Tells
    <3> QED
      BY <3>3 DEF m
  <2> QED
    BY <2>1, <2>5, MessageKinds DEF Good, Messages
<1>. HIDE DEF Good
<1>6. \A m : Good(m) => Fine(<<m>>)
  BY DEF Good
<1>7. Fine(<< >>)
  OBVIOUS
<1>8. ASSUME NEW m, NEW n, Good(m), Good(n) PROVE Fine(<<m>> \o <<n>>)
  <2>1. m \in Messages /\ n \in Messages
    BY <1>8 DEF Good
  <2>2. /\ <<m>> \in Seq(Messages) /\ <<n>> \in Seq(Messages)
        /\ Len(<<m>>) = 1 /\ Len(<<n>>) = 1 /\ <<m>>[1] = m /\ <<n>>[1] = n
    BY <2>1
  <2>3. /\ <<m>> \o <<n>> \in Seq(Messages)
        /\ \A i \in DOMAIN (<<m>> \o <<n>>) :
              (<<m>> \o <<n>>)[i] = m \/ (<<m>> \o <<n>>)[i] = n
    BY <2>2
  <2> QED
    BY <1>8, <2>3
<1>. HIDE DEF Fine
<1>9. Fine(sent'[d])
  <2>1. CASE room' = room /\ Answers(d)
    BY <1>3, <1>4, <1>6, <1>7, <2>1 DEF Answers
  <2>2. ASSUME NEW cmd, Commits(cmd), history' = Append(history, room'),
               Announces(d, cmd)
        PROVE  Fine(sent'[d])
    <3>1. Good(StateChanged(room', cmd))
      BY <1>5, <2>2
    <3> QED
      BY <1>3, <1>4, <1>6, <1>7, <1>8, <2>2, <3>1, Zenon DEF Announces
  <2> QED
    BY <2>1, <2>2
<1> QED
  BY <1>9 DEF Fine, Good

\* The replica after a message that tells of the history: it holds a room of the
\* history again, no older than before, and an empty replica takes the room of
\* a snapshot only.
LEMMA ReceivedRoom ==
    ASSUME HistoryInv, NEW s \in Replicas, NEW m \in Messages, Tells(m, history),
           s.room # NoRoom => InHistory(s.room, history)
    PROVE  LET t == Received(s, m)
           IN  /\ t \in Replicas
               /\ t.room # NoRoom => InHistory(t.room, history)
               /\ s.room # NoRoom => /\ t.room # NoRoom
                                     /\ s.room.sequence <= t.room.sequence
               /\ s.room = NoRoom /\ t.room # NoRoom =>
                     m \in Snapshots /\ t.room = m.room
<1>0. /\ s.status \in {"awaiting_snapshot", "synchronized", "resync_required"}
      /\ s.room \in Rooms \cup {NoRoom}
      /\ s.room # NoRoom => s.room.sequence \in Nat
      /\ NoRoom \notin Rooms
  BY SyncAssumption DEF Replicas, Rooms
<1>. DEFINE t == Received(s, m)
<1>1. ASSUME t = s
      PROVE  /\ t \in Replicas
             /\ t.room # NoRoom => InHistory(t.room, history)
             /\ s.room # NoRoom => t.room # NoRoom /\ s.room.sequence <= t.room.sequence
             /\ s.room = NoRoom /\ t.room # NoRoom => m \in Snapshots /\ t.room = m.room
  BY <1>0, <1>1
<1>2. CASE m \in Snapshots
  <2>1. m.type \in {"snapshot", "resync_required"} /\ m.room \in Rooms /\ InHistory(m.room, history)
    BY <1>2 DEF Snapshots, Tells
  <2>2. t = IF IsStale(s, m.room) THEN s ELSE Synchronized(m.room)
    BY <2>1 DEF Received
  <2>3. CASE ~IsStale(s, m.room)
    <3>1. t = Synchronized(m.room)
      BY <2>2, <2>3
    <3>2. /\ t \in Replicas /\ t.room = m.room /\ m.room # NoRoom
      BY <1>0, <2>1, <3>1 DEF Replicas, Synchronized
    <3>3. s.room # NoRoom => s.room.sequence <= m.room.sequence
      BY <1>0, <2>1, <2>3 DEF IsStale, Rooms
    <3> QED
      BY <1>2, <2>1, <3>2, <3>3
  <2> QED
    BY <1>1, <2>2, <2>3
<1>3. CASE m \in Changes
  <2>1. m.type = "state_changed" /\ m.sequence \in Nat
    BY <1>3 DEF Changes
  <2>2. t = IF Follows(s, m.sequence) /\ Accepts(s.room, m.command)
            THEN Synchronized(Applied(s.room, m.command)) ELSE ResyncNeeded(s.room)
    BY <2>1 DEF Received
  <2>3. CASE Follows(s, m.sequence) /\ Accepts(s.room, m.command)
    <3>1. /\ s.room # NoRoom /\ m.sequence = s.room.sequence + 1 /\ InHistory(s.room, history)
          /\ t = Synchronized(Applied(s.room, m.command))
      BY <2>2, <2>3 DEF Follows
    <3>2. /\ m.sequence \in 1 .. Len(history) - 1
          /\ history[m.sequence + 1] = Applied(history[m.sequence], m.command)
          /\ history[m.sequence] = s.room
      BY <1>3, <3>1 DEF Tells, InHistory
    <3>3. /\ m.sequence + 1 \in DOMAIN history
          /\ history[m.sequence + 1] = Applied(s.room, m.command)
          /\ history[m.sequence + 1] \in Rooms
          /\ history[m.sequence + 1].sequence + 1 = m.sequence + 1
      BY <2>1, <3>2 DEF HistoryInv
    <3>4. history[m.sequence + 1].sequence = m.sequence
      BY <2>1, <3>3 DEF Rooms
    <3>5. InHistory(Applied(s.room, m.command), history) /\ Applied(s.room, m.command) \in Rooms
      BY <3>3, <3>4 DEF InHistory
    <3>6. /\ t \in Replicas /\ t.room = Applied(s.room, m.command)
          /\ t.room # NoRoom
      BY <1>0, <3>1, <3>5 DEF Replicas, Synchronized
    <3> QED
      BY <1>0, <3>1, <3>3, <3>4, <3>5, <3>6
  <2>4. CASE ~(Follows(s, m.sequence) /\ Accepts(s.room, m.command))
    <3>1. t = ResyncNeeded(s.room)
      BY <2>2, <2>4
    <3>2. t \in Replicas /\ t.room = s.room
      BY <1>0, <3>1 DEF ResyncNeeded, Replicas
    <3> QED
      BY <1>0, <3>2
  <2> QED
    BY <2>3, <2>4
<1>4. CASE m \in QuietMessages
  <2>1. m.type \in {"ack", "duplicate", "error"}
    BY <1>4 DEF QuietMessages
  <2>2. t = s
    BY <2>1 DEF Received, Acknowledged
  <2> QED
    BY <1>1, <2>2
<1> QED
  BY <1>2, <1>3, <1>4 DEF Messages

-----------------------------------------------------------------------------
(* RoomSync: the steps of the object *)

\* The steps in which the object runs a handler or restarts.
ObjectMoves ==
    \/ \E u \in Users, c \in Conns : Upgrade(u, c)
    \/ \E c \in Conns : HandleMessage(c) \/ EndConnection(c)
    \/ \E id \in CommandIds, cmd \in RemovalCommands :
          RelayModeration(EnvelopeOf(id, room.sequence, cmd))
    \/ RestartObject

\* The steps of the client of user u alone.
ClientMoves(u) ==
    \/ TicketFails(u) \/ Deliver(u) \/ ConnectionLost(u) \/ Reconnect(u)
    \/ Stop(u) \/ Return(u)
    \/ \E id \in CommandIds, cmd \in PageCommands(u) : SendCommand(u, id, cmd)

LEMMA SyncMoves == SyncNext => ObjectMoves \/ \E u \in Users : ClientMoves(u)
  BY DEF SyncNext, ObjectMoves, ClientMoves

\* Whatever the clients send, the object makes a step of its own.
LEMMA ObjectMovesNext ==
    ASSUME RoomInv(room), UpInv, ObjectMoves
    PROVE  Next
<1>1. ASSUME NEW u \in Users, NEW c \in Conns, Upgrade(u, c)
      PROVE  Next
  BY <1>1 DEF Upgrade, Next
<1>2. ASSUME NEW c \in Conns, HandleMessage(c)
      PROVE  Next
  <2>. DEFINE e == Head(up[c])
  <2>1. up[c] \in Seq(Envelopes) /\ up[c] # << >> /\ Message(c, e)
    BY <1>2 DEF HandleMessage, UpInv
  <2>2. e \in Envelopes /\ e = up[c][1] /\ 1 \in DOMAIN up[c]
    BY <2>1
  <2>3. e.expected <= room.sequence
    BY <2>2 DEF UpInv
  <2>. HIDE DEF e
  <2>4. /\ e.id \in CommandIds /\ e.expected \in Nat /\ room.sequence \in Nat
        /\ e = EnvelopeOf(e.id, e.expected, e.command)
    BY <2>2 DEF Envelopes, EnvelopeOf, RoomInv, Rooms
  <2>5. c \in OpenConns /\ e.command \in ClientCommandsOf[socket[c].user]
    BY <2>1 DEF Message, MessageAccepted, MessageNotStored, MessageAnswered, MayHandle
  <2>6. CASE e.expected = room.sequence
    BY <2>1, <2>4, <2>5, <2>6 DEF Next
  <2>7. CASE e.expected # room.sequence
    <3>. DEFINE e0 == EnvelopeOf(e.id, 0, e.command)
    <3>1. 0 # room.sequence
      BY <2>3, <2>4, <2>7
    <3>2. e0.id = e.id /\ e0.command = e.command /\ e0.expected = 0
      BY DEF EnvelopeOf
    <3>. HIDE DEF e0
    <3>3. Verdict(room, recent, e0) = Verdict(room, recent, e)
      BY <2>7, <3>1, <3>2 DEF Verdict, IsCurrent
    <3>4. Verdict(room, recent, e) # "accepted"
      BY <2>7 DEF Verdict, IsCurrent
    <3>5. MessageAnswered(c, e)
      BY <2>1, <3>4 DEF Message, MessageAccepted, MessageNotStored
    <3>6. MessageAnswered(c, e0)
      BY <3>2, <3>3, <3>5 DEF MessageAnswered, MayHandle
    <3> QED
      BY <2>4, <2>5, <3>6 DEF Next, Message, e0
  <2> QED
    BY <2>6, <2>7
<1>3. ASSUME NEW c \in Conns, EndConnection(c)
      PROVE  Next
  BY <1>3 DEF EndConnection, Next
<1>4. ASSUME NEW id \in CommandIds, NEW cmd \in RemovalCommands,
             RelayModeration(EnvelopeOf(id, room.sequence, cmd))
      PROVE  Next
  BY <1>4 DEF RelayModeration, Next
<1>5. CASE RestartObject
  BY <1>5 DEF RestartObject, Next
<1> QED
  BY <1>1, <1>2, <1>3, <1>4, <1>5 DEF ObjectMoves

\* The object never opens a socket twice nor gives one to another user.
LEMMA SocketsKept ==
    ASSUME SocketOwners, Next, NEW d \in Conns, socket[d].status # "unused"
    PROVE  socket'[d].status # "unused" /\ socket'[d].user = socket[d].user
<1>0. /\ socket \in SocketTable
      /\ socket[d] \in [status : {"unused", "open", "closing", "closed"},
                        user : Users \cup {NoUser}]
  BY DEF SocketOwners, SocketTable
<1>1. ASSUME socket' = socket
      PROVE  socket'[d].status # "unused" /\ socket'[d].user = socket[d].user
  BY <1>1
<1>2. ASSUME NEW c \in Conns, NEW u \in Users, Connect(c, u)
      PROVE  socket'[d].status # "unused" /\ socket'[d].user = socket[d].user
  <2>1. socket[c].status = "unused" /\ \E x : socket' = [socket EXCEPT ![c] = x]
    BY <1>2 DEF Connect, RefuseConnection, ConnectAgain, ConnectAndJoin,
                ConnectHalfStored, Arriving
  <2> QED
    BY <1>0, <2>1 DEF SocketTable
<1>3. ASSUME NEW c \in Conns, Close(c)
      PROVE  socket'[d].status # "unused" /\ socket'[d].user = socket[d].user
  <2>1. socket' = [socket EXCEPT ![c].status = "closed"]
    BY <1>3 DEF Close, ConnectionEnds, LastConnectionEnds,
                LastConnectionHalfRemoved, Ends
  <2> QED
    BY <1>0, <2>1 DEF SocketTable
<1>4. ASSUME NEW u, socket' = ClosedSocketsOf(u)
      PROVE  socket'[d].status # "unused" /\ socket'[d].user = socket[d].user
  BY <1>0, <1>4 DEF ClosedSocketsOf
<1>5. ASSUME NEW e, Moderate(e)
      PROVE  socket'[d].status # "unused" /\ socket'[d].user = socket[d].user
  BY <1>1, <1>4, <1>5 DEF Moderate, EjectionRepeated, ModerationAccepted,
                          ModerationAnswered, SocketsAfterEjection
<1>6. ASSUME Restart
      PROVE  socket'[d].status # "unused" /\ socket'[d].user = socket[d].user
  BY <1>0, <1>6 DEF Restart
<1>7. ASSUME NEW c, MessageRefused(c) \/ \E e : Message(c, e)
      PROVE  socket'[d].status # "unused" /\ socket'[d].user = socket[d].user
  BY <1>1, <1>7 DEF MessageRefused, Message, MessageAccepted, MessageNotStored,
                    MessageAnswered
<1> QED
  BY <1>2, <1>3, <1>5, <1>6, <1>7 DEF Next

\* An upgrade connects the client that waits for it, or sends it to back off; no
\* other step of the object changes a client.
LEMMA ObjectLeavesClients ==
    ASSUME ClientsInv, ObjectMoves
    PROVE  \/ client' = client
           \/ \E u \in Users :
                 /\ client[u].mode = "ticket"
                 /\ \/ client' = [client EXCEPT ![u].mode = "backoff"]
                    \/ \E c \in Conns :
                          /\ client' = [client EXCEPT ![u].mode = "connected",
                                                      ![u].conn = c]
                          /\ Connect(c, u)
                          /\ socket'[c].status = "open"
  BY DEF ObjectMoves, Upgrade, HandleMessage, EndConnection, RelayModeration,
         RestartObject, ServerStep

\* The replicas and what the pages show stay as they are when the object moves.
LEMMA ObjectLeavesReplicas ==
    ASSUME ClientsInv, ShownInv, ObjectMoves
    PROVE  /\ \A u \in Users : client'[u].sync = client[u].sync
           /\ shown' = shown
<1>1. \A u \in Users : client'[u].sync = client[u].sync
  <2>1. client \in [Users -> [mode : Modes, conn : Conns \cup {NoConn},
                             sync : Replicas]]
    BY DEF ClientsInv
  <2>2. ASSUME NEW u \in Users, NEW m, NEW c,
               \/ client' = [client EXCEPT ![u].mode = m]
               \/ client' = [client EXCEPT ![u].mode = m, ![u].conn = c]
        PROVE  \A v \in Users : client'[v].sync = client[v].sync
    BY <2>1, <2>2
  <2>3. CASE client' = client
    BY <2>3
  <2>4. ASSUME NEW u \in Users, client' = [client EXCEPT ![u].mode = "backoff"]
        PROVE  \A v \in Users : client'[v].sync = client[v].sync
    BY <2>2, <2>4
  <2>5. ASSUME NEW u \in Users, NEW c,
               client' = [client EXCEPT ![u].mode = "connected", ![u].conn = c]
        PROVE  \A v \in Users : client'[v].sync = client[v].sync
    BY <2>2, <2>5
  <2> QED
    BY <2>3, <2>4, <2>5, ObjectLeavesClients
<1>2. CASE UNCHANGED shown
  BY <1>1, <1>2
<1>3. CASE Displayed
  <2>1. \A u \in Users : shown'[u] = shown[u]
    BY <1>1, <1>3 DEF Displayed, ShownInv
  <2> QED
    BY <1>1, <1>3, <2>1 DEF Displayed, ShownInv
<1> QED
  BY <1>2, <1>3 DEF ObjectMoves, Upgrade, HandleMessage, EndConnection,
                    RelayModeration, RestartObject, ServerStep

\* What a handler sends is under way on the sockets held after the step.
LEMMA ObjectTransmits ==
    ASSUME ClientsInv, ObjectMoves
    PROVE  Transmitted(HeldConns')
<1>1. ASSUME ServerStep PROVE Transmitted(HeldConns')
  <2>1. HeldConns' = HeldConns
    BY <1>1 DEF ServerStep, HeldConns, Holds
  <2> QED
    BY <1>1, <2>1, Zenon DEF ServerStep
<1>2. ASSUME NEW u \in Users, NEW c \in Conns, Upgrade(u, c)
      PROVE  Transmitted(HeldConns')
  <2>0. client[u].mode = "ticket" /\ client \in [Users -> [mode : Modes, conn : Conns \cup {NoConn},
                             sync : Replicas]]
    BY <1>2 DEF Upgrade, ClientsInv
  <2>1. CASE socket'[c].status = "open" /\ sent'[c] # << >>
    <3>1. /\ client' = [client EXCEPT ![u].mode = "connected", ![u].conn = c]
          /\ Transmitted(HeldConns \cup {c})
      BY <1>2, <2>1 DEF Upgrade
    <3>2. /\ client'[u].mode = "connected" /\ client'[u].conn = c
          /\ \A v \in Users \ {u} : client'[v] = client[v]
      BY <2>0, <3>1
    <3>3. HeldConns' = HeldConns \cup {c}
      BY <2>0, <3>2 DEF HeldConns, Holds
    <3> QED
      BY <3>1, <3>3, Zenon
  <2>2. CASE ~(socket'[c].status = "open" /\ sent'[c] # << >>)
    <3>1. /\ client' = [client EXCEPT ![u].mode = "backoff"]
          /\ Transmitted(HeldConns)
      BY <1>2, <2>2 DEF Upgrade
    <3>2. /\ client'[u].mode = "backoff"
          /\ \A v \in Users \ {u} : client'[v] = client[v]
      BY <2>0, <3>1
    <3>3. HeldConns' = HeldConns
      BY <2>0, <3>2 DEF HeldConns, Holds
    <3> QED
      BY <3>1, <3>3, Zenon
  <2> QED
    BY <2>1, <2>2
<1> QED
  BY <1>1, <1>2 DEF ObjectMoves, HandleMessage, EndConnection, RelayModeration,
                    RestartObject

\* Every step of the object records its change and leaves the messages and the
\* clients in order.
LEMMA ObjectKeepsSyncInv ==
    ASSUME SyncInv, ObjectMoves
    PROVE  SyncInv'
<1>0. /\ WorkerInv /\ HistoryInv /\ ClientsInv /\ UpInv /\ DownInv /\ ReplicasInv
      /\ ShownInv /\ SocketOwners /\ RoomInv(room)
  BY DEF SyncInv, WorkerInv, StoredInv
<1>1. Next
  BY <1>0, ObjectMovesNext
<1>2. WorkerInv'
  BY <1>0, <1>1, NextOwners, NextStored, NextRegistry DEF WorkerInv
<1>3. /\ \A c \in Conns : down'[c] = IF c \in HeldConns' THEN down[c] \o sent'[c]
                                     ELSE << >>
      /\ down' = [c \in Conns |-> down'[c]]
      /\ history' = IF room' = room THEN history ELSE Append(history, room')
  BY <1>0, ObjectTransmits DEF Transmitted
<1>4. \/ room' = room /\ history' = history /\ \A d \in Conns : Answers(d)
      \/ \E cmd : /\ Commits(cmd) /\ history' = Append(history, room')
                  /\ \A d \in Conns : Announces(d, cmd)
  <2>1. \A cmd : Commits(cmd) => room' # room
    BY <1>0, CommitsRoom
  <2> QED
    BY <1>0, <1>1, <1>3, <2>1, ObjectSends
<1>5. /\ HistoryInv' /\ room.sequence <= room'.sequence
      /\ \A r : InHistory(r, history) => InHistory(r, history')
      /\ \A m : Tells(m, history) => Tells(m, history')
  BY <1>0, <1>4, HistoryGrows DEF Recorded
<1>6. ASSUME NEW d \in Conns
      PROVE  /\ sent'[d] \in Seq(Messages)
             /\ \A i \in DOMAIN sent'[d] :
                  /\ Tells(sent'[d][i], history')
                  /\ sent'[d][i] \in Snapshots => sent'[d][i].room = room'
  BY <1>0, <1>4, SentTells
<1>7. ClientsInv'
  <2>1. \A c \in Conns : socket[c].status # "unused" =>
            socket'[c].status # "unused" /\ socket'[c].user = socket[c].user
    BY <1>0, <1>1, SocketsKept
  <2>2. CASE client' = client
    BY <1>0, <2>1, <2>2 DEF ClientsInv
  <2>3. ASSUME NEW u \in Users, client[u].mode = "ticket",
               client' = [client EXCEPT ![u].mode = "backoff"]
        PROVE  ClientsInv'
    <3>1. /\ client'[u] = [client[u] EXCEPT !.mode = "backoff"]
          /\ \A v \in Users \ {u} : client'[v] = client[v]
          /\ client' \in [Users -> [mode : Modes, conn : Conns \cup {NoConn}, sync : Replicas]]
      BY <1>0, <2>3 DEF ClientsInv, Modes
    <3>2. client'[u].mode = "backoff" /\ client'[u].conn = NoConn
      BY <1>0, <2>3, <3>1 DEF ClientsInv
    <3> QED
      BY <1>0, <2>1, <3>1, <3>2 DEF ClientsInv
  <2>4. ASSUME NEW u \in Users, NEW c \in Conns, client[u].mode = "ticket",
               client' = [client EXCEPT ![u].mode = "connected", ![u].conn = c],
               Connect(c, u), socket'[c].status = "open"
        PROVE  ClientsInv'
    <3>1. /\ client'[u].mode = "connected" /\ client'[u].conn = c
          /\ \A v \in Users \ {u} : client'[v] = client[v]
          /\ client' \in [Users -> [mode : Modes, conn : Conns \cup {NoConn}, sync : Replicas]]
      BY <1>0, <2>4 DEF ClientsInv, Modes
    <3>2. socket'[c].status # "unused" /\ socket'[c].user = u
      <4>1. \E x \in {"open", "closed"} :
               socket' = [socket EXCEPT ![c] = [status |-> x, user |-> u]]
        BY <2>4 DEF Connect, RefuseConnection, ConnectAgain, ConnectAndJoin,
                    ConnectHalfStored
      <4> QED
        BY <1>0, <4>1 DEF SocketOwners, SocketTable
    <3> QED
      BY <1>0, <2>1, <3>1, <3>2 DEF ClientsInv
  <2> QED
    BY <1>0, <2>2, <2>3, <2>4, ObjectLeavesClients
<1>8. UpInv'
  <2>0. room.sequence \in Nat /\ room'.sequence \in Nat
    BY <1>0, <1>2 DEF RoomInv, Rooms, WorkerInv, StoredInv
  <2>1. ASSUME NEW c \in Conns
        PROVE  /\ up'[c] \in Seq(Envelopes)
               /\ \A i \in DOMAIN up'[c] : \E j \in DOMAIN up[c] : up'[c][i] = up[c][j]
    <3>1. up \in [Conns -> Seq(Envelopes)] /\ up[c] \in Seq(Envelopes)
      BY <1>0 DEF UpInv
    <3>2. \/ up'[c] = up[c] \/ up'[c] = << >>
          \/ up[c] # << >> /\ up'[c] = Tail(up[c])
      BY <3>1 DEF ObjectMoves, Upgrade, HandleMessage, EndConnection,
                  RelayModeration, RestartObject
    <3>3. CASE up[c] # << >> /\ up'[c] = Tail(up[c])
      <4>1. /\ up'[c] \in Seq(Envelopes)
            /\ \A i \in DOMAIN up'[c] : i + 1 \in DOMAIN up[c] /\ up'[c][i] = up[c][i + 1]
        BY <3>1, <3>3
      <4> QED
        BY <4>1
    <3>4. CASE up'[c] = << >>
      BY <3>4
    <3> QED
      BY <3>1, <3>2, <3>3, <3>4
  <2>2. up' = [c \in Conns |-> up'[c]]
    BY <1>0 DEF UpInv, ObjectMoves, Upgrade, HandleMessage, EndConnection,
                RelayModeration, RestartObject
  <2>3. \A c \in Conns : \A j \in DOMAIN up[c] :
           up[c][j].expected \in Nat /\ up[c][j].expected <= room.sequence
    <3>1. \A c \in Conns : \A j \in DOMAIN up[c] : up[c][j] \in Envelopes
      BY <1>0 DEF UpInv
    <3> QED
      BY <1>0, <3>1 DEF UpInv, Envelopes
  <2>4. ASSUME NEW c \in Conns, NEW i \in DOMAIN up'[c]
        PROVE  up'[c][i].expected <= room'.sequence
    <3>1. PICK j \in DOMAIN up[c] : up'[c][i] = up[c][j]
      BY <2>1
    <3> QED
      BY <1>5, <2>0, <2>3, <3>1
  <2> QED
    BY <2>1, <2>2, <2>4 DEF UpInv
<1>9. DownInv'
  <2>1. ASSUME NEW c \in Conns
        PROVE  /\ down'[c] \in Seq(Messages)
               /\ c \notin HeldConns' => down'[c] = << >>
               /\ \A i \in DOMAIN down'[c] : Tells(down'[c][i], history')
    <3>1. CASE c \in HeldConns'
      <4>1. /\ down[c] \in Seq(Messages)
            /\ \A i \in DOMAIN down[c] : Tells(down[c][i], history')
        BY <1>0, <1>5 DEF DownInv
      <4>2. down'[c] = down[c] \o sent'[c]
        BY <1>3, <3>1
      <4>4. sent'[c] \in Seq(Messages)
        BY <1>6
      <4>3. /\ down'[c] \in Seq(Messages)
            /\ \A i \in DOMAIN down'[c] :
               \/ i \in DOMAIN down[c] /\ down'[c][i] = down[c][i]
               \/ \E j \in DOMAIN sent'[c] : down'[c][i] = sent'[c][j]
        BY <4>1, <4>2, <4>4, SentElements
      <4> QED
        BY <1>6, <3>1, <4>1, <4>2, <4>3
    <3>2. CASE c \notin HeldConns'
      <4>1. down'[c] = << >>
        BY <1>3, <3>2
      <4> QED
        BY <4>1
    <3> QED
      BY <3>1, <3>2
  <2> QED
    BY <1>3, <2>1 DEF DownInv
<1>10. /\ \A u \in Users : client'[u].sync = client[u].sync
       /\ shown' = shown
  BY <1>0, ObjectLeavesReplicas
<1>11. ReplicasInv'
  BY <1>0, <1>5, <1>10 DEF ReplicasInv
<1>12. ShownInv'
  <2>1. ASSUME NEW u \in Users, shown[u] # NoRoom, client[u].sync.room = NoRoom,
               client'[u].mode = "connected", NEW i \in DOMAIN down'[client'[u].conn],
               down'[client'[u].conn][i] \in Snapshots
        PROVE  shown[u].sequence <= down'[client'[u].conn][i].room.sequence
    <3>. DEFINE c == client'[u].conn
    <3>1. c \in Conns /\ c \in HeldConns'
      BY <1>7, <2>1 DEF ClientsInv, HeldConns, Holds
    <3>2. InHistory(shown[u], history')
      BY <1>0, <1>5, <2>1 DEF ShownInv
    <3>3. shown[u].sequence <= room'.sequence
      <4>1. RoomInv(room')
        BY <1>2 DEF WorkerInv, StoredInv
      <4>2. shown[u] \in Rooms /\ shown[u].sequence + 1 \in DOMAIN history'
        BY <3>2 DEF InHistory
      <4> QED
        BY <1>5, <4>1, <4>2 DEF HistoryInv, RoomInv, Rooms
    <3>4. down'[c] = down[c] \o sent'[c] /\ down[c] \in Seq(Messages)
      BY <1>0, <1>3, <3>1 DEF DownInv
    <3>5. \/ i \in DOMAIN down[c] /\ down'[c][i] = down[c][i]
          \/ \E j \in DOMAIN sent'[c] : down'[c][i] = sent'[c][j]
      <4>1. sent'[c] \in Seq(Messages)
        BY <1>6, <3>1
      <4> QED
        BY <2>1, <3>4, <4>1, SentElements
    <3>6. CASE \E j \in DOMAIN sent'[c] : down'[c][i] = sent'[c][j]
      BY <1>6, <2>1, <3>1, <3>3, <3>6
    <3>7. CASE i \in DOMAIN down[c] /\ down'[c][i] = down[c][i]
      <4>1. c \in HeldConns
        BY <1>0, <3>1, <3>7 DEF DownInv
      <4>2. client[u].mode = "connected" /\ client[u].conn = c
        <5>1. PICK v \in Users : client[v].mode = "connected" /\ client[v].conn = c
          BY <4>1 DEF HeldConns, Holds
        <5>2. client'[v].mode = "connected" /\ client'[v].conn = c
          BY <1>0, <5>1, ObjectLeavesClients DEF ClientsInv
        <5>3. v = u
          BY <1>7, <2>1, <5>2 DEF ClientsInv
        <5> QED
          BY <5>1, <5>3
      <4> QED
        BY <1>0, <2>1, <3>7, <4>2 DEF ShownInv
    <3> QED
      BY <3>5, <3>6, <3>7
  <2> QED
    BY <1>0, <1>5, <1>10, <2>1 DEF ShownInv
<1> QED
  BY <1>2, <1>5, <1>7, <1>8, <1>9, <1>11, <1>12 DEF SyncInv

-----------------------------------------------------------------------------
(* RoomSync: the steps of a client *)

Clients == [mode : Modes, conn : Conns \cup {NoConn}, sync : Replicas]

\* The client of user u becomes x, which keeps its connection or gives it up, and
\* takes from its own connection the first message or drops them all.
Becomes(u, x) ==
    /\ client' = [client EXCEPT ![u] = x]
    /\ IF x.mode \in {"connected", "closing"}
       THEN /\ client[u].mode \in {"connected", "closing"}
            /\ x.conn = client[u].conn
       ELSE x.conn = NoConn
    /\ x.mode = "ticket" => x.sync = AwaitingSnapshot
    /\ x.mode = "connected" => /\ client[u].mode = "connected"
                               /\ x.sync.room = NoRoom => client[u].sync.room = NoRoom
    /\ x.sync.room # NoRoom =>
          /\ InHistory(x.sync.room, history)
          /\ shown[u] # NoRoom => shown[u].sequence <= x.sync.room.sequence
    /\ DOMAIN down' = Conns
    /\ \A c \in Conns :
          \/ /\ down'[c] = down[c]
             /\ c = client[u].conn =>
                   (x.mode = "connected" <=> client[u].mode = "connected")
          \/ /\ c = client[u].conn
             /\ x.mode # "connected"
             /\ down'[c] = << >>
          \/ /\ c = client[u].conn
             /\ x.mode = "connected"
             /\ down[c] # << >>
             /\ down'[c] = Tail(down[c])

\* Every step of a client is of that kind, and the page shows the replica.
LEMMA ClientBecomes ==
    ASSUME SyncInv, NEW u \in Users, ClientMoves(u)
    PROVE  /\ \E x \in Clients : Becomes(u, x)
           /\ ClientStep
<1>0. /\ HistoryInv /\ ClientsInv /\ DownInv /\ ReplicasInv /\ ShownInv
      /\ client \in [Users -> Clients] /\ client[u] \in Clients
      /\ down \in [Conns -> Seq(Messages)]
  BY DEF SyncInv, ClientsInv, Clients, DownInv
<1>1. ClientStep
  BY DEF ClientMoves, TicketFails, Deliver, ConnectionLost, Reconnect, Stop, Return,
         SendCommand
<1>2. /\ client[u].sync \in Replicas
      /\ client[u].sync.room # NoRoom =>
            /\ InHistory(client[u].sync.room, history)
            /\ shown[u] = client[u].sync.room
            /\ shown[u].sequence \in Nat
  BY <1>0 DEF Clients, ReplicasInv, ShownInv, InHistory, Rooms
<1>3. client[u].conn = NoConn => client[u].conn \notin Conns
  BY SyncAssumption
<1>4. AwaitingSnapshot \in Replicas /\ AwaitingSnapshot.room = NoRoom
  BY DEF AwaitingSnapshot, Replicas
<1>5. CASE TicketFails(u)
  <2>. DEFINE x == [client[u] EXCEPT !.mode = "backoff"]
  <2>1. x \in Clients /\ x.mode = "backoff" /\ x.conn = NoConn /\ x.sync = client[u].sync
    BY <1>0, <1>5 DEF TicketFails, Clients, Modes, ClientsInv
  <2>2. /\ client' = [client EXCEPT ![u] = x] /\ down' = down
        /\ client[u].mode = "ticket" /\ client[u].conn = NoConn
    BY <1>0, <1>5 DEF TicketFails, ClientsInv
  <2>. HIDE DEF x
  <2>3. Becomes(u, x)
    BY <1>0, <1>2, <2>1, <2>2 DEF Becomes
  <2> QED
    BY <1>1, <2>1, <2>3
<1>6. CASE Deliver(u)
  <2>. DEFINE c == client[u].conn
              m == Head(down[c])
              s == Received(client[u].sync, m)
              x == [client[u] EXCEPT !.sync = s,
                                     !.mode = IF IsClosedBy(s) THEN "closing" ELSE @]
  <2>1. /\ client[u].mode = "connected" /\ c \in Conns /\ down[c] # << >>
        /\ client' = [client EXCEPT ![u] = x]
        /\ down' = [down EXCEPT ![c] = IF IsClosedBy(s) THEN << >> ELSE Tail(@)]
    BY <1>0, <1>6 DEF Deliver, ClientsInv
  <2>2. m \in Messages /\ Tells(m, history)
    <3>1. down[c] \in Seq(Messages) /\ 1 \in DOMAIN down[c] /\ m = down[c][1]
      BY <1>0, <2>1
    <3> QED
      BY <1>0, <2>1, <3>1 DEF DownInv
  <2>. HIDE DEF m
  <2>3. /\ s \in Replicas
        /\ s.room # NoRoom => InHistory(s.room, history)
        /\ client[u].sync.room # NoRoom =>
              s.room # NoRoom /\ client[u].sync.room.sequence <= s.room.sequence
        /\ client[u].sync.room = NoRoom /\ s.room # NoRoom =>
              m \in Snapshots /\ s.room = m.room
    BY <1>0, <1>2, <2>2, ReceivedRoom
  <2>4. shown[u] # NoRoom /\ s.room # NoRoom => shown[u].sequence <= s.room.sequence
    <3>1. CASE client[u].sync.room # NoRoom
      BY <1>2, <2>3, <3>1
    <3>2. CASE client[u].sync.room = NoRoom
      <4>1. down[c] \in Seq(Messages) /\ 1 \in DOMAIN down[c] /\ m = down[c][1]
        BY <1>0, <2>1 DEF m
      <4> QED
        BY <1>0, <2>1, <2>3, <3>2, <4>1 DEF ShownInv
    <3> QED
      BY <3>1, <3>2
  <2>. HIDE DEF s
  <2>5. /\ x \in Clients /\ x.conn = c /\ x.sync = s
        /\ x.mode = IF IsClosedBy(s) THEN "closing" ELSE "connected"
    BY <1>0, <2>1, <2>3 DEF Clients, Modes
  <2>6. /\ DOMAIN down' = Conns /\ \A d \in Conns \ {c} : down'[d] = down[d]
        /\ down'[c] = IF IsClosedBy(s) THEN << >> ELSE Tail(down[c])
    BY <1>0, <2>1
  <2>. HIDE DEF x, c
  <2>7. Becomes(u, x)
    <3>1. client[u].conn = c
      BY DEF c
    <3>2. CASE IsClosedBy(s)
      BY <2>1, <2>3, <2>4, <2>5, <2>6, <3>1, <3>2 DEF Becomes
    <3>3. CASE ~IsClosedBy(s)
      BY <2>1, <2>3, <2>4, <2>5, <2>6, <3>1, <3>3 DEF Becomes
    <3> QED
      BY <3>2, <3>3
  <2> QED
    BY <1>1, <2>5, <2>7
<1>7. CASE ConnectionLost(u)
  <2>. DEFINE c == client[u].conn
              s == IF client[u].sync.status = "synchronized"
                   THEN ResyncNeeded(client[u].sync.room) ELSE client[u].sync
              x == [client[u] EXCEPT !.mode = "backoff", !.conn = NoConn, !.sync = s]
  <2>1. /\ c \in Conns
        /\ client' = [client EXCEPT ![u] = x]
        /\ down' = [down EXCEPT ![c] = << >>]
    BY <1>0, <1>7 DEF ConnectionLost, ClientsInv
  <2>2. s \in Replicas /\ s.room = client[u].sync.room
    BY <1>2 DEF ResyncNeeded, Replicas
  <2>. HIDE DEF s
  <2>3. x \in Clients /\ x.mode = "backoff" /\ x.conn = NoConn /\ x.sync = s
    BY <1>0, <2>2 DEF Clients, Modes
  <2>4. /\ DOMAIN down' = Conns /\ \A d \in Conns \ {c} : down'[d] = down[d]
        /\ down'[c] = << >>
    BY <1>0, <2>1
  <2>. HIDE DEF x
  <2>5. Becomes(u, x)
    BY <1>2, <2>1, <2>2, <2>3, <2>4 DEF Becomes
  <2> QED
    BY <1>1, <2>3, <2>5
<1>8. CASE Reconnect(u)
  <2>. DEFINE x == [client[u] EXCEPT !.mode = "ticket", !.sync = AwaitingSnapshot]
  <2>1. /\ client[u].conn = NoConn /\ client[u].mode = "backoff"
        /\ client' = [client EXCEPT ![u] = x] /\ down' = down
    BY <1>0, <1>8 DEF Reconnect, ClientsInv
  <2>2. x \in Clients /\ x.mode = "ticket" /\ x.conn = NoConn /\ x.sync = AwaitingSnapshot
    BY <1>0, <1>4, <2>1 DEF Clients, Modes
  <2>. HIDE DEF x
  <2>3. Becomes(u, x)
    BY <1>0, <1>3, <1>4, <2>1, <2>2 DEF Becomes
  <2> QED
    BY <1>1, <2>2, <2>3
<1>9. CASE Stop(u)
  <2>1. /\ StoppedClient \in Clients /\ StoppedClient.mode = "stopped"
        /\ StoppedClient.conn = NoConn /\ StoppedClient.sync = AwaitingSnapshot
    BY <1>4 DEF StoppedClient, StartedClient, Clients, Modes
  <2>2. /\ client' = [client EXCEPT ![u] = StoppedClient]
        /\ down' = [d \in Conns |-> IF d = client[u].conn THEN << >> ELSE down[d]]
    BY <1>9 DEF Stop
  <2>3. Becomes(u, StoppedClient)
    BY <1>4, <2>1, <2>2 DEF Becomes
  <2> QED
    BY <1>1, <2>1, <2>3
<1>10. CASE Return(u)
  <2>1. /\ StartedClient \in Clients /\ StartedClient.mode = "ticket"
        /\ StartedClient.conn = NoConn /\ StartedClient.sync = AwaitingSnapshot
    BY <1>4 DEF StartedClient, Clients, Modes
  <2>2. /\ client' = [client EXCEPT ![u] = StartedClient] /\ down' = down
        /\ client[u].mode = "stopped" /\ client[u].conn = NoConn
    BY <1>0, <1>10 DEF Return, ClientsInv
  <2>3. Becomes(u, StartedClient)
    BY <1>0, <1>3, <1>4, <2>1, <2>2 DEF Becomes
  <2> QED
    BY <1>1, <2>1, <2>3
<1>11. ASSUME NEW id \in CommandIds, NEW cmd \in PageCommands(u),
              SendCommand(u, id, cmd)
       PROVE  \E x \in Clients : Becomes(u, x)
  <2>1. /\ client' = [client EXCEPT ![u] = client[u]] /\ down' = down
        /\ client[u].mode = "connected"
    BY <1>0, <1>11 DEF SendCommand
  <2>2. Becomes(u, client[u])
    BY <1>0, <1>2, <2>1 DEF Becomes
  <2> QED
    BY <1>0, <2>2
<1> QED
  BY <1>1, <1>5, <1>6, <1>7, <1>8, <1>9, <1>10, <1>11 DEF ClientMoves

\* A connection belongs to one client.
LEMMA HeldByOne ==
    ASSUME ClientsInv, NEW u \in Users, NEW v \in Users, NEW c \in Conns,
           client[u].conn = c, client[v].conn = c
    PROVE  u = v
  BY SyncAssumption DEF ClientsInv

\* The commands a client sends carry the sequence of its replica.
LEMMA SentEnvelope ==
    ASSUME SyncInv, NEW u \in Users, NEW id \in CommandIds,
           NEW cmd \in PageCommands(u), SendCommand(u, id, cmd)
    PROVE  UpInv'
<1>. DEFINE c == client[u].conn
            r == client[u].sync.room
            e == EnvelopeOf(id, r.sequence, cmd)
<1>0. /\ WorkerInv /\ HistoryInv /\ ClientsInv /\ UpInv /\ ReplicasInv
      /\ RoomInv(room) /\ room.sequence \in Nat
  BY DEF SyncInv, WorkerInv, StoredInv, RoomInv, Rooms
<1>1. /\ c \in Conns /\ client[u].sync.status = "synchronized"
      /\ up' = [up EXCEPT ![c] = Append(@, e)] /\ room' = room
  BY <1>0 DEF SendCommand, ClientsInv, ClientStep, workerVars, stored
<1>2. InHistory(r, history)
  <2>1. client[u].sync \in Replicas
    BY <1>0 DEF ClientsInv
  <2> QED
    BY <1>0, <1>1, <2>1 DEF Replicas, ReplicasInv
<1>3. r.sequence \in Nat /\ r.sequence <= room.sequence
  BY <1>0, <1>2, NewestRoom
<1>4. e \in Envelopes /\ e.expected = r.sequence
  <2>1. cmd \in ClientCommandsOf[u]
    BY DEF PageCommands
  <2>2. cmd \in Commands
    BY <2>1, ClientCommandsPermitted DEF Permitted
  <2> QED
    BY <1>3, <2>2 DEF EnvelopeOf, Envelopes
<1>. HIDE DEF e, r, c
<1>5. ASSUME NEW d \in Conns
      PROVE  /\ up'[d] \in Seq(Envelopes)
             /\ \A i \in DOMAIN up'[d] : up'[d][i].expected <= room.sequence
  <2>1. up[d] \in Seq(Envelopes) /\ \A i \in DOMAIN up[d] : up[d][i].expected <= room.sequence
    BY <1>0 DEF UpInv
  <2>2. CASE d = c
    <3>1. up'[d] = Append(up[d], e)
      BY <1>0, <1>1, <2>2 DEF UpInv
    <3>. DEFINE p == up[d] q == up'[d]
    <3>2. q = Append(p, e) /\ p \in Seq(Envelopes)
          /\ \A i \in DOMAIN p : p[i].expected <= room.sequence
      BY <2>1, <3>1
    <3>. HIDE DEF p, q
    <3>3. q \in Seq(Envelopes) /\ \A i \in DOMAIN q : q[i] = e \/ (i \in DOMAIN p /\ q[i] = p[i])
      BY <1>4, <3>2
    <3>4. q \in Seq(Envelopes) /\ \A i \in DOMAIN q : q[i].expected <= room.sequence
      BY <1>3, <1>4, <3>2, <3>3
    <3> QED
      BY <3>4 DEF q
  <2>3. CASE d # c
    <3>1. up'[d] = up[d]
      BY <1>0, <1>1, <2>3 DEF UpInv
    <3> QED
      BY <2>1, <3>1
  <2> QED
    BY <2>2, <2>3
<1>6. up' = [d \in Conns |-> up'[d]]
  BY <1>0, <1>1 DEF UpInv
<1> QED
  BY <1>1, <1>5, <1>6 DEF UpInv

\* No step of a client breaks the invariant.
LEMMA ClientKeepsSyncInv ==
    ASSUME SyncInv, NEW u \in Users, ClientMoves(u)
    PROVE  SyncInv'
<1>0. /\ WorkerInv /\ HistoryInv /\ ClientsInv /\ UpInv /\ DownInv /\ ReplicasInv
      /\ ShownInv
      /\ client \in [Users -> Clients] /\ client[u] \in Clients
      /\ down \in [Conns -> Seq(Messages)]
  BY DEF SyncInv, ClientsInv, Clients, DownInv
<1>1. PICK x \in Clients : Becomes(u, x)
  BY ClientBecomes
<1>2. UNCHANGED workerVars /\ history' = history /\ Displayed
  BY ClientBecomes DEF ClientStep
<1>3. WorkerInv'
  BY <1>0, <1>2, NextOwners, NextStored, NextRegistry DEF WorkerInv
<1>4. HistoryInv'
  BY <1>0, <1>2 DEF HistoryInv, workerVars, stored
<1>5. /\ client' \in [Users -> Clients] /\ client'[u] = x
      /\ \A v \in Users \ {u} : client'[v] = client[v]
  BY <1>0, <1>1 DEF Becomes
<1>6. ClientsInv'
  <2>1. socket' = socket
    BY <1>2 DEF workerVars
  <2>2. client' \in [Users -> [mode : Modes, conn : Conns \cup {NoConn}, sync : Replicas]]
    BY <1>5 DEF Clients
  <2>3. \A v \in Users \ {u} :
           /\ IF client'[v].mode \in {"connected", "closing"}
              THEN /\ client'[v].conn \in Conns
                   /\ socket'[client'[v].conn].status # "unused"
                   /\ socket'[client'[v].conn].user = v
              ELSE client'[v].conn = NoConn
           /\ client'[v].mode = "ticket" => client'[v].sync = AwaitingSnapshot
    BY <1>0, <1>5, <2>1 DEF ClientsInv
  <2>4. /\ IF x.mode \in {"connected", "closing"}
           THEN /\ x.conn \in Conns
                /\ socket'[x.conn].status # "unused"
                /\ socket'[x.conn].user = u
           ELSE x.conn = NoConn
        /\ x.mode = "ticket" => x.sync = AwaitingSnapshot
    BY <1>0, <1>1, <2>1 DEF ClientsInv, Becomes
  <2> QED
    BY <1>5, <2>2, <2>3, <2>4 DEF ClientsInv
<1>7. UpInv'
  <2>1. CASE \E id \in CommandIds, cmd \in PageCommands(u) : SendCommand(u, id, cmd)
    BY <2>1, SentEnvelope
  <2>2. CASE up' = up
    BY <1>0, <1>2, <2>2 DEF UpInv, workerVars, stored
  <2> QED
    BY <2>1, <2>2 DEF ClientMoves, TicketFails, Deliver, ConnectionLost, Reconnect,
                      Stop, Return
<1>8. ASSUME NEW c \in Conns
      PROVE  /\ down'[c] \in Seq(Messages)
             /\ \A i \in DOMAIN down'[c] : \E j \in DOMAIN down[c] : down'[c][i] = down[c][j]
  <2>1. down[c] \in Seq(Messages)
    BY <1>0
  <2>2. CASE down'[c] = down[c]
    BY <2>1, <2>2
  <2>3. CASE down'[c] = << >>
    BY <2>3
  <2>4. CASE down[c] # << >> /\ down'[c] = Tail(down[c])
    <3>1. /\ down'[c] \in Seq(Messages)
          /\ \A i \in DOMAIN down'[c] :
                i + 1 \in DOMAIN down[c] /\ down'[c][i] = down[c][i + 1]
      BY <2>1, <2>4
    <3> QED
      BY <3>1
  <2> QED
    BY <1>1, <2>2, <2>3, <2>4 DEF Becomes
<1>9. DownInv'
  <2>1. ASSUME NEW c \in Conns, c \notin HeldConns'
        PROVE  down'[c] = << >>
    <3>1. CASE c = client[u].conn /\ client[u].mode = "connected"
      <4>1. ~(x.mode = "connected" /\ x.conn = c)
        BY <1>5, <2>1 DEF HeldConns, Holds
      <4>2. x.mode # "connected"
        BY <1>1, <3>1, <4>1 DEF Becomes
      <4> QED
        BY <1>1, <3>1, <4>2 DEF Becomes
    <3>2. CASE ~(c = client[u].conn /\ client[u].mode = "connected")
      <4>1. c \notin HeldConns
        <5>1. ASSUME NEW v \in Users, Holds(v, c) PROVE FALSE
          <6>1. v # u
            BY <3>2, <5>1 DEF Holds
          <6> QED
            BY <1>5, <2>1, <5>1, <6>1 DEF HeldConns, Holds
        <5> QED
          BY <5>1 DEF HeldConns
      <4>2. down[c] = << >>
        BY <1>0, <4>1 DEF DownInv
      <4> QED
        BY <1>1, <4>2 DEF Becomes
    <3> QED
      BY <3>1, <3>2
  <2>2. ASSUME NEW c \in Conns, NEW i \in DOMAIN down'[c]
        PROVE  Tells(down'[c][i], history')
    BY <1>0, <1>2, <1>8 DEF DownInv
  <2>3. down' \in [Conns -> Seq(Messages)]
    <3>1. CASE down' = down
      BY <1>0, <3>1
    <3>2. CASE \E c, m : down' = [down EXCEPT ![c] = m]
      BY <1>0, <1>8, <3>2
    <3>3. CASE down' = [d \in Conns |-> IF d = client[u].conn THEN << >> ELSE down[d]]
      BY <1>8, <3>3
    <3>4. Deliver(u) => \E c, m : down' = [down EXCEPT ![c] = m]
      BY Zenon DEF Deliver
    <3>5. ConnectionLost(u) => \E c, m : down' = [down EXCEPT ![c] = m]
      BY Zenon DEF ConnectionLost
    <3>6. Stop(u) => down' = [d \in Conns |-> IF d = client[u].conn THEN << >>
                                             ELSE down[d]]
      BY DEF Stop
    <3>7. \/ TicketFails(u) \/ Reconnect(u) \/ Return(u)
          \/ \E id \in CommandIds, cmd \in PageCommands(u) : SendCommand(u, id, cmd)
          => down' = down
      BY DEF TicketFails, Reconnect, Return, SendCommand
    <3> QED
      BY <3>1, <3>2, <3>3, <3>4, <3>5, <3>6, <3>7 DEF ClientMoves
  <2> QED
    BY <2>1, <2>2, <2>3 DEF DownInv
<1>10. ReplicasInv'
  BY <1>0, <1>1, <1>2, <1>5 DEF ReplicasInv, Becomes
<1>11. ShownInv'
  <2>0. NoRoom \notin Rooms
    BY SyncAssumption
  <2>1. shown' = [v \in Users |-> IF client'[v].sync.room = NoRoom THEN shown[v]
                                  ELSE client'[v].sync.room]
    BY <1>2 DEF Displayed
  <2>2. \A v \in Users : client'[v].sync.room # NoRoom => InHistory(client'[v].sync.room, history)
    BY <1>2, <1>10 DEF ReplicasInv
  <2>3. shown' \in [Users -> Rooms \cup {NoRoom}]
    BY <1>0, <2>1, <2>2 DEF ShownInv, InHistory
  <2>4. \A v \in Users : shown'[v] # NoRoom => InHistory(shown'[v], history')
    BY <1>0, <1>2, <2>1, <2>2 DEF ShownInv
  <2>5. ASSUME NEW v \in Users, shown'[v] # NoRoom, client'[v].sync.room = NoRoom,
               client'[v].mode = "connected", NEW i \in DOMAIN down'[client'[v].conn],
               down'[client'[v].conn][i] \in Snapshots
        PROVE  shown'[v].sequence <= down'[client'[v].conn][i].room.sequence
    <3>1. /\ shown'[v] = shown[v] /\ client[v].sync.room = NoRoom
          /\ client[v].mode = "connected" /\ client'[v].conn = client[v].conn
          /\ client[v].conn \in Conns
      BY <1>0, <1>1, <1>5, <2>1, <2>5 DEF Becomes, ClientsInv
    <3>2. PICK j \in DOMAIN down[client[v].conn] :
             down'[client[v].conn][i] = down[client[v].conn][j]
      BY <1>8, <2>5, <3>1
    <3> QED
      BY <1>0, <2>5, <3>1, <3>2 DEF ShownInv
  <2> QED
    BY <2>1, <2>3, <2>4, <2>5 DEF ShownInv
<1> QED
  BY <1>3, <1>4, <1>6, <1>7, <1>9, <1>10, <1>11 DEF SyncInv

-----------------------------------------------------------------------------
(* RoomSync: the invariant of the composition *)

\* Every step but a stutter is one of the object or of a client.
LEMMA NextKeepsSyncInv ==
    ASSUME SyncInv, [SyncNext]_syncVars
    PROVE  SyncInv'
<1>1. CASE SyncNext
  BY <1>1, SyncMoves, ObjectKeepsSyncInv, ClientKeepsSyncInv
<1>2. CASE UNCHANGED syncVars
  <2>1. UNCHANGED workerVars /\ UNCHANGED <<client, up, down, history, shown>>
    BY <1>2 DEF syncVars
  <2>2. room' = room /\ socket' = socket
    BY <2>1 DEF workerVars, stored
  <2>3. WorkerInv'
    BY <2>1, NextOwners, NextStored, NextRegistry DEF SyncInv, WorkerInv
  <2>4. HeldConns' = HeldConns
    BY <2>1 DEF HeldConns, Holds
  <2>5. HistoryInv' /\ ClientsInv' /\ UpInv'
    BY <2>1, <2>2 DEF SyncInv, HistoryInv, ClientsInv, UpInv
  <2>6. DownInv' /\ ReplicasInv' /\ ShownInv'
    BY <2>1, <2>2, <2>4 DEF SyncInv, DownInv, ReplicasInv, ShownInv
  <2> QED
    BY <2>3, <2>5, <2>6 DEF SyncInv
<1> QED
  BY <1>1, <1>2

\* At first the history is the empty room, and nothing is under way or shown.
LEMMA InitSyncInv == SyncInit => SyncInv
<1>. SUFFICES ASSUME SyncInit PROVE SyncInv
  OBVIOUS
<1>1. WorkerInv
  BY InitOwners, InitStored, InitRegistry DEF SyncInit, WorkerInv
<1>2. /\ room = InitialRoom /\ history = <<InitialRoom>> /\ RoomInv(room)
      /\ room \in Rooms /\ room.sequence = 0
  BY <1>1 DEF SyncInit, Init, InitialRoom, WorkerInv, StoredInv, RoomInv
<1>3. HistoryInv
  BY <1>2 DEF HistoryInv
<1>4. AwaitingSnapshot \in Replicas /\ AwaitingSnapshot.room = NoRoom
  BY DEF AwaitingSnapshot, Replicas
<1>5. \A u \in Users : /\ client[u] \in {StartedClient, StoppedClient}
                       /\ client[u].mode \in {"ticket", "stopped"}
                       /\ client[u].conn = NoConn /\ client[u].sync = AwaitingSnapshot
                       /\ client[u] \in Clients
  BY <1>4 DEF SyncInit, StartedClient, StoppedClient, Clients, Modes
<1>6. ClientsInv
  <2>1. client \in [Users -> Clients]
    BY <1>5 DEF SyncInit
  <2> QED
    BY <1>5, <2>1 DEF ClientsInv, Clients
<1>7. UpInv /\ DownInv
  BY DEF SyncInit, UpInv, DownInv
<1>8. ReplicasInv /\ ShownInv
  BY <1>4, <1>5 DEF SyncInit, ReplicasInv, ShownInv
<1> QED
  BY <1>1, <1>3, <1>6, <1>7, <1>8 DEF SyncInv

\* Whatever is lost, fails or restarts, what is under way and what the replicas
\* hold belongs to the one history of the room.
THEOREM SpecSyncInv == SyncSpec => []SyncInv
<1>1. SyncInv /\ [SyncNext]_syncVars => SyncInv'
  BY NextKeepsSyncInv
<1> QED
  BY <1>1, InitSyncInv, PTL DEF SyncSpec

\* A room a replica holds is the room the object had at that sequence.
THEOREM SpecReplicaAgreement == SyncSpec => []ReplicaAgreement
<1>1. SyncInv => ReplicaAgreement
  <2>. SUFFICES ASSUME SyncInv, NEW u \in Users, client[u].sync.room # NoRoom
                PROVE  LET r == client[u].sync.room
                       IN  r.sequence < Len(history) /\ r = history[r.sequence + 1]
    BY DEF ReplicaAgreement
  <2>1. InHistory(client[u].sync.room, history) /\ history \in Seq(Rooms)
    BY DEF SyncInv, ReplicasInv, HistoryInv
  <2> QED
    BY <2>1 DEF InHistory, Rooms
<1> QED
  BY <1>1, SpecSyncInv, PTL

\* The composition only runs the object: what holds of its specification holds
\* with the clients attached.
THEOREM SyncImplementsWorker == SyncSpec => Spec
<1>1. SyncInit => Init
  BY DEF SyncInit
<1>2. SyncInv /\ [SyncNext]_syncVars => [Next]_workerVars
  <2>. SUFFICES ASSUME SyncInv, [SyncNext]_syncVars PROVE [Next]_workerVars
    OBVIOUS
  <2>0. RoomInv(room) /\ UpInv
    BY DEF SyncInv, WorkerInv, StoredInv
  <2>1. ASSUME NEW u \in Users, ClientMoves(u) PROVE UNCHANGED workerVars
    BY <2>1, ClientBecomes DEF ClientStep
  <2>2. CASE UNCHANGED syncVars
    BY <2>2 DEF syncVars
  <2> QED
    BY <2>0, <2>1, <2>2, SyncMoves, ObjectMovesNext
<1> QED
  BY <1>1, <1>2, SpecSyncInv, PTL DEF SyncSpec, Spec

-----------------------------------------------------------------------------
(* RoomSync: the pages and the history *)

\* The promise and the object read the same room-brain.ts.
LEMMA SameRooms ==
    /\ Log!InitialRoom = InitialRoom
    /\ Log!Commands = Commands
    /\ \A r, c : /\ Log!Accepts(r, c) = Accepts(r, c)
                 /\ Log!Applied(r, c) = Applied(r, c)
<1>1. \A r : Log!Participants(r) = Participants(r)
  BY DEF Participants, Log!Participants, Absent, Log!Absent
<1>2. Log!InitialRoom = InitialRoom
  BY DEF InitialRoom, Log!InitialRoom, Absent, Log!Absent
<1>3. Log!Commands = Commands
  BY DEF Commands, Log!Commands, ClientCommands, Log!ClientCommands,
         RemovalCommands, Log!RemovalCommands, JoinCommands, Log!JoinCommands,
         PersonalCommands, Log!PersonalCommands, SeatCommands, Log!SeatCommands,
         LockCommands, Log!LockCommands, ReactCommands, Log!ReactCommands,
         Roles, Log!Roles
<1>4. \A r, c : Log!Applied(r, c) = Applied(r, c)
  <2>1. \A q, u : Log!Without(q, u) = Without(q, u)
    BY Zenon DEF Without, Log!Without
  <2>2. \A r, u, x : Log!Assigned(r, u, x) = Assigned(r, u, x)
    BY <2>1, Zenon DEF Assigned, Log!Assigned
  <2>3. \A r, c : Log!Effect(r, c) = Effect(r, c)
    BY <2>1, <2>2, Zenon DEF Effect, Log!Effect, Absent, Log!Absent, Queued,
                             Log!Queued
  <2> QED
    BY <2>3, Zenon DEF Applied, Log!Applied
<1>5. \A r, c : Log!Accepts(r, c) = Accepts(r, c)
  BY <1>1 DEF Accepts, Log!Accepts, Admits, Log!Admits, MayRequestSeat,
              Log!MayRequestSeat, Moderates, Log!Moderates, ModeratingRoles,
              Log!ModeratingRoles, Absent, Log!Absent
<1> QED
  BY <1>2, <1>3, <1>4, <1>5

\* The object commits a change and shows nothing, or only answers.
LEMMA ObjectImplementsLog ==
    ASSUME SyncInv, ObjectMoves
    PROVE  [Log!Next]_(Log!logVars)
<1>0. RoomInv(room) /\ SocketOwners /\ HistoryInv /\ ClientsInv /\ ShownInv /\ UpInv
  BY DEF SyncInv, WorkerInv, StoredInv
<1>1. shown' = shown
  BY <1>0, ObjectLeavesReplicas
<1>2. history' = IF room' = room THEN history ELSE Append(history, room')
  BY <1>0, ObjectTransmits DEF Transmitted
<1>3. room' = room \/ \E cmd : Commits(cmd)
  BY <1>0, ObjectMovesNext, ObjectSends
<1>4. CASE room' = room
  BY <1>1, <1>2, <1>4 DEF Log!logVars
<1>5. ASSUME NEW cmd, Commits(cmd) PROVE Log!Commit
  <2>1. history' = Append(history, room') /\ cmd \in Commands
    BY <1>0, <1>2, <1>5, CommitsRoom
  <2>2. Log!Newest = room
    BY <1>0 DEF HistoryInv, Log!Newest
  <2>3. Len(history') = Len(history) + 1
    BY <1>0, <2>1 DEF HistoryInv
  <2>4. /\ room.sequence < MaxSequence /\ Log!Accepts(room, cmd)
        /\ history' = Append(history, Log!Applied(room, cmd))
        /\ cmd \in Log!Commands
    BY <1>5, <2>1, SameRooms, Zenon DEF Commits
  <2> QED
    BY <1>1, <2>2, <2>3, <2>4 DEF Log!Commit
<1> QED
  BY <1>3, <1>4, <1>5 DEF Log!Next

\* A client makes its page show a room of the history no older than before, or
\* changes nothing of what is shown.
LEMMA ClientImplementsLog ==
    ASSUME SyncInv, NEW u \in Users, ClientMoves(u)
    PROVE  [Log!Next]_(Log!logVars)
<1>0. /\ ClientsInv /\ ShownInv /\ HistoryInv
      /\ client \in [Users -> Clients] /\ shown \in [Users -> Rooms \cup {NoRoom}]
  BY DEF SyncInv, ClientsInv, Clients, ShownInv
<1>1. PICK x \in Clients : Becomes(u, x)
  BY ClientBecomes
<1>2. history' = history /\ Displayed
  BY ClientBecomes DEF ClientStep
<1>3. client'[u] = x /\ \A v \in Users \ {u} : client'[v] = client[v]
  BY <1>0, <1>1 DEF Becomes
<1>4. /\ \A v \in Users \ {u} : shown'[v] = shown[v]
      /\ shown'[u] = IF x.sync.room = NoRoom THEN shown[u] ELSE x.sync.room
      /\ DOMAIN shown' = Users
  BY <1>0, <1>2, <1>3 DEF Displayed, ShownInv
<1>5. CASE x.sync.room = NoRoom
  <2>1. shown' = shown
    BY <1>0, <1>2, <1>4, <1>5 DEF Displayed
  <2> QED
    BY <1>2, <2>1 DEF Log!logVars
<1>6. CASE x.sync.room # NoRoom
  <2>1. /\ InHistory(x.sync.room, history)
        /\ shown[u] # NoRoom => shown[u].sequence <= x.sync.room.sequence
    BY <1>1, <1>6 DEF Becomes
  <2>2. shown' = [shown EXCEPT ![u] = x.sync.room]
    BY <1>0, <1>2, <1>4, <1>6 DEF Displayed
  <2>. DEFINE i == x.sync.room.sequence + 1
  <2>3. i \in DOMAIN history /\ history[i] = x.sync.room
    BY <2>1 DEF InHistory
  <2>. HIDE DEF i
  <2>4. Log!Show(u)
    BY <1>2, <2>1, <2>2, <2>3 DEF Log!Show
  <2> QED
    BY <2>4 DEF Log!Next
<1> QED
  BY <1>5, <1>6

\* Every page shows rooms of the one history of the room and never goes back in
\* it, through lost sockets, resyncs, reconnects, new pages and restarts.
THEOREM SyncImplementsLog == SyncSpec => ImplementsReplicatedRoom
<1>1. SyncInit => Log!Init
  BY SameRooms DEF SyncInit, Log!Init
<1>2. SyncInv /\ [SyncNext]_syncVars => [Log!Next]_(Log!logVars)
  <2>1. CASE UNCHANGED syncVars
    BY <2>1 DEF syncVars, Log!logVars
  <2> QED
    BY <2>1, SyncMoves, ObjectImplementsLog, ClientImplementsLog
<1> QED
  BY <1>1, <1>2, SpecSyncInv, PTL DEF SyncSpec, ImplementsReplicatedRoom, Log!Spec

-----------------------------------------------------------------------------
(* RoomSync: the order of the messages on a live connection *)

\* The messages that bring a replica forward, and where to.
News == Snapshots \cup Changes

SequenceOf(m) == IF m \in Snapshots THEN m.room.sequence ELSE m.sequence

\* Sequence n comes before news m: no later, and earlier than a change.
Precedes(n, m) == n <= SequenceOf(m) /\ (m \in Changes => n < SequenceOf(m))

\* A replica that holds room k, or one of the messages q to it, is at n.
Reaches(k, q, n) ==
    \/ k # NoRoom /\ k.sequence = n
    \/ \E i \in DOMAIN q : q[i] \in News /\ SequenceOf(q[i]) = n

\* The replica or a message before the i-th is one sequence behind it.
Foretold(k, q, i) ==
    \/ k # NoRoom /\ k.sequence + 1 = q[i].sequence
    \/ \E j \in DOMAIN q : j < i /\ q[j] \in News /\ SequenceOf(q[j]) + 1 = q[i].sequence

\* The messages q lead a replica that holds room k on without a gap.
Ordered(k, q) ==
    /\ k # NoRoom => \A i \in DOMAIN q : q[i] \in News => Precedes(k.sequence, q[i])
    /\ \A i, j \in DOMAIN q :
          j < i /\ q[j] \in News /\ q[i] \in News => Precedes(SequenceOf(q[j]), q[i])
    /\ \A i \in DOMAIN q : q[i] \in Changes => Foretold(k, q, i)

\* Neither room k nor the messages q are further than n.
UpTo(k, q, n) ==
    /\ k # NoRoom => k.sequence <= n
    /\ \A i \in DOMAIN q : q[i] \in News => SequenceOf(q[i]) <= n

NoneClosing == \A c \in Conns : socket[c].status # "closing"

\* Only a client that lost its connection needs a resync; the messages to one
\* that is connected are in order, and reach the object's room while its socket
\* is open.
OrderInv ==
    \A u \in Users :
       /\ client[u].mode # "closing"
       /\ client[u].sync.status = "resync_required" => client[u].mode = "backoff"
       /\ client[u].mode = "connected" =>
             LET c == client[u].conn
                 k == client[u].sync.room
             IN  /\ Ordered(k, down[c])
                 /\ socket[c].status = "open" => Reaches(k, down[c], room.sequence)

\* The sequences of messages are natural numbers.
LEMMA NewsSequence ==
    ASSUME NEW m \in News
    PROVE  /\ SequenceOf(m) \in Nat
           /\ m \in Snapshots => SequenceOf(m) = m.room.sequence /\ m \notin Changes
           /\ m \in Changes => SequenceOf(m) = m.sequence
  BY MessageKinds DEF News, SequenceOf, Snapshots, Changes, Rooms

\* A message that comes last and in order keeps the messages in order.
LEMMA OrderedThen ==
    ASSUME NEW k \in Rooms \cup {NoRoom}, NEW p \in Seq(Messages), NEW m \in Messages,
           NEW n \in Nat, Ordered(k, p), UpTo(k, p, n), NEW q, q = Append(p, m)
    PROVE  /\ m \in QuietMessages => /\ Ordered(k, q) /\ UpTo(k, q, n)
                                     /\ Reaches(k, p, n) => Reaches(k, q, n)
           /\ m \in Snapshots /\ m.room.sequence >= n =>
                 Ordered(k, q) /\ Reaches(k, q, m.room.sequence)
           /\ m \in Changes /\ m.sequence = n + 1 /\ Reaches(k, p, n) =>
                 Ordered(k, q) /\ Reaches(k, q, n + 1)
<1>. DEFINE l == Len(p) + 1
<1>1. /\ Len(p) \in Nat /\ DOMAIN p = 1 .. Len(p) /\ DOMAIN q = 1 .. l /\ q[l] = m
      /\ \A i \in DOMAIN p : q[i] = p[i]
      /\ l \in DOMAIN q /\ l \notin DOMAIN p
      /\ \A i \in DOMAIN q : i \in DOMAIN p \/ i = l
      /\ \A i \in DOMAIN p : i \in DOMAIN q /\ i < l /\ ~(l < i)
  OBVIOUS
<1>. HIDE DEF l
<1>2. m \in Changes /\ Reaches(k, p, m.sequence - 1) => Foretold(k, q, l)
  <2>. SUFFICES ASSUME m \in Changes, Reaches(k, p, m.sequence - 1) PROVE Foretold(k, q, l)
    OBVIOUS
  <2>1. m.sequence \in Nat
    BY DEF Changes
  <2>2. CASE k # NoRoom /\ k.sequence = m.sequence - 1
    BY <1>1, <2>1, <2>2 DEF Foretold, Rooms
  <2>3. ASSUME NEW j \in DOMAIN p, p[j] \in News, SequenceOf(p[j]) = m.sequence - 1
        PROVE  Foretold(k, q, l)
    BY <1>1, <2>1, <2>3, NewsSequence DEF Foretold
  <2> QED
    BY <2>2, <2>3 DEF Reaches
<1>3. \A i \in DOMAIN p : Foretold(k, p, i) => Foretold(k, q, i)
  BY <1>1 DEF Foretold
<1>4. ASSUME m \in News => /\ k # NoRoom => Precedes(k.sequence, m)
                           /\ \A j \in DOMAIN p : p[j] \in News =>
                                 Precedes(SequenceOf(p[j]), m),
             m \in Changes => Foretold(k, q, l)
      PROVE  Ordered(k, q)
  <2>1. k # NoRoom => \A i \in DOMAIN q : q[i] \in News => Precedes(k.sequence, q[i])
    BY <1>1, <1>4 DEF Ordered
  <2>2. ASSUME NEW i \in DOMAIN q, NEW j \in DOMAIN q, j < i, q[j] \in News, q[i] \in News
        PROVE  Precedes(SequenceOf(q[j]), q[i])
    <3>1. j \in DOMAIN p
      BY <1>1, <2>2
    <3>2. CASE i \in DOMAIN p
      BY <1>1, <2>2, <3>1, <3>2 DEF Ordered
    <3>3. CASE i = l
      BY <1>1, <1>4, <2>2, <3>1, <3>3
    <3> QED
      BY <1>1, <3>2, <3>3
  <2>3. \A i \in DOMAIN q : q[i] \in Changes => Foretold(k, q, i)
    BY <1>1, <1>3, <1>4 DEF Ordered
  <2> QED
    BY <2>1, <2>2, <2>3 DEF Ordered
<1>5. CASE m \in QuietMessages
  <2>1. m \notin News /\ m \notin Snapshots /\ m \notin Changes
    BY <1>5, MessageKinds DEF News
  <2>2. Ordered(k, q)
    BY <1>4, <2>1
  <2>3. UpTo(k, q, n)
    BY <1>1, <2>1 DEF UpTo
  <2>4. Reaches(k, p, n) => Reaches(k, q, n)
    BY <1>1 DEF Reaches
  <2> QED
    BY <2>1, <2>2, <2>3, <2>4
<1>6. ASSUME m \in Snapshots, m.room.sequence >= n
      PROVE  Ordered(k, q) /\ Reaches(k, q, m.room.sequence)
  <2>1. m \in News /\ m \notin Changes /\ SequenceOf(m) = m.room.sequence /\ SequenceOf(m) \in Nat
    BY <1>6, NewsSequence DEF News
  <2>2. k # NoRoom => Precedes(k.sequence, m)
    BY <1>6, <2>1 DEF UpTo, Precedes, Rooms
  <2>3. ASSUME NEW j \in DOMAIN p, p[j] \in News PROVE Precedes(SequenceOf(p[j]), m)
    BY <1>6, <2>1, <2>3, NewsSequence DEF UpTo, Precedes
  <2> QED
    BY <1>1, <1>4, <2>1, <2>2, <2>3 DEF Reaches
<1>7. ASSUME m \in Changes, m.sequence = n + 1, Reaches(k, p, n)
      PROVE  Ordered(k, q) /\ Reaches(k, q, n + 1)
  <2>1. m \in News /\ SequenceOf(m) = n + 1 /\ m.sequence - 1 = n
    BY <1>7, NewsSequence DEF News
  <2>2. k # NoRoom => Precedes(k.sequence, m)
    BY <2>1 DEF UpTo, Precedes, Rooms
  <2>3. ASSUME NEW j \in DOMAIN p, p[j] \in News PROVE Precedes(SequenceOf(p[j]), m)
    BY <2>1, <2>3, NewsSequence DEF UpTo, Precedes
  <2>4. Foretold(k, q, l)
    BY <1>2, <1>7, <2>1
  <2> QED
    BY <1>1, <1>4, <2>1, <2>2, <2>3, <2>4 DEF Reaches
<1>8. m \in Snapshots \/ m \in Changes => m \notin QuietMessages
  BY MessageKinds
<1> QED
  BY <1>5, <1>6, <1>7

\* A replica that is not waiting for a resync follows the first message of an
\* ordered sequence, and the rest is in order again.
LEMMA OrderedAfter ==
    ASSUME HistoryInv, NEW s \in Replicas, s.status # "resync_required",
           s.room # NoRoom => InHistory(s.room, history),
           NEW q \in Seq(Messages), q # << >>, \A i \in DOMAIN q : Tells(q[i], history),
           Ordered(s.room, q), NEW t, t = Received(s, Head(q))
    PROVE  /\ t.status # "resync_required"
           /\ Ordered(t.room, Tail(q))
           /\ \A n \in Nat : UpTo(s.room, q, n) /\ Reaches(s.room, q, n)
                                 => Reaches(t.room, Tail(q), n)
<1>. DEFINE m == Head(q) r == Tail(q)
<1>0. /\ m = q[1] /\ m \in Messages /\ 1 \in DOMAIN q /\ Tells(m, history)
      /\ r \in Seq(Messages)
      /\ \A i \in DOMAIN r : i \in Nat /\ i + 1 \in DOMAIN q /\ r[i] = q[i + 1] /\ 1 < i + 1
      /\ \A i \in DOMAIN q : i # 1 => i - 1 \in DOMAIN r /\ r[i - 1] = q[i]
  OBVIOUS
<1>1. /\ s.status \in {"awaiting_snapshot", "synchronized"}
      /\ s.room \in Rooms \cup {NoRoom} /\ NoRoom \notin Rooms
      /\ s.room # NoRoom => s.status = "synchronized" /\ s.room.sequence \in Nat
  BY SyncAssumption DEF Replicas, Rooms
<1>. HIDE DEF m, r
<1>2. \/ m \in QuietMessages /\ t = s
      \/ /\ m \in News /\ t.status = "synchronized" /\ t.room # NoRoom
         /\ t.room.sequence = SequenceOf(m)
  <2>1. CASE m \in QuietMessages
    <3>1. m.type \in {"ack", "duplicate", "error"}
      BY <2>1 DEF QuietMessages
    <3>2. t = s
      BY <3>1 DEF Received, Acknowledged, m
    <3> QED
      BY <2>1, <3>2
  <2>2. CASE m \in Snapshots
    <3>1. /\ m.type \in {"snapshot", "resync_required"} /\ m.room \in Rooms
          /\ m \in News /\ SequenceOf(m) = m.room.sequence /\ m.room.sequence \in Nat
      BY <2>2, NewsSequence DEF Snapshots, News, Rooms
    <3>2. s.room # NoRoom => s.room.sequence <= m.room.sequence
      BY <1>0, <3>1 DEF Ordered, Precedes
    <3>3. ~IsStale(s, m.room)
      BY <1>1, <3>1, <3>2 DEF IsStale
    <3>4. t = Synchronized(m.room)
      BY <3>1, <3>3 DEF Received, m
    <3> QED
      BY <1>1, <3>1, <3>4 DEF Synchronized
  <2>3. CASE m \in Changes
    <3>1. /\ m.type = "state_changed" /\ m \in News /\ SequenceOf(m) = m.sequence
          /\ m.sequence \in Nat
      BY <2>3, NewsSequence DEF Changes, News
    <3>2. ~\E j \in DOMAIN q : j < 1
      OBVIOUS
    <3>3. s.room # NoRoom /\ s.room.sequence + 1 = m.sequence
      BY <1>0, <2>3, <3>2 DEF Ordered, Foretold
    <3>4. InHistory(s.room, history)
      BY <3>3
    <3>5. /\ m.sequence \in 1 .. Len(history) - 1
          /\ history[m.sequence] = s.room
          /\ Accepts(s.room, m.command)
          /\ history[m.sequence + 1] = Applied(s.room, m.command)
      BY <1>0, <2>3, <3>3, <3>4 DEF Tells, InHistory
    <3>6. t = Synchronized(Applied(s.room, m.command))
      BY <1>1, <3>1, <3>3, <3>5 DEF Received, Follows, m
    <3>7. /\ Applied(s.room, m.command) \in Rooms
          /\ Applied(s.room, m.command).sequence + 1 = m.sequence + 1
      BY <3>1, <3>5 DEF HistoryInv
    <3>8. Applied(s.room, m.command).sequence = m.sequence
      BY <3>1, <3>7 DEF Rooms
    <3> QED
      BY <1>1, <3>1, <3>6, <3>7, <3>8 DEF Synchronized
  <2> QED
    BY <1>0, <2>1, <2>2, <2>3 DEF Messages
<1>3. t.status # "resync_required"
  BY <1>1, <1>2
<1>4. ASSUME NEW i \in DOMAIN r, r[i] \in News, t.room # NoRoom
      PROVE  Precedes(t.room.sequence, r[i])
  <2>1. i + 1 \in DOMAIN q /\ q[i + 1] = r[i] /\ 1 < i + 1
    BY <1>0, <1>4
  <2>2. CASE t = s
    BY <1>4, <2>1, <2>2 DEF Ordered
  <2>3. CASE m \in News /\ t.room.sequence = SequenceOf(m)
    BY <1>0, <1>4, <2>1, <2>3 DEF Ordered
  <2> QED
    BY <1>2, <2>2, <2>3
<1>5. ASSUME NEW i \in DOMAIN r, NEW j \in DOMAIN r, j < i, r[j] \in News, r[i] \in News
      PROVE  Precedes(SequenceOf(r[j]), r[i])
  <2>1. /\ i + 1 \in DOMAIN q /\ q[i + 1] = r[i] /\ j + 1 \in DOMAIN q /\ q[j + 1] = r[j]
        /\ j + 1 < i + 1
    BY <1>0, <1>5
  <2> QED
    BY <1>5, <2>1 DEF Ordered
<1>6. ASSUME NEW i \in DOMAIN r, r[i] \in Changes
      PROVE  Foretold(t.room, r, i)
  <2>1. /\ i + 1 \in DOMAIN q /\ q[i + 1] = r[i] /\ 1 < i + 1 /\ r[i] \in News /\ i \in Nat
        /\ r[i].sequence \in Nat /\ SequenceOf(r[i]) = r[i].sequence
    BY <1>0, <1>6, NewsSequence DEF News
  <2>2. Foretold(s.room, q, i + 1)
    BY <1>6, <2>1 DEF Ordered
  <2>3. CASE s.room # NoRoom /\ s.room.sequence + 1 = r[i].sequence
    <3>1. CASE t = s
      BY <2>3, <3>1 DEF Foretold
    <3>2. CASE m \in News /\ t.room # NoRoom /\ t.room.sequence = SequenceOf(m)
      <4>1. s.room.sequence <= SequenceOf(m)
        BY <1>0, <2>3, <3>2 DEF Ordered, Precedes
      <4>2. SequenceOf(m) < r[i].sequence
        BY <1>0, <1>6, <2>1, <3>2 DEF Ordered, Precedes
      <4>3. SequenceOf(m) + 1 = r[i].sequence
        BY <1>1, <2>1, <2>3, <3>2, <4>1, <4>2, NewsSequence
      <4> QED
        BY <3>2, <4>3 DEF Foretold
    <3> QED
      BY <1>2, <3>1, <3>2
  <2>4. ASSUME NEW j \in DOMAIN q, j < i + 1, q[j] \in News,
               SequenceOf(q[j]) + 1 = r[i].sequence
        PROVE  Foretold(t.room, r, i)
    <3>1. CASE j = 1
      <4>1. m \in News /\ m \notin QuietMessages
        BY <1>0, <2>4, <3>1, MessageKinds DEF News
      <4> QED
        BY <1>0, <1>2, <2>4, <3>1, <4>1 DEF Foretold
    <3>2. CASE j # 1
      <4>1. j - 1 \in DOMAIN r /\ r[j - 1] = q[j] /\ j - 1 < i
        BY <1>0, <2>1, <2>4, <3>2
      <4> QED
        BY <2>4, <4>1 DEF Foretold
    <3> QED
      BY <3>1, <3>2
  <2> QED
    BY <2>1, <2>2, <2>3, <2>4 DEF Foretold
<1>7. ASSUME NEW n \in Nat, UpTo(s.room, q, n), Reaches(s.room, q, n)
      PROVE  Reaches(t.room, r, n)
  <2>1. CASE s.room # NoRoom /\ s.room.sequence = n
    <3>1. CASE t = s
      BY <2>1, <3>1 DEF Reaches
    <3>2. CASE m \in News /\ t.room # NoRoom /\ t.room.sequence = SequenceOf(m)
      <4>1. n <= SequenceOf(m) /\ SequenceOf(m) <= n /\ SequenceOf(m) \in Nat
        BY <1>0, <1>7, <2>1, <3>2, NewsSequence DEF Ordered, Precedes, UpTo
      <4> QED
        BY <3>2, <4>1 DEF Reaches
    <3> QED
      BY <1>2, <3>1, <3>2
  <2>2. ASSUME NEW j \in DOMAIN q, q[j] \in News, SequenceOf(q[j]) = n
        PROVE  Reaches(t.room, r, n)
    <3>1. CASE j = 1
      <4>1. m \in News /\ m \notin QuietMessages
        BY <1>0, <2>2, <3>1, MessageKinds DEF News
      <4> QED
        BY <1>0, <1>2, <2>2, <3>1, <4>1 DEF Reaches
    <3>2. CASE j # 1
      BY <1>0, <2>2, <3>2 DEF Reaches
    <3> QED
      BY <3>1, <3>2
  <2> QED
    BY <1>7, <2>1, <2>2 DEF Reaches
<1>8. Ordered(t.room, r)
  BY <1>4, <1>5, <1>6 DEF Ordered
<1> QED
  BY <1>3, <1>7, <1>8 DEF r

\* What is under way to a replica, and what it holds, is of the history.
LEMMA SyncUpTo ==
    ASSUME SyncInv, NEW u \in Users, NEW c \in Conns
    PROVE  UpTo(client[u].sync.room, down[c], room.sequence)
<1>1. /\ RoomInv(room) /\ HistoryInv /\ ReplicasInv /\ DownInv /\ room.sequence \in Nat
      /\ Len(history) = room.sequence + 1 /\ DOMAIN history = 1 .. Len(history)
  BY DEF SyncInv, WorkerInv, StoredInv, RoomInv, Rooms, HistoryInv
<1>2. client[u].sync.room # NoRoom => client[u].sync.room.sequence <= room.sequence
  BY <1>1, NewestRoom DEF ReplicasInv
<1>3. ASSUME NEW i \in DOMAIN down[c], down[c][i] \in News
      PROVE  SequenceOf(down[c][i]) <= room.sequence
  <2>. DEFINE m == down[c][i]
  <2>1. Tells(m, history)
    BY <1>1 DEF DownInv
  <2>. HIDE DEF m
  <2>2. m \in Snapshots => SequenceOf(m) <= room.sequence
    BY <1>1, <2>1, NewestRoom DEF Tells, SequenceOf
  <2>3. ASSUME m \in Changes PROVE SequenceOf(m) <= room.sequence
    <3>1. m.sequence \in 1 .. Len(history) - 1 /\ SequenceOf(m) = m.sequence
      BY <2>1, <2>3, MessageKinds DEF Tells, SequenceOf
    <3> QED
      BY <1>1, <3>1
  <2> QED
    BY <1>3, <2>2, <2>3 DEF News, m
<1> QED
  BY <1>2, <1>3 DEF UpTo

-----------------------------------------------------------------------------
(* RoomSync: without ejections no live connection sees a gap *)

\* A socket that is open was open or unused before.
LEMMA SocketsEnd ==
    ASSUME SocketOwners, Next, NEW d \in Conns, socket[d].status # "unused",
           socket'[d].status = "open"
    PROVE  socket[d].status = "open"
<1>0. /\ socket \in SocketTable
      /\ socket[d] \in [status : {"unused", "open", "closing", "closed"},
                        user : Users \cup {NoUser}]
  BY DEF SocketOwners, SocketTable
<1>1. ASSUME NEW c \in Conns, NEW u \in Users, Connect(c, u)
      PROVE  socket[d].status = "open"
  <2>1. socket[c].status = "unused" /\ \E x : socket' = [socket EXCEPT ![c] = x]
    BY <1>1 DEF Connect, RefuseConnection, ConnectAgain, ConnectAndJoin,
                ConnectHalfStored, Arriving
  <2> QED
    BY <1>0, <2>1 DEF SocketTable
<1>2. ASSUME NEW c \in Conns, Close(c)
      PROVE  socket[d].status = "open"
  <2>1. socket' = [socket EXCEPT ![c].status = "closed"]
    BY <1>2 DEF Close, ConnectionEnds, LastConnectionEnds,
                LastConnectionHalfRemoved, Ends
  <2> QED
    BY <1>0, <2>1 DEF SocketTable
<1>3. ASSUME NEW e, Moderate(e)
      PROVE  socket[d].status = "open"
  <2>1. socket' = socket \/ \E u : socket' = ClosedSocketsOf(u)
    BY <1>3 DEF Moderate, EjectionRepeated, ModerationAccepted,
                ModerationAnswered, SocketsAfterEjection
  <2> QED
    BY <1>0, <2>1 DEF ClosedSocketsOf
<1>4. ASSUME Restart
      PROVE  socket[d].status = "open"
  BY <1>0, <1>4 DEF Restart
<1>5. ASSUME NEW c, MessageRefused(c) \/ \E e : Message(c, e)
      PROVE  socket[d].status = "open"
  BY <1>5 DEF MessageRefused, Message, MessageAccepted, MessageNotStored, MessageAnswered
<1> QED
  BY <1>1, <1>2, <1>3, <1>4, <1>5 DEF Next

\* The object sends on open sockets only, and on the one it accepts.
LEMMA SentToOpen ==
    ASSUME SocketOwners, Next, NEW d \in Conns, socket[d].status # "unused",
           sent'[d] # << >>
    PROVE  socket[d].status = "open"
<1>0. \A reached \in Reachable : d \in reached => socket[d].status = "open"
  BY DEF Reachable, OpenConns
<1>s. sent' # Silence
  BY DEF Silence
<1>1. ASSUME NEW c \in Conns, NEW u \in Users, Connect(c, u)
      PROVE  socket[d].status = "open"
  <2>1. d # c
    BY <1>1 DEF Connect, RefuseConnection, ConnectAgain, ConnectAndJoin,
                ConnectHalfStored, Arriving
  <2>2. CASE ConnectAgain(c, u)
    BY <2>1, <2>2 DEF ConnectAgain, Silence
  <2>3. CASE ConnectAndJoin(c, u)
    BY <1>0, <2>1, <2>3 DEF ConnectAndJoin
  <2> QED
    BY <1>1, <1>s, <2>2, <2>3 DEF Connect, RefuseConnection, ConnectHalfStored
<1>2. ASSUME NEW c, NEW m, c \in OpenConns, sent' = [Silence EXCEPT ![c] = m]
      PROVE  socket[d].status = "open"
  BY <1>2 DEF Silence, OpenConns
<1>3. ASSUME NEW c, NEW e, Message(c, e)
      PROVE  socket[d].status = "open"
  <2>0. c \in OpenConns
    BY <1>3 DEF Message, MessageAccepted, MessageNotStored, MessageAnswered, MayHandle
  <2>1. CASE MessageAccepted(c, e)
    <3>1. PICK reached \in Reachable :
             sent'[d] = (IF d = c THEN <<Ack(room')>> ELSE << >>)
                          \o (IF d \in reached THEN <<StateChanged(room', e.command)>>
                              ELSE << >>)
      BY <2>1 DEF MessageAccepted, ReachableFrom
    <3>2. << >> \o << >> = << >>
      OBVIOUS
    <3>3. d = c \/ d \in reached
      BY <3>1, <3>2
    <3> QED
      BY <1>0, <2>0, <3>3 DEF OpenConns
  <2>2. CASE MessageNotStored(c, e) \/ MessageAnswered(c, e)
    <3>1. \E m : sent' = [Silence EXCEPT ![c] = m]
      BY <2>2 DEF MessageNotStored, MessageAnswered
    <3> QED
      BY <1>2, <2>0, <3>1
  <2> QED
    BY <1>3, <2>1, <2>2 DEF Message
<1>4. ASSUME NEW c \in Conns, Close(c)
      PROVE  socket[d].status = "open"
  BY <1>0, <1>4, <1>s DEF Close, ConnectionEnds, LastConnectionEnds,
                          LastConnectionHalfRemoved
<1>5. ASSUME NEW e, Moderate(e)
      PROVE  socket[d].status = "open"
  BY <1>0, <1>5, <1>s DEF Moderate, EjectionRepeated, ModerationAccepted,
                          ModerationAnswered
<1> QED
  BY <1>1, <1>2, <1>3, <1>4, <1>5, <1>s DEF Next, MessageRefused, Restart

\* Only an ejection leaves sockets closing.
LEMMA NoneStartsClosing ==
    ASSUME ~MayModerateRooms, NoneClosing, SocketOwners, ObjectMoves
    PROVE  NoneClosing'
<1>0. socket \in SocketTable
  BY DEF SocketOwners
<1>1. ASSUME NEW c \in Conns, NEW u \in Users, Connect(c, u)
      PROVE  NoneClosing'
  <2>1. \E x \in {"open", "closed"} :
           socket' = [socket EXCEPT ![c] = [status |-> x, user |-> u]]
    BY <1>1 DEF Connect, RefuseConnection, ConnectAgain, ConnectAndJoin,
                ConnectHalfStored
  <2> QED
    BY <1>0, <2>1 DEF NoneClosing, SocketTable
<1>2. ASSUME NEW c \in Conns, Close(c)
      PROVE  NoneClosing'
  <2>1. socket' = [socket EXCEPT ![c].status = "closed"]
    BY <1>2 DEF Close, ConnectionEnds, LastConnectionEnds,
                LastConnectionHalfRemoved, Ends
  <2> QED
    BY <1>0, <2>1 DEF NoneClosing, SocketTable
<1>3. CASE Restart
  BY <1>0, <1>3 DEF Restart, NoneClosing
<1>4. ASSUME NEW c, NEW e, Message(c, e)
      PROVE  NoneClosing'
  BY <1>4 DEF NoneClosing, Message, MessageAccepted, MessageNotStored, MessageAnswered
<1> QED
  BY <1>1, <1>2, <1>3, <1>4 DEF ObjectMoves, Upgrade, HandleMessage, EndConnection,
                                RelayModeration, RestartObject

\* What the object sends on a socket continues what is under way on it.
LEMMA SentInOrder ==
    ASSUME SyncInv, NoneClosing, Next, NEW c \in Conns, socket[c].status # "unused",
           NEW k \in Rooms \cup {NoRoom}, NEW p \in Seq(Messages),
           Ordered(k, p), UpTo(k, p, room.sequence),
           socket[c].status = "open" => Reaches(k, p, room.sequence),
           NEW q, q = p \o sent'[c]
    PROVE  /\ Ordered(k, q)
           /\ socket'[c].status = "open" => Reaches(k, q, room'.sequence)
<1>0. /\ WorkerInv /\ SocketOwners /\ RoomInv(room) /\ room \in Rooms
      /\ room.sequence \in Nat
  BY DEF SyncInv, WorkerInv, StoredInv, RoomInv, Rooms
<1>1. socket'[c].status = "open" => socket[c].status = "open"
  BY <1>0, SocketsEnd
<1>2. sent'[c] # << >> => socket[c].status = "open"
  BY <1>0, SentToOpen
<1>3. sent'[c] = << >> => q = p
  OBVIOUS
<1>4. \A m : sent'[c] = <<m>> => q = Append(p, m)
  OBVIOUS
<1>5. CASE room' = room /\ Answers(c)
  <2>1. CASE sent'[c] = << >>
    BY <1>1, <1>3, <1>5, <2>1
  <2>2. ASSUME NEW m \in QuietMessages, sent'[c] = <<m>>
        PROVE  Ordered(k, q) /\ (socket'[c].status = "open" => Reaches(k, q, room'.sequence))
    <3>1. q = Append(p, m) /\ m \in Messages
      BY <1>4, <2>2 DEF Messages
    <3> QED
      BY <1>0, <1>1, <1>5, <2>2, <3>1, OrderedThen
  <2>3. ASSUME NEW m \in {Snapshot(room), ResyncRequired(room)}, sent'[c] = <<m>>
        PROVE  Ordered(k, q) /\ (socket'[c].status = "open" => Reaches(k, q, room'.sequence))
    <3>1. q = Append(p, m) /\ m \in Snapshots /\ m.room = room /\ m \in Messages
      BY <1>0, <1>4, <2>3, MessageKinds DEF Messages
    <3>2. m.room.sequence >= room.sequence /\ m.room.sequence = room'.sequence
      BY <1>0, <1>5, <3>1
    <3>3. Ordered(k, q) /\ Reaches(k, q, m.room.sequence)
      BY <1>0, <3>1, <3>2, OrderedThen
    <3> QED
      BY <3>2, <3>3
  <2> QED
    BY <1>5, <2>1, <2>2, <2>3 DEF Answers
<1>6. ASSUME NEW cmd, Commits(cmd), Announces(c, cmd)
      PROVE  Ordered(k, q) /\ (socket'[c].status = "open" => Reaches(k, q, room'.sequence))
  <2>. DEFINE n == StateChanged(room', cmd)
  <2>0. /\ room' \in Rooms /\ room' # room /\ room'.sequence = room.sequence + 1
        /\ n \in Changes /\ n.sequence = room.sequence + 1 /\ n \in Messages
    BY <1>0, <1>6, CommitsRoom DEF StateChanged, Messages
  <2>. HIDE DEF n
  <2>t. socket'[c].status = "open" => IsToldOfChange(c)
    <3>1. ClosingConns = {}
      BY DEF NoneClosing, ClosingConns
    <3> QED
      BY <1>0, <1>1, <2>0, <3>1, NextTold DEF OpenConns
  <2>1. CASE sent'[c] = << >>
    BY <1>3, <2>1, <2>t DEF IsToldOfChange
  <2>2. ASSUME NEW m \in QuietMessages, sent'[c] = <<m>>
        PROVE  Ordered(k, q) /\ socket'[c].status # "open"
    <3>1. q = Append(p, m) /\ m \in Messages
      BY <1>4, <2>2 DEF Messages
    <3>2. m.type # "state_changed"
      BY DEF QuietMessages
    <3>3. ~IsToldOfChange(c)
      BY <2>2, <3>2 DEF IsToldOfChange
    <3> QED
      BY <1>0, <2>2, <2>t, <3>1, <3>3, OrderedThen
  <2>3. CASE sent'[c] = <<Snapshot(room')>>
    <3>. DEFINE m == Snapshot(room')
    <3>1. m \in Snapshots /\ m.room = room' /\ m \in Messages
      BY <2>0, MessageKinds DEF Messages
    <3>2. q = Append(p, m)
      BY <1>4, <2>3
    <3>. HIDE DEF m
    <3>3. m.room.sequence >= room.sequence
      BY <1>0, <2>0, <3>1
    <3> QED
      BY <1>0, <3>1, <3>2, <3>3, OrderedThen
  <2>4. CASE sent'[c] = <<n>>
    <3>1. q = Append(p, n) /\ Reaches(k, p, room.sequence)
      BY <1>2, <1>4, <2>4
    <3>2. Ordered(k, q) /\ Reaches(k, q, room.sequence + 1)
      BY <1>0, <2>0, <3>1, OrderedThen
    <3> QED
      BY <2>0, <3>2
  <2>5. ASSUME NEW m \in QuietMessages, sent'[c] = <<m>> \o <<n>>
        PROVE  Ordered(k, q) /\ Reaches(k, q, room'.sequence)
    <3>0. m \in Messages /\ n \in Messages
      BY <2>0 DEF Messages
    <3>1. sent'[c] # << >>
      BY <2>5, <3>0
    <3>. DEFINE r == Append(p, m)
    <3>2. q = Append(r, n) /\ r \in Seq(Messages)
      BY <2>5, <3>0
    <3>3. r = Append(p, m) /\ Reaches(k, p, room.sequence)
      BY <1>2, <3>1
    <3>. HIDE DEF r
    <3>4. Ordered(k, r) /\ UpTo(k, r, room.sequence) /\ Reaches(k, r, room.sequence)
      BY <1>0, <3>0, <3>3, OrderedThen
    <3>5. Ordered(k, q) /\ Reaches(k, q, room.sequence + 1)
      BY <1>0, <2>0, <3>2, <3>4, OrderedThen
    <3> QED
      BY <2>0, <3>5
  <2> QED
    BY <1>6, <2>1, <2>2, <2>3, <2>4, <2>5 DEF Announces, n
<1> QED
  BY <1>0, <1>5, <1>6, ObjectSends

\* The object's steps keep the messages in order.
LEMMA ObjectKeepsOrder ==
    ASSUME SyncInv, NoneClosing, OrderInv, ObjectMoves
    PROVE  OrderInv'
<1>0. /\ WorkerInv /\ SocketOwners /\ HistoryInv /\ ClientsInv /\ UpInv /\ DownInv
      /\ ShownInv /\ RoomInv(room) /\ room \in Rooms
      /\ client \in [Users -> Clients] /\ Next
  BY ObjectMovesNext DEF SyncInv, WorkerInv, StoredInv, RoomInv, ClientsInv, Clients
<1>1. SyncInv' /\ ClientsInv' /\ \A c \in Conns : sent'[c] \in Seq(Messages)
  <2>1. \/ room' = room /\ history' = history /\ \A d \in Conns : Answers(d)
        \/ \E cmd : /\ Commits(cmd) /\ history' = Append(history, room')
                    /\ \A d \in Conns : Announces(d, cmd)
    <3>1. \A cmd : Commits(cmd) => room' # room
      BY <1>0, CommitsRoom
    <3> QED
      BY <1>0, <3>1, ObjectSends, ObjectTransmits DEF Transmitted
  <2>2. SyncInv'
    BY ObjectKeepsSyncInv
  <2> QED
    BY <1>0, <2>1, <2>2, SentTells DEF SyncInv
<1>2. \A u \in Users : client'[u].sync = client[u].sync
  BY <1>0, ObjectLeavesReplicas
<1>3. \A c \in Conns : down'[c] = IF c \in HeldConns' THEN down[c] \o sent'[c] ELSE << >>
  BY <1>0, ObjectTransmits DEF Transmitted
<1>4. ASSUME NEW u \in Users
      PROVE  \/ client'[u] = client[u]
             \/ client[u].mode = "ticket" /\ client'[u].mode = "backoff"
             \/ /\ client[u].mode = "ticket" /\ client'[u].mode = "connected"
                /\ client'[u].conn \in Conns
                /\ Connect(client'[u].conn, u)
                /\ socket'[client'[u].conn].status = "open"
  <2>1. CASE client' = client
    BY <2>1
  <2>2. ASSUME NEW v \in Users, client[v].mode = "ticket",
               client' = [client EXCEPT ![v].mode = "backoff"]
        PROVE  \/ client'[u] = client[u]
               \/ client[u].mode = "ticket" /\ client'[u].mode = "backoff"
    BY <1>0, <2>2 DEF Clients
  <2>3. ASSUME NEW v \in Users, NEW c \in Conns, client[v].mode = "ticket",
               client' = [client EXCEPT ![v].mode = "connected", ![v].conn = c],
               Connect(c, v), socket'[c].status = "open"
        PROVE  \/ client'[u] = client[u]
               \/ /\ client[u].mode = "ticket" /\ client'[u].mode = "connected"
                  /\ client'[u].conn = c /\ u = v
    BY <1>0, <2>3 DEF Clients
  <2> QED
    BY <1>0, <2>1, <2>2, <2>3, ObjectLeavesClients
<1>5. ASSUME NEW u \in Users, client'[u].mode = "connected"
      PROVE  LET c == client'[u].conn
                 k == client'[u].sync.room
             IN  /\ Ordered(k, down'[c])
                 /\ socket'[c].status = "open" => Reaches(k, down'[c], room'.sequence)
  <2>. DEFINE c == client'[u].conn
              k == client'[u].sync.room
  <2>1. c \in Conns /\ c \in HeldConns'
    BY <1>1, <1>5 DEF ClientsInv, HeldConns, Holds
  <2>2. /\ down'[c] = down[c] \o sent'[c] /\ down[c] \in Seq(Messages)
        /\ sent'[c] \in Seq(Messages) /\ k = client[u].sync.room
        /\ k \in Rooms \cup {NoRoom}
    BY <1>0, <1>1, <1>2, <1>3, <2>1 DEF DownInv, Clients, Replicas
  <2>3. CASE client'[u] = client[u]
    <3>1. /\ client[u].mode = "connected" /\ client[u].conn = c
          /\ socket[c].status # "unused"
      BY <1>0, <1>5, <2>3 DEF ClientsInv
    <3>2. /\ Ordered(k, down[c])
          /\ socket[c].status = "open" => Reaches(k, down[c], room.sequence)
      BY <2>2, <3>1 DEF OrderInv
    <3>3. UpTo(k, down[c], room.sequence)
      BY <2>1, <2>2, SyncUpTo
    <3>. HIDE DEF c, k
    <3>4. /\ Ordered(k, down[c] \o sent'[c])
          /\ socket'[c].status = "open" => Reaches(k, down[c] \o sent'[c], room'.sequence)
      BY <1>0, <2>1, <2>2, <3>1, <3>2, <3>3, SentInOrder
    <3>5. Ordered(k, down'[c]) /\ (socket'[c].status = "open" => Reaches(k, down'[c], room'.sequence))
      BY <2>2, <3>4
    <3> QED
      BY <3>5 DEF c, k
  <2>4. CASE client[u].mode = "ticket" /\ Connect(c, u) /\ socket'[c].status = "open"
    <3>. HIDE DEF c, k
    <3>1. k = NoRoom
      BY <1>0, <2>2, <2>4 DEF ClientsInv, AwaitingSnapshot
    <3>2. socket[c].status = "unused"
      BY <2>4 DEF Connect, RefuseConnection, ConnectAgain, ConnectAndJoin,
                  ConnectHalfStored, Arriving
    <3>3. down[c] = << >>
      <4>1. c \notin HeldConns
        BY <1>0, <3>2 DEF HeldConns, Holds, ClientsInv
      <4> QED
        BY <1>0, <2>1, <4>1 DEF DownInv
    <3>4. sent'[c] = <<Snapshot(room')>>
      <4>1. BroadcastCompletes
        BY DEF BroadcastCompletes, ClosingConns, NoneClosing
      <4>2. CASE ConnectAgain(c, u)
        BY <2>1, <4>2 DEF ConnectAgain, Silence
      <4>3. CASE ConnectAndJoin(c, u)
        BY <2>1, <4>1, <4>3 DEF ConnectAndJoin, Greeting
      <4>4. RefuseConnection(c, u) \/ ConnectHalfStored(c, u) => socket'[c].status = "closed"
        BY <1>0, <2>1 DEF RefuseConnection, ConnectHalfStored, SocketOwners, SocketTable
      <4> QED
        BY <2>4, <4>2, <4>3, <4>4 DEF Connect
    <3>. DEFINE m == Snapshot(room')
    <3>5. room' \in Rooms /\ m \in Snapshots /\ m \in News /\ SequenceOf(m) = room'.sequence
          /\ m \notin Changes
      <4>1. room' \in Rooms
        BY <1>1 DEF SyncInv, WorkerInv, StoredInv, RoomInv
      <4> QED
        BY <4>1, MessageKinds DEF News, SequenceOf
    <3>6. down'[c] = <<m>>
      BY <2>2, <3>3, <3>4
    <3>. HIDE DEF m
    <3>7. DOMAIN <<m>> = {1} /\ <<m>>[1] = m
      OBVIOUS
    <3>8. Ordered(k, <<m>>) /\ Reaches(k, <<m>>, room'.sequence)
      BY <3>1, <3>5, <3>7 DEF Ordered, Reaches
    <3>9. Ordered(k, down'[c]) /\ Reaches(k, down'[c], room'.sequence)
      BY <3>6, <3>8
    <3> QED
      BY <3>9 DEF c, k
  <2> QED
    BY <1>4, <1>5, <2>3, <2>4
<1>6. ASSUME NEW u \in Users
      PROVE  /\ client'[u].mode # "closing"
             /\ client'[u].sync.status = "resync_required" => client'[u].mode = "backoff"
  <2>1. client[u].mode = "ticket" => client[u].sync.status = "awaiting_snapshot"
    BY <1>0 DEF ClientsInv, AwaitingSnapshot
  <2> QED
    BY <1>2, <1>4, <2>1 DEF OrderInv
<1> QED
  BY <1>5, <1>6 DEF OrderInv

\* The steps of a client take messages from the front or give up the connection.
LEMMA ClientKeepsOrder ==
    ASSUME SyncInv, OrderInv, NEW u \in Users, ClientMoves(u)
    PROVE  OrderInv'
<1>0. /\ HistoryInv /\ ClientsInv /\ DownInv /\ ReplicasInv /\ RoomInv(room)
      /\ client \in [Users -> Clients] /\ client[u] \in Clients
      /\ down \in [Conns -> Seq(Messages)] /\ room.sequence \in Nat
  BY DEF SyncInv, WorkerInv, StoredInv, RoomInv, Rooms, ClientsInv, Clients, DownInv
<1>1. PICK x \in Clients : Becomes(u, x)
  BY ClientBecomes
<1>2. socket' = socket /\ room' = room
  BY ClientBecomes DEF ClientStep, workerVars, stored
<1>3. client'[u] = x /\ \A v \in Users \ {u} : client'[v] = client[v]
  BY <1>0, <1>1 DEF Becomes
<1>4. ASSUME NEW v \in Users \ {u}, client[v].mode = "connected"
      PROVE  down'[client[v].conn] = down[client[v].conn]
  <2>1. client[v].conn \in Conns /\ client[v].conn # client[u].conn
    BY <1>0, <1>4, HeldByOne DEF ClientsInv
  <2> QED
    BY <1>1, <2>1 DEF Becomes
<1>5. ASSUME /\ client'[u].mode # "closing"
             /\ client'[u].sync.status = "resync_required" => client'[u].mode = "backoff"
             /\ client'[u].mode = "connected" =>
                   LET c == client'[u].conn
                       k == client'[u].sync.room
                   IN  /\ Ordered(k, down'[c])
                       /\ socket'[c].status = "open" => Reaches(k, down'[c], room'.sequence)
      PROVE  OrderInv'
  BY <1>2, <1>3, <1>4, <1>5 DEF OrderInv
<1>6. CASE Deliver(u)
  <2>. DEFINE c == client[u].conn
              s == client[u].sync
              q == down[c]
              t == Received(s, Head(q))
  <2>1. /\ client[u].mode = "connected" /\ c \in Conns /\ q # << >>
        /\ client' = [client EXCEPT ![u].sync = t,
                                    ![u].mode = IF IsClosedBy(t) THEN "closing" ELSE @]
        /\ down' = [down EXCEPT ![c] = IF IsClosedBy(t) THEN << >> ELSE Tail(@)]
    BY <1>0, <1>6 DEF Deliver, ClientsInv
  <2>2. /\ s \in Replicas /\ s.status # "resync_required"
        /\ s.room # NoRoom => InHistory(s.room, history)
        /\ q \in Seq(Messages) /\ \A i \in DOMAIN q : Tells(q[i], history)
        /\ Ordered(s.room, q)
        /\ socket[c].status = "open" => Reaches(s.room, q, room.sequence)
    BY <1>0, <2>1 DEF Clients, ReplicasInv, DownInv, OrderInv
  <2>3. UpTo(s.room, q, room.sequence)
    BY <2>1, SyncUpTo
  <2>. HIDE DEF t
  <2>4. /\ client'[u].sync = t
        /\ client'[u].mode = IF IsClosedBy(t) THEN "closing" ELSE "connected"
        /\ client'[u].conn = c
    BY <1>0, <2>1 DEF Clients
  <2>5. down'[c] = IF IsClosedBy(t) THEN << >> ELSE Tail(q)
    BY <1>0, <2>1
  <2>. HIDE DEF s, q, c
  <2>6. /\ t.status # "resync_required"
        /\ Ordered(t.room, Tail(q))
        /\ Reaches(s.room, q, room.sequence) => Reaches(t.room, Tail(q), room.sequence)
    BY <1>0, <2>1, <2>2, <2>3, OrderedAfter DEF t
  <2>7. ~IsClosedBy(t)
    BY <2>6 DEF IsClosedBy
  <2>8. /\ client'[u].sync = t /\ client'[u].mode = "connected" /\ client'[u].conn = c
        /\ down'[c] = Tail(q)
    BY <2>4, <2>5, <2>7
  <2> QED
    BY <1>2, <1>5, <2>2, <2>6, <2>8
<1>7. ASSUME NEW id \in CommandIds, NEW cmd \in PageCommands(u), SendCommand(u, id, cmd)
      PROVE  OrderInv'
  <2>1. client' = client /\ down' = down
    BY <1>7 DEF SendCommand
  <2> QED
    BY <1>2, <2>1 DEF OrderInv
<1>8. CASE ConnectionLost(u) \/ TicketFails(u)
  <2>1. client'[u].mode = "backoff"
    BY <1>0, <1>8 DEF ConnectionLost, TicketFails, Clients
  <2> QED
    BY <1>5, <2>1
<1>9. CASE Reconnect(u) \/ Stop(u) \/ Return(u)
  <2>1. /\ client'[u].mode \in {"ticket", "stopped"}
        /\ client'[u].sync.status = "awaiting_snapshot"
    BY <1>0, <1>9 DEF Reconnect, Stop, Return, Clients, StoppedClient, StartedClient,
                      AwaitingSnapshot
  <2> QED
    BY <1>5, <2>1
<1> QED
  BY <1>6, <1>7, <1>8, <1>9 DEF ClientMoves

\* As long as no moderation action reaches the object, a live connection never
\* sees a gap, whatever writes fail and whenever the object restarts: the replica
\* of a connected client never needs a resync.
THEOREM SpecNoGaps == ~MayModerateRooms => (SyncSpec => []NoGaps)
<1>. SUFFICES ASSUME ~MayModerateRooms PROVE SyncSpec => []NoGaps
  OBVIOUS
<1>. DEFINE Inv == SyncInv /\ NoneClosing /\ OrderInv
<1>1. SyncInit => Inv
  <2>. SUFFICES ASSUME SyncInit PROVE NoneClosing /\ OrderInv
    BY InitSyncInv
  <2>1. NoneClosing
    BY DEF SyncInit, Init, Unused, NoneClosing
  <2>2. \A u \in Users : client[u].mode \in {"ticket", "stopped"} /\ client[u].sync = AwaitingSnapshot
    BY DEF SyncInit, StartedClient, StoppedClient
  <2> QED
    BY <2>1, <2>2 DEF OrderInv, AwaitingSnapshot
<1>2. Inv /\ [SyncNext]_syncVars => Inv'
  <2>. SUFFICES ASSUME SyncInv, NoneClosing, OrderInv, [SyncNext]_syncVars
                PROVE  NoneClosing' /\ OrderInv'
    BY NextKeepsSyncInv
  <2>1. CASE ObjectMoves
    <3>1. SocketOwners
      BY DEF SyncInv, WorkerInv
    <3> QED
      BY <2>1, <3>1, NoneStartsClosing, ObjectKeepsOrder
  <2>2. ASSUME NEW u \in Users, ClientMoves(u)
        PROVE  NoneClosing' /\ OrderInv'
    <3>1. socket' = socket
      BY <2>2, ClientBecomes DEF ClientStep, workerVars
    <3> QED
      BY <2>2, <3>1, ClientKeepsOrder DEF NoneClosing
  <2>3. CASE UNCHANGED syncVars
    BY <2>3 DEF syncVars, workerVars, stored, NoneClosing, OrderInv
  <2> QED
    BY <2>1, <2>2, <2>3, SyncMoves
<1>3. Inv => NoGaps
  BY DEF OrderInv, NoGaps
<1> QED
  BY <1>1, <1>2, <1>3, PTL DEF SyncSpec

===============================================================================
