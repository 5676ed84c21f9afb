------------------------ MODULE RoomBrainWorkerProofs ------------------------
(***************************************************************************)
(* Proofs about RoomBrainWorker for every value of its constants: the      *)
(* Durable Object implements the promise of RoomBrainProtocol, its open    *)
(* sockets are registered and limited, the late end of a connection spares *)
(* its user and a reported ejection disconnects; failed writes, aborted    *)
(* broadcasts and restarts included.                                       *)
(***************************************************************************)
EXTENDS RoomBrainWorker, RoomBrainLemmas, FiniteSetTheorems, TLAPS

\* The shape of socket.
SocketTable == [Conns -> [status : {"unused", "open", "closing", "closed"},
                          user   : Users \cup {NoUser}]]

\* Every live socket belongs to a user: the attachment the upgrade verified; and
\* an unused one to nobody.
SocketOwners ==
    /\ socket \in SocketTable
    /\ \A c \in Conns : socket[c].status \in {"open", "closing"} =>
                           socket[c].user \in Users
    /\ \A c \in Conns : socket[c].status = "unused" => socket[c].user = NoUser

-----------------------------------------------------------------------------
(* The operators of the instance *)

\* An INSTANCE brings operators of its own, equal to those of this module: the
\* object and its promise read the same room-brain.ts.
LEMMA SameOperators ==
    /\ Protocol!InitialRoom = InitialRoom
    /\ Protocol!ClientCommandsOf = ClientCommandsOf
    /\ Protocol!RemovalCommands = RemovalCommands
    /\ Protocol!ModeratingRoles = ModeratingRoles
    /\ \A r : Protocol!Participants(r) = Participants(r)
    /\ \A u : Protocol!TokenRole(u) = TokenRole(u) /\ Protocol!Leave(u) = Leave(u)
    /\ \A u, x : Protocol!Join(u, x) = Join(u, x)
    /\ \A r, c : /\ Protocol!Accepts(r, c) = Accepts(r, c)
                 /\ Protocol!Applied(r, c) = Applied(r, c)
    /\ \A r, k, e : Protocol!Verdict(r, k, e) = Verdict(r, k, e)
    /\ \A k, id : Protocol!Remember(k, id) = Remember(k, id)
<1>1. \A r : Protocol!Participants(r) = Participants(r)
  BY DEF Participants, Protocol!Participants, Absent, Protocol!Absent
<1>2. Protocol!InitialRoom = InitialRoom
  BY DEF InitialRoom, Protocol!InitialRoom, Absent, Protocol!Absent
<1>3. \A u : Protocol!TokenRole(u) = TokenRole(u)
  BY DEF TokenRole, Protocol!TokenRole
<1>4. \A u, x : Protocol!Join(u, x) = Join(u, x) /\ Protocol!Leave(u) = Leave(u)
  BY DEF Join, Protocol!Join, Leave, Protocol!Leave
<1>5. Protocol!RemovalCommands = RemovalCommands
  BY DEF RemovalCommands, Protocol!RemovalCommands
<1>6. Protocol!ModeratingRoles = ModeratingRoles
  BY DEF ModeratingRoles, Protocol!ModeratingRoles
<1>7. Protocol!ClientCommandsOf = ClientCommandsOf
  <2>1. Protocol!ClientCommands = ClientCommands
    BY DEF ClientCommands, Protocol!ClientCommands,
           JoinCommands, Protocol!JoinCommands,
           PersonalCommands, Protocol!PersonalCommands,
           SeatCommands, Protocol!SeatCommands,
           LockCommands, Protocol!LockCommands,
           ReactCommands, Protocol!ReactCommands, Roles, Protocol!Roles
  <2>2. \A u, c : Protocol!Authorized(u, c) = Authorized(u, c)
    BY <1>3, <1>6 DEF Authorized, Protocol!Authorized, MayClaim,
                      Protocol!MayClaim
  <2> QED
    BY <2>1, <2>2 DEF ClientCommandsOf, Protocol!ClientCommandsOf
<1>8. \A r, c : Protocol!Applied(r, c) = Applied(r, c)
  <2>1. \A q, u : Protocol!Without(q, u) = Without(q, u)
    BY Zenon DEF Without, Protocol!Without
  <2>2. \A r, u, x : Protocol!Assigned(r, u, x) = Assigned(r, u, x)
    BY <2>1, Zenon DEF Assigned, Protocol!Assigned
  <2>3. \A r, c : Protocol!Effect(r, c) = Effect(r, c)
    BY <2>1, <2>2, Zenon DEF Effect, Protocol!Effect, Absent,
                             Protocol!Absent, Queued, Protocol!Queued
  <2> QED
    BY <2>3, Zenon DEF Applied, Protocol!Applied
<1>9. \A r, c : Protocol!Accepts(r, c) = Accepts(r, c)
  BY <1>1, <1>6 DEF Accepts, Protocol!Accepts, Admits, Protocol!Admits,
                    MayRequestSeat, Protocol!MayRequestSeat, Moderates,
                    Protocol!Moderates, Absent, Protocol!Absent
<1>10. \A r, k, e : Protocol!Verdict(r, k, e) = Verdict(r, k, e)
  BY <1>9 DEF Verdict, Protocol!Verdict, Remembered, Protocol!Remembered,
              IsCurrent, Protocol!IsCurrent
<1>11. \A k, id : Protocol!Remember(k, id) = Remember(k, id)
  BY DEF Remember, Protocol!Remember
<1> QED
  BY <1>1, <1>2, <1>3, <1>4, <1>5, <1>6, <1>7, <1>8, <1>9, <1>10, <1>11

-----------------------------------------------------------------------------
(* The owners of sockets *)

\* closeParticipantSockets changes no owner and revives no socket.
LEMMA ClosedSocketsOwners ==
    ASSUME SocketOwners, NEW u
    PROVE  /\ ClosedSocketsOf(u) \in SocketTable
           /\ \A c \in Conns : ClosedSocketsOf(u)[c].user = socket[c].user
           /\ \A c \in Conns : ClosedSocketsOf(u)[c].status \in {"open", "closing"} => 
                  socket[c].status \in {"open", "closing"}
           /\ \A c \in Conns : ClosedSocketsOf(u)[c].status = "unused"
                                 => socket[c].status = "unused"
           /\ \A c \in Conns : socket[c].status = "closed"
                                 => ClosedSocketsOf(u)[c].status = "closed"
<1>1. ASSUME NEW c \in Conns
      PROVE  /\ ClosedSocketsOf(u)[c] \in [status : {"unused", "open", "closing", "closed"},
                        user   : Users \cup {NoUser}]
             /\ ClosedSocketsOf(u)[c].user = socket[c].user
             /\ ClosedSocketsOf(u)[c].status \in {"open", "closing"} => 
                  socket[c].status \in {"open", "closing"}
             /\ ClosedSocketsOf(u)[c].status = "unused" => socket[c].status = "unused"
             /\ socket[c].status = "closed" => ClosedSocketsOf(u)[c].status = "closed"
  <2>1. socket[c] \in [status : {"unused", "open", "closing", "closed"},
                        user   : Users \cup {NoUser}]
    BY DEF SocketOwners, SocketTable
  <2>2. CASE c \in OpenConnsOf(u)
    <3>1. ClosedSocketsOf(u)[c] = [socket[c] EXCEPT !.status = "closing"]
      BY <2>2 DEF ClosedSocketsOf
    <3>2. socket[c].status = "open"
      BY <2>2 DEF OpenConnsOf, OpenConns
    <3> QED
      BY <2>1, <3>1, <3>2
  <2>3. CASE c \notin OpenConnsOf(u)
    <3>1. ClosedSocketsOf(u)[c] = socket[c]
      BY <2>3 DEF ClosedSocketsOf
    <3> QED
      BY <2>1, <3>1
  <2> QED
    BY <2>2, <2>3
<1> QED
  BY <1>1 DEF ClosedSocketsOf, SocketTable

\* A fresh object holds no sockets.
LEMMA InitOwners == Init => SocketOwners
  BY DEF Init, SocketOwners, SocketTable, Unused

\* No handler gives a live socket to nobody.
LEMMA NextOwners ==
    ASSUME SocketOwners, [Next]_workerVars
    PROVE  SocketOwners'
<1>0. CASE socket' = socket
  BY <1>0 DEF SocketOwners, SocketTable
<1>1. ASSUME NEW c \in Conns, NEW u \in Users, NEW s \in {"open", "closed"},
             socket' = [socket EXCEPT ![c] = [status |-> s, user |-> u]]
      PROVE  SocketOwners'
  BY <1>1 DEF SocketOwners, SocketTable
<1>2. ASSUME NEW u, socket' = ClosedSocketsOf(u)
      PROVE  SocketOwners'
  BY <1>2, ClosedSocketsOwners DEF SocketOwners, SocketTable
<1>3. ASSUME NEW c \in Conns, NEW u \in Users, Connect(c, u)
      PROVE  SocketOwners'
  BY <1>1, <1>3 DEF Connect, RefuseConnection, ConnectAgain, ConnectAndJoin,
                    ConnectHalfStored
<1>4. ASSUME NEW c, MessageRefused(c)
      PROVE  SocketOwners'
  BY <1>0, <1>4 DEF MessageRefused
<1>5. ASSUME NEW c, NEW e, Message(c, e)
      PROVE  SocketOwners'
  BY <1>0, <1>5 DEF Message, MessageAccepted, MessageNotStored, MessageAnswered
<1>6. ASSUME NEW c \in Conns, Close(c)
      PROVE  SocketOwners'
  <2>1. socket' = [socket EXCEPT ![c].status = "closed"]
    BY <1>6 DEF Close, ConnectionEnds, LastConnectionEnds, LastConnectionHalfRemoved, Ends
  <2> QED
    BY <2>1 DEF SocketOwners, SocketTable
<1>7. ASSUME NEW e, Moderate(e)
      PROVE  SocketOwners'
  BY <1>0, <1>2, <1>7 DEF Moderate, EjectionRepeated, ModerationAccepted,
                          ModerationAnswered, SocketsAfterEjection
<1>8. CASE Restart
  <2>1. ASSUME NEW c \in Conns
        PROVE  socket'[c] = socket[c] \/ socket'[c] = [socket[c] EXCEPT !.status = "closed"]
    BY <1>8 DEF Restart
  <2>2. socket' = [c \in Conns |-> socket'[c]]
    BY <1>8 DEF Restart
  <2> QED
    BY <2>1, <2>2 DEF SocketOwners, SocketTable
<1>9. CASE UNCHANGED workerVars
  BY <1>0, <1>9 DEF workerVars
<1> QED
  BY <1>3, <1>4, <1>5, <1>6, <1>7, <1>8, <1>9 DEF Next

-----------------------------------------------------------------------------
(* The refinement *)

\* Every handler of the object is one change the protocol allows, or leaves the
\* stored room and the remembered keys alone.
LEMMA StepImplements ==
    ASSUME SocketOwners, [Next]_workerVars
    PROVE  [Protocol!Next]_(Protocol!protocolVars)
<1>0. ASSUME UNCHANGED <<room, recent>>
      PROVE  [Protocol!Next]_(Protocol!protocolVars)
  BY <1>0 DEF Protocol!protocolVars
<1>1. ASSUME NEW c \in Conns, NEW u \in Users, Connect(c, u)
      PROVE  [Protocol!Next]_(Protocol!protocolVars)
  <2>1. CASE ConnectAndJoin(c, u)
    <3>1. Protocol!ConnectionJoin(u) /\ room.sequence < MaxSequence
      BY <2>1, SameOperators DEF ConnectAndJoin, Protocol!ConnectionJoin,
                                 NeedsJoin
    <3> QED
      BY <3>1 DEF Protocol!Next
  <2> QED
    BY <1>0, <1>1, <2>1 DEF Connect, RefuseConnection, ConnectAgain,
                            ConnectHalfStored, stored
<1>2. ASSUME NEW c \in OpenConns, NEW cmd \in ClientCommandsOf[socket[c].user],
             NEW id \in CommandIds, NEW n, Message(c, EnvelopeOf(id, n, cmd))
      PROVE  [Protocol!Next]_(Protocol!protocolVars)
  <2>1. CASE MessageAccepted(c, EnvelopeOf(id, n, cmd))
    <3>. DEFINE e == EnvelopeOf(id, n, cmd) u == socket[c].user
    <3>1. u \in Users
      BY DEF OpenConns, SocketOwners
    <3>2. /\ Verdict(room, recent, e) = "accepted" /\ room.sequence < MaxSequence
          /\ room' = Applied(room, e.command) /\ recent' = Remember(recent, e.id)
      BY <2>1 DEF MessageAccepted, KeysAfter
    <3>3. e.expected = room.sequence /\ e.expected = n
      BY <3>2 DEF Verdict, IsCurrent, EnvelopeOf
    <3>4. e = [id |-> id, expected |-> room.sequence, command |-> cmd]
      BY <3>3 DEF EnvelopeOf
    <3>6. e.command \in ClientCommandsOf[u]
      BY <3>4
    <3>. HIDE DEF e, u
    <3>5. Protocol!ClientCommand(u, e)
      BY <3>1, <3>2, <3>4, <3>6, SameOperators
         DEF Protocol!ClientCommand, Protocol!Submit, u
    <3> QED
      BY <3>1, <3>2, <3>4, <3>5, SameOperators DEF Protocol!Next, u
  <2> QED
    BY <1>0, <1>2, <2>1 DEF Message, MessageNotStored, MessageAnswered, stored
<1>3. ASSUME NEW c \in Conns, Close(c)
      PROVE  [Protocol!Next]_(Protocol!protocolVars)
  <2>1. CASE LastConnectionEnds(c)
    <3>1. socket[c].user \in Users
      BY <2>1 DEF LastConnectionEnds, Ends, OpenConns, ClosingConns, SocketOwners
    <3>2. Protocol!ConnectionLeave(socket[c].user) /\ room.sequence < MaxSequence
      BY <2>1, <3>1, SameOperators DEF LastConnectionEnds,
                                       Protocol!ConnectionLeave
    <3> QED
      BY <3>1, <3>2 DEF Protocol!Next
  <2> QED
    BY <1>0, <1>3, <2>1 DEF Close, ConnectionEnds, LastConnectionHalfRemoved
<1>4. ASSUME NEW id \in CommandIds, NEW n, NEW cmd \in RemovalCommands,
             Moderate(EnvelopeOf(id, n, cmd))
      PROVE  [Protocol!Next]_(Protocol!protocolVars)
  <2>1. CASE ModerationAccepted(EnvelopeOf(id, n, cmd))
    <3>. DEFINE e == EnvelopeOf(id, n, cmd)
    <3>2. /\ Verdict(room, recent, e) = "accepted" /\ room.sequence < MaxSequence
          /\ room' = Applied(room, e.command) /\ recent' = Remember(recent, e.id)
          /\ MayModerate(e)
      BY <2>1 DEF ModerationAccepted, KeysAfter
    <3>3. e.expected = room.sequence /\ e.expected = n
      BY <3>2 DEF Verdict, IsCurrent, EnvelopeOf
    <3>4. e = [id |-> id, expected |-> room.sequence, command |-> cmd]
      BY <3>3 DEF EnvelopeOf
    <3>. HIDE DEF e
    <3>5. Protocol!ModerationAction(e)
      BY <3>2, SameOperators DEF Protocol!ModerationAction, Protocol!Submit,
                                 MayModerate
    <3> QED
      BY <3>2, <3>4, <3>5, SameOperators DEF Protocol!Next
  <2> QED
    BY <1>0, <1>4, <2>1 DEF Moderate, EjectionRepeated, ModerationAnswered, stored
<1>5. ASSUME NEW c, MessageRefused(c)
      PROVE  [Protocol!Next]_(Protocol!protocolVars)
  BY <1>0, <1>5 DEF MessageRefused, stored
<1>6. CASE Restart
  BY <1>0, <1>6 DEF Restart, stored
<1>7. CASE UNCHANGED workerVars
  BY <1>0, <1>7 DEF workerVars
<1> QED
  BY <1>1, <1>2, <1>3, <1>4, <1>5, <1>6, <1>7 DEF Next

-----------------------------------------------------------------------------

\* In every reachable state each live socket belongs to a user.
THEOREM SpecOwners == Spec => []SocketOwners
  BY InitOwners, NextOwners, PTL DEF Spec

\* The Durable Object implements the authoritative room of RoomBrainProtocol:
\* no interleaving of upgrades, messages, closings and moderation requests, no
\* failed write and no restart changes the room or the remembered keys in a
\* way the protocol does not allow.
THEOREM SpecImplementsProtocol == Spec => ImplementsProtocol
<1>1. Init => Protocol!Init
  BY SameOperators DEF Init, Protocol!Init
<1> QED
  BY <1>1, SpecOwners, StepImplements, PTL DEF Spec, ImplementsProtocol,
                                               Protocol!Spec

-----------------------------------------------------------------------------
(* The stored room *)

\* What an accepted envelope does to storage: it applies a permitted command
\* and remembers a key that was not remembered.
LEMMA AcceptedStored ==
    ASSUME NEW e, e.id \in CommandIds, Permitted(e.command),
           Verdict(room, recent, e) = "accepted",
           room' = Applied(room, e.command), recent' = KeysAfter(e)
    PROVE  /\ Permitted(e.command) /\ Accepts(room, e.command)
           /\ room' = Applied(room, e.command)
           /\ ~Remembered(recent, e.id) /\ recent' = Remember(recent, e.id)
  BY DEF Verdict, KeysAfter

\* Every handler leaves the room and the keys alone, or is the upgrade that joins
\* a user or the end of a user's last connection, or accepts an envelope.
LEMMA StoredStep ==
    ASSUME SocketOwners, Next
    PROVE  \/ UNCHANGED <<room, recent>>
           \/ \E c \in Conns, u \in Users : ConnectAndJoin(c, u)
           \/ \E c \in Conns : LastConnectionEnds(c)
           \/ \E c : \E id \in CommandIds :
                 /\ Permitted(c) /\ Accepts(room, c) /\ room' = Applied(room, c)
                 /\ ~Remembered(recent, id) /\ recent' = Remember(recent, id)
<1>1. ASSUME NEW c \in Conns, NEW u \in Users, Connect(c, u)
      PROVE  UNCHANGED <<room, recent>> \/ ConnectAndJoin(c, u)
  BY <1>1 DEF Connect, RefuseConnection, ConnectAgain, ConnectHalfStored, stored
<1>2. ASSUME NEW c \in OpenConns, NEW cmd \in ClientCommandsOf[socket[c].user],
             NEW id \in CommandIds, NEW n, Message(c, EnvelopeOf(id, n, cmd))
      PROVE  \/ UNCHANGED <<room, recent>>
             \/ /\ Permitted(cmd) /\ Accepts(room, cmd)
                /\ room' = Applied(room, cmd)
                /\ ~Remembered(recent, id) /\ recent' = Remember(recent, id)
  <2>. DEFINE e == EnvelopeOf(id, n, cmd)
  <2>1. e.id = id /\ e.command = cmd
    BY DEF EnvelopeOf
  <2>2. socket[c].user \in Users
    BY DEF OpenConns, SocketOwners
  <2>3. Permitted(cmd)
    BY <2>2, ClientCommandsPermitted
  <2>. HIDE DEF e
  <2>4. CASE MessageAccepted(c, e)
    BY <2>1, <2>3, <2>4, AcceptedStored DEF MessageAccepted
  <2>5. CASE ~MessageAccepted(c, e)
    BY <1>2, <2>5 DEF Message, MessageNotStored, MessageAnswered, stored, e
  <2> QED
    BY <2>4, <2>5
<1>3. ASSUME NEW c \in Conns, Close(c)
      PROVE  UNCHANGED <<room, recent>> \/ LastConnectionEnds(c)
  BY <1>3 DEF Close, ConnectionEnds, LastConnectionHalfRemoved
<1>4. ASSUME NEW id \in CommandIds, NEW n, NEW cmd \in RemovalCommands,
             Moderate(EnvelopeOf(id, n, cmd))
      PROVE  \/ UNCHANGED <<room, recent>>
             \/ /\ Permitted(cmd) /\ Accepts(room, cmd)
                /\ room' = Applied(room, cmd)
                /\ ~Remembered(recent, id) /\ recent' = Remember(recent, id)
  <2>. DEFINE e == EnvelopeOf(id, n, cmd)
  <2>1. e.id = id /\ e.command = cmd
    BY DEF EnvelopeOf
  <2>2. Permitted(cmd)
    BY RemovalCommandsPermitted
  <2>. HIDE DEF e
  <2>3. CASE ModerationAccepted(e)
    BY <2>1, <2>2, <2>3, AcceptedStored DEF ModerationAccepted
  <2>4. CASE ~ModerationAccepted(e)
    BY <1>4, <2>4 DEF Moderate, EjectionRepeated, ModerationAnswered, stored, e
  <2> QED
    BY <2>3, <2>4
<1>5. ASSUME NEW c, MessageRefused(c)
      PROVE  UNCHANGED <<room, recent>>
  BY <1>5 DEF MessageRefused, stored
<1>6. CASE Restart
  BY <1>6 DEF Restart, stored
<1>7. SUFFICES ASSUME ~(UNCHANGED <<room, recent>>)
               PROVE  \/ \E c \in Conns, u \in Users : ConnectAndJoin(c, u)
                      \/ \E c \in Conns : LastConnectionEnds(c)
                      \/ \E c : \E id \in CommandIds :
                            /\ Permitted(c) /\ Accepts(room, c)
                            /\ room' = Applied(room, c)
                            /\ ~Remembered(recent, id)
                            /\ recent' = Remember(recent, id)
  OBVIOUS
<1>8. CASE \E c \in Conns, u \in Users : Connect(c, u)
  BY <1>1, <1>7, <1>8
<1>9. CASE \E c \in OpenConns : \E cmd \in ClientCommandsOf[socket[c].user],
              id \in CommandIds, n \in {0, room.sequence} :
                 Message(c, EnvelopeOf(id, n, cmd))
  <2>1. PICK c \in OpenConns : \E cmd \in ClientCommandsOf[socket[c].user],
              id \in CommandIds, n \in {0, room.sequence} :
                 Message(c, EnvelopeOf(id, n, cmd))
    BY <1>9
  <2>2. PICK cmd \in ClientCommandsOf[socket[c].user], id \in CommandIds,
             n \in {0, room.sequence} : Message(c, EnvelopeOf(id, n, cmd))
    BY <2>1
  <2>3. /\ Permitted(cmd) /\ Accepts(room, cmd)
        /\ room' = Applied(room, cmd)
        /\ ~Remembered(recent, id) /\ recent' = Remember(recent, id)
    BY <1>2, <1>7, <2>2, Zenon
  <2> QED
    BY <2>3
<1>10. CASE \E c \in Conns : Close(c)
  BY <1>3, <1>7, <1>10
<1>11. CASE \E id \in CommandIds, n \in {0, room.sequence},
               cmd \in RemovalCommands : Moderate(EnvelopeOf(id, n, cmd))
  <2>1. PICK id \in CommandIds, n \in {0, room.sequence},
             cmd \in RemovalCommands : Moderate(EnvelopeOf(id, n, cmd))
    BY <1>11
  <2>3. /\ Permitted(cmd) /\ Accepts(room, cmd)
        /\ room' = Applied(room, cmd)
        /\ ~Remembered(recent, id) /\ recent' = Remember(recent, id)
    BY <1>4, <1>7, <2>1, Zenon
  <2> QED
    BY <2>3
<1> QED
  BY <1>5, <1>6, <1>7, <1>8, <1>9, <1>10, <1>11 DEF Next

\* What storage holds in every reachable state.
StoredInv ==
    /\ RoomInv(room)
    /\ recent \in Seq(CommandIds)
    /\ Len(recent) <= RecentLimit

\* A fresh object stores an empty room.
LEMMA InitStored == Init => StoredInv
<1>. SUFFICES ASSUME Init PROVE StoredInv
  OBVIOUS
<1>. USE RecentLimitAssumption, HostAssumption
<1>1. /\ room.queue = << >> /\ room.role = [u \in Users |-> Absent]
      /\ room \in Rooms
  BY DEF Init, InitialRoom, Rooms
<1>2. QueueOfViewers(room)
  BY <1>1 DEF QueueOfViewers, Once
<1>3. NoPrivilegeMinted(room) /\ room.role[Host] # "viewer"
  BY <1>1 DEF NoPrivilegeMinted, Moderates, ModeratingRoles, Absent
<1>4. recent = << >>
  BY DEF Init
<1> QED
  BY <1>1, <1>2, <1>3, <1>4 DEF StoredInv, RoomInv

\* No handler breaks what storage holds.
LEMMA NextStored ==
    ASSUME SocketOwners, StoredInv, [Next]_workerVars
    PROVE  StoredInv'
<1>1. ASSUME UNCHANGED <<room, recent>>
      PROVE  StoredInv'
  BY <1>1 DEF StoredInv, RoomInv, QueueOfViewers, Once, NoPrivilegeMinted,
              Moderates
<1>2. ASSUME NEW c, Permitted(c), Accepts(room, c), room' = Applied(room, c)
      PROVE  RoomInv(room)'
  <2>1. RoomInv(Applied(room, c))
    BY <1>2, ChangeKeepsRoomInv DEF StoredInv
  <2> QED
    BY <1>2, <2>1, Zenon
<1>3. ASSUME NEW c, NEW u \in Users, c = Join(u, TokenRole(u)) \/ c = Leave(u),
             Accepts(room, c), room' = Applied(room, c), UNCHANGED recent
      PROVE  StoredInv'
  <2>1. RoomInv(room)'
    BY <1>2, <1>3, ConnectionCommandsPermitted
  <2> QED
    BY <1>3, <2>1 DEF StoredInv
<1>4. ASSUME NEW c, NEW id \in CommandIds, Permitted(c), Accepts(room, c),
             room' = Applied(room, c), recent' = Remember(recent, id)
      PROVE  StoredInv'
  <2>1. recent' \in Seq(CommandIds) /\ Len(recent') <= RecentLimit
    BY <1>4, RememberWindow DEF StoredInv
  <2> QED
    BY <1>2, <1>4, <2>1 DEF StoredInv
<1>5. ASSUME NEW c \in Conns, NEW u \in Users, ConnectAndJoin(c, u)
      PROVE  StoredInv'
  BY <1>3, <1>5 DEF ConnectAndJoin
<1>6. ASSUME NEW c \in Conns, LastConnectionEnds(c)
      PROVE  StoredInv'
  <2>1. socket[c].user \in Users
    BY <1>6 DEF LastConnectionEnds, Ends, OpenConns, ClosingConns, SocketOwners
  <2>2. Accepts(room, Leave(socket[c].user))
    BY <2>1, ConnectionCommandsPermitted
  <2> QED
    BY <1>3, <1>6, <2>1, <2>2 DEF LastConnectionEnds
<1>7. CASE UNCHANGED workerVars
  BY <1>1, <1>7 DEF workerVars
<1> QED
  BY <1>1, <1>4, <1>5, <1>6, <1>7, StoredStep

-----------------------------------------------------------------------------
(* The presence registry *)

\* The connection of every open socket is registered with its user, but for a
\* ticket of which a socket has ended, and no user has more registered connections
\* than the limit.
RegistryInv ==
    /\ presence \in [Users -> SUBSET Ids]
    /\ \A u \in Users : /\ IsFiniteSet(presence[u])
                        /\ Cardinality(presence[u]) <= ConnectionLimit
    /\ \A c \in Conns : socket[c].status = "open" /\ Undisturbed(c)
                            => IsRegistered(c)

\* What has been closed stays closed: a ticket is disturbed for good.
LEMMA StaysDisturbed ==
    ASSUME \A d \in Conns : socket[d].status = "closed" => socket'[d].status = "closed",
           NEW c \in Conns, Undisturbed(c)'
    PROVE  Undisturbed(c)
  BY DEF Undisturbed

\* The registry starts empty.
LEMMA InitRegistry == Init => RegistryInv
<1>. SUFFICES ASSUME Init PROVE RegistryInv
  OBVIOUS
<1>1. \A u \in Users : presence[u] = {}
  BY DEF Init
<1>2. \A c \in Conns : socket[c].status # "open"
  BY DEF Init, Unused
<1>3. Cardinality({}) <= ConnectionLimit
  BY WorkerAssumption, FS_EmptySet
<1> QED
  BY <1>1, <1>2, <1>3, FS_EmptySet DEF Init, RegistryInv

\* Registering the connection of a socket that arrives below the limit, or whose
\* connection is registered already.
LEMMA ClaimKeepsRegistry ==
    ASSUME SocketOwners, RegistryInv, NEW c \in Conns, NEW u \in Users,
           NEW s \in {"open", "closed"}, Arriving(c, u), BelowLimit(c, u),
           presence' = Claimed(c, u),
           socket' = [socket EXCEPT ![c] = [status |-> s, user |-> u]]
    PROVE  RegistryInv'
<1>0. presence' = [presence EXCEPT ![u] = @ \cup {IdOf[c]}] /\ IdOf[c] \in Ids
  BY DEF Claimed, Ids
<1>1. presence' \in [Users -> SUBSET Ids]
  BY <1>0 DEF RegistryInv
<1>2. presence'[u] = presence[u] \cup {IdOf[c]}
  BY <1>0 DEF RegistryInv
<1>3. IsFiniteSet(presence'[u]) /\ Cardinality(presence'[u]) <= ConnectionLimit
  <2>1. /\ IsFiniteSet(presence[u]) /\ Cardinality(presence[u]) \in Nat
        /\ Cardinality(presence[u]) <= ConnectionLimit
    BY FS_CardinalityType DEF RegistryInv
  <2>2. CASE IdOf[c] \in presence[u]
    <3>1. presence'[u] = presence[u]
      BY <1>2, <2>2
    <3> QED
      BY <2>1, <3>1
  <2>3. CASE Cardinality(presence[u]) < ConnectionLimit
    <3>1. /\ IsFiniteSet(presence[u] \cup {IdOf[c]})
          /\ \/ Cardinality(presence[u] \cup {IdOf[c]}) = Cardinality(presence[u])
             \/ Cardinality(presence[u] \cup {IdOf[c]}) = Cardinality(presence[u]) + 1
      BY <2>1, FS_AddElement
    <3>2. Cardinality(presence[u]) + 1 <= ConnectionLimit /\ ConnectionLimit \in Nat
      BY <2>1, <2>3, WorkerAssumption
    <3>3. Cardinality(presence[u] \cup {IdOf[c]}) <= ConnectionLimit
      BY <2>1, <2>3, <3>1, <3>2
    <3> QED
      BY <1>2, <3>1, <3>3
  <2> QED
    BY <2>2, <2>3 DEF BelowLimit
<1>4. \A v \in Users : v # u => presence'[v] = presence[v]
  BY <1>0 DEF RegistryInv
<1>5. ASSUME NEW d \in Conns, socket'[d].status = "open", Undisturbed(d)'
      PROVE  IdOf[d] \in presence'[socket'[d].user]
  <2>1. CASE d = c
    BY <1>2, <2>1 DEF SocketOwners, SocketTable
  <2>2. CASE d # c
    <3>1. socket'[d] = socket[d]
      BY <2>2 DEF SocketOwners, SocketTable
    <3>2. \A e \in Conns : socket[e].status = "closed" => socket'[e].status = "closed"
      BY DEF SocketOwners, SocketTable, Arriving
    <3>3. Undisturbed(d)
      BY <1>5, <3>2, StaysDisturbed
    <3>4. socket[d].user \in Users /\ IdOf[d] \in presence[socket[d].user]
      BY <1>5, <3>1, <3>3 DEF SocketOwners, RegistryInv, IsRegistered
    <3> QED
      BY <1>2, <1>4, <3>1, <3>4
  <2> QED
    BY <2>1, <2>2
<1>6. \A d \in Conns : socket'[d].status = "open" /\ Undisturbed(d)' => IsRegistered(d)'
  BY <1>5 DEF IsRegistered
<1>7. \A v \in Users : /\ IsFiniteSet(presence'[v])
                        /\ Cardinality(presence'[v]) <= ConnectionLimit
  BY <1>3, <1>4 DEF RegistryInv
<1> QED
  BY <1>1, <1>6, <1>7 DEF RegistryInv

\* Releasing a connection that ends.
LEMMA ReleaseKeepsRegistry ==
    ASSUME SocketOwners, RegistryInv, NEW c \in Conns, socket[c].user \in Users,
           presence' = Released(c),
           socket' = [socket EXCEPT ![c].status = "closed"]
    PROVE  RegistryInv'
<1>. DEFINE u == socket[c].user
<1>1. presence' = [presence EXCEPT ![u] = @ \ {IdOf[c]}]
  BY DEF Released
<1>. HIDE DEF u
<1>2. presence' \in [Users -> SUBSET Ids] /\ u \in Users
  BY <1>1 DEF RegistryInv, u
<1>3. presence'[u] = presence[u] \ {IdOf[c]}
  BY <1>1, <1>2 DEF RegistryInv
<1>4. \A v \in Users : v # u => presence'[v] = presence[v]
  BY <1>1 DEF RegistryInv
<1>5. IsFiniteSet(presence'[u]) /\ Cardinality(presence'[u]) <= ConnectionLimit
  <2>1. IsFiniteSet(presence[u]) /\ Cardinality(presence[u]) \in Nat
    BY <1>2, FS_CardinalityType DEF RegistryInv
  <2>. DEFINE Rest == presence[u] \ {IdOf[c]}
  <2>2. /\ IsFiniteSet(Rest) /\ Cardinality(Rest) \in Nat
        /\ Cardinality(Rest) <= Cardinality(presence[u])
    BY <2>1, FS_Subset, FS_CardinalityType
  <2>3. Cardinality(presence[u]) <= ConnectionLimit
    BY <1>2 DEF RegistryInv
  <2> QED
    BY <1>3, <2>1, <2>2, <2>3, WorkerAssumption
<1>6. ASSUME NEW d \in Conns, socket'[d].status = "open", Undisturbed(d)'
      PROVE  IdOf[d] \in presence'[socket'[d].user]
  <2>1. socket'[c].status = "closed" /\ d # c
    BY <1>6 DEF SocketOwners, SocketTable
  <2>2. socket'[d] = socket[d]
    BY <2>1 DEF SocketOwners, SocketTable
  <2>3. IdOf[d] # IdOf[c]
    BY <1>6, <2>1 DEF Undisturbed
  <2>4. \A e \in Conns : socket[e].status = "closed" => socket'[e].status = "closed"
    BY DEF SocketOwners, SocketTable
  <2>5. Undisturbed(d)
    BY <1>6, <2>4, StaysDisturbed
  <2>6. socket[d].user \in Users /\ IdOf[d] \in presence[socket[d].user]
    BY <1>6, <2>2, <2>5 DEF SocketOwners, RegistryInv, IsRegistered
  <2> QED
    BY <1>3, <1>4, <2>2, <2>3, <2>6
<1>7. \A d \in Conns : socket'[d].status = "open" /\ Undisturbed(d)' => IsRegistered(d)'
  BY <1>6 DEF IsRegistered
<1>8. \A v \in Users : /\ IsFiniteSet(presence'[v])
                        /\ Cardinality(presence'[v]) <= ConnectionLimit
  BY <1>4, <1>5 DEF RegistryInv
<1> QED
  BY <1>2, <1>7, <1>8 DEF RegistryInv

\* Closing sockets, for whatever reason, leaves the open ones registered.
LEMMA ClosingKeepsRegistry ==
    ASSUME RegistryInv, UNCHANGED presence,
           \A c \in Conns : socket'[c].status = "open" =>
              socket[c].status = "open" /\ socket'[c].user = socket[c].user,
           \A c \in Conns : socket[c].status = "closed" => socket'[c].status = "closed"
    PROVE  RegistryInv'
<1>1. \A c \in Conns : socket'[c].status = "open" /\ Undisturbed(c)' => IsRegistered(c)'
  BY StaysDisturbed DEF RegistryInv, IsRegistered
<1> QED
  BY <1>1 DEF RegistryInv

\* No handler opens a socket it does not register, and none registers more
\* connections than the limit.
LEMMA NextRegistry ==
    ASSUME SocketOwners, RegistryInv, [Next]_workerVars
    PROVE  RegistryInv'
<1>0. ASSUME UNCHANGED <<presence, socket>>
      PROVE  RegistryInv'
  BY <1>0, ClosingKeepsRegistry
<1>1. ASSUME NEW c \in Conns, NEW u \in Users, Connect(c, u)
      PROVE  RegistryInv'
  <2>1. CASE RefuseConnection(c, u)
    <3>1. /\ presence' = presence
          /\ socket' = [socket EXCEPT ![c] = [status |-> "closed", user |-> u]]
      BY <2>1 DEF RefuseConnection, stored
    <3>2. \A d \in Conns : socket'[d].status = "open" => socket'[d] = socket[d]
      BY <3>1 DEF SocketOwners, SocketTable
    <3>3. \A d \in Conns : socket[d].status = "closed" => socket'[d].status = "closed"
      BY <3>1 DEF SocketOwners, SocketTable
    <3> QED
      BY <3>1, <3>2, <3>3, ClosingKeepsRegistry
  <2>2. CASE ConnectAgain(c, u)
    BY <2>2, ClaimKeepsRegistry DEF ConnectAgain
  <2>3. CASE ConnectAndJoin(c, u)
    BY <2>3, ClaimKeepsRegistry DEF ConnectAndJoin
  <2>4. CASE ConnectHalfStored(c, u)
    BY <2>4, ClaimKeepsRegistry DEF ConnectHalfStored
  <2> QED
    BY <1>1, <2>1, <2>2, <2>3, <2>4 DEF Connect
<1>2. ASSUME NEW c, MessageRefused(c)
      PROVE  RegistryInv'
  BY <1>0, <1>2 DEF MessageRefused, stored
<1>3. ASSUME NEW c, NEW e, Message(c, e)
      PROVE  RegistryInv'
  BY <1>0, <1>3 DEF Message, MessageAccepted, MessageNotStored,
                    MessageAnswered, stored
<1>4. ASSUME NEW c \in Conns, Close(c)
      PROVE  RegistryInv'
  <2>1. /\ c \in OpenConns \cup ClosingConns
        /\ presence' = Released(c)
        /\ socket' = [socket EXCEPT ![c].status = "closed"]
    BY <1>4 DEF Close, ConnectionEnds, LastConnectionEnds,
                LastConnectionHalfRemoved, Ends
  <2>2. socket[c].user \in Users
    BY <2>1 DEF OpenConns, ClosingConns, SocketOwners
  <2> QED
    BY <2>1, <2>2, ReleaseKeepsRegistry
<1>5. ASSUME NEW u, socket' = ClosedSocketsOf(u), UNCHANGED presence
      PROVE  RegistryInv'
  <2>1. \A c \in Conns : socket'[c].status = "open" => socket[c].status = "open"
    BY <1>5 DEF ClosedSocketsOf, OpenConnsOf, OpenConns, SocketOwners, SocketTable
  <2>2. \A c \in Conns : /\ socket'[c].user = socket[c].user
                         /\ socket[c].status = "closed" => socket'[c].status = "closed"
    BY <1>5, ClosedSocketsOwners
  <2> QED
    BY <1>5, <2>1, <2>2, ClosingKeepsRegistry
<1>6. ASSUME NEW e, Moderate(e)
      PROVE  RegistryInv'
  BY <1>0, <1>5, <1>6 DEF Moderate, EjectionRepeated, ModerationAccepted,
                          ModerationAnswered, SocketsAfterEjection, stored
<1>7. CASE Restart
  <2>1. /\ presence' = presence
        /\ \A c \in Conns : \/ socket'[c] = socket[c]
                            \/ socket'[c] = [socket[c] EXCEPT !.status = "closed"]
    BY <1>7 DEF Restart, stored
  <2>2. \A c \in Conns : /\ socket'[c].status = "open" => socket[c].status = "open"
                         /\ socket'[c].user = socket[c].user
                         /\ socket[c].status = "closed" => socket'[c].status = "closed"
    BY <2>1 DEF SocketOwners, SocketTable
  <2> QED
    BY <2>1, <2>2, ClosingKeepsRegistry
<1>8. CASE UNCHANGED workerVars
  BY <1>0, <1>8 DEF workerVars
<1> QED
  BY <1>1, <1>2, <1>3, <1>4, <1>6, <1>7, <1>8 DEF Next

-----------------------------------------------------------------------------
(* The theorems *)

\* The inductive invariant of the object.
WorkerInv == SocketOwners /\ StoredInv /\ RegistryInv

\* It holds of every reachable state.
THEOREM SpecWorkerInv == Spec => []WorkerInv
<1>1. Init => WorkerInv
  BY InitOwners, InitStored, InitRegistry DEF WorkerInv
<1>2. WorkerInv /\ [Next]_workerVars => WorkerInv'
  BY NextOwners, NextStored, NextRegistry DEF WorkerInv
<1> QED
  BY <1>1, <1>2, PTL DEF Spec

\* The tickets of the open sockets of u but those of which a socket has ended.
HeldIds(u) == {IdOf[c] : c \in {d \in OpenConnsOf(u) : Undisturbed(d)}}

\* No user ever holds open sockets of more tickets than the limit, whatever writes
\* fail and whenever the object restarts, leaving out a ticket of which one socket
\* has ended: its end took the others' entry out of the registry.
THEOREM SpecConnectionLimitHolds == Spec => []ConnectionLimitHolds
<1>1. WorkerInv => ConnectionLimitHolds
  <2>. SUFFICES ASSUME WorkerInv, NEW u \in Users
                PROVE  Cardinality(HeldIds(u)) <= ConnectionLimit
    BY DEF ConnectionLimitHolds, HeldIds
  <2>1. HeldIds(u) \subseteq presence[u]
    BY DEF WorkerInv, RegistryInv, IsRegistered, OpenConnsOf, OpenConns, HeldIds
  <2>2. /\ IsFiniteSet(presence[u]) /\ Cardinality(presence[u]) \in Nat
        /\ Cardinality(presence[u]) <= ConnectionLimit
    BY FS_CardinalityType DEF WorkerInv, RegistryInv
  <2>3. /\ Cardinality(HeldIds(u)) <= Cardinality(presence[u])
        /\ Cardinality(HeldIds(u)) \in Nat
    BY <2>1, <2>2, FS_Subset, FS_CardinalityType
  <2> QED
    BY <2>2, <2>3, WorkerAssumption
<1> QED
  BY <1>1, SpecWorkerInv, PTL

\* Remembering a key that was not remembered changes the window.
LEMMA RememberChanges ==
    ASSUME StoredInv, NEW id \in CommandIds, ~Remembered(recent, id)
    PROVE  Remember(recent, id) # recent
<1>. SUFFICES ASSUME Remember(recent, id) = recent PROVE FALSE
  OBVIOUS
<1>1. /\ recent \in Seq(CommandIds) /\ recent[Len(recent)] = id
      /\ Len(recent) = RecentLimit
  BY RememberWindow DEF StoredInv
<1>2. Len(recent) \in DOMAIN recent
  BY <1>1, RecentLimitAssumption
<1> QED
  BY <1>1, <1>2 DEF Remembered

\* The end of a connection, whenever it is reported, never removes a user who
\* has another connection open: the registry keeps the user's other tickets.
THEOREM SpecLateEndKeepsUser == Spec => LateEndKeepsUser
<1>. DEFINE Kept == UNCHANGED recent =>
              \A u \in Participants(room) :
                 room'.role[u] = Absent =>
                    \A c \in OpenConnsOf(u)' : ~Undisturbed(c)'
<1>1. WorkerInv /\ [Next]_workerVars => [Kept]_workerVars
  <2>. SUFFICES ASSUME WorkerInv, Next, UNCHANGED recent,
                       NEW u \in Users, room.role[u] # Absent,
                       room'.role[u] = Absent
                PROVE  \A d \in OpenConnsOf(u)' : ~Undisturbed(d)'
    BY DEF Participants
  <2>1. \/ \E c \in Conns, v \in Users : ConnectAndJoin(c, v)
        \/ \E c \in Conns : LastConnectionEnds(c)
    <3>1. ~(UNCHANGED <<room, recent>>)
      OBVIOUS
    <3>2. \A id \in CommandIds : ~Remembered(recent, id) =>
                                     recent' # Remember(recent, id)
      BY RememberChanges DEF WorkerInv
    <3> QED
      BY <3>1, <3>2, StoredStep DEF WorkerInv
  <2>2. /\ room \in Rooms /\ QueueOfViewers(room)
        /\ room.role \in [Users -> Roles \cup {Absent}]
    BY DEF WorkerInv, StoredInv, RoomInv, Rooms
  <2>3. ASSUME NEW c \in Conns, NEW v \in Users, ConnectAndJoin(c, v)
        PROVE  FALSE
    <3>1. room'.role = [room.role EXCEPT ![v] = TokenRole(v)]
      BY <2>2, <2>3, ConnectionRoles DEF ConnectAndJoin
    <3>2. TokenRole(v) # Absent
      BY DEF TokenRole, Absent
    <3> QED
      BY <2>2, <3>1, <3>2
  <2>4. ASSUME NEW c \in Conns, LastConnectionEnds(c)
        PROVE  \A d \in OpenConnsOf(u)' : ~Undisturbed(d)'
    <3>1. /\ socket[c].user \in Users
          /\ room' = Applied(room, Leave(socket[c].user))
          /\ presence[socket[c].user] \subseteq {IdOf[c]}
          /\ socket' = [socket EXCEPT ![c].status = "closed"]
      BY <2>4 DEF LastConnectionEnds, IsLast, Ends, OpenConns, ClosingConns,
                  WorkerInv, SocketOwners
    <3>2. room'.role = [room.role EXCEPT ![socket[c].user] = Absent]
      BY <2>2, <3>1, ConnectionRoles
    <3>3. u = socket[c].user
      BY <2>2, <3>2
    <3>4. ASSUME NEW d \in Conns, socket'[d].status = "open",
                 socket'[d].user = u, Undisturbed(d)'
          PROVE  FALSE
      <4>1. socket'[c].status = "closed" /\ d # c
        BY <3>1, <3>4 DEF WorkerInv, SocketOwners, SocketTable
      <4>2. socket'[d] = socket[d] /\ IdOf[d] # IdOf[c]
        BY <3>1, <3>4, <4>1 DEF WorkerInv, SocketOwners, SocketTable, Undisturbed
      <4>3. \A e \in Conns : socket[e].status = "closed" => socket'[e].status = "closed"
        BY <3>1 DEF WorkerInv, SocketOwners, SocketTable
      <4>4. Undisturbed(d)
        BY <3>4, <4>3, StaysDisturbed
      <4>5. IdOf[d] \in presence[u]
        BY <3>4, <4>2, <4>4 DEF WorkerInv, RegistryInv, IsRegistered
      <4> QED
        BY <3>1, <3>3, <4>2, <4>5
    <3> QED
      BY <3>4 DEF OpenConnsOf, OpenConns
  <2> QED
    BY <2>1, <2>3, <2>4
<1> QED
  BY <1>1, SpecWorkerInv, PTL DEF Spec, LateEndKeepsUser

\* An ejection reported as done left its target no open socket, also when it is
\* repeated and when the target was not in the room any more.
THEOREM SpecEjectionDisconnects == Spec => []EjectionDisconnects
<1>1. Init => EjectionDisconnects
  BY DEF Init, NoReply, EjectionDisconnects
<1>2. SocketOwners /\ EjectionDisconnects /\ [Next]_workerVars
        => EjectionDisconnects'
  <2>. SUFFICES ASSUME SocketOwners, EjectionDisconnects, [Next]_workerVars
                PROVE  EjectionDisconnects'
    OBVIOUS
  <2>1. CASE UNCHANGED workerVars
    BY <2>1 DEF workerVars, EjectionDisconnects, OpenConnsOf, OpenConns
  <2>2. ASSUME reply'.status # "ejected"
        PROVE  EjectionDisconnects'
    BY <2>2 DEF EjectionDisconnects
  <2>3. ASSUME NEW u, socket' = ClosedSocketsOf(u), reply'.target = u
        PROVE  EjectionDisconnects'
    <3>1. \A c \in Conns : ~(socket'[c].status = "open" /\ socket'[c].user = u)
      BY <2>3 DEF ClosedSocketsOf, OpenConnsOf, OpenConns, SocketOwners,
                  SocketTable
    <3> QED
      BY <2>3, <3>1 DEF EjectionDisconnects, OpenConnsOf, OpenConns
  <2>4. ASSUME NEW e, EjectionRepeated(e)
        PROVE  EjectionDisconnects'
    BY <2>3, <2>4 DEF EjectionRepeated, SocketsAfterEjection, Reply
  <2>5. ASSUME NEW e, ModerationAccepted(e)
        PROVE  EjectionDisconnects'
    <3>1. CASE IsEjection(e) /\ BroadcastCompletes
      BY <2>3, <2>5, <3>1 DEF ModerationAccepted, SocketsAfterEjection, Reply
    <3>2. CASE ~(IsEjection(e) /\ BroadcastCompletes)
      BY <2>2, <2>5, <3>2 DEF ModerationAccepted, Reply
    <3> QED
      BY <3>1, <3>2
  <2>6. ASSUME NEW e, ModerationAnswered(e)
        PROVE  EjectionDisconnects'
    BY <2>2, <2>6 DEF ModerationAnswered, Verdict, Reply
  <2>7. ASSUME reply' = NoReply
        PROVE  EjectionDisconnects'
    BY <2>2, <2>7 DEF NoReply
  <2>8. CASE Next
    <3>1. \A c, u : Connect(c, u) => reply' = NoReply
      BY DEF Connect, RefuseConnection, ConnectAgain, ConnectAndJoin,
             ConnectHalfStored
    <3>2. \A c : MessageRefused(c) \/ Close(c) \/ Restart => reply' = NoReply
      BY DEF MessageRefused, Close, ConnectionEnds, LastConnectionEnds,
             LastConnectionHalfRemoved, Ends, Restart
    <3>3. \A c, e : Message(c, e) => reply' = NoReply
      BY Zenon DEF Message, MessageAccepted, MessageNotStored, MessageAnswered
    <3>4. reply' = NoReply \/ \E e : Moderate(e)
      BY <2>8, <3>1, <3>2, <3>3 DEF Next
    <3> QED
      BY <2>4, <2>5, <2>6, <2>7, <3>4 DEF Moderate
  <2> QED
    BY <2>1, <2>8
<1> QED
  BY <1>1, <1>2, SpecOwners, PTL DEF Spec

\* Messages and replies have their shape.
OutputInv ==
    /\ DOMAIN sent = Conns
    /\ reply.status \in {"none", "ejected", "demoted", "failed", "duplicate",
                         "sequence_mismatch", "rejected"}

\* Every handler sends to connections only and replies as the backend expects.
LEMMA NextOutput ==
    ASSUME OutputInv, [Next]_workerVars
    PROVE  OutputInv'
<1>1. \A c, m : DOMAIN [Silence EXCEPT ![c] = m] = Conns
  BY DEF Silence
<1>2. DOMAIN Silence = Conns
  BY DEF Silence
<1>3. ASSUME DOMAIN sent' = Conns, reply' = NoReply
      PROVE  OutputInv'
  BY <1>3 DEF OutputInv, NoReply
<1>4. ASSUME NEW c, NEW u, Connect(c, u)
      PROVE  OutputInv'
  BY <1>1, <1>2, <1>3, <1>4 DEF Connect, RefuseConnection, ConnectAgain,
                                ConnectAndJoin, ConnectHalfStored
<1>5. ASSUME NEW c, MessageRefused(c)
      PROVE  OutputInv'
  BY <1>1, <1>3, <1>5 DEF MessageRefused
<1>6. ASSUME NEW c, NEW e, Message(c, e)
      PROVE  OutputInv'
  <2>1. CASE MessageAccepted(c, e)
    BY <1>3, <2>1 DEF MessageAccepted
  <2>2. CASE MessageNotStored(c, e)
    BY <1>1, <1>3, <2>2 DEF MessageNotStored
  <2>3. CASE MessageAnswered(c, e)
    <3>1. PICK m : sent' = [Silence EXCEPT ![c] = m] /\ reply' = NoReply
      BY <2>3, Zenon DEF MessageAnswered
    <3> QED
      BY <1>1, <1>3, <3>1
  <2> QED
    BY <1>6, <2>1, <2>2, <2>3 DEF Message
<1>7. ASSUME NEW c, Close(c)
      PROVE  OutputInv'
  BY <1>2, <1>3, <1>7 DEF Close, ConnectionEnds, LastConnectionEnds,
                          LastConnectionHalfRemoved, Ends
<1>8. ASSUME NEW e, Moderate(e)
      PROVE  OutputInv'
  <2>1. CASE EjectionRepeated(e)
    BY <1>2, <2>1 DEF EjectionRepeated, OutputInv, Reply
  <2>2. CASE ModerationAccepted(e)
    BY <2>2 DEF ModerationAccepted, OutputInv, Reply
  <2>3. CASE ModerationAnswered(e)
    BY <1>2, <2>3 DEF ModerationAnswered, OutputInv, Reply, Verdict
  <2> QED
    BY <1>8, <2>1, <2>2, <2>3 DEF Moderate
<1>9. CASE Restart
  BY <1>2, <1>3, <1>9 DEF Restart
<1>10. CASE UNCHANGED workerVars
  BY <1>10 DEF workerVars, OutputInv
<1> QED
  BY <1>4, <1>5, <1>6, <1>7, <1>8, <1>9, <1>10 DEF Next

\* The object's storage, sockets and messages have the shape the code gives them.
THEOREM SpecTypeOK == Spec => []TypeOK
<1>1. Init => OutputInv
  BY DEF Init, OutputInv, Silence, NoReply
<1>2. Spec => []OutputInv
  BY <1>1, NextOutput, PTL DEF Spec
<1>3. WorkerInv /\ OutputInv => TypeOK
  BY DEF WorkerInv, OutputInv, TypeOK, StoredInv, RoomInv, SocketOwners,
         SocketTable, RegistryInv
<1> QED
  BY <1>2, <1>3, SpecWorkerInv, PTL

-----------------------------------------------------------------------------
(* The registry and the participants *)

\* A socket that may still report its end.
IsLive(c) == socket[c].status \in {"open", "closing"}

\* Every registered id is one of a live socket of its user.
NoneKept == \A u \in Users : \A i \in presence[u] :
               \E c \in Conns : IsLive(c) /\ socket[c].user = u /\ IdOf[c] = i

\* Every live socket is registered, but one of a ticket of which a socket ended.
NoneForgotten == \A c \in Conns : IsLive(c) /\ Undisturbed(c) => IsRegistered(c)

\* PresenceTracksSockets with the live sockets spelled out.
LEMMA TracksLive ==
    /\ SocketOwners => (PresenceTracksSockets <=> NoneKept /\ NoneForgotten)
    /\ SocketOwners' => (PresenceTracksSockets' <=> NoneKept' /\ NoneForgotten')
<1>1. SocketOwners => (PresenceTracksSockets <=> NoneKept /\ NoneForgotten)
  BY DEF PresenceTracksSockets, OpenConns, ClosingConns, IsLive, NoneKept,
         NoneForgotten, IsRegistered, SocketOwners
<1>2. SocketOwners' => (PresenceTracksSockets' <=> NoneKept' /\ NoneForgotten')
  BY DEF PresenceTracksSockets, OpenConns, ClosingConns, IsLive, NoneKept,
         NoneForgotten, IsRegistered, SocketOwners
<1> QED
  BY <1>1, <1>2

\* The registry follows every handler that completes: the upgrade, the end of a
\* socket, and an ejection, whose sockets are live until their end is reported.
LEMMA NextTracks ==
    ASSUME ~StorageMayFail, ~MayRestart, WorkerInv, PresenceTracksSockets,
           [Next]_workerVars
    PROVE  PresenceTracksSockets'
<1>0. /\ socket \in SocketTable /\ presence \in [Users -> SUBSET Ids]
      /\ NoneKept /\ NoneForgotten
      /\ \A c \in Conns : IsLive(c) => socket[c].user \in Users
  BY TracksLive DEF WorkerInv, SocketOwners, RegistryInv, IsLive
<1>1. SUFFICES NoneKept' /\ NoneForgotten'
  BY TracksLive, NextOwners DEF WorkerInv
<1>2. ASSUME UNCHANGED presence,
             \A c \in Conns : /\ IsLive(c)' <=> IsLive(c)
                              /\ socket'[c].user = socket[c].user
                              /\ socket[c].status = "closed" => socket'[c].status = "closed"
      PROVE  NoneKept' /\ NoneForgotten'
  <2>1. NoneKept'
    BY <1>0, <1>2 DEF NoneKept
  <2>2. NoneForgotten'
    BY <1>0, <1>2, StaysDisturbed DEF NoneForgotten, IsRegistered
  <2> QED
    BY <2>1, <2>2
<1>3. ASSUME UNCHANGED <<presence, socket>>
      PROVE  NoneKept' /\ NoneForgotten'
  BY <1>2, <1>3 DEF IsLive
<1>4. ASSUME NEW c \in Conns, NEW u \in Users, Connect(c, u)
      PROVE  NoneKept' /\ NoneForgotten'
  <2>0. ~IsLive(c) /\ socket[c].status = "unused"
    BY <1>4 DEF Connect, RefuseConnection, ConnectAgain, ConnectAndJoin,
                ConnectHalfStored, Arriving, IsLive
  <2>1. CASE RefuseConnection(c, u)
    <3>1. /\ presence' = presence
          /\ socket' = [socket EXCEPT ![c] = [status |-> "closed", user |-> u]]
      BY <2>1 DEF RefuseConnection, stored
    <3>2. ~IsLive(c)' /\ \A d \in Conns \ {c} : socket'[d] = socket[d]
      BY <1>0, <3>1 DEF IsLive, SocketTable
    <3>3. \A d \in Conns \ {c} : IsLive(d)' <=> IsLive(d)
      BY <3>2 DEF IsLive
    <3>4. \A d \in Conns : socket[d].status = "closed" => socket'[d].status = "closed"
      BY <2>0, <3>2
    <3>5. NoneKept'
      BY <1>0, <2>0, <3>1, <3>2, <3>3 DEF NoneKept
    <3>6. NoneForgotten'
      BY <1>0, <3>1, <3>2, <3>3, <3>4, StaysDisturbed DEF NoneForgotten, IsRegistered
    <3> QED
      BY <3>5, <3>6
  <2>2. CASE ConnectAgain(c, u) \/ ConnectAndJoin(c, u)
    <3>1. /\ presence' = [presence EXCEPT ![u] = @ \cup {IdOf[c]}]
          /\ socket' = [socket EXCEPT ![c] = [status |-> "open", user |-> u]]
      BY <2>2 DEF ConnectAgain, ConnectAndJoin, Claimed
    <3>2. /\ IsLive(c)' /\ socket'[c].user = u
          /\ \A d \in Conns \ {c} : socket'[d] = socket[d]
      BY <1>0, <3>1 DEF IsLive, SocketTable
    <3>3. \A d \in Conns \ {c} : IsLive(d)' <=> IsLive(d)
      BY <3>2 DEF IsLive
    <3>4. \A v \in Users : presence'[v] = IF v = u THEN presence[v] \cup {IdOf[c]}
                                          ELSE presence[v]
      BY <1>0, <3>1
    <3>5. \A d \in Conns : socket[d].status = "closed" => socket'[d].status = "closed"
      BY <2>0, <3>2
    <3>6. NoneKept'
      <4>. SUFFICES ASSUME NEW v \in Users, NEW i \in presence'[v]
                    PROVE  \E d \in Conns : /\ IsLive(d)' /\ socket'[d].user = v
                                            /\ IdOf[d] = i
        BY DEF NoneKept
      <4>1. CASE i \in presence[v]
        <5>1. PICK d \in Conns : IsLive(d) /\ socket[d].user = v /\ IdOf[d] = i
          BY <1>0, <4>1 DEF NoneKept
        <5> QED
          BY <2>0, <3>2, <3>3, <5>1
      <4>2. CASE v = u /\ i = IdOf[c]
        BY <3>2, <4>2
      <4> QED
        BY <3>4, <4>1, <4>2
    <3>7. NoneForgotten'
      <4>. SUFFICES ASSUME NEW d \in Conns, IsLive(d)', Undisturbed(d)'
                    PROVE  IsRegistered(d)'
        BY DEF NoneForgotten
      <4>1. CASE d = c
        BY <3>2, <3>4, <4>1 DEF IsRegistered
      <4>2. CASE d # c
        <5>1. Undisturbed(d) /\ IsLive(d) /\ socket'[d] = socket[d]
          BY <3>2, <3>3, <3>5, <4>2, StaysDisturbed
        <5>2. IdOf[d] \in presence[socket[d].user] /\ socket[d].user \in Users
          BY <1>0, <5>1 DEF NoneForgotten, IsRegistered
        <5> QED
          BY <3>4, <5>1, <5>2 DEF IsRegistered
      <4> QED
        BY <4>1, <4>2
    <3> QED
      BY <3>6, <3>7
  <2> QED
    BY <1>4, <2>1, <2>2 DEF Connect, ConnectHalfStored
<1>5. ASSUME NEW c \in Conns, Close(c)
      PROVE  NoneKept' /\ NoneForgotten'
  <2>1. /\ presence' = [presence EXCEPT ![socket[c].user] = @ \ {IdOf[c]}] /\ IsLive(c)
        /\ socket' = [socket EXCEPT ![c].status = "closed"]
    BY <1>5 DEF Close, ConnectionEnds, LastConnectionEnds, Released,
                LastConnectionHalfRemoved, Ends, OpenConns, ClosingConns, IsLive
  <2>2. /\ ~IsLive(c)' /\ socket'[c].status = "closed"
        /\ \A d \in Conns \ {c} : socket'[d] = socket[d]
    BY <1>0, <2>1 DEF IsLive, SocketTable
  <2>3. \A d \in Conns \ {c} : IsLive(d)' <=> IsLive(d)
    BY <2>2 DEF IsLive
  <2>4. \A v \in Users : presence'[v] = IF v = socket[c].user
                                        THEN presence[v] \ {IdOf[c]} ELSE presence[v]
    BY <1>0, <2>1
  <2>5. \A d \in Conns : socket[d].status = "closed" => socket'[d].status = "closed"
    BY <2>2
  <2>6. NoneKept'
    <3>. SUFFICES ASSUME NEW v \in Users, NEW i \in presence'[v]
                  PROVE  \E d \in Conns : /\ IsLive(d)' /\ socket'[d].user = v
                                          /\ IdOf[d] = i
      BY DEF NoneKept
    <3>1. i \in presence[v] /\ ~(v = socket[c].user /\ i = IdOf[c])
      BY <2>4
    <3>2. PICK d \in Conns : IsLive(d) /\ socket[d].user = v /\ IdOf[d] = i
      BY <1>0, <3>1 DEF NoneKept
    <3>3. d # c
      BY <3>1, <3>2
    <3> QED
      BY <2>2, <2>3, <3>2, <3>3
  <2>7. NoneForgotten'
    <3>. SUFFICES ASSUME NEW d \in Conns, IsLive(d)', Undisturbed(d)'
                  PROVE  IsRegistered(d)'
      BY DEF NoneForgotten
    <3>1. d # c
      BY <2>2
    <3>2. IdOf[d] # IdOf[c] /\ socket'[d] = socket[d] /\ IsLive(d)
      BY <2>2, <2>3, <3>1 DEF Undisturbed
    <3>3. Undisturbed(d)
      BY <2>5, StaysDisturbed
    <3>4. IdOf[d] \in presence[socket[d].user] /\ socket[d].user \in Users
      BY <1>0, <3>2, <3>3 DEF NoneForgotten, IsRegistered
    <3> QED
      BY <2>4, <3>2, <3>4 DEF IsRegistered
  <2> QED
    BY <2>6, <2>7
<1>6. ASSUME NEW u, socket' = ClosedSocketsOf(u), UNCHANGED presence
      PROVE  NoneKept' /\ NoneForgotten'
  <2>1. ASSUME NEW c \in Conns
        PROVE  /\ socket'[c].user = socket[c].user /\ (IsLive(c)' <=> IsLive(c))
               /\ socket[c].status = "closed" => socket'[c].status = "closed"
    BY <1>0, <1>6 DEF ClosedSocketsOf, OpenConnsOf, OpenConns, SocketTable, IsLive
  <2> QED
    BY <1>2, <1>6, <2>1
<1>7. ASSUME NEW e, Moderate(e)
      PROVE  NoneKept' /\ NoneForgotten'
  BY <1>3, <1>6, <1>7 DEF Moderate, EjectionRepeated, ModerationAccepted,
                          ModerationAnswered, SocketsAfterEjection, stored
<1>8. ASSUME NEW c, MessageRefused(c) \/ \E e : Message(c, e)
      PROVE  NoneKept' /\ NoneForgotten'
  BY <1>3, <1>8 DEF MessageRefused, Message, MessageAccepted, MessageNotStored,
                    MessageAnswered, stored
<1>9. CASE UNCHANGED workerVars
  BY <1>3, <1>9 DEF workerVars
<1> QED
  BY <1>4, <1>5, <1>7, <1>8, <1>9 DEF Next, Restart

\* As long as no write fails and the object is not restarted, the registry names
\* sockets that are still to report their end, and all of them but those of a
\* ticket of which one socket has ended.
THEOREM SpecPresenceTracksSockets ==
    ~StorageMayFail /\ ~MayRestart => (Spec => []PresenceTracksSockets)
<1>. SUFFICES ASSUME ~StorageMayFail, ~MayRestart PROVE Spec => []PresenceTracksSockets
  OBVIOUS
<1>1. Init => PresenceTracksSockets
  <2>. SUFFICES ASSUME Init PROVE PresenceTracksSockets
    OBVIOUS
  <2>1. \A c \in Conns : socket[c].status = "unused"
    BY DEF Init, Unused
  <2>2. OpenConns = {} /\ ClosingConns = {}
    BY <2>1 DEF OpenConns, ClosingConns
  <2> QED
    BY <2>2 DEF PresenceTracksSockets, Init
<1>2. WorkerInv /\ PresenceTracksSockets /\ [Next]_workerVars
        => PresenceTracksSockets'
  BY NextTracks
<1> QED
  BY <1>1, <1>2, SpecWorkerInv, PTL DEF Spec

\* What has ended or was refused stays so, and no socket changes its user.
LEMMA SocketsKeep ==
    ASSUME SocketOwners, Next
    PROVE  \A d \in Conns : socket[d].status # "unused" =>
              /\ socket'[d].user = socket[d].user
              /\ socket[d].status = "closed" => socket'[d].status = "closed"
<1>1. ASSUME NEW c \in Conns, NEW u \in Users, Connect(c, u)
      PROVE  \A d \in Conns : socket[d].status # "unused" => socket'[d] = socket[d]
  BY <1>1 DEF Connect, RefuseConnection, ConnectAgain, ConnectAndJoin,
              ConnectHalfStored, Arriving, SocketOwners, SocketTable
<1>2. ASSUME NEW c \in Conns, Close(c)
      PROVE  \A d \in Conns : /\ socket'[d].user = socket[d].user
                              /\ socket[d].status = "closed" => socket'[d].status = "closed"
  <2>1. socket' = [socket EXCEPT ![c].status = "closed"]
    BY <1>2 DEF Close, ConnectionEnds, LastConnectionEnds, LastConnectionHalfRemoved, Ends
  <2> QED
    BY <2>1 DEF SocketOwners, SocketTable
<1>3. ASSUME NEW u, socket' = ClosedSocketsOf(u)
      PROVE  \A d \in Conns : /\ socket'[d].user = socket[d].user
                              /\ socket[d].status = "closed" => socket'[d].status = "closed"
  BY <1>3, ClosedSocketsOwners
<1>4. ASSUME NEW e, Moderate(e)
      PROVE  socket' = socket \/ \E u : socket' = ClosedSocketsOf(u)
  BY <1>4 DEF Moderate, EjectionRepeated, ModerationAccepted, ModerationAnswered,
              SocketsAfterEjection
<1>5. CASE Restart
  <2>1. \A c \in Conns : \/ socket'[c] = socket[c]
                         \/ socket'[c] = [socket[c] EXCEPT !.status = "closed"]
    BY <1>5 DEF Restart
  <2> QED
    BY <2>1 DEF SocketOwners, SocketTable
<1>6. ASSUME NEW c, MessageRefused(c) \/ \E e : Message(c, e)
      PROVE  socket' = socket
  BY <1>6 DEF MessageRefused, Message, MessageAccepted, MessageNotStored, MessageAnswered
<1> QED
  BY <1>1, <1>2, <1>3, <1>4, <1>5, <1>6 DEF Next

\* A socket of u whose ticket also opened a socket that has ended.
IsStray(c, u) == socket[c].user = u /\ ~Undisturbed(c)

\* A handler takes nobody's last connection and leaves the user in the room, and
\* brings nobody into the room who has no connection.
LEMMA NextNoGhosts ==
    ASSUME ~StorageMayFail, WorkerInv, NoGhosts, Next
    PROVE  NoGhosts'
<1>0. /\ RoomInv(room) /\ room \in Rooms /\ QueueOfViewers(room)
      /\ room.role \in [Users -> Roles \cup {Absent}]
      /\ presence \in [Users -> SUBSET Ids]
      /\ \A c \in Conns : socket[c].status \in {"open", "closing"} => 
                              socket[c].user \in Users
  BY DEF WorkerInv, StoredInv, RoomInv, Rooms, RegistryInv, SocketOwners
<1>1. ASSUME NEW u \in Users, \E c \in Conns : IsStray(c, u)
      PROVE  \E c \in Conns : IsStray(c, u)'
  <2>1. PICK c \in Conns : socket[c].user = u /\ ~Undisturbed(c)
    BY <1>1 DEF IsStray
  <2>2. socket[c].status # "unused"
    BY <2>1, WorkerAssumption DEF WorkerInv, SocketOwners
  <2>3. socket'[c].user = u
    BY <2>1, <2>2, SocketsKeep DEF WorkerInv
  <2>4. \A d \in Conns : socket[d].status = "closed" => socket'[d].status = "closed"
    BY SocketsKeep DEF WorkerInv
  <2>5. ~Undisturbed(c)'
    BY <2>1, <2>4, StaysDisturbed
  <2> QED
    BY <2>3, <2>5 DEF IsStray
<1>2. SUFFICES ASSUME NEW u \in Users, room'.role[u] # Absent,
                      \A c \in Conns : ~IsStray(c, u)
               PROVE  presence'[u] # {}
  <2>1. \A u \in Users : room'.role[u] # Absent =>
           presence'[u] # {} \/ \E c \in Conns : IsStray(c, u)'
    BY <1>1, <1>2
  <2> QED
    BY <2>1 DEF NoGhosts, Participants, IsStray
<1>9. room.role[u] # Absent => presence[u] # {}
  BY <1>2 DEF NoGhosts, Participants, IsStray
<1>10. ASSUME room.role[u] # Absent, presence[u] \subseteq presence'[u]
       PROVE  presence'[u] # {}
  BY <1>9, <1>10
<1>3. ASSUME NEW c, Permitted(c), Accepts(room, c), room' = Applied(room, c),
             UNCHANGED presence, c.type = "join" /\ c.user = u => presence[u] # {}
      PROVE  presence'[u] # {}
  BY <1>0, <1>2, <1>10, <1>3, OutsiderEffect
<1>4. ASSUME NEW c \in Conns, NEW v \in Users, Connect(c, v)
      PROVE  presence'[u] # {}
  <2>1. CASE RefuseConnection(c, v)
    BY <1>2, <1>10, <2>1 DEF RefuseConnection, stored
  <2>2. CASE ConnectAgain(c, v)
    BY <1>0, <1>2, <1>10, <2>2 DEF ConnectAgain, Claimed
  <2>3. CASE ConnectAndJoin(c, v)
    <3>1. /\ room'.role = [room.role EXCEPT ![v] = TokenRole(v)]
          /\ presence' = [presence EXCEPT ![v] = @ \cup {IdOf[c]}]
      BY <1>0, <2>3, ConnectionRoles DEF ConnectAndJoin, Claimed
    <3>2. presence[u] \subseteq presence'[u] /\ (u = v => IdOf[c] \in presence'[u])
      BY <1>0, <3>1
    <3> QED
      BY <1>0, <1>2, <1>10, <3>1, <3>2
  <2> QED
    BY <1>4, <2>1, <2>2, <2>3 DEF Connect, ConnectHalfStored
<1>5. ASSUME NEW c \in OpenConns, NEW cmd \in ClientCommandsOf[socket[c].user],
             NEW id \in CommandIds, NEW n, Message(c, EnvelopeOf(id, n, cmd))
      PROVE  presence'[u] # {}
  <2>1. CASE UNCHANGED stored
    BY <1>2, <1>10, <2>1 DEF stored
  <2>2. CASE MessageAccepted(c, EnvelopeOf(id, n, cmd))
    <3>1. /\ socket[c].user \in Users
          /\ socket[c].user = u => IdOf[c] \in presence[u]
      BY <1>0, <1>2 DEF OpenConns, WorkerInv, RegistryInv, IsRegistered, IsStray
    <3>2. Permitted(cmd) /\ Authorized(socket[c].user, cmd)
      BY <3>1, ClientCommandsPermitted DEF ClientCommandsOf
    <3>3. /\ Accepts(room, cmd) /\ room' = Applied(room, cmd)
          /\ presence' = presence
      BY <2>2 DEF MessageAccepted, Verdict, EnvelopeOf
    <3>4. cmd.type = "join" /\ cmd.user = u => presence[u] # {}
      BY <3>1, <3>2 DEF Authorized
    <3> QED
      BY <1>3, <3>2, <3>3, <3>4
  <2> QED
    BY <1>5, <2>1, <2>2 DEF Message, MessageNotStored, MessageAnswered
<1>6. ASSUME NEW c \in Conns, Close(c)
      PROVE  presence'[u] # {}
  <2>. DEFINE v == socket[c].user
  <2>1. v \in Users /\ presence' = [presence EXCEPT ![v] = @ \ {IdOf[c]}]
    BY <1>0, <1>6 DEF Close, ConnectionEnds, LastConnectionEnds, Released,
                LastConnectionHalfRemoved, Ends, OpenConns, ClosingConns
  <2>2. CASE ConnectionEnds(c)
    <3>1. /\ room' = room
          /\ IdOf[c] \notin presence[v] \/ ~(presence[v] \subseteq {IdOf[c]})
               \/ room.role[v] = Absent
      BY <2>1, <2>2 DEF ConnectionEnds, IsLast, IsRegistered, Participants
    <3> QED
      BY <1>0, <1>2, <1>9, <2>1, <3>1 DEF NoGhosts, Participants
  <2>3. CASE LastConnectionEnds(c)
    <3>1. room'.role = [room.role EXCEPT ![v] = Absent]
      BY <1>0, <2>1, <2>3, ConnectionRoles DEF LastConnectionEnds
    <3>2. u # v /\ room.role[u] # Absent
      BY <1>0, <1>2, <1>9, <2>1, <3>1
    <3> QED
      BY <1>10, <2>1, <1>0, <3>2
  <2> QED
    BY <1>6, <2>2, <2>3 DEF Close, LastConnectionHalfRemoved
<1>7. ASSUME NEW id \in CommandIds, NEW n, NEW cmd \in RemovalCommands,
             Moderate(EnvelopeOf(id, n, cmd))
      PROVE  presence'[u] # {}
  <2>1. CASE UNCHANGED stored
    BY <1>2, <1>10, <2>1 DEF stored
  <2>2. CASE ModerationAccepted(EnvelopeOf(id, n, cmd))
    <3>1. /\ Accepts(room, cmd) /\ room' = Applied(room, cmd)
          /\ presence' = presence
      BY <2>2 DEF ModerationAccepted, Verdict, EnvelopeOf
    <3>2. Permitted(cmd) /\ cmd.type # "join"
      BY RemovalCommandsPermitted DEF RemovalCommands
    <3> QED
      BY <1>3, <3>1, <3>2
  <2> QED
    BY <1>7, <2>1, <2>2 DEF Moderate, EjectionRepeated, ModerationAnswered
<1>8. ASSUME UNCHANGED stored
      PROVE  presence'[u] # {}
  BY <1>2, <1>10, <1>8 DEF stored
<1> QED
  BY <1>4, <1>5, <1>6, <1>7, <1>8 DEF Next, MessageRefused, Restart

\* As long as no write fails, nobody is left in the room whom no registered
\* connection holds there, restarts of the object included: a command of a user
\* who has left the room comes over a socket that is still registered, unless the
\* ticket of that socket had opened another one, which has ended.
THEOREM SpecNoGhosts == ~StorageMayFail => (Spec => []NoGhosts)
<1>. SUFFICES ASSUME ~StorageMayFail PROVE Spec => []NoGhosts
  OBVIOUS
<1>1. Init => NoGhosts
  <2>1. Init => Participants(room) = {}
    BY DEF Init, Participants, InitialRoom
  <2> QED
    BY <2>1 DEF NoGhosts
<1>2. WorkerInv /\ NoGhosts /\ [Next]_workerVars => NoGhosts'
  <2>1. UNCHANGED workerVars /\ NoGhosts => NoGhosts'
    BY DEF workerVars, NoGhosts, Participants, Undisturbed
  <2> QED
    BY <2>1, NextNoGhosts
<1> QED
  BY <1>1, <1>2, SpecWorkerInv, PTL DEF Spec

-----------------------------------------------------------------------------
(* The broadcast *)

\* The change follows the ack on the socket of its sender.
LEMMA SecondOfTwo ==
    ASSUME NEW m, NEW n
    PROVE  \E i \in DOMAIN (<<m>> \o <<n>>) : (<<m>> \o <<n>>)[i] = n
<1>1. /\ <<m>> \in Seq({m, n}) /\ <<n>> \in Seq({m, n})
      /\ Len(<<m>>) = 1 /\ Len(<<n>>) = 1
  OBVIOUS
<1> QED
  BY <1>1

\* As long as no ejected socket lingers, whoever stores a change announces it on
\* every socket that stays open.
LEMMA NextTold ==
    ASSUME WorkerInv, Next, room' # room, ClosingConns = {}, NEW d \in OpenConns,
           socket'[d].status = "open"
    PROVE  IsToldOfChange(d)
<1>0. Reachable = {OpenConns} /\ d \in Conns /\ socket \in SocketTable
  BY DEF Reachable, OpenConns, WorkerInv, SocketOwners
<1>1. ASSUME NEW cmd, NEW m, sent'[d] = <<StateChanged(room', cmd)>>
                             \/ sent'[d] = <<m>> \o <<StateChanged(room', cmd)>>
      PROVE  IsToldOfChange(d)
  <2>. DEFINE n == StateChanged(room', cmd)
  <2>1. n.type = "state_changed" /\ n.sequence = room'.sequence
    BY DEF StateChanged
  <2>. HIDE DEF n
  <2>2. \E i \in DOMAIN sent'[d] : sent'[d][i] = n
    <3>1. CASE sent'[d] = <<n>>
      BY <3>1
    <3>2. CASE sent'[d] = <<m>> \o <<n>>
      BY <3>2, SecondOfTwo
    <3> QED
      BY <1>1, <3>1, <3>2 DEF n
  <2> QED
    BY <2>1, <2>2 DEF IsToldOfChange
<1>2. ASSUME NEW c \in Conns, NEW u \in Users, Connect(c, u)
      PROVE  IsToldOfChange(d)
  <2>1. ConnectAndJoin(c, u)
    BY <1>2 DEF Connect, RefuseConnection, ConnectAgain, ConnectHalfStored, stored
  <2>2. d # c
    BY <2>1 DEF ConnectAndJoin, Arriving, OpenConns
  <2>3. sent'[d] = <<StateChanged(room', Join(u, TokenRole(u)))>>
    BY <1>0, <2>1, <2>2 DEF ConnectAndJoin
  <2> QED
    BY <1>1, <2>3
<1>3. ASSUME NEW c, NEW e, Message(c, e)
      PROVE  IsToldOfChange(d)
  <2>1. MessageAccepted(c, e)
    BY <1>3 DEF Message, MessageNotStored, MessageAnswered, stored
  <2>2. sent'[d] = (IF d = c THEN <<Ack(room')>> ELSE << >>)
                     \o <<StateChanged(room', e.command)>>
    BY <1>0, <2>1 DEF MessageAccepted, ReachableFrom
  <2>3. CASE d = c
    BY <1>1, <2>2, <2>3
  <2>4. CASE d # c
    <3>1. sent'[d] = <<StateChanged(room', e.command)>>
      BY <2>2, <2>4
    <3> QED
      BY <1>1, <3>1
  <2> QED
    BY <2>3, <2>4
<1>4. ASSUME NEW c \in Conns, Close(c)
      PROVE  IsToldOfChange(d)
  <2>1. LastConnectionEnds(c)
    BY <1>4 DEF Close, ConnectionEnds, LastConnectionHalfRemoved
  <2>2. d # c
    BY <1>0, <2>1 DEF LastConnectionEnds, Ends, SocketTable
  <2>3. sent'[d] = <<StateChanged(room', Leave(socket[c].user))>>
    BY <1>0, <2>1, <2>2 DEF LastConnectionEnds
  <2> QED
    BY <1>1, <2>3
<1>5. ASSUME NEW e, Moderate(e)
      PROVE  IsToldOfChange(d)
  <2>1. ModerationAccepted(e)
    BY <1>5 DEF Moderate, EjectionRepeated, ModerationAnswered, stored
  <2>2. sent'[d] = <<StateChanged(room', e.command)>>
    BY <1>0, <2>1 DEF ModerationAccepted
  <2> QED
    BY <1>1, <2>2
<1> QED
  BY <1>2, <1>3, <1>4, <1>5 DEF Next, MessageRefused, Restart, stored

\* Whatever writes fail and whenever the object restarts, the handler that stores
\* a change announces it on every socket that stays open, unless an ejected socket
\* lingers and makes a send throw.
THEOREM SpecChangesAreBroadcast == Spec => ChangesAreBroadcast
<1>. DEFINE Told == room' # room /\ ClosingConns = {} =>
              \A c \in OpenConns : socket'[c].status = "open" => IsToldOfChange(c)
<1>1. WorkerInv /\ Next => Told
  BY NextTold
<1>2. WorkerInv /\ [Next]_workerVars => [Told]_workerVars
  BY <1>1
<1> QED
  BY <1>2, SpecWorkerInv, PTL DEF Spec, ChangesAreBroadcast

=============================================================================
