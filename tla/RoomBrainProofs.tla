--------------------------- MODULE RoomBrainProofs ---------------------------
(***************************************************************************)
(* Proofs about RoomBrainProtocol and RoomBrainReplay for every value of   *)
(* the constants.                                                          *)
(***************************************************************************)
EXTENDS RoomBrainReplay, RoomBrainLemmas

-----------------------------------------------------------------------------
(* The protocol *)

\* The inductive invariant of the protocol.
ProtocolInv == TypeOK /\ RoomInv(room)

\* An accepted envelope keeps the invariant.
LEMMA SubmitKeepsInv ==
    ASSUME ProtocolInv, NEW e, e.id \in CommandIds, Permitted(e.command), Submit(e)
    PROVE  ProtocolInv'
<1>1. Accepts(room, e.command)
  BY DEF Submit, Verdict
<1>2. RoomInv(Applied(room, e.command))
  BY <1>1, ChangeKeepsRoomInv DEF ProtocolInv
<1>3. room' = Applied(room, e.command) /\ recent' = Remember(recent, e.id)
  BY DEF Submit
<1>4. RoomInv(room)'
  BY <1>2, <1>3, Zenon
<1>5. recent' \in Seq(CommandIds) /\ Len(recent') <= RecentLimit
  BY <1>3, RememberWindow DEF ProtocolInv, TypeOK
<1> QED
  BY <1>4, <1>5 DEF ProtocolInv, TypeOK, RoomInv

\* The actor's own joins and leaves keep the invariant.
LEMMA PresenceKeepsInv ==
    ASSUME ProtocolInv, NEW u \in Users, ConnectionJoin(u) \/ ConnectionLeave(u)
    PROVE  ProtocolInv'
<1>1. CASE ConnectionJoin(u)
  <2>. DEFINE c == Join(u, TokenRole(u))
  <2>1. Permitted(c)
    BY ConnectionCommandsPermitted
  <2>2. Accepts(room, c) /\ room' = Applied(room, c) /\ recent' = recent
    BY <1>1 DEF ConnectionJoin
  <2>. HIDE DEF c
  <2>3. RoomInv(room')
    BY <2>1, <2>2, ChangeKeepsRoomInv DEF ProtocolInv
  <2> QED
    BY <2>2, <2>3 DEF ProtocolInv, TypeOK, RoomInv
<1>2. CASE ConnectionLeave(u)
  <2>. DEFINE c == Leave(u)
  <2>1. Permitted(c)
    BY ConnectionCommandsPermitted
  <2>2. Accepts(room, c) /\ room' = Applied(room, c) /\ recent' = recent
    BY <1>2, ConnectionCommandsPermitted DEF ConnectionLeave
  <2>. HIDE DEF c
  <2>3. RoomInv(room')
    BY <2>1, <2>2, ChangeKeepsRoomInv DEF ProtocolInv
  <2> QED
    BY <2>2, <2>3 DEF ProtocolInv, TypeOK, RoomInv
<1> QED
  BY <1>1, <1>2

\* An empty room satisfies the invariant.
LEMMA InitInv == Init => ProtocolInv
<1>. SUFFICES ASSUME Init PROVE ProtocolInv
  OBVIOUS
<1>. USE RecentLimitAssumption, HostAssumption
<1>1. /\ room.queue = << >> /\ room.role = [u \in Users |-> Absent] /\ room \in Rooms
  BY DEF Init, InitialRoom, Rooms
<1>2. QueueOfViewers(room)
  BY <1>1 DEF QueueOfViewers, Once
<1>3. NoPrivilegeMinted(room) /\ room.role[Host] # "viewer"
  BY <1>1 DEF NoPrivilegeMinted, Moderates, ModeratingRoles, Absent
<1>4. recent = << >>
  BY DEF Init
<1> QED
  BY <1>1, <1>2, <1>3, <1>4 DEF ProtocolInv, TypeOK, RoomInv

\* Every change keeps the invariant.
LEMMA NextInv == ProtocolInv /\ [Next]_protocolVars => ProtocolInv'
<1>. SUFFICES ASSUME ProtocolInv, [Next]_protocolVars PROVE ProtocolInv'
  OBVIOUS
<1>1. ASSUME NEW u \in Users, NEW id \in CommandIds, NEW c \in ClientCommandsOf[u],
             ClientCommand(u, [id |-> id, expected |-> room.sequence, command |-> c])
      PROVE  ProtocolInv'
  BY <1>1, ClientCommandsPermitted, SubmitKeepsInv DEF ClientCommand
<1>2. ASSUME NEW id \in CommandIds, NEW c \in RemovalCommands,
             ModerationAction([id |-> id, expected |-> room.sequence, command |-> c])
      PROVE  ProtocolInv'
  BY <1>2, RemovalCommandsPermitted, SubmitKeepsInv DEF ModerationAction
<1>3. ASSUME NEW u \in Users, ConnectionJoin(u) \/ ConnectionLeave(u)
      PROVE  ProtocolInv'
  BY <1>3, PresenceKeepsInv
<1>4. CASE UNCHANGED protocolVars
  BY <1>4 DEF protocolVars, ProtocolInv, TypeOK, RoomInv, QueueOfViewers, Once,
              NoPrivilegeMinted, Moderates
<1> QED
  BY <1>1, <1>2, <1>3, <1>4 DEF Next

\* The invariants the protocol promises follow.
LEMMA InvConsequences ==
    ProtocolInv => TypeOK /\ QueueHoldsViewers /\ NoMintedPrivilege
  BY HostAssumption
     DEF ProtocolInv, TypeOK, QueueHoldsViewers, NoMintedPrivilege, RoomInv,
         QueueOfViewers, Once, NoPrivilegeMinted, TokenRole, ModeratingRoles

\* The inductive invariant holds of every reachable state.
THEOREM SpecInv == Spec => []ProtocolInv
  BY InitInv, NextInv, PTL DEF Spec

\* Rooms keep their shape and the window of idempotency keys never outgrows its
\* limit, for every number of users, keys and limit.
THEOREM SpecTypeOK == Spec => []TypeOK
  BY SpecInv, InvConsequences, PTL

\* The speaker queue names each user at most once, and viewers only, whatever
\* sequence of joins, seats, demotions, ejections and departures came before.
THEOREM SpecQueueHoldsViewers == Spec => []QueueHoldsViewers
  BY SpecInv, InvConsequences, PTL

\* No sequence of commands makes a moderator of a user whose token is a viewer's.
THEOREM SpecNoMintedPrivilege == Spec => []NoMintedPrivilege
  BY SpecInv, InvConsequences, PTL

\* Every step of the protocol applies one permitted command the room accepts.
LEMMA StepOfCommand ==
    ASSUME Next
    PROVE  \E c : Permitted(c) /\ Accepts(room, c) /\ room' = Applied(room, c)
<1>1. ASSUME NEW u \in Users, NEW id \in CommandIds, NEW c \in ClientCommandsOf[u],
             ClientCommand(u, [id |-> id, expected |-> room.sequence, command |-> c])
      PROVE  Permitted(c) /\ Accepts(room, c) /\ room' = Applied(room, c)
  BY <1>1, ClientCommandsPermitted DEF ClientCommand, Submit, Verdict
<1>2. ASSUME NEW id \in CommandIds, NEW c \in RemovalCommands,
             ModerationAction([id |-> id, expected |-> room.sequence, command |-> c])
      PROVE  Permitted(c) /\ Accepts(room, c) /\ room' = Applied(room, c)
  BY <1>2, RemovalCommandsPermitted DEF ModerationAction, Submit, Verdict
<1>3. ASSUME NEW u \in Users, ConnectionJoin(u)
      PROVE  LET c == Join(u, TokenRole(u))
             IN  Permitted(c) /\ Accepts(room, c) /\ room' = Applied(room, c)
  BY <1>3, ConnectionCommandsPermitted DEF ConnectionJoin
<1>4. ASSUME NEW u \in Users, ConnectionLeave(u)
      PROVE  LET c == Leave(u)
             IN  Permitted(c) /\ Accepts(room, c) /\ room' = Applied(room, c)
  BY <1>4, ConnectionCommandsPermitted DEF ConnectionLeave
<1> QED
  BY <1>1, <1>2, <1>3, <1>4, Zenon DEF Next

\* While a room is locked nobody outside becomes a viewer of it, by a first
\* connection or by a join command.
THEOREM SpecLockedRoomAdmitsNoViewer == Spec => LockedRoomAdmitsNoViewer
<1>. DEFINE Closed == room.locked =>
              \A u \in Users : (u \notin Participants(room)) => room'.role[u] # "viewer"
<1>1. ProtocolInv /\ [Next]_protocolVars => [Closed]_protocolVars
  <2>. SUFFICES ASSUME ProtocolInv, Next, room.locked,
                       NEW u \in Users, u \notin Participants(room)
                PROVE  room'.role[u] # "viewer"
    OBVIOUS
  <2>1. PICK c : Permitted(c) /\ Accepts(room, c) /\ room' = Applied(room, c)
    BY StepOfCommand
  <2>2. room.role[u] = Absent
    BY DEF Participants
  <2> QED
    BY <2>1, <2>2, LockedEffect DEF ProtocolInv
<1> QED
  BY <1>1, SpecInv, PTL DEF Spec, LockedRoomAdmitsNoViewer

-----------------------------------------------------------------------------
(* Replays *)

\* The remembered keys are those of the newest accepted envelopes, in order.
WindowOfLog ==
    /\ Len(recent) = IF Len(log) < RecentLimit THEN Len(log) ELSE RecentLimit
    /\ \A k \in 1 .. Len(recent) : recent[k] = log[Len(log) - Len(recent) + k].id

\* The inductive invariant of the protocol with its log.  The expected sequences
\* of the accepted envelopes rise strictly and stay below the room's: this is why
\* an envelope whose key has been forgotten is stale.
ReplayInv ==
    /\ ProtocolInv
    /\ log \in Seq(Envelopes)
    /\ \A i \in DOMAIN log : log[i].expected < room.sequence
    /\ \A i, j \in DOMAIN log : i < j => log[i].expected < log[j].expected
    /\ WindowOfLog
    /\ KeysFreshWithinWindow

\* The entries of a log are envelopes.
LEMMA LoggedEnvelopes ==
    ASSUME NEW l \in Seq(Envelopes), NEW i \in DOMAIN l
    PROVE  i \in Nat /\ l[i] \in Envelopes /\ l[i].expected \in Nat
<1>1. i \in Nat /\ l[i] \in Envelopes
  OBVIOUS
<1> QED
  BY <1>1 DEF Envelopes

\* Accepting an envelope keeps the invariant.
LEMMA LoggedStep ==
    ASSUME ReplayInv, NEW id \in CommandIds, NEW n \in 0 .. room.sequence,
           NEW c \in Commands,
           Logged([id |-> id, expected |-> n, command |-> c])
    PROVE  ReplayInv'
<1>. DEFINE e == [id |-> id, expected |-> n, command |-> c]
<1>. USE RecentLimitAssumption
<1>0. /\ ProtocolInv /\ log \in Seq(Envelopes) /\ WindowOfLog
      /\ room.sequence \in Nat /\ recent \in Seq(CommandIds)
      /\ Len(recent) <= RecentLimit
  BY DEF ReplayInv, ProtocolInv, TypeOK, Rooms
<1>1. e \in Envelopes /\ e.id = id /\ e.expected = n /\ e.command = c
  BY <1>0 DEF Envelopes
<1>. HIDE DEF e
<1>2. Permitted(c) /\ Submit(e) /\ log' = Append(log, e)
  BY <1>1, ClientCommandsPermitted, RemovalCommandsPermitted
     DEF Logged, ClientCommand, ModerationAction, e
<1>3. ProtocolInv'
  BY <1>0, <1>1, <1>2, SubmitKeepsInv
<1>4. /\ ~Remembered(recent, id) /\ n = room.sequence /\ Accepts(room, c)
      /\ room' = Applied(room, c) /\ recent' = Remember(recent, id)
  BY <1>1, <1>2 DEF Submit, Verdict, IsCurrent
<1>5. room'.sequence = room.sequence + 1
  BY <1>2, <1>4, ChangeKeepsRoomInv DEF ReplayInv, ProtocolInv
<1>6. /\ log' \in Seq(Envelopes) /\ Len(log') = Len(log) + 1 /\ Len(log) \in Nat
      /\ log'[Len(log) + 1] = e
      /\ \A i \in 1 .. Len(log) : log'[i] = log[i]
      /\ DOMAIN log' = 1 .. Len(log) + 1 /\ DOMAIN log = 1 .. Len(log)
  BY <1>0, <1>1, <1>2
<1>7. \A i \in DOMAIN log : log[i] \in Envelopes /\ log[i].expected \in Nat
  BY <1>0, LoggedEnvelopes
<1>8. /\ RecentLimit \in Nat /\ Len(recent) \in Nat
      /\ \/ Len(log) < RecentLimit /\ Len(recent) = Len(log)
         \/ Len(log) >= RecentLimit /\ Len(recent) = RecentLimit
      /\ \A k \in 1 .. Len(recent) : recent[k] = log[Len(log) - Len(recent) + k].id
  <2>1. Len(recent) \in Nat /\ Len(log) \in Nat /\ RecentLimit \in Nat
    BY <1>0
  <2>2. Len(recent) = IF Len(log) < RecentLimit THEN Len(log) ELSE RecentLimit
    BY <1>0 DEF WindowOfLog
  <2>3. \A k \in 1 .. Len(recent) : recent[k] = log[Len(log) - Len(recent) + k].id
    BY <1>0 DEF WindowOfLog
  <2>4. \/ Len(log) < RecentLimit /\ Len(recent) = Len(log)
        \/ Len(log) >= RecentLimit /\ Len(recent) = RecentLimit
    BY <2>1, <2>2
  <2> QED
    BY <2>1, <2>3, <2>4
<1>9. \A i \in DOMAIN log' : log'[i].expected < room'.sequence
  BY <1>0, <1>1, <1>4, <1>5, <1>6, <1>7 DEF ReplayInv
<1>10. \A i, j \in DOMAIN log' : i < j => log'[i].expected < log'[j].expected
  BY <1>0, <1>1, <1>4, <1>6, <1>7 DEF ReplayInv
<1>11. WindowOfLog'
  <2>1. /\ recent' \in Seq(CommandIds)
        /\ Len(recent') <= RecentLimit
        /\ recent'[Len(recent')] = id
        /\ \/ Len(recent) < RecentLimit /\ Len(recent') = Len(recent) + 1
              /\ \A i \in 1 .. Len(recent) : recent'[i] = recent[i]
           \/ Len(recent) = RecentLimit /\ Len(recent') = Len(recent)
              /\ \A i \in 1 .. Len(recent) - 1 : recent'[i] = recent[i + 1]
    BY <1>0, <1>4, RememberWindow
  <2>2. Len(recent) \in Nat /\ Len(recent') \in Nat
    BY <1>0, <2>1
  <2>3. Len(recent') = IF Len(log') < RecentLimit THEN Len(log') ELSE RecentLimit
    BY <1>8, <1>6, <2>1, <2>2
  <2>4. ASSUME NEW k \in 1 .. Len(recent'), k # Len(recent')
        PROVE  recent'[k] = log'[Len(log') - Len(recent') + k].id
    <3>1. CASE Len(recent) < RecentLimit /\ Len(recent') = Len(recent) + 1
      <4>1. k \in 1 .. Len(recent) /\ k \in 1 .. Len(log) /\ Len(log) = Len(recent)
        BY <1>8, <1>6, <2>4, <3>1
      <4>2. recent'[k] = log[k].id
        BY <1>8, <2>1, <3>1, <4>1
      <4>3. Len(log') - Len(recent') + k = k
        BY <1>6, <3>1, <4>1
      <4> QED
        BY <1>6, <4>1, <4>2, <4>3
    <3>2. CASE Len(recent) = RecentLimit /\ Len(recent') = Len(recent)
      <4>1. k \in 1 .. Len(recent) - 1 /\ k + 1 \in 1 .. Len(recent)
        BY <1>8, <2>4, <3>2
      <4>2. recent'[k] = log[Len(log) - Len(recent) + (k + 1)].id
        BY <1>8, <2>1, <3>2, <4>1
      <4>3. /\ Len(log') - Len(recent') + k = Len(log) - Len(recent) + (k + 1)
            /\ Len(log) - Len(recent) + (k + 1) \in 1 .. Len(log)
        <5>1. Len(log) \in Nat /\ Len(recent) \in Nat /\ k \in Nat
          BY <1>8, <1>6, <4>1
        <5>2. Len(log') = Len(log) + 1 /\ Len(recent') = Len(recent)
          BY <1>6, <3>2
        <5>3. Len(recent) <= Len(log)
          BY <1>8, <3>2, <5>1
        <5> QED
          BY <4>1, <5>1, <5>2, <5>3
      <4> QED
        BY <1>6, <4>2, <4>3
    <3> QED
      BY <2>1, <3>1, <3>2
  <2>5. recent'[Len(recent')] = log'[Len(log') - Len(recent') + Len(recent')].id
    <3>1. Len(log') - Len(recent') + Len(recent') = Len(log) + 1
      BY <1>6, <2>2
    <3> QED
      BY <1>1, <1>6, <2>1, <3>1
  <2> QED
    BY <2>3, <2>4, <2>5 DEF WindowOfLog
<1>12. KeysFreshWithinWindow'
  <2>. SUFFICES ASSUME NEW i \in DOMAIN log', NEW j \in DOMAIN log',
                       i < j, j - i <= RecentLimit
                PROVE  log'[i].id # log'[j].id
    BY DEF KeysFreshWithinWindow
  <2>1. CASE j \in DOMAIN log
    BY <1>6, <2>1 DEF ReplayInv, KeysFreshWithinWindow
  <2>2. CASE j = Len(log) + 1
    <3>1. i \in 1 .. Len(log) /\ Len(recent) \in Nat
      BY <1>8, <1>6, <2>2
    <3>. DEFINE k == i - (Len(log) - Len(recent))
    <3>2. k \in 1 .. Len(recent) /\ Len(log) - Len(recent) + k = i
      BY <1>8, <1>6, <2>2, <3>1
    <3>3. recent[k] = log[i].id
      BY <1>8, <3>2
    <3>4. recent[k] # id
      BY <1>0, <1>4, <3>2 DEF Remembered
    <3> QED
      BY <1>1, <1>6, <2>2, <3>1, <3>3, <3>4
  <2> QED
    BY <1>6, <2>1, <2>2
<1> QED
  BY <1>3, <1>6, <1>9, <1>10, <1>11, <1>12 DEF ReplayInv

\* A join or a leave of the actor keeps it, too: it only raises the sequence.
LEMMA UnloggedStep ==
    ASSUME ReplayInv, Unlogged
    PROVE  ReplayInv'
<1>1. PICK u \in Users : ConnectionJoin(u) \/ ConnectionLeave(u)
  BY DEF Unlogged
<1>2. ProtocolInv'
  BY <1>1, PresenceKeepsInv DEF ReplayInv
<1>3. log' = log /\ recent' = recent
  BY <1>1 DEF Unlogged, ConnectionJoin, ConnectionLeave
<1>4. PICK c : Permitted(c) /\ Accepts(room, c) /\ room' = Applied(room, c)
  <2>1. CASE ConnectionJoin(u)
    BY <2>1, ConnectionCommandsPermitted DEF ConnectionJoin
  <2>2. CASE ConnectionLeave(u)
    BY <2>2, ConnectionCommandsPermitted DEF ConnectionLeave
  <2> QED
    BY <1>1, <2>1, <2>2
<1>5. room'.sequence = room.sequence + 1 /\ room.sequence \in Nat
  BY <1>4, ChangeKeepsRoomInv DEF ReplayInv, ProtocolInv, RoomInv, Rooms
<1>6. \A i \in DOMAIN log : log[i].expected \in Nat
  BY LoggedEnvelopes DEF ReplayInv
<1>7. \A i \in DOMAIN log' : log'[i].expected < room'.sequence
  BY <1>3, <1>5, <1>6 DEF ReplayInv
<1> QED
  BY <1>2, <1>3, <1>7 DEF ReplayInv, WindowOfLog, KeysFreshWithinWindow

\* The invariant holds of the empty room and log.
LEMMA ReplayInitInv == ReplayInit => ReplayInv
<1>. SUFFICES ASSUME ReplayInit PROVE ReplayInv
  OBVIOUS
<1>1. ProtocolInv /\ log = << >> /\ recent = << >>
  BY InitInv DEF ReplayInit, Init
<1> QED
  BY <1>1, RecentLimitAssumption DEF ReplayInv, WindowOfLog, KeysFreshWithinWindow

\* Every change keeps the invariant.
LEMMA ReplayNextInv == ReplayInv /\ [ReplayNext]_replayVars => ReplayInv'
<1>. SUFFICES ASSUME ReplayInv, [ReplayNext]_replayVars PROVE ReplayInv'
  OBVIOUS
<1>1. CASE ReplayNext
  BY <1>1, LoggedStep, UnloggedStep DEF ReplayNext
<1>2. CASE UNCHANGED replayVars
  <2>1. room' = room /\ recent' = recent /\ log' = log
    BY <1>2 DEF replayVars
  <2>2. ProtocolInv'
    BY <2>1 DEF ReplayInv, ProtocolInv, TypeOK, RoomInv, QueueOfViewers, Once,
                NoPrivilegeMinted, Moderates
  <2> QED
    BY <2>1, <2>2 DEF ReplayInv, WindowOfLog, KeysFreshWithinWindow
<1> QED
  BY <1>1, <1>2

\* The inductive invariant holds of every reachable state.
THEOREM ReplaySpecInv == ReplaySpec => []ReplayInv
  BY ReplayInitInv, ReplayNextInv, PTL DEF ReplaySpec

\* Envelopes with strictly rising expected sequences are all different.
LEMMA OrderedLogHasNoReplay == ReplayInv => NoReplay
<1>. SUFFICES ASSUME ReplayInv, NEW i \in DOMAIN log, NEW j \in DOMAIN log,
                     log[i] = log[j], i # j
              PROVE  FALSE
  BY DEF NoReplay
<1>1. i \in Nat /\ j \in Nat /\ log[i].expected \in Nat /\ log[j].expected \in Nat
  BY LoggedEnvelopes DEF ReplayInv
<1>2. i < j \/ j < i
  BY <1>1
<1>3. log[i].expected < log[j].expected \/ log[j].expected < log[i].expected
  BY <1>2 DEF ReplayInv
<1> QED
  BY <1>1, <1>3

\* No envelope is ever applied twice, however often and however late it is
\* delivered again, for every size of the window of keys.
THEOREM ReplaySpecNoReplay == ReplaySpec => []NoReplay
  BY ReplaySpecInv, OrderedLogHasNoReplay, PTL

\* The freshness of keys is a part of the invariant.
LEMMA ReplayInvFresh == ReplayInv => KeysFreshWithinWindow
  BY DEF ReplayInv

\* Two envelopes accepted within one window of each other have different keys.
THEOREM ReplaySpecKeysFresh == ReplaySpec => []KeysFreshWithinWindow
  BY ReplaySpecInv, ReplayInvFresh, PTL

=============================================================================
