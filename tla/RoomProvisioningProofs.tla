------------------------ MODULE RoomProvisioningProofs ------------------------
(***************************************************************************)
(* The safety properties of RoomProvisioning hold for any numbers of       *)
(* requests, rooms and meetings.                                           *)
(*                                                                         *)
(* The invariant says what each place of a request knows (RequestsOK), who *)
(* may know a meeting (OwnersOK), that an active meeting without a room is *)
(* in somebody's hands (MeetingsHeld), what a closure has settled          *)
(* (ClosuresOK) and what is still due in a room that is not at rest        *)
(* (RoomsOK).                                                              *)
(***************************************************************************)
EXTENDS RoomProvisioning, TLAPS

\* A request at these places owns a meeting that may have no room.
Holding == {"mapping", "compensating", "settling", "discarding"}

Ensuring == Holding \cup {"finding", "creating", "activating"}

\* Everything that request p may do next.
Moves(p) ==
    \/ \E r \in Rooms : CreateRow(p, r) \/ ProvisionAgain(p, r) \/ CloseBegins(p, r)
    \/ Open(p) \/ OpenFails(p)
    \/ Provisioning(p)
    \/ Closing(p)
    \/ Dies(p)

-----------------------------------------------------------------------------
(* The invariant *)

RequestOK(p) ==
    LET q == request[p]
    IN  /\ q.place = "idle" => q = Idle
        /\ q.place # "idle" => q.room \in Rooms /\ status[q.room] # "absent"
        /\ q.place \in Ensuring => q.kind \in {"create", "provision"}
        /\ q.place = "opening" => q.kind = "create" /\ mapping[q.room] # NoMeeting
        /\ q.place \in {"closing", "evicting"} => q.kind = "close"
        /\ q.place \in {"locating", "disabling"} => q.kind \in {"create", "close"}
        /\ q.place \in {"finding", "creating"} => q.own = NoMeeting
        /\ q.place \in Holding => q.own # NoMeeting
        /\ q.place = "settling" => mapping[q.room] # NoMeeting
        /\ q.place \in {"activating", "disabling", "discarding"} =>
              q.found # NoMeeting /\ q.found = mapping[q.room]
        /\ q.place = "discarding" => q.own # q.found
        /\ q.kind = "provision" => q.room \in again

RequestsOK == \A p \in Requests : RequestOK(p)

MappedOnce ==
    \A r, s \in Rooms :
        mapping[r] = mapping[s] /\ mapping[r] # NoMeeting => r = s

OwnerOK(p) ==
    LET m == request[p].own
    IN  m # NoMeeting =>
           /\ meeting[m] # "none"
           /\ \A q \in Requests : request[q].own = m => p = q
           /\ \A r \in Rooms : mapping[r] = m =>
                 /\ r = RoomOf(p)
                 /\ request[p].place # "mapping"
                 /\ request[p].place = "compensating" => r \in disturbed
           /\ request[p].place = "mapping" => meeting[m] = "ACTIVE"

OwnersOK ==
    /\ \A p \in Requests : OwnerOK(p)
    /\ MappedOnce
    /\ \A r \in Rooms : mapping[r] # NoMeeting =>
          meeting[mapping[r]] # "none" /\ status[r] # "absent"

MeetingHeld(m) ==
    meeting[m] = "ACTIVE" /\ (\A r \in Rooms : mapping[r] # m) =>
       \/ m \in surrendered
       \/ \E p \in Requests : request[p].own = m /\ request[p].place \in Holding

MeetingsHeld == \A m \in Meetings : MeetingHeld(m)

\* Nothing opens room r any more.
Shut(r) == status[r] = "closed" /\ CreationsOf(r) = {}

ClosuresOK ==
    /\ \A p \in Requests :
          request[p].kind = "close" /\ request[p].place # "closing" =>
             RoomOf(p) \in hurried \/ Shut(RoomOf(p))
    /\ \A r \in ended \ hurried :
          /\ Shut(r)
          /\ r \notin again /\ mapping[r] # NoMeeting => meeting[mapping[r]] = "INACTIVE"

\* Request p is still to open room r, or to disable its meeting.
Due(p, r) ==
    /\ RoomOf(p) = r
    /\ \/ request[p].kind = "create" /\ request[p].place \in {"activating", "opening"}
       \/ request[p].kind = "close"
          /\ request[p].place \in {"evicting", "locating", "disabling"}

OneCreation ==
    \A p, q \in Requests :
        request[p].kind = "create" /\ request[q].kind = "create"
        /\ RoomOf(p) = RoomOf(q) => p = q

\* What a creation p relies on.
CreationOK(p) ==
    request[p].kind = "create" =>
       /\ RoomOf(p) \in disturbed \/ request[p].place \in Ensuring \cup {"opening"}
       /\ request[p].place \in Ensuring \cup {"opening"} =>
             status[RoomOf(p)] = "closed"
       /\ request[p].place = "opening"
          /\ RoomOf(p) \notin disturbed \cup again \cup hurried =>
             meeting[mapping[RoomOf(p)]] = "ACTIVE"

RoomOK(r) ==
    r \notin disturbed \cup again =>
       /\ status[r] = "closed" /\ mapping[r] # NoMeeting
          /\ meeting[mapping[r]] = "ACTIVE" => \E p \in Requests : Due(p, r)
       /\ status[r] = "open" /\ r \notin hurried => meeting[mapping[r]] = "ACTIVE"

RoomsOK ==
    /\ OneCreation
    /\ \A p \in Requests : CreationOK(p)
    /\ \A r \in Rooms : RoomOK(r)

IInv ==
    /\ TypeOK
    /\ OpenRoomsHaveMeetings
    /\ RequestsOK
    /\ OwnersOK
    /\ MeetingsHeld
    /\ ClosuresOK
    /\ RoomsOK

-----------------------------------------------------------------------------
(* What a step leaves alone *)

\* Every step of the system is a step of one request.
LEMMA StepsAreMoves == Next <=> \E p \in Requests : Moves(p)
BY DEF Next, Moves

\* The other requests stay where they are.
LEMMA OthersStay ==
    ASSUME TypeOK, NEW p \in Requests, Moves(p)
    PROVE  /\ request' \in [Requests -> [place : Places, kind : Kinds,
                                         room : Rooms \cup {NoRoom},
                                         own : Meetings \cup {NoMeeting},
                                         found : Meetings \cup {NoMeeting},
                                         clean : BOOLEAN]]
           /\ \A q \in Requests \ {p} : request'[q] = request[q]
<1>. DEFINE Records == [place : Places, kind : Kinds, room : Rooms \cup {NoRoom},
                        own : Meetings \cup {NoMeeting},
                        found : Meetings \cup {NoMeeting}, clean : BOOLEAN]
<1>t. request \in [Requests -> Records] /\ mapping \in [Rooms -> Meetings \cup {NoMeeting}]
  BY DEF TypeOK
<1>. SUFFICES \E x \in Records : request' = [request EXCEPT ![p] = x]
  BY <1>t
<1>i. Idle \in Records
  BY DEF Idle, Places, Kinds
<1>1. ASSUME NEW r \in Rooms, CreateRow(p, r) \/ ProvisionAgain(p, r) \/ CloseBegins(p, r)
      PROVE  \E x \in Records : request' = [request EXCEPT ![p] = x]
  <2>. DEFINE At(place, kind) == [Idle EXCEPT !.place = place, !.kind = kind, !.room = r]
  <2>1. /\ At("finding", "create") \in Records
        /\ At("finding", "provision") \in Records
        /\ At("closing", "close") \in Records
    BY <1>i DEF Places, Kinds
  <2>. QED
    BY <1>1, <2>1 DEF CreateRow, ProvisionAgain, CloseBegins
<1>2. CASE Open(p) \/ OpenFails(p)
  BY <1>t, <1>i, <1>2 DEF Open, OpenFails, Goes, Answers, Places
<1>3. CASE Provisioning(p)
  BY <1>t, <1>i, <1>3 DEF Provisioning, Find, CreateMeeting, CreateMeetingFails, Map,
     MapFails, Settle, AfterConflict, Compensate, CompensateFails, Activate, ActivateFails,
     WhenProvisioned, Goes, Answers, Places, RoomOf
<1>4. CASE Closing(p)
  BY <1>t, <1>i, <1>4 DEF Closing, Close, CloseFails, Evict, Locate, Disable,
     DisableFails, Goes, Answers, Places, RoomOf
<1>5. CASE Dies(p)
  BY <1>i, <1>5 DEF Dies, Answers
<1>. QED
  BY <1>1, <1>2, <1>3, <1>4, <1>5 DEF Moves

\* What a step does to the mappings: the meeting that request p created gets
\* the room it was created for, if the room has none.
LEMMA MappingMoves ==
    ASSUME TypeOK, NEW p \in Requests, Moves(p)
    PROVE  \/ mapping' = mapping
           \/ /\ request[p].place = "mapping"
              /\ mapping[RoomOf(p)] = NoMeeting
              /\ mapping' = [mapping EXCEPT ![RoomOf(p)] = request[p].own]
<1>1. CASE Map(p) \/ MapFails(p)
  BY <1>1 DEF Map, MapFails, Mapped
<1>. QED
  BY <1>1 DEF Moves, CreateRow, ProvisionAgain, CloseBegins, Open, OpenFails,
     Provisioning, Find, CreateMeeting, CreateMeetingFails, Settle, Compensate,
     CompensateFails, Activate, ActivateFails, Closing, Close, CloseFails, Evict,
     Locate, Disable, DisableFails, Dies

\* What a step does to the rows of rooms.
LEMMA StatusMoves ==
    ASSUME TypeOK, NEW p \in Requests, Moves(p)
    PROVE  \/ status' = status
           \/ \E r \in Rooms : CreateRow(p, r)
           \/ /\ request[p].place = "opening"
              /\ status' = [status EXCEPT ![RoomOf(p)] = "open"]
           \/ /\ request[p].place = "closing"
              /\ status' = [status EXCEPT ![RoomOf(p)] = "closed"]
<1>1. CASE Open(p) \/ OpenFails(p)
  BY <1>1 DEF Open, OpenFails
<1>2. CASE Close(p) \/ CloseFails(p)
  BY <1>2 DEF Close, CloseFails, Closed
<1>. QED
  BY <1>1, <1>2 DEF Moves, ProvisionAgain, CloseBegins, Provisioning, Find,
     CreateMeeting, CreateMeetingFails, Map, MapFails, Settle, Compensate,
     CompensateFails, Activate, ActivateFails, Closing, Evict, Locate, Disable,
     DisableFails, Dies

\* What a step does to the provider's meetings.
LEMMA MeetingMoves ==
    ASSUME TypeOK, NEW p \in Requests, Moves(p)
    PROVE  \/ meeting' = meeting
           \/ /\ request[p].place = "creating"
              /\ \E m \in Meetings : meeting[m] = "none"
                                   /\ meeting' = [meeting EXCEPT ![m] = "ACTIVE"]
           \/ /\ request[p].place \in {"compensating", "discarding"}
              /\ meeting' = [meeting EXCEPT ![request[p].own] = "INACTIVE"]
           \/ /\ request[p].place = "activating"
              /\ meeting' = [meeting EXCEPT ![request[p].found] = "ACTIVE"]
           \/ /\ request[p].place = "disabling"
              /\ meeting' = [meeting EXCEPT ![request[p].found] = "INACTIVE"]
<1>1. CASE CreateMeeting(p) \/ CreateMeetingFails(p)
  BY <1>1 DEF CreateMeeting, CreateMeetingFails
<1>2. CASE Compensate(p) \/ CompensateFails(p)
  BY <1>2 DEF Compensate, CompensateFails, Compensated
<1>3. CASE Activate(p) \/ ActivateFails(p)
  BY <1>3 DEF Activate, ActivateFails, Activated
<1>4. CASE Disable(p) \/ DisableFails(p)
  BY <1>4 DEF Disable, DisableFails, Disabled
<1>. QED
  BY <1>1, <1>2, <1>3, <1>4 DEF Moves, CreateRow, ProvisionAgain, CloseBegins, Open,
     OpenFails, Provisioning, Find, Map, MapFails, Settle, Closing, Close, CloseFails,
     Evict, Locate, Dies

\* The histories only grow.
LEMMA HistoryGrows ==
    ASSUME TypeOK, NEW p \in Requests, Moves(p)
    PROVE  /\ surrendered \subseteq surrendered'
           /\ disturbed \subseteq disturbed' /\ again \subseteq again'
           /\ hurried \subseteq hurried' /\ ended \subseteq ended'
BY DEF Moves, CreateRow, ProvisionAgain, CloseBegins, Open, OpenFails,
   Provisioning, Find, CreateMeeting, CreateMeetingFails, Map, MapFails, Settle,
   Compensate, CompensateFails, Activate, ActivateFails, Closing, Close, CloseFails,
   Evict, Locate, Reports, Disable, DisableFails, Dies, history

-----------------------------------------------------------------------------
(* Types *)

\* No step leaves the types.
LEMMA TypesStay ==
    ASSUME TypeOK, RequestsOK, NEW p \in Requests, Moves(p)
    PROVE  TypeOK'
<1>t. TypeOK
  OBVIOUS
<1>o. request[p].own \in Meetings \cup {NoMeeting}
  BY DEF TypeOK
<1>r. request[p].place # "idle" => RoomOf(p) \in Rooms
  BY DEF RequestsOK, RequestOK, RoomOf
<1>1. status' \in [Rooms -> {"absent", "closed", "open"}]
  BY <1>t, StatusMoves DEF TypeOK, CreateRow, Born
<1>2. mapping' \in [Rooms -> Meetings \cup {NoMeeting}]
  BY <1>t, <1>o, MappingMoves DEF TypeOK
<1>3. meeting' \in [Meetings -> {"none", "ACTIVE", "INACTIVE"}]
  BY <1>t, MeetingMoves DEF TypeOK
<1>4. surrendered' \subseteq Meetings
  <2>h. request[p].place \in Holding => request[p].own \in Meetings
    BY <1>o DEF RequestsOK, RequestOK
  <2>1. CASE Settle(p) \/ CompensateFails(p)
    BY <1>t, <2>h, <2>1 DEF TypeOK, Holding, Settle, CompensateFails
  <2>2. CASE CreateMeetingFails(p) \/ Dies(p)
    BY <1>t, <1>o, <2>2 DEF TypeOK, CreateMeetingFails, Dies
  <2>. QED
    BY <1>t, <2>1, <2>2 DEF TypeOK, Moves, CreateRow, ProvisionAgain, CloseBegins, Open,
       OpenFails, Provisioning, Find, CreateMeeting, Map, MapFails, Compensate, Activate,
       ActivateFails, Closing, Close, CloseFails, Evict, Locate, Disable, DisableFails,
       history
<1>5. /\ disturbed' \subseteq Rooms /\ again' \subseteq Rooms
      /\ hurried' \subseteq Rooms /\ ended' \subseteq Rooms
  BY <1>t, <1>r DEF TypeOK, Moves, CreateRow, ProvisionAgain, CloseBegins, Open,
     OpenFails, Provisioning, Find, CreateMeeting, CreateMeetingFails, Map, MapFails,
     Settle, Compensate, CompensateFails, Activate, ActivateFails, Closing, Close,
     CloseFails, Evict, Locate, Reports, Disable, DisableFails, Dies, history
<1>. QED
  BY <1>1, <1>2, <1>3, <1>4, <1>5, OthersStay DEF TypeOK

-----------------------------------------------------------------------------
(* What a request knows *)

\* The room of a request never vanishes, and a mapping it has seen stays.
LEMMA RoomsStay ==
    ASSUME TypeOK, RequestsOK, NEW p \in Requests, Moves(p), NEW r \in Rooms
    PROVE  /\ status[r] # "absent" => status'[r] # "absent"
           /\ mapping[r] # NoMeeting => mapping'[r] = mapping[r]
BY StatusMoves, MappingMoves DEF TypeOK, CreateRow, Born

\* Where a request begins.
LEMMA Beginnings ==
    ASSUME TypeOK, NEW p \in Requests, NEW r \in Rooms,
           CreateRow(p, r) \/ ProvisionAgain(p, r) \/ CloseBegins(p, r)
    PROVE  /\ request'[p].room = r /\ request'[p].own = NoMeeting
           /\ \/ /\ CreateRow(p, r)
                 /\ request'[p].place = "finding" /\ request'[p].kind = "create"
              \/ /\ ProvisionAgain(p, r)
                 /\ request'[p].place = "finding" /\ request'[p].kind = "provision"
              \/ /\ CloseBegins(p, r)
                 /\ request'[p].place = "closing" /\ request'[p].kind = "close"
<1>1. CASE CreateRow(p, r)
  BY <1>1 DEF TypeOK, CreateRow, Idle
<1>2. CASE ProvisionAgain(p, r)
  BY <1>2 DEF TypeOK, ProvisionAgain, Idle
<1>3. CASE CloseBegins(p, r)
  BY <1>3 DEF TypeOK, CloseBegins, Idle
<1>. QED
  BY <1>1, <1>2, <1>3

\* The place of the request that moves.
LEMMA OwnPlaceStays ==
    ASSUME TypeOK, RequestsOK, NEW p \in Requests, Moves(p)
    PROVE  RequestOK(p)'
<1>t. TypeOK /\ TypeOK' /\ RequestOK(p)
  BY TypesStay DEF RequestsOK
<1>n. \A m \in Meetings : m # NoMeeting
  BY ProvisioningAssumption
<1>1. ASSUME NEW r \in Rooms, CreateRow(p, r) \/ ProvisionAgain(p, r) \/ CloseBegins(p, r)
      PROVE  RequestOK(p)'
  <2>1. /\ request'[p].room = r /\ request'[p].own = NoMeeting
        /\ request'[p].kind = "provision" => r \in again'
        /\ \/ request'[p].place = "finding" /\ request'[p].kind \in {"create", "provision"}
           \/ request'[p].place = "closing" /\ request'[p].kind = "close"
    BY <1>t, <1>1, Beginnings DEF ProvisionAgain
  <2>2. status'[r] # "absent"
    BY <1>t, <1>1 DEF TypeOK, CreateRow, Born, ProvisionAgain, CloseBegins
  <2>. QED
    BY <2>1, <2>2 DEF RequestOK, Ensuring, Holding
<1>2. CASE Open(p) \/ OpenFails(p)
  BY <1>t, <1>2 DEF TypeOK, RequestOK, Open, OpenFails, Goes, Answers, Idle, RoomOf,
     Ensuring, Holding
<1>3. CASE Find(p) \/ CreateMeeting(p) \/ CreateMeetingFails(p)
  BY <1>t, <1>n, <1>3 DEF TypeOK, RequestOK, Find, CreateMeeting, CreateMeetingFails,
     Answers, Idle, RoomOf, Ensuring, Holding, history
<1>4. CASE Map(p) \/ MapFails(p)
  BY <1>t, <1>n, <1>4 DEF TypeOK, RequestOK, Map, MapFails, Mapped, WhenProvisioned, Goes,
     Answers, Idle, RoomOf, Ensuring, Holding, history
<1>5. CASE Settle(p) \/ Compensate(p) \/ CompensateFails(p)
  BY <1>t, <1>5 DEF TypeOK, RequestOK, Settle, AfterConflict, Compensate, CompensateFails,
     Goes, Answers, Idle, RoomOf, Ensuring, Holding, history
<1>6. CASE Activate(p) \/ ActivateFails(p)
  BY <1>t, <1>6 DEF TypeOK, RequestOK, Activate, ActivateFails, WhenProvisioned, Goes,
     Answers, Idle, RoomOf, Ensuring, Holding, history
<1>7. CASE Closing(p)
  BY <1>t, <1>7 DEF TypeOK, RequestOK, Closing, Close, CloseFails, Closed, Evict, Locate,
     Disable, DisableFails, Goes, Answers, Idle, RoomOf, Ensuring, Holding
<1>8. CASE Dies(p)
  BY <1>t, <1>8 DEF TypeOK, RequestOK, Dies, Answers, Idle, Ensuring, Holding
<1>. QED
  BY <1>1, <1>2, <1>3, <1>4, <1>5, <1>6, <1>7, <1>8 DEF Moves, Provisioning

\* What requests know stays true.
LEMMA RequestsStay ==
    ASSUME TypeOK, RequestsOK, NEW p \in Requests, Moves(p)
    PROVE  RequestsOK'
<1>. SUFFICES ASSUME NEW q \in Requests, q # p PROVE RequestOK(q)'
  BY OwnPlaceStays DEF RequestsOK
<1>1. request'[q] = request[q] /\ RequestOK(q)
  BY OthersStay DEF RequestsOK
<1>2. again \subseteq again'
  BY HistoryGrows
<1>3. request[q].place # "idle" =>
         /\ status'[RoomOf(q)] # "absent"
         /\ mapping[RoomOf(q)] # NoMeeting => mapping'[RoomOf(q)] = mapping[RoomOf(q)]
  BY <1>1, RoomsStay DEF RequestOK, RoomOf
<1>. QED
  BY <1>1, <1>2, <1>3 DEF RequestOK, RoomOf, Ensuring, Holding

-----------------------------------------------------------------------------
(* Who knows a meeting *)

\* A request takes a meeting only when it is made.
LEMMA OwnMoves ==
    ASSUME TypeOK, RequestsOK, NEW p \in Requests, Moves(p)
    PROVE  \/ request'[p].own = NoMeeting
           \/ /\ request'[p].own = request[p].own
              /\ request'[p].room = request[p].room
              /\ request'[p].place # "mapping"
              /\ request'[p].place = "compensating" => RoomOf(p) \in disturbed'
           \/ /\ CreateMeeting(p)
              /\ request'[p].own \in Meetings
              /\ request'[p].place \in {"mapping", "compensating"}
              /\ meeting[request'[p].own] = "none"
              /\ meeting' = [meeting EXCEPT ![request'[p].own] = "ACTIVE"]
              /\ mapping' = mapping
<1>t. TypeOK
  OBVIOUS
<1>1. CASE \E r \in Rooms : CreateRow(p, r) \/ ProvisionAgain(p, r) \/ CloseBegins(p, r)
  BY <1>t, <1>1, Beginnings
<1>2. CASE Open(p) \/ OpenFails(p) \/ Dies(p) \/ Closing(p)
  BY <1>t, <1>2 DEF TypeOK, Open, OpenFails, Dies, Closing, Close, CloseFails, Evict,
     Locate, Disable, DisableFails, Goes, Answers, Idle
<1>3. CASE CreateMeeting(p)
  <2>1. PICK m \in Meetings :
           /\ meeting[m] = "none"
           /\ meeting' = [meeting EXCEPT ![m] = "ACTIVE"]
           /\ \E next \in {"mapping", "compensating"} :
                 request' = [request EXCEPT ![p].place = next, ![p].own = m]
    BY <1>3 DEF CreateMeeting
  <2>2. request'[p].own = m /\ request'[p].place \in {"mapping", "compensating"}
    BY <1>t, <2>1 DEF TypeOK
  <2>. QED
    BY <1>3, <2>1, <2>2 DEF CreateMeeting
<1>4. CASE Provisioning(p) /\ ~CreateMeeting(p)
  BY <1>t, <1>4 DEF TypeOK, Provisioning, Find, CreateMeetingFails, Map, MapFails, Settle,
     AfterConflict, Compensate, CompensateFails, Activate, ActivateFails,
     WhenProvisioned, Goes, Answers, Idle
<1>. QED
  BY <1>1, <1>2, <1>3, <1>4 DEF Moves

\* A meeting that was made stays, and a step disturbs only what it knows.
LEMMA MeetingsStay ==
    ASSUME TypeOK, RequestsOK, NEW p \in Requests, Moves(p), NEW m \in Meetings
    PROVE  /\ meeting[m] # "none" => meeting'[m] # "none"
           /\ meeting'[m] = meeting[m] \/ meeting[m] = "none" \/ request[p].own = m
              \/ \E r \in Rooms : mapping[r] = m
<1>1. request[p].place \in {"activating", "disabling"} =>
         RoomOf(p) \in Rooms /\ request[p].found = mapping[RoomOf(p)]
  BY DEF RequestsOK, RequestOK, RoomOf
<1>. QED
  BY <1>1, MeetingMoves DEF TypeOK

\* Meetings keep to those who know them.
LEMMA OwnersStay ==
    ASSUME TypeOK, RequestsOK, OwnersOK, NEW p \in Requests, Moves(p)
    PROVE  OwnersOK'
<1>t. TypeOK /\ RequestOK(p) /\ OwnerOK(p)
  BY DEF RequestsOK, OwnersOK
<1>t2. TypeOK' /\ RequestsOK'
  BY TypesStay, RequestsStay
<1>n. NoMeeting \notin Meetings
  BY ProvisioningAssumption
<1>f. ASSUME NEW m \in Meetings, meeting[m] = "none"
      PROVE  /\ \A q \in Requests : request[q].own # m
             /\ \A r \in Rooms : mapping[r] # m
  BY <1>n, <1>f DEF OwnersOK, OwnerOK
<1>1. ASSUME NEW q \in Requests, q # p PROVE OwnerOK(q)'
  <2>. DEFINE m == request[q].own
  <2>0. request'[q] = request[q] /\ OwnerOK(q)
    BY <1>1, OthersStay DEF OwnersOK
  <2>. SUFFICES ASSUME m # NoMeeting PROVE OwnerOK(q)'
    BY <2>0 DEF OwnerOK
  <2>1. m \in Meetings /\ meeting[m] # "none"
    BY <2>0 DEF TypeOK, OwnerOK
  <2>2. request[p].own # m
    BY <1>1, <2>0 DEF OwnerOK
  <2>3. request'[p].own # m
    BY <1>t, <2>1, <2>2, OwnMoves
  <2>4. \A s \in Requests : request'[s].own = m => q = s
    BY <2>0, <2>3, OthersStay DEF OwnerOK
  <2>5. ASSUME NEW r \in Rooms, mapping'[r] = m PROVE mapping[r] = m
    BY <1>t, <2>2, <2>5, MappingMoves DEF TypeOK
  <2>6. meeting'[m] # "none"
    BY <2>1, MeetingsStay
  <2>7. request[q].place = "mapping" => meeting'[m] = "ACTIVE"
    BY <2>0, <2>1, <2>2, MeetingsStay DEF OwnerOK
  <2>. QED
    BY <2>0, <2>4, <2>5, <2>6, <2>7, HistoryGrows DEF OwnerOK, RoomOf
<1>2. OwnerOK(p)'
  <2>. DEFINE m == request'[p].own
  <2>. SUFFICES ASSUME m # NoMeeting PROVE OwnerOK(p)'
    BY DEF OwnerOK
  <2>1. CASE /\ m = request[p].own /\ request'[p].room = request[p].room
             /\ request'[p].place # "mapping"
             /\ request'[p].place = "compensating" => RoomOf(p) \in disturbed'
    <3>1. m \in Meetings /\ meeting[m] # "none"
      BY <1>t, <2>1 DEF TypeOK, OwnerOK
    <3>2. meeting'[m] # "none"
      BY <3>1, MeetingsStay
    <3>3. \A s \in Requests : request'[s].own = m => p = s
      BY <1>t, <2>1, OthersStay DEF OwnerOK
    <3>4. ASSUME NEW r \in Rooms, mapping'[r] = m PROVE r = RoomOf(p)
      BY <1>t, <2>1, <3>4, MappingMoves DEF TypeOK, OwnerOK
    <3>. QED
      BY <2>1, <3>2, <3>3, <3>4 DEF OwnerOK, RoomOf
  <2>2. CASE /\ m \in Meetings
             /\ request'[p].place \in {"mapping", "compensating"}
             /\ meeting[m] = "none"
             /\ meeting' = [meeting EXCEPT ![m] = "ACTIVE"]
             /\ mapping' = mapping
    <3>1. meeting'[m] = "ACTIVE"
      BY <1>t, <2>2 DEF TypeOK
    <3>2. \A s \in Requests : request'[s].own = m => p = s
      BY <1>f, <2>2, OthersStay
    <3>3. \A r \in Rooms : mapping'[r] # m
      BY <1>f, <2>2
    <3>. QED
      BY <3>1, <3>2, <3>3 DEF OwnerOK
  <2>. QED
    BY <2>1, <2>2, OwnMoves
<1>3. MappedOnce'
  <2>1. CASE mapping' = mapping
    BY <2>1 DEF OwnersOK, MappedOnce
  <2>2. CASE /\ request[p].place = "mapping"
             /\ mapping' = [mapping EXCEPT ![RoomOf(p)] = request[p].own]
    <3>1. request[p].own # NoMeeting
      BY <1>t, <2>2 DEF RequestOK, Holding
    <3>2. \A r \in Rooms : mapping[r] # request[p].own
      BY <1>t, <2>2, <3>1 DEF OwnerOK
    <3>. QED
      BY <1>t, <2>2, <3>2 DEF TypeOK, OwnersOK, MappedOnce
  <2>. QED
    BY <2>1, <2>2, MappingMoves
<1>4. ASSUME NEW r \in Rooms, mapping'[r] # NoMeeting
      PROVE  meeting'[mapping'[r]] # "none" /\ status'[r] # "absent"
  <2>1. CASE mapping'[r] = mapping[r]
    <3>1. mapping[r] \in Meetings /\ meeting[mapping[r]] # "none" /\ status[r] # "absent"
      BY <1>4, <2>1 DEF OwnersOK, TypeOK
    <3>. QED
      BY <2>1, <3>1, MeetingsStay, RoomsStay
  <2>2. CASE /\ request[p].place = "mapping" /\ r = RoomOf(p)
             /\ mapping'[r] = request[p].own
    <3>1. mapping'[r] \in Meetings /\ meeting[mapping'[r]] # "none"
      BY <1>t, <1>4, <2>2 DEF TypeOK, OwnerOK
    <3>2. status[r] # "absent"
      BY <1>t, <2>2 DEF RequestOK, RoomOf
    <3>. QED
      BY <3>1, <3>2, MeetingsStay, RoomsStay
  <2>. QED
    BY <1>t, <2>1, <2>2, MappingMoves DEF TypeOK
<1>. QED
  BY <1>1, <1>2, <1>3, <1>4 DEF OwnersOK

-----------------------------------------------------------------------------
(* Meetings without a room *)

\* Whoever lets go of a meeting has mapped it, disabled it or given it up.
LEMMA LettingGo ==
    ASSUME TypeOK, RequestsOK, OwnersOK, NEW p \in Requests, Moves(p),
           NEW m \in Meetings, request[p].own = m, request[p].place \in Holding
    PROVE  \/ request'[p].own = m /\ request'[p].place \in Holding
           \/ m \in surrendered'
           \/ meeting'[m] = "INACTIVE"
           \/ \E r \in Rooms : mapping'[r] = m
<1>t. TypeOK /\ RequestOK(p) /\ RoomOf(p) \in Rooms
  BY DEF RequestsOK, RequestOK, RoomOf, Holding
<1>1. CASE Map(p)
  BY <1>t, <1>1 DEF TypeOK, Map, Mapped, WhenProvisioned, Goes, Answers, Holding
<1>2. CASE MapFails(p)
  BY <1>t, <1>2 DEF TypeOK, MapFails, Goes, Holding
<1>3. CASE Settle(p)
  BY <1>t, <1>3 DEF TypeOK, Settle, AfterConflict, Answers, Holding
<1>4. CASE Compensate(p)
  BY <1>t, <1>4 DEF TypeOK, Compensate, Compensated
<1>5. CASE CompensateFails(p) \/ Dies(p)
  BY <1>t, <1>5, ProvisioningAssumption DEF CompensateFails, Dies
<1>. QED
  BY <1>1, <1>2, <1>3, <1>4, <1>5 DEF Moves, CreateRow, ProvisionAgain, CloseBegins, Open,
     OpenFails, Provisioning, Find, CreateMeeting, CreateMeetingFails, Activate,
     ActivateFails, Closing, Close, CloseFails, Evict, Locate, Disable, DisableFails,
     Holding

\* An active meeting stays in somebody's hands.
LEMMA HandsStay ==
    ASSUME TypeOK, RequestsOK, OwnersOK, MeetingsHeld, NEW p \in Requests, Moves(p)
    PROVE  MeetingsHeld'
<1>t. TypeOK /\ RequestOK(p)
  BY DEF RequestsOK
<1>. SUFFICES ASSUME NEW m \in Meetings, meeting'[m] = "ACTIVE",
                    \A r \in Rooms : mapping'[r] # m
             PROVE  \/ m \in surrendered'
                    \/ \E q \in Requests : request'[q].own = m
                                        /\ request'[q].place \in Holding
  BY DEF MeetingsHeld, MeetingHeld
<1>n. m # NoMeeting
  BY ProvisioningAssumption
<1>1. \A r \in Rooms : mapping[r] # m
  BY <1>n, RoomsStay
<1>2. CASE meeting[m] = "ACTIVE"
  <2>1. CASE m \in surrendered
    BY <2>1, HistoryGrows
  <2>2. CASE \E q \in Requests : request[q].own = m /\ request[q].place \in Holding
    <3>1. PICK q \in Requests : request[q].own = m /\ request[q].place \in Holding
      BY <2>2
    <3>2. CASE q = p
      BY <3>1, <3>2, LettingGo
    <3>3. CASE q # p
      BY <3>1, <3>3, OthersStay
    <3>. QED
      BY <3>2, <3>3
  <2>. QED
    BY <1>1, <1>2, <2>1, <2>2 DEF MeetingsHeld, MeetingHeld
<1>3. CASE meeting[m] # "ACTIVE"
  <2>1. CASE CreateMeeting(p)
    <3>1. PICK n \in Meetings, next \in {"mapping", "compensating"} :
             /\ meeting' = [meeting EXCEPT ![n] = "ACTIVE"]
             /\ request' = [request EXCEPT ![p].place = next, ![p].own = n]
      BY <2>1 DEF CreateMeeting
    <3>2. n = m
      BY <1>t, <1>3, <3>1 DEF TypeOK
    <3>. QED
      BY <1>t, <3>1, <3>2 DEF TypeOK, Holding
  <2>2. CASE CreateMeetingFails(p)
    BY <1>t, <1>3, <2>2 DEF TypeOK, CreateMeetingFails
  <2>3. CASE Activate(p) \/ ActivateFails(p)
    <3>1. request[p].found # m
      BY <1>t, <1>1, <2>3 DEF RequestOK, Activate, ActivateFails, RoomOf
    <3>. QED
      BY <1>t, <1>3, <2>3, <3>1 DEF TypeOK, Activate, ActivateFails, Activated
  <2>4. CASE Compensate(p) \/ CompensateFails(p) \/ Disable(p) \/ DisableFails(p)
    BY <1>t, <1>3, <2>4 DEF TypeOK, Compensate, CompensateFails, Compensated, Disable,
       DisableFails, Disabled
  <2>. QED
    BY <1>3, <2>1, <2>2, <2>3, <2>4 DEF Moves, CreateRow, ProvisionAgain, CloseBegins,
       Open, OpenFails, Provisioning, Find, Map, MapFails, Settle, Closing, Close,
       CloseFails, Evict, Locate, Dies
<1>. QED
  BY <1>2, <1>3

-----------------------------------------------------------------------------
(* Closures *)

\* A request changes its kind and its room only where it begins and ends.
LEMMA KindMoves ==
    ASSUME TypeOK, RequestsOK, NEW p \in Requests, Moves(p)
    PROVE  \/ request'[p] = Idle
           \/ \E r \in Rooms : CreateRow(p, r) \/ ProvisionAgain(p, r) \/ CloseBegins(p, r)
           \/ request'[p].kind = request[p].kind /\ request'[p].room = request[p].room
BY DEF TypeOK, Moves, Open, OpenFails, Provisioning, Find, CreateMeeting,
   CreateMeetingFails, Map, MapFails, Settle, Compensate, CompensateFails, Activate,
   ActivateFails, Closing, Close, CloseFails, Evict, Locate, Disable, DisableFails, Dies,
   Goes, Answers

\* A room that nothing opens any more stays shut.
LEMMA ShutStays ==
    ASSUME TypeOK, RequestsOK, NEW p \in Requests, Moves(p), NEW r \in Rooms, Shut(r)
    PROVE  Shut(r)'
<1>t. TypeOK /\ RequestOK(p)
  BY DEF RequestsOK
<1>1. ~(RoomOf(p) = r /\ request[p].kind = "create")
  BY DEF Shut, CreationsOf, UnderWay
<1>2. status'[r] = "closed"
  BY <1>t, <1>1, StatusMoves DEF Shut, TypeOK, CreateRow, RequestOK, RoomOf
<1>3. ~(request'[p].room = r /\ request'[p].kind = "create")
  <2>1. ASSUME NEW s \in Rooms, CreateRow(p, s) PROVE s # r
    BY <2>1 DEF CreateRow, Shut
  <2>. QED
    BY <1>1, <2>1, KindMoves, Beginnings DEF Idle, RoomOf
<1>. QED
  BY <1>1, <1>2, <1>3, OthersStay DEF Shut, CreationsOf, UnderWay, RoomOf

\* Where a closure gets to.
LEMMA ClosureMoves ==
    ASSUME TypeOK, RequestsOK, NEW p \in Requests, Moves(p),
           request'[p].kind = "close", request'[p].place # "closing"
    PROVE  /\ request[p].kind = "close" /\ request'[p].room = request[p].room
           /\ request[p].place # "closing" \/ Close(p)
<1>t. TypeOK /\ RequestOK(p)
  BY DEF RequestsOK
<1>1. ~\E r \in Rooms : CreateRow(p, r) \/ ProvisionAgain(p, r) \/ CloseBegins(p, r)
  BY Beginnings
<1>2. request'[p] # Idle
  BY DEF Idle
<1>3. request[p].place = "closing" => Close(p)
  BY <1>t, <1>1, <1>2 DEF TypeOK, Moves, Open, OpenFails, Provisioning, Find,
     CreateMeeting, CreateMeetingFails, Map, MapFails, Settle, Compensate,
     CompensateFails, Activate, ActivateFails, Closing, CloseFails, Evict, Locate,
     Disable, DisableFails, Dies, Answers
<1>. QED
  BY <1>1, <1>2, <1>3, KindMoves

\* A meeting of a shut room that nobody provisions again is only disabled.
LEMMA ShutMeetingStays ==
    ASSUME TypeOK, RequestsOK, OwnersOK, NEW p \in Requests, Moves(p), NEW r \in Rooms,
           Shut(r), r \notin again, mapping'[r] # NoMeeting
    PROVE  /\ mapping'[r] = mapping[r]
           /\ meeting[mapping[r]] = "INACTIVE" => meeting'[mapping[r]] = "INACTIVE"
<1>t. TypeOK /\ RequestOK(p) /\ MappedOnce
  BY DEF RequestsOK, OwnersOK
<1>1. RoomOf(p) = r => request[p].place \notin Ensuring
  BY <1>t DEF RequestOK, Shut, CreationsOf, UnderWay, RoomOf
<1>2. mapping'[r] = mapping[r]
  BY <1>t, <1>1, MappingMoves DEF TypeOK, Ensuring, Holding
<1>3. mapping[r] \in Meetings /\ meeting[mapping[r]] # "none"
  BY <1>2 DEF TypeOK, OwnersOK
<1>4. request[p].place = "activating" => request[p].found # mapping[r]
  BY <1>t, <1>1, <1>2, <1>3 DEF RequestOK, MappedOnce, RoomOf, Ensuring, Holding
<1>. QED
  BY <1>t, <1>2, <1>3, <1>4, MeetingMoves DEF TypeOK

\* What closures have settled stays settled.
LEMMA ClosuresStay ==
    ASSUME TypeOK, RequestsOK, OwnersOK, ClosuresOK, NEW p \in Requests, Moves(p)
    PROVE  ClosuresOK'
<1>t. TypeOK /\ RequestOK(p)
  BY DEF RequestsOK
<1>h. /\ hurried \subseteq hurried' /\ again \subseteq again'
      /\ hurried \subseteq Rooms /\ ended \subseteq Rooms
  BY HistoryGrows DEF TypeOK
<1>1. ASSUME NEW q \in Requests, NEW r \in Rooms, request'[q].kind = "close",
             request'[q].place # "closing", request'[q].room = r
      PROVE  r \in hurried' \/ Shut(r)'
  <2>1. ASSUME request[q].kind = "close", request[q].place # "closing",
               request[q].room = r
        PROVE  r \in hurried' \/ Shut(r)'
    BY <1>h, <2>1, ShutStays DEF ClosuresOK, RoomOf
  <2>2. CASE q # p
    BY <1>1, <2>1, <2>2, OthersStay
  <2>3. CASE q = p /\ Close(p)
    <3>1. /\ RoomOf(p) = r /\ status'[r] = "closed" /\ request[p].kind = "close"
          /\ request'[p].kind = "close"
      BY <1>t, <1>1, <2>3 DEF TypeOK, RequestOK, Close, Closed, Goes, RoomOf
    <3>2. CreationsOf(r) = {} => CreationsOf(r)' = {}
      BY <3>1, OthersStay DEF CreationsOf, UnderWay, RoomOf
    <3>. QED
      BY <2>3, <3>1, <3>2 DEF Close, Shut
  <2>. QED
    BY <1>1, <2>1, <2>2, <2>3, ClosureMoves
<1>2. ASSUME NEW r \in ended' \ hurried'
      PROVE  /\ Shut(r)'
             /\ r \notin again' /\ mapping'[r] # NoMeeting =>
                   meeting'[mapping'[r]] = "INACTIVE"
  <2>1. CASE r \in ended
    <3>1. /\ r \in Rooms /\ Shut(r)
          /\ r \notin again /\ mapping[r] # NoMeeting => meeting[mapping[r]] = "INACTIVE"
      BY <1>h, <1>2, <2>1 DEF ClosuresOK
    <3>. QED
      BY <1>h, <3>1, ShutStays, ShutMeetingStays
  <2>2. CASE r \notin ended
    <3>1. /\ Locate(p) \/ Disable(p)
          /\ r = RoomOf(p) /\ request[p].kind = "close"
      BY <1>2, <2>2 DEF Moves, CreateRow, ProvisionAgain, CloseBegins, Open, OpenFails,
         Provisioning, Find, CreateMeeting, CreateMeetingFails, Map, MapFails, Settle,
         Compensate, CompensateFails, Activate, ActivateFails, Closing, Close,
         CloseFails, Evict, Locate, Reports, Disable, DisableFails, Dies, history
    <3>2. r \in Rooms /\ Shut(r)
      BY <1>t, <1>h, <1>2, <3>1 DEF RequestOK, Locate, Disable, RoomOf, ClosuresOK
    <3>3. CASE Locate(p)
      BY <1>2, <2>2, <3>1, <3>2, <3>3, ShutStays DEF Locate
    <3>4. CASE Disable(p)
      <4>1. /\ mapping'[r] = mapping[r] /\ request[p].found = mapping[r]
            /\ mapping[r] \in Meetings
        BY <1>t, <3>1, <3>4 DEF RequestOK, Disable, RoomOf, TypeOK
      <4>2. meeting'[mapping[r]] = "INACTIVE"
        BY <1>t, <3>4, <4>1 DEF TypeOK, Disable, Disabled
      <4>. QED
        BY <3>2, <4>1, <4>2, ShutStays
    <3>. QED
      BY <3>1, <3>3, <3>4
  <2>. QED
    BY <2>1, <2>2
<1>3. ASSUME NEW q \in Requests, (request[q].kind = "close")',
             (request[q].place # "closing")'
      PROVE  (RoomOf(q) \in hurried \/ Shut(RoomOf(q)))'
  <2>1. request'[q].room \in Rooms
    <3>1. RequestOK(q)'
      BY RequestsStay DEF RequestsOK
    <3>2. request'[q].kind = "close"
      BY <1>3
    <3>. QED
      BY <3>1, <3>2 DEF RequestOK, Idle
  <2>. QED
    BY <1>1, <1>3, <2>1 DEF Shut, CreationsOf, UnderWay, RoomOf
<1>. QED
  BY <1>2, <1>3 DEF ClosuresOK

-----------------------------------------------------------------------------
(* Rooms at rest *)

\* A room has one creation.
LEMMA OneCreationStays ==
    ASSUME TypeOK, RequestsOK, OneCreation, NEW p \in Requests, Moves(p)
    PROVE  OneCreation'
<1>. SUFFICES ASSUME NEW q \in Requests, NEW s \in Requests, q # s, s # p,
                    request'[q].kind = "create", request'[s].kind = "create",
                    request'[q].room = request'[s].room
             PROVE  FALSE
  BY DEF OneCreation, RoomOf
<1>1. /\ request'[s] = request[s] /\ request[s].room \in Rooms
      /\ status[request[s].room] # "absent"
  BY OthersStay DEF RequestsOK, RequestOK, Idle
<1>2. request[q].kind = "create" /\ request[q].room = request'[q].room => FALSE
  BY <1>1 DEF OneCreation, RoomOf
<1>3. q = p
  BY <1>2, OthersStay
<1>4. CASE \E r \in Rooms : CreateRow(p, r)
  BY <1>1, <1>3, <1>4, Beginnings DEF CreateRow
<1>. QED
  BY <1>2, <1>3, <1>4, KindMoves, Beginnings DEF Idle

\* Nothing but the failures of its own requests disturbs the meeting of a room:
\* it is made inactive by a request that disables it.
LEMMA RoomMeetingMoves ==
    ASSUME TypeOK, RequestsOK, OwnersOK, NEW p \in Requests, Moves(p), NEW r \in Rooms,
           mapping[r] # NoMeeting, r \notin disturbed
    PROVE  /\ mapping'[r] = mapping[r] /\ mapping[r] \in Meetings
           /\ \/ meeting'[mapping[r]] = meeting[mapping[r]]
              \/ /\ request[p].place = "activating" /\ RoomOf(p) = r
                 /\ meeting'[mapping[r]] = "ACTIVE"
              \/ /\ request[p].place = "disabling" /\ RoomOf(p) = r
                 /\ meeting'[mapping[r]] = "INACTIVE"
<1>t. TypeOK /\ RequestOK(p) /\ OwnerOK(p) /\ MappedOnce
  BY DEF RequestsOK, OwnersOK
<1>1. /\ mapping'[r] = mapping[r] /\ mapping[r] \in Meetings
      /\ meeting[mapping[r]] # "none"
  BY <1>t, RoomsStay DEF TypeOK, OwnersOK
<1>2. request[p].place \in {"activating", "disabling"} =>
         /\ request[p].found = mapping[RoomOf(p)] /\ RoomOf(p) \in Rooms
         /\ request[p].found = mapping[r] => RoomOf(p) = r
  BY <1>t, <1>1 DEF RequestOK, RoomOf, MappedOnce
<1>3. request[p].place \in {"compensating", "discarding"} => request[p].own # mapping[r]
  BY <1>t, <1>1 DEF RequestOK, OwnerOK, RoomOf, Holding
<1>. QED
  BY <1>t, <1>1, <1>2, <1>3, MeetingMoves DEF TypeOK

\* What a creation relies on stays true.
LEMMA CreationsStay ==
    ASSUME TypeOK, RequestsOK, OwnersOK, ClosuresOK, OneCreation,
           \A q \in Requests : CreationOK(q),
           NEW p \in Requests, Moves(p), NEW q \in Requests
    PROVE  CreationOK(q)'
<1>t. TypeOK /\ RequestOK(p) /\ OwnerOK(p) /\ CreationOK(p) /\ RequestOK(q) /\ CreationOK(q)
  BY DEF RequestsOK, OwnersOK
<1>h. /\ disturbed \subseteq disturbed' /\ again \subseteq again'
      /\ hurried \subseteq hurried'
  BY HistoryGrows
<1>1. ASSUME q # p, request[q].kind = "create"
      PROVE  CreationOK(q)'
  <2>. DEFINE r == RoomOf(q)
  <2>1. request'[q] = request[q] /\ r \in Rooms /\ status[r] # "absent"
    BY <1>t, <1>1, OthersStay DEF RequestOK, RoomOf, Idle
  <2>2. ~(RoomOf(p) = r /\ request[p].kind = "create")
    BY <1>1 DEF OneCreation
  <2>3. status[r] = "closed" => status'[r] = "closed"
    BY <1>t, <2>1, <2>2, StatusMoves DEF TypeOK, RequestOK, CreateRow, RoomOf
  <2>4. ASSUME request[q].place = "opening", r \notin disturbed' \cup again' \cup hurried'
        PROVE  meeting'[mapping'[r]] = "ACTIVE"
    <3>1. mapping[r] # NoMeeting /\ meeting[mapping[r]] = "ACTIVE"
      BY <1>t, <1>h, <1>1, <2>4 DEF RequestOK, CreationOK, RoomOf
    <3>2. request[p].place = "disabling" => RoomOf(p) # r
      BY <1>t, <1>h, <1>1, <2>2, <2>4 DEF RequestOK, ClosuresOK, Shut, CreationsOf, UnderWay
    <3>. QED
      BY <1>h, <2>1, <2>4, <3>1, <3>2, RoomMeetingMoves
  <2>. QED
    BY <1>t, <1>h, <1>1, <2>1, <2>3, <2>4 DEF CreationOK, RoomOf
<1>2. ASSUME NEW r \in Rooms, CreateRow(p, r) PROVE CreationOK(p)'
  <2>1. /\ request'[p].room = r /\ request'[p].place = "finding"
        /\ status'[r] = "closed"
    <3>1. request'[p].room = r
      BY <1>t, <1>2, Beginnings
    <3>2. request'[p].place = "finding" /\ status'[r] = "closed"
      BY <1>t, <1>2 DEF TypeOK, CreateRow, Born
    <3>. QED
      BY <3>1, <3>2
  <2>. QED
    BY <2>1 DEF CreationOK, RoomOf, Ensuring
<1>3. ASSUME request[p].kind = "create", request'[p].kind = "create",
             request'[p].room = request[p].room
      PROVE  CreationOK(p)'
  <2>. DEFINE r == RoomOf(p)
  <2>t. /\ r \in Rooms /\ r = request[p].room /\ request[p].place # "idle"
        /\ request[p].place \in Ensuring \cup {"opening"} => status[r] = "closed"
        /\ r \in disturbed \/ request[p].place \in Ensuring \cup {"opening"}
    BY <1>t, <1>3 DEF RequestOK, Idle, RoomOf, CreationOK
  <2>1. CASE Open(p) \/ OpenFails(p)
    <3>1. OpenFails(p) /\ r \in disturbed' /\ request'[p].place = "locating"
      BY <1>t, <1>3, <2>t, <2>1 DEF TypeOK, Open, OpenFails, Goes, Answers, Idle, RoomOf
    <3>. QED
      BY <1>3, <3>1 DEF CreationOK, RoomOf, Ensuring, Holding
  <2>2. CASE Map(p)
    <3>1. /\ status' = status /\ request[p].place = "mapping"
          /\ request'[p].place \in {"settling", "opening"}
          /\ request'[p].place = "opening" =>
                mapping'[r] = request[p].own /\ meeting' = meeting
      BY <1>t, <1>3, <2>t, <2>2 DEF TypeOK, Map, Mapped, WhenProvisioned, Goes, RoomOf
    <3>2. meeting[request[p].own] = "ACTIVE"
      BY <1>t, <3>1 DEF OwnerOK, RequestOK, Holding
    <3>. QED
      BY <1>3, <2>t, <3>1, <3>2 DEF CreationOK, RoomOf, Ensuring, Holding
  <2>3. CASE Activate(p)
    <3>1. /\ status' = status /\ mapping' = mapping
          /\ request[p].place = "activating" /\ request'[p].place = "opening"
          /\ meeting' = [meeting EXCEPT ![request[p].found] = "ACTIVE"]
      BY <1>t, <1>3, <2>3 DEF TypeOK, Activate, Activated, WhenProvisioned, Goes
    <3>2. request[p].found = mapping[r] /\ mapping[r] \in Meetings
      BY <1>t, <2>t, <3>1 DEF TypeOK, RequestOK
    <3>. QED
      BY <1>t, <1>3, <2>t, <3>1, <3>2 DEF TypeOK, CreationOK, RoomOf, Ensuring
  <2>4. CASE Provisioning(p) /\ ~Map(p) /\ ~Activate(p)
    <3>1. /\ status' = status /\ request[p].place \in Ensuring
          /\ request'[p].place \in Ensuring
      BY <1>t, <1>3, <2>4 DEF TypeOK, Provisioning, Find, CreateMeeting,
         CreateMeetingFails, MapFails, Settle, AfterConflict, Compensate, CompensateFails,
         ActivateFails, Goes, Answers, Idle, Ensuring, Holding, history
    <3>. QED
      BY <1>3, <2>t, <3>1 DEF CreationOK, RoomOf, Ensuring, Holding
  <2>5. CASE Closing(p) \/ Dies(p)
    <3>1. /\ request[p].place = "locating" /\ request'[p].place = "disabling"
      BY <1>t, <1>3, <2>5 DEF TypeOK, RequestOK, Closing, Close, CloseFails, Evict, Locate,
         Disable, DisableFails, Dies, Goes, Answers, Idle
    <3>2. r \in disturbed'
      BY <1>h, <2>t, <3>1 DEF Ensuring, Holding
    <3>. QED
      BY <1>3, <3>1, <3>2 DEF CreationOK, RoomOf, Ensuring, Holding
  <2>. QED
    BY <2>t, <2>1, <2>2, <2>3, <2>4, <2>5 DEF Moves, CreateRow, ProvisionAgain, CloseBegins
<1>4. CASE q = p
  <2>. SUFFICES ASSUME request'[p].kind = "create" PROVE CreationOK(p)'
    BY <1>4 DEF CreationOK
  <2>. QED
    BY <1>2, <1>3, KindMoves, Beginnings DEF Idle
<1>5. CASE q # p /\ request[q].kind # "create"
  BY <1>5, OthersStay DEF CreationOK
<1>. QED
  BY <1>1, <1>4, <1>5

\* What is due in a room that is not at rest stays due until it is done.
LEMMA RoomsRest ==
    ASSUME IInv, NEW p \in Requests, Moves(p), NEW r \in Rooms
    PROVE  RoomOK(r)'
<1>t. /\ TypeOK /\ RequestsOK /\ OwnersOK /\ ClosuresOK /\ OpenRoomsHaveMeetings
      /\ RequestOK(p) /\ CreationOK(p) /\ RoomOK(r)
  BY DEF IInv, RequestsOK, RoomsOK
<1>h. /\ disturbed \subseteq disturbed' /\ again \subseteq again'
      /\ hurried \subseteq hurried'
  BY <1>t, HistoryGrows
<1>. SUFFICES ASSUME r \notin disturbed' \cup again' PROVE RoomOK(r)'
  BY DEF RoomOK
<1>a. r \notin disturbed /\ r \notin again
  BY <1>h
<1>p. RoomOf(p) = r => request[p].kind # "provision"
  BY <1>a, <1>t DEF RequestOK, RoomOf
<1>f. RoomOf(p) = r =>
         /\ ~OpenFails(p) /\ ~MapFails(p) /\ ~ActivateFails(p) /\ ~CloseFails(p)
         /\ ~DisableFails(p) /\ ~Dies(p)
  BY DEF OpenFails, MapFails, ActivateFails, CloseFails, DisableFails, Dies
<1>m. mapping[r] # NoMeeting =>
         /\ mapping'[r] = mapping[r] /\ mapping[r] \in Meetings
         /\ \/ meeting'[mapping[r]] = meeting[mapping[r]]
            \/ /\ request[p].place = "activating" /\ RoomOf(p) = r
               /\ meeting'[mapping[r]] = "ACTIVE"
            \/ /\ request[p].place = "disabling" /\ RoomOf(p) = r
               /\ meeting'[mapping[r]] = "INACTIVE"
  BY <1>t, <1>a, RoomMeetingMoves
<1>1. ASSUME status'[r] = "closed", mapping'[r] # NoMeeting,
             meeting'[mapping'[r]] = "ACTIVE"
      PROVE  \E q \in Requests : Due(q, r)'
  <2>1. ASSUME request[p].place = "activating", RoomOf(p) = r PROVE Due(p, r)'
    <3>1. Activate(p) /\ request[p].kind = "create"
      BY <1>t, <1>f, <1>p, <2>1 DEF RequestOK, Ensuring, Moves, CreateRow, ProvisionAgain,
         CloseBegins, Open, OpenFails, Provisioning, Find, CreateMeeting,
         CreateMeetingFails, Map, MapFails, Settle, Compensate, CompensateFails, Closing,
         Close, CloseFails, Evict, Locate, Disable, DisableFails
    <3>. QED
      BY <1>t, <2>1, <3>1 DEF TypeOK, Activate, WhenProvisioned, Goes, Due, RoomOf
  <2>2. CASE mapping[r] = NoMeeting
    <3>1. Map(p) /\ RoomOf(p) = r /\ request[p].kind = "create"
      BY <1>t, <1>f, <1>p, <1>1, <2>2, MappingMoves DEF TypeOK, RequestOK, Ensuring, Holding,
         Moves, CreateRow, ProvisionAgain, CloseBegins, Open, OpenFails, Provisioning,
         Find, CreateMeeting, CreateMeetingFails, Settle, Compensate, CompensateFails,
         Activate, ActivateFails, Closing, Close, CloseFails, Evict, Locate, Disable,
         DisableFails, Dies
    <3>2. Due(p, r)'
      BY <1>t, <2>2, <3>1 DEF TypeOK, Map, WhenProvisioned, Goes, Due, RoomOf
    <3>. QED
      BY <3>2
  <2>3. CASE /\ mapping[r] # NoMeeting /\ status[r] = "closed"
             /\ meeting[mapping[r]] = "ACTIVE"
    <3>1. PICK q \in Requests : Due(q, r)
      BY <1>t, <1>a, <2>3 DEF RoomOK
    <3>2. CASE q # p
      BY <3>1, <3>2, <1>t, OthersStay DEF Due, RoomOf
    <3>3. CASE q = p
      <4>0. RoomOf(p) = r /\ request[p].room = r
        BY <3>1, <3>3 DEF Due, RoomOf
      <4>1. CASE request[p].place = "activating"
        BY <2>1, <4>0, <4>1
      <4>2. CASE request[p].place = "opening"
        <5>1. Open(p)
          BY <1>f, <4>0, <4>2 DEF Moves, CreateRow, ProvisionAgain, CloseBegins, OpenFails,
             Provisioning, Find, CreateMeeting, CreateMeetingFails, Map, MapFails, Settle,
             Compensate, CompensateFails, Activate, ActivateFails, Closing, Close,
             CloseFails, Evict, Locate, Disable, DisableFails
        <5>. QED
          BY <1>t, <1>1, <2>3, <4>0, <5>1 DEF TypeOK, Open
      <4>3. CASE request[p].place = "evicting"
        <5>1. Evict(p)
          BY <1>f, <4>0, <4>3 DEF Moves, CreateRow, ProvisionAgain, CloseBegins, Open,
             OpenFails, Provisioning, Find, CreateMeeting, CreateMeetingFails, Map,
             MapFails, Settle, Compensate, CompensateFails, Activate, ActivateFails,
             Closing, Close, CloseFails, Locate, Disable, DisableFails
        <5>. QED
          BY <1>t, <3>1, <3>3, <4>0, <4>3, <5>1 DEF TypeOK, Evict, Due, RoomOf
      <4>4. CASE request[p].place = "locating"
        <5>1. Locate(p)
          BY <1>f, <4>0, <4>4 DEF Moves, CreateRow, ProvisionAgain, CloseBegins, Open,
             OpenFails, Provisioning, Find, CreateMeeting, CreateMeetingFails, Map,
             MapFails, Settle, Compensate, CompensateFails, Activate, ActivateFails,
             Closing, Close, CloseFails, Evict, Disable, DisableFails
        <5>. QED
          BY <1>t, <2>3, <3>1, <3>3, <4>0, <4>4, <5>1 DEF TypeOK, Locate, Due, RoomOf
      <4>5. CASE request[p].place = "disabling"
        <5>1. Disable(p)
          BY <1>f, <4>0, <4>5 DEF Moves, CreateRow, ProvisionAgain, CloseBegins, Open,
             OpenFails, Provisioning, Find, CreateMeeting, CreateMeetingFails, Map,
             MapFails, Settle, Compensate, CompensateFails, Activate, ActivateFails,
             Closing, Close, CloseFails, Evict, Locate, DisableFails
        <5>2. request[p].found = mapping[r]
          BY <1>t, <4>0, <4>5 DEF RequestOK
        <5>. QED
          BY <1>t, <1>m, <1>1, <2>3, <5>1, <5>2 DEF TypeOK, Disable, Disabled
      <4>. QED
        BY <3>1, <3>3, <4>1, <4>2, <4>3, <4>4, <4>5 DEF Due
    <3>. QED
      BY <3>2, <3>3
  <2>4. CASE mapping[r] # NoMeeting /\ status[r] # "closed"
    <3>1. Close(p) /\ RoomOf(p) = r /\ request[p].kind = "close"
      <4>1. status[r] # "absent"
        BY <1>t, <2>4 DEF OwnersOK
      <4>2. ~\E s \in Rooms : CreateRow(p, s)
        BY <1>t, <1>1, <2>4, <4>1 DEF TypeOK, CreateRow
      <4>3. request[p].place = "closing" /\ RoomOf(p) = r
        BY <1>t, <1>1, <2>4, <4>2, StatusMoves DEF TypeOK
      <4>4. Close(p)
        BY <1>f, <4>3 DEF Moves, CreateRow, ProvisionAgain, CloseBegins, Open, OpenFails,
           Provisioning, Find, CreateMeeting, CreateMeetingFails, Map, MapFails, Settle,
           Compensate, CompensateFails, Activate, ActivateFails, Closing, CloseFails,
           Evict, Locate, Disable, DisableFails
      <4>. QED
        BY <1>t, <4>3, <4>4 DEF RequestOK
    <3>2. Due(p, r)'
      BY <1>t, <3>1 DEF TypeOK, Close, Goes, Due, RoomOf
    <3>. QED
      BY <3>2
  <2>5. CASE mapping[r] # NoMeeting /\ meeting[mapping[r]] # "ACTIVE"
    BY <1>m, <1>1, <2>1, <2>5
  <2>. QED
    BY <2>2, <2>3, <2>4, <2>5
<1>2. ASSUME status'[r] = "open", r \notin hurried'
      PROVE  meeting'[mapping'[r]] = "ACTIVE"
  <2>1. CASE status[r] = "open"
    <3>1. mapping[r] # NoMeeting /\ meeting[mapping[r]] = "ACTIVE"
      BY <1>t, <1>a, <1>h, <1>2, <2>1 DEF OpenRoomsHaveMeetings, RoomOK
    <3>2. ~(request[p].place = "disabling" /\ RoomOf(p) = r)
      BY <1>t, <1>a, <1>h, <1>2, <2>1 DEF RequestOK, CreationOK, ClosuresOK, Shut, Ensuring,
         Holding
    <3>. QED
      BY <1>m, <3>1, <3>2
  <2>2. CASE status[r] # "open"
    <3>1. Open(p) /\ RoomOf(p) = r
      BY <1>t, <1>f, <1>2, <2>2, StatusMoves DEF TypeOK, CreateRow, Born, Moves,
         ProvisionAgain, CloseBegins, Provisioning, Find, CreateMeeting,
         CreateMeetingFails, Map, MapFails, Settle, Compensate, CompensateFails, Activate,
         ActivateFails, Closing, Close, CloseFails, Evict, Locate, Disable, DisableFails,
         Dies
    <3>2. /\ request[p].kind = "create" /\ request[p].place = "opening"
          /\ meeting' = meeting /\ mapping' = mapping
      BY <1>t, <3>1 DEF RequestOK, Open
    <3>. QED
      BY <1>t, <1>a, <1>h, <1>2, <3>1, <3>2 DEF CreationOK
  <2>. QED
    BY <2>1, <2>2
<1>. QED
  BY <1>1, <1>2 DEF RoomOK

-----------------------------------------------------------------------------
(* Theorems *)

LEMMA InitEstablishes == Init => IInv
BY DEF Init, IInv, TypeOK, OpenRoomsHaveMeetings, RequestsOK, RequestOK, OwnersOK, OwnerOK,
   MappedOnce, MeetingsHeld, MeetingHeld, ClosuresOK, RoomsOK, OneCreation, CreationOK,
   RoomOK, Idle, Places, Kinds, Ensuring, Holding

LEMMA NextPreserves == IInv /\ [Next]_vars => IInv'
<1>. SUFFICES ASSUME IInv, [Next]_vars PROVE IInv'
  OBVIOUS
<1>1. ASSUME NEW p \in Requests, Moves(p) PROVE IInv'
  <2>i. /\ TypeOK /\ OpenRoomsHaveMeetings /\ RequestsOK /\ OwnersOK /\ MeetingsHeld
        /\ ClosuresOK /\ OneCreation /\ \A q \in Requests : CreationOK(q)
    BY DEF IInv, RoomsOK
  <2>1. OpenRoomsHaveMeetings'
    <3>. SUFFICES ASSUME NEW r \in Rooms, status'[r] = "open" PROVE mapping'[r] # NoMeeting
      BY DEF OpenRoomsHaveMeetings
    <3>1. mapping[r] # NoMeeting
      BY <1>1, <2>i, StatusMoves DEF TypeOK, OpenRoomsHaveMeetings, RequestsOK, RequestOK,
         CreateRow, Born, RoomOf
    <3>. QED
      BY <1>1, <2>i, <3>1, RoomsStay
  <2>2. TypeOK' /\ RequestsOK' /\ OwnersOK' /\ MeetingsHeld' /\ ClosuresOK'
    BY <1>1, <2>i, TypesStay, RequestsStay, OwnersStay, HandsStay, ClosuresStay
  <2>3. RoomsOK'
    BY <1>1, <2>i, OneCreationStays, CreationsStay, RoomsRest DEF RoomsOK
  <2>. QED
    BY <2>1, <2>2, <2>3 DEF IInv
<1>2. CASE UNCHANGED vars
  BY <1>2 DEF vars, history, IInv, TypeOK, OpenRoomsHaveMeetings, RequestsOK, RequestOK,
     OwnersOK, OwnerOK, MappedOnce, MeetingsHeld, MeetingHeld, ClosuresOK, Shut,
     CreationsOf, UnderWay, RoomsOK, OneCreation, CreationOK, RoomOK, Due, RoomOf
<1>. QED
  BY <1>1, <1>2, StepsAreMoves

\* The invariant holds throughout.
LEMMA ProvisioningInvariant == Spec => []IInv
BY InitEstablishes, NextPreserves, PTL DEF Spec

\* Rows, meetings and requests keep their types.
THEOREM ProvisioningTypes == Spec => []TypeOK
<1>1. IInv => TypeOK
  BY DEF IInv
<1>. QED
  BY <1>1, ProvisioningInvariant, PTL

\* A room is open only with a meeting.
THEOREM OpenRoomsTheorem == Spec => []OpenRoomsHaveMeetings
<1>1. IInv => OpenRoomsHaveMeetings
  BY DEF IInv
<1>. QED
  BY <1>1, ProvisioningInvariant, PTL

\* No active meeting without a room is forgotten.
THEOREM NoMeetingForgottenTheorem == Spec => []NoMeetingIsForgotten
<1>1. IInv => NoMeetingIsForgotten
  BY DEF IInv, MeetingsHeld, MeetingHeld, NoMeetingIsForgotten
<1>. QED
  BY <1>1, ProvisioningInvariant, PTL

\* In a room at rest, row and meeting agree.
THEOREM RoomsAtRestTheorem == Spec => []RoomsAtRestAgree
<1>1. ASSUME IInv PROVE RoomsAtRestAgree
  <2>. SUFFICES ASSUME NEW r \in Rooms \ (disturbed \cup again), UnderWay(r) = {}
       PROVE  /\ status[r] = "closed" /\ mapping[r] # NoMeeting =>
                    meeting[mapping[r]] = "INACTIVE"
              /\ status[r] = "open" /\ r \notin hurried =>
                    meeting[mapping[r]] = "ACTIVE"
    BY DEF RoomsAtRestAgree
  <2>1. RoomOK(r) /\ \A p \in Requests : ~Due(p, r)
    BY <1>1 DEF IInv, RoomsOK, UnderWay, Due
  <2>2. mapping[r] # NoMeeting => mapping[r] \in Meetings /\ meeting[mapping[r]] # "none"
    BY <1>1 DEF IInv, TypeOK, OwnersOK
  <2>. QED
    BY <1>1, <2>1, <2>2 DEF IInv, TypeOK, RoomOK
<1>. QED
  BY <1>1, ProvisioningInvariant, PTL

\* A closure that reported success is final.
THEOREM ClosuresAreFinalTheorem == Spec => []ClosuresAreFinal
<1>1. IInv => ClosuresAreFinal
  BY DEF IInv, ClosuresOK, Shut, ClosuresAreFinal
<1>. QED
  BY <1>1, ProvisioningInvariant, PTL

=============================================================================
