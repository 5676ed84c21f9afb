--------------------------- MODULE RoomProvisioning ---------------------------
(***************************************************************************)
(* The life of a room: its row in the database, the meeting of the media   *)
(* provider, and the mapping between them (liveRoomLifecycle.ts and        *)
(* roomMediaProvisioning.ts, called by the routes that create a room and   *)
(* that close one, for its creator or for a moderator).                    *)
(*                                                                         *)
(* Every request is a process of its own; a step is one call to the        *)
(* database or to the provider.  Any call may fail, with or without having *)
(* taken effect, and a process may die between two.                        *)
(*                                                                         *)
(* ensureRealtimeKitMeetingProvisioned is written for several callers per  *)
(* room.  Creation is the only one there is, and each creation makes a room*)
(* of its own; the module lets others repeat the provisioning of a room.   *)
(***************************************************************************)
EXTENDS Naturals

CONSTANTS
    Requests,      \* the processes
    Rooms,         \* the ids of rooms
    Meetings,      \* the ids of meetings
    NoRoom,
    NoMeeting

ASSUME ProvisioningAssumption ==
    /\ NoRoom \notin Rooms
    /\ NoMeeting \notin Meetings

VARIABLES
    status,        \* the rows of rooms
    mapping,       \* the rows of room_media_provider_mappings: one per room
    meeting,       \* the provider's meetings
    request,       \* where each request is, and what it holds
    surrendered,   \* history: meetings nobody will disable, which was reported
                   \* or is due to a process that died
    disturbed,     \* history: rooms of which a request failed or died
    again,         \* history: rooms that were provisioned again
    hurried,       \* history: rooms that were closed while being created
    ended          \* history: rooms of which a closure has reported success

history == <<surrendered, disturbed, again, hurried, ended>>
vars == <<status, mapping, meeting, request, history>>

-----------------------------------------------------------------------------
(* Requests *)

Kinds == {"none", "create", "provision", "close"}

Places == {"idle",
           "finding", "creating", "mapping", "compensating",    \* ensure
           "settling", "discarding", "activating",
           "opening",                                           \* create
           "closing", "evicting",                               \* close
           "locating", "disabling"}                             \* deactivate

\* own is the meeting the request created, found the one it read; clean says of
\* a closure that the media sessions were revoked.
Idle == [place |-> "idle", kind |-> "none", room |-> NoRoom,
         own |-> NoMeeting, found |-> NoMeeting, clean |-> TRUE]

RoomOf(p) == request[p].room

Goes(p, place) == request' = [request EXCEPT ![p].place = place]

Answers(p) == request' = [request EXCEPT ![p] = Idle]

UnderWay(r) == {p \in Requests : RoomOf(p) = r}

CreationsOf(r) == {p \in UnderWay(r) : request[p].kind = "create"}

Init ==
    /\ status = [r \in Rooms |-> "absent"]
    /\ mapping = [r \in Rooms |-> NoMeeting]
    /\ meeting = [m \in Meetings |-> "none"]
    /\ request = [p \in Requests |-> Idle]
    /\ surrendered = {}
    /\ disturbed = {}
    /\ again = {}
    /\ hurried = {}
    /\ ended = {}

-----------------------------------------------------------------------------
(* createBackendOwnedLiveRoom *)

\* The defect of opening the room with its row.
BornOpen == "open"

\* The status a room is inserted with.
Born == "closed"

CreateRow(p, r) ==
    /\ request[p].place = "idle"
    /\ status[r] = "absent"
    /\ status' = [status EXCEPT ![r] = Born]
    /\ request' = [request EXCEPT ![p] = [Idle EXCEPT !.place = "finding",
                                                      !.kind = "create", !.room = r]]
    /\ UNCHANGED <<mapping, meeting, history>>

\* markRoomOpen: guarded by the status the room was created with.
Open(p) ==
    LET r == RoomOf(p)
    IN  /\ request[p].place = "opening"
        /\ IF status[r] = "closed"
           THEN status' = [status EXCEPT ![r] = "open"] /\ Answers(p)
           ELSE UNCHANGED status /\ Goes(p, "locating")
        /\ UNCHANGED <<mapping, meeting, history>>

\* The call fails: the meeting is disabled again.
OpenFails(p) ==
    LET r == RoomOf(p)
    IN  /\ request[p].place = "opening"
        /\ status' \in {status, [status EXCEPT ![r] = "open"]}
        /\ Goes(p, "locating")
        /\ disturbed' = disturbed \cup {r}
        /\ UNCHANGED <<mapping, meeting, surrendered, again, hurried, ended>>

-----------------------------------------------------------------------------
(* ensureRealtimeKitMeetingProvisioned *)

ProvisionAgain(p, r) ==
    /\ request[p].place = "idle"
    /\ status[r] # "absent"
    /\ request' = [request EXCEPT ![p] = [Idle EXCEPT !.place = "finding",
                                                      !.kind = "provision", !.room = r]]
    /\ again' = again \cup {r}
    /\ UNCHANGED <<status, mapping, meeting, surrendered, disturbed, hurried, ended>>

\* findMeetingId, at first and after a conflict.
Find(p) ==
    LET m == mapping[RoomOf(p)]
    IN  /\ request[p].place = "finding"
        /\ request' = [request EXCEPT ![p].place = IF m = NoMeeting THEN "creating"
                                                   ELSE "activating",
                                      ![p].found = m]
        /\ UNCHANGED <<status, mapping, meeting, history>>

\* createMeeting: the provider makes a new meeting, active from the start; an id
\* too long to be mapped is compensated.
CreateMeeting(p) ==
    /\ request[p].place = "creating"
    /\ \E m \in Meetings :
          /\ meeting[m] = "none"
          /\ meeting' = [meeting EXCEPT ![m] = "ACTIVE"]
          /\ \E next \in {"mapping", "compensating"} :
                request' = [request EXCEPT ![p].place = next, ![p].own = m]
    /\ UNCHANGED <<status, mapping, history>>

\* The answer with the id of the new meeting is lost.
CreateMeetingFails(p) ==
    /\ request[p].place = "creating"
    /\ \/ UNCHANGED <<meeting, surrendered>>
       \/ \E m \in Meetings :
             /\ meeting[m] = "none"
             /\ meeting' = [meeting EXCEPT ![m] = "ACTIVE"]
             /\ surrendered' = surrendered \cup {m}
    /\ disturbed' = disturbed \cup {RoomOf(p)}
    /\ Answers(p)
    /\ UNCHANGED <<status, mapping, again, hurried, ended>>

\* The rows after an insert, which the key of an existing one rejects.
Mapped(r, m) ==
    IF mapping[r] = NoMeeting THEN [mapping EXCEPT ![r] = m] ELSE mapping

\* What a request does when its meeting is mapped.
WhenProvisioned(p) == IF request[p].kind = "create" THEN "opening" ELSE "idle"

\* tryCreateMapping
Map(p) ==
    LET r == RoomOf(p)
    IN  /\ request[p].place = "mapping"
        /\ mapping' = Mapped(r, request[p].own)
        /\ IF mapping[r] # NoMeeting THEN Goes(p, "settling")
           ELSE IF WhenProvisioned(p) = "idle" THEN Answers(p)
           ELSE Goes(p, WhenProvisioned(p))
        /\ UNCHANGED <<status, meeting, history>>

\* The insert fails: the meeting is disabled, mapped or not.
MapFails(p) ==
    LET r == RoomOf(p)
    IN  /\ request[p].place = "mapping"
        /\ mapping' \in {mapping, Mapped(r, request[p].own)}
        /\ Goes(p, "compensating")
        /\ disturbed' = disturbed \cup {r}
        /\ UNCHANGED <<status, meeting, surrendered, again, hurried, ended>>

\* The defect of keeping the meeting that lost.
KeepsLoser(p, winner) == "activating"

\* After a conflict: the loser's meeting is disabled before the winner's is
\* activated.
AfterConflict(p, winner) ==
    IF winner = request[p].own THEN "activating" ELSE "discarding"

\* The mapping that won is read; a conflict without one is reported.
Settle(p) ==
    LET m == mapping[RoomOf(p)]
    IN  /\ request[p].place = "settling"
        /\ IF m = NoMeeting
           THEN Answers(p) /\ surrendered' = surrendered \cup {request[p].own}
           ELSE /\ request' = [request EXCEPT ![p].place = AfterConflict(p, m),
                                              ![p].found = m]
                /\ UNCHANGED surrendered
        /\ UNCHANGED <<status, mapping, meeting, disturbed, again, hurried, ended>>

\* The provider's meetings after compensateCreatedMeeting.
Compensated(p) == [meeting EXCEPT ![request[p].own] = "INACTIVE"]

\* The meeting could not be mapped, or lost.
Compensate(p) ==
    /\ request[p].place \in {"compensating", "discarding"}
    /\ meeting' = Compensated(p)
    /\ IF request[p].place = "discarding" THEN Goes(p, "activating") ELSE Answers(p)
    /\ UNCHANGED <<status, mapping, history>>

\* "manual cleanup required"
CompensateFails(p) ==
    /\ request[p].place \in {"compensating", "discarding"}
    /\ meeting' \in {meeting, Compensated(p)}
    /\ surrendered' = surrendered \cup {request[p].own}
    /\ disturbed' = disturbed \cup {RoomOf(p)}
    /\ Answers(p)
    /\ UNCHANGED <<status, mapping, again, hurried, ended>>

Activated(p) == [meeting EXCEPT ![request[p].found] = "ACTIVE"]

\* The meeting found mapped is activated.
Activate(p) ==
    /\ request[p].place = "activating"
    /\ meeting' = Activated(p)
    /\ IF WhenProvisioned(p) = "idle" THEN Answers(p) ELSE Goes(p, WhenProvisioned(p))
    /\ UNCHANGED <<status, mapping, history>>

ActivateFails(p) ==
    /\ request[p].place = "activating"
    /\ meeting' \in {meeting, Activated(p)}
    /\ disturbed' = disturbed \cup {RoomOf(p)}
    /\ Answers(p)
    /\ UNCHANGED <<status, mapping, surrendered, again, hurried, ended>>

-----------------------------------------------------------------------------
(* closeBackendOwnedLiveRoom and moderationCloseBackendOwnedLiveRoom *)

CloseBegins(p, r) ==
    /\ request[p].place = "idle"
    /\ status[r] # "absent"
    /\ request' = [request EXCEPT ![p] = [Idle EXCEPT !.place = "closing",
                                                      !.kind = "close", !.room = r]]
    /\ UNCHANGED <<status, mapping, meeting, history>>

\* The defect of cleaning up first.
ClosedLater(r) == status

\* The rows after markRoomClosed or moderation_close_live_room.
Closed(r) == [status EXCEPT ![r] = "closed"]

Close(p) ==
    LET r == RoomOf(p)
    IN  /\ request[p].place = "closing"
        /\ status' = Closed(r)
        /\ Goes(p, "evicting")
        /\ hurried' = IF CreationsOf(r) = {} THEN hurried ELSE hurried \cup {r}
        /\ UNCHANGED <<mapping, meeting, surrendered, disturbed, again, ended>>

CloseFails(p) ==
    /\ request[p].place = "closing"
    /\ status' \in {status, Closed(RoomOf(p))}
    /\ disturbed' = disturbed \cup {RoomOf(p)}
    /\ Answers(p)
    /\ UNCHANGED <<mapping, meeting, surrendered, again, hurried, ended>>

\* revokeTrackedMediaSessionsForRoom, which may fail: the meeting is disabled
\* all the same.
Evict(p) ==
    /\ request[p].place = "evicting"
    /\ \E b \in BOOLEAN :
          request' = [request EXCEPT ![p].place = "locating", ![p].clean = b]
    /\ UNCHANGED <<status, mapping, meeting, history>>

-----------------------------------------------------------------------------
(* deactivateRealtimeKitMeetingForRoom, for a closure or a failed creation *)

\* The success a closure reports when its media are cleaned up.
Reports(p) ==
    ended' = IF request[p].kind = "close" /\ request[p].clean
             THEN ended \cup {RoomOf(p)} ELSE ended

\* A room without a meeting has nothing to disable.
Locate(p) ==
    LET m == mapping[RoomOf(p)]
    IN  /\ request[p].place = "locating"
        /\ IF m = NoMeeting
           THEN Answers(p) /\ Reports(p)
           ELSE /\ request' = [request EXCEPT ![p].place = "disabling", ![p].found = m]
                /\ UNCHANGED ended
        /\ UNCHANGED <<status, mapping, meeting, surrendered, disturbed, again, hurried>>

\* The defect of switching the wrong way.
LeftRunning(p) == Activated(p)

\* The provider's meetings after the deactivation.
Disabled(p) == [meeting EXCEPT ![request[p].found] = "INACTIVE"]

Disable(p) ==
    /\ request[p].place = "disabling"
    /\ meeting' = Disabled(p)
    /\ Answers(p)
    /\ Reports(p)
    /\ UNCHANGED <<status, mapping, surrendered, disturbed, again, hurried>>

DisableFails(p) ==
    /\ request[p].place = "disabling"
    /\ meeting' \in {meeting, Disabled(p)}
    /\ disturbed' = disturbed \cup {RoomOf(p)}
    /\ Answers(p)
    /\ UNCHANGED <<status, mapping, surrendered, again, hurried, ended>>

-----------------------------------------------------------------------------

\* A read fails, or the process dies; with it the meeting it alone knew.
Dies(p) ==
    /\ request[p].place # "idle"
    /\ disturbed' = disturbed \cup {RoomOf(p)}
    /\ surrendered' = IF request[p].own = NoMeeting THEN surrendered
                      ELSE surrendered \cup {request[p].own}
    /\ Answers(p)
    /\ UNCHANGED <<status, mapping, meeting, again, hurried, ended>>

Provisioning(p) ==
    \/ Find(p) \/ CreateMeeting(p) \/ CreateMeetingFails(p) \/ Map(p) \/ MapFails(p)
    \/ Settle(p) \/ Compensate(p) \/ CompensateFails(p)
    \/ Activate(p) \/ ActivateFails(p)

Closing(p) ==
    \/ Close(p) \/ CloseFails(p) \/ Evict(p)
    \/ Locate(p) \/ Disable(p) \/ DisableFails(p)

Next ==
    \E p \in Requests :
       \/ \E r \in Rooms : CreateRow(p, r) \/ ProvisionAgain(p, r) \/ CloseBegins(p, r)
       \/ Open(p) \/ OpenFails(p)
       \/ Provisioning(p)
       \/ Closing(p)
       \/ Dies(p)

Spec == Init /\ [][Next]_vars

-----------------------------------------------------------------------------
(* Properties *)

TypeOK ==
    /\ status \in [Rooms -> {"absent", "closed", "open"}]
    /\ mapping \in [Rooms -> Meetings \cup {NoMeeting}]
    /\ meeting \in [Meetings -> {"none", "ACTIVE", "INACTIVE"}]
    /\ request \in [Requests -> [place : Places, kind : Kinds,
                                 room : Rooms \cup {NoRoom},
                                 own : Meetings \cup {NoMeeting},
                                 found : Meetings \cup {NoMeeting},
                                 clean : BOOLEAN]]
    /\ surrendered \subseteq Meetings
    /\ disturbed \subseteq Rooms
    /\ again \subseteq Rooms
    /\ hurried \subseteq Rooms
    /\ ended \subseteq Rooms

\* A room that is open has a meeting, whatever fails before it opens and
\* whoever else provisions or closes it ("creates the room closed, provisions
\* media, then opens it").
OpenRoomsHaveMeetings ==
    \A r \in Rooms : status[r] = "open" => mapping[r] # NoMeeting

\* "Converges a Ponder room onto exactly one backend-owned RealtimeKit meeting",
\* and "compensation failures are never hidden" (roomMediaProvisioning.ts): an
\* active meeting that no room is mapped to is in the hands of a request that
\* is still to disable or map it, or was given up with an error.
NoMeetingIsForgotten ==
    \A m \in Meetings :
        meeting[m] = "ACTIVE" /\ (\A r \in Rooms : mapping[r] # m) =>
            m \in surrendered \/ \E p \in Requests : request[p].own = m

\* A room at rest, of which no request failed, is closed with its meeting
\* disabled or open with its meeting active, however closures overlapped each
\* other and the creation (the compensations of liveRoomLifecycle.ts); only a
\* room that was closed while being created may be open with its meeting
\* disabled.
RoomsAtRestAgree ==
    \A r \in Rooms \ (disturbed \cup again) :
        UnderWay(r) = {} =>
           /\ status[r] = "closed" /\ mapping[r] # NoMeeting =>
                 meeting[mapping[r]] = "INACTIVE"
           /\ status[r] = "open" /\ r \notin hurried =>
                 meeting[mapping[r]] = "ACTIVE"

\* A closure that reported success is final, whatever fails later: the room
\* stays closed and its meeting disabled, if it was not closed while being
\* created nor provisioned again ("keeps the audited close authoritative").
ClosuresAreFinal ==
    \A r \in ended \ hurried :
        /\ status[r] = "closed"
        /\ r \notin again /\ mapping[r] # NoMeeting => meeting[mapping[r]] = "INACTIVE"

=============================================================================
