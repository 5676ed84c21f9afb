------------------------------ MODULE RoomAccess ------------------------------
(***************************************************************************)
(* Who may be in the room: the membership rows of the database             *)
(* (roomMembership.ts), the tickets of the realtime-token route, and the   *)
(* requests that take access away (the leave, eject and demote routes),    *)
(* composed with the Durable Object of the room, which the routes reach by *)
(* roomBrainServerClient.ts.                                               *)
(*                                                                         *)
(* Requests run in processes of their own; a step is one call to the       *)
(* database, the object or the media revocation.  Any such call may fail,  *)
(* with or without having taken effect, and a process may die between two. *)
(* The room stays open and its creator is Host.  Storage failures and      *)
(* restarts of the object are explored in RoomBrainWorker itself.          *)
(***************************************************************************)
EXTENDS RoomBrainWorker

CONSTANTS
    Entries,       \* requests for a ticket
    Departures,    \* requests to leave
    Removals,      \* requests of the host to eject or to demote
    SentTypes      \* bound: the types of commands the pages send (not all, and
                   \* never "join" or "leave", which no page sends)

VARIABLES
    member,        \* the membership row of each viewer
    ticket,        \* the live ticket for each connectionId: its user
    entry,         \* ticket requests
    departure,     \* leave requests
    removal,       \* ejections and demotions
    outcome        \* history: the strongest answer to an ejection of each viewer

requests == <<entry, departure, removal>>
accessVars == <<workerVars, member, ticket, requests, outcome>>

-----------------------------------------------------------------------------
(* Membership rows *)

Viewers == Users \ {Host}

\* No row; active; active with left_at; ejected (which implies left_at).
Standings == {"missing", "active", "left", "ejected"}

\* The defect of an upsert, which overwrites the row that won the race.
Upserted(u) == "active"

\* The row after an insert, which an existing row makes fail.
Inserted(u) == IF member[u] = "missing" THEN "active" ELSE member[u]

\* The row after the update that clears left_at, guarded by entry_state.
Reactivated(u) == IF member[u] = "left" THEN "active" ELSE member[u]

\* The defect of leaving by deleting the row.
Deleted(u) == "missing"

\* The row after the update that sets left_at, guarded by entry_state.
Left(u) == IF member[u] = "active" THEN "left" ELSE member[u]

-----------------------------------------------------------------------------
(* Requests *)

NoEntry == [place |-> "idle", user |-> NoUser]

\* Where a ticket request waits for the database or is about to sign.
EntryCalls == {"reading", "inserting", "rereading", "reactivating", "confirming"}

\* The request goes on, or is answered (403 or 503 without a ticket).
EntryAt(r, place) ==
    entry' = [entry EXCEPT ![r] = IF place = "idle" THEN NoEntry
                                  ELSE [@ EXCEPT !.place = place]]

NoDeparture == [place |-> "idle", user |-> NoUser]

NoRemoval == [place |-> "idle", kind |-> "none", target |-> NoUser,
              expected |-> 0, attempt |-> 1]

RemovalCommand(r) ==
    [type |-> removal[r].kind, actor |-> Host, target |-> removal[r].target]

\* A ticket, or a request for one, through which u could still enter.
MayStillEnter(u) ==
    \/ \E id \in Ids : ticket[id] = u
    \/ \E r \in Entries : entry[r].user = u

\* The object has confirmed an ejection, of which nothing can be undone if
\* nobody could still enter at that moment (final).
Stronger(before) == IF before = "final" THEN "final" ELSE "confirmed"

AccessInit ==
    /\ Init
    /\ member = [u \in Viewers |-> "missing"]
    /\ ticket = [id \in Ids |-> NoUser]
    /\ entry = [r \in Entries |-> NoEntry]
    /\ departure = [r \in Departures |-> NoDeparture]
    /\ removal = [r \in Removals |-> NoRemoval]
    /\ outcome = [u \in Viewers |-> "none"]

-----------------------------------------------------------------------------
(* POST realtime-token: ensureActiveMembership, then a signed ticket *)

\* A fresh connectionId: the route draws a random UUID for every ticket. (One of
\* an expired ticket that opened no socket stands for a fresh one again.)
Unissued(id) ==
    /\ ticket[id] = NoUser
    /\ \A c \in Conns : IdOf[c] = id => socket[c].status = "unused"

\* The creator's ticket needs no membership.
HostTicket(id) ==
    /\ Unissued(id)
    /\ ticket' = [ticket EXCEPT ![id] = Host]
    /\ UNCHANGED <<workerVars, member, requests, outcome>>

EnterBegins(r, u) ==
    /\ entry[r].place = "idle"
    /\ entry' = [entry EXCEPT ![r] = [place |-> "reading", user |-> u]]
    /\ UNCHANGED <<workerVars, member, ticket, departure, removal, outcome>>

\* What a read of the row makes the request do next.
AfterRead(standing) ==
    CASE standing = "missing" -> "inserting"
      [] standing = "active"  -> "admitted"
      [] standing = "left"    -> "reactivating"
      [] standing = "ejected" -> "idle"

\* The row that won the insert, read again: one that vanished is an error.
AfterReread(standing) ==
    IF standing = "missing" THEN "idle" ELSE AfterRead(standing)

\* The defect of a request that goes on to the update without looking.
AfterBlindUpdate(before) == "admitted"

\* An update that matched nothing is followed by a last read.
AfterUpdate(before) ==
    IF before \in {"active", "left"} THEN "admitted" ELSE "confirming"

\* Only an active row is accepted after that.
AfterConfirm(standing) == IF standing = "active" THEN "admitted" ELSE "idle"

EnterReads(r) ==
    LET standing == member[entry[r].user]
    IN  /\ \/ entry[r].place = "reading" /\ EntryAt(r, AfterRead(standing))
           \/ entry[r].place = "rereading" /\ EntryAt(r, AfterReread(standing))
           \/ entry[r].place = "confirming" /\ EntryAt(r, AfterConfirm(standing))
        /\ UNCHANGED <<workerVars, member, ticket, departure, removal, outcome>>

EnterInserts(r) ==
    LET u == entry[r].user
    IN  /\ entry[r].place = "inserting"
        /\ member' = [member EXCEPT ![u] = Inserted(u)]
        /\ EntryAt(r, IF member[u] = "missing" THEN "admitted" ELSE "rereading")
        /\ UNCHANGED <<workerVars, ticket, departure, removal, outcome>>

EnterReactivates(r) ==
    LET u == entry[r].user
    IN  /\ entry[r].place = "reactivating"
        /\ member' = [member EXCEPT ![u] = Reactivated(u)]
        /\ EntryAt(r, AfterUpdate(member[u]))
        /\ UNCHANGED <<workerVars, ticket, departure, removal, outcome>>

\* A call fails; an insert or an update may have taken effect.
EnterFails(r) ==
    LET u == entry[r].user
    IN  /\ entry[r].place \in EntryCalls
        /\ \/ UNCHANGED member
           \/ /\ entry[r].place = "inserting"
              /\ member' = [member EXCEPT ![u] = Inserted(u)]
           \/ /\ entry[r].place = "reactivating"
              /\ member' = [member EXCEPT ![u] = Reactivated(u)]
        /\ EntryAt(r, "idle")
        /\ UNCHANGED <<workerVars, ticket, departure, removal, outcome>>

\* The membership was active when it was last looked at: a ticket is signed.
EnterIssues(r, id) ==
    /\ entry[r].place = "admitted"
    /\ Unissued(id)
    /\ ticket' = [ticket EXCEPT ![id] = entry[r].user]
    /\ EntryAt(r, "idle")
    /\ UNCHANGED <<workerVars, member, departure, removal, outcome>>

\* A ticket lives for a minute.
TicketExpires(id) ==
    /\ ticket[id] # NoUser
    /\ ticket' = [ticket EXCEPT ![id] = NoUser]
    /\ UNCHANGED <<workerVars, member, requests, outcome>>

\* The upgrade asks for nothing but a live ticket, which it does not use up.
Arrives(c) ==
    /\ ticket[IdOf[c]] # NoUser
    /\ Connect(c, ticket[IdOf[c]])
    /\ UNCHANGED <<member, ticket, requests, outcome>>

-----------------------------------------------------------------------------
(* POST leave: markMembershipLeft, then the media sessions *)

LeaveBegins(r, u) ==
    /\ departure[r].place = "idle"
    /\ departure' = [departure EXCEPT ![r] = [place |-> "reading", user |-> u]]
    /\ UNCHANGED <<workerVars, member, ticket, entry, removal, outcome>>

\* The request goes on, or is answered.
DepartureAt(r, place) ==
    departure' = [departure EXCEPT ![r] = IF place = "idle" THEN NoDeparture
                                          ELSE [@ EXCEPT !.place = place]]

LeaveReads(r) ==
    /\ departure[r].place = "reading"
    /\ DepartureAt(r, IF member[departure[r].user] = "active"
                      THEN "marking" ELSE "idle")
    /\ UNCHANGED <<workerVars, member, ticket, entry, removal, outcome>>

\* The guarded update.  The read after one that matched nothing and the
\* revocation of the media sessions decide the answer only.
LeaveMarks(r) ==
    /\ departure[r].place = "marking"
    /\ member' = [member EXCEPT ![departure[r].user] = Left(departure[r].user)]
    /\ DepartureAt(r, "idle")
    /\ UNCHANGED <<workerVars, ticket, entry, removal, outcome>>

\* A call failed or the process died.
LeaveEnds(r) ==
    /\ departure[r].place # "idle"
    /\ DepartureAt(r, "idle")
    /\ UNCHANGED <<workerVars, member, ticket, entry, removal, outcome>>

-----------------------------------------------------------------------------
(* POST eject and POST demote *)

\* The sequence is the one the host's page shows; the room goes on changing.
RemovalBegins(r, kind, u) ==
    /\ removal[r].place = "idle"
    /\ removal' = [removal EXCEPT ![r] =
                     [NoRemoval EXCEPT !.place = "checking", !.kind = kind,
                                       !.target = u, !.expected = room.sequence]]
    /\ UNCHANGED <<workerVars, member, ticket, entry, departure, outcome>>

\* The defect of an ejection that only the room hears of.
EjectedFromRoomOnly(r) == member

\* The row after host_eject_room_member.
EjectedNow(r) == [member EXCEPT ![removal[r].target] = "ejected"]

\* Request r goes on at place, or is answered.
RemovalAt(r, place) ==
    removal' = [removal EXCEPT ![r] =
                  IF place = "idle" THEN NoRemoval ELSE [@ EXCEPT !.place = place]]

\* host_eject_room_member: idempotent with an ejected row; its answer may be
\* lost.  (Without a row it is an exception: RemovalEnds.)
EjectionPersisted(r) ==
    /\ removal[r].place = "checking"
    /\ removal[r].kind = "eject_participant"
    /\ member[removal[r].target] # "missing"
    /\ member' = EjectedNow(r)
    /\ RemovalAt(r, "asking") \/ RemovalAt(r, "idle")
    /\ UNCHANGED <<workerVars, ticket, entry, departure, outcome>>

\* Only an active member is demoted.
DemotionChecked(r) ==
    /\ removal[r].place = "checking"
    /\ removal[r].kind = "demote_speaker"
    /\ member[removal[r].target] = "active"
    /\ RemovalAt(r, "asking")
    /\ UNCHANGED <<workerVars, member, ticket, entry, departure, outcome>>

\* The object applies the command under a new key.
Asks(r) ==
    \E id \in CommandIds :
       /\ ~Remembered(recent, id)
       /\ Moderate(EnvelopeOf(id, removal[r].expected, RemovalCommand(r)))

\* The first attempt of an ejection that met another sequence is repeated
\* with the sequence of the snapshot in the answer.
Repeats(r, answer) ==
    /\ answer = "sequence_mismatch"
    /\ removal[r].kind = "eject_participant"
    /\ removal[r].attempt = 1

\* An ejection revokes the media sessions whatever the object said, a demotion
\* only after its success.
AfterAnswer(r, answer) ==
    IF removal[r].kind = "eject_participant" \/ answer = "demoted"
    THEN "revoking" ELSE "idle"

RemovalAnswered(r) ==
    LET u == removal[r].target
    IN  /\ removal[r].place = "asking"
        /\ Asks(r)
        /\ IF Repeats(r, reply'.status)
           THEN removal' = [removal EXCEPT ![r].attempt = @ + 1,
                                           ![r].expected = room.sequence]
           ELSE RemovalAt(r, AfterAnswer(r, reply'.status))
        /\ outcome' = IF reply'.status # "ejected" THEN outcome
                      ELSE [outcome EXCEPT ![u] = IF MayStillEnter(u)
                                                  THEN Stronger(@) ELSE "final"]
        /\ UNCHANGED <<member, ticket, entry, departure>>

\* The call fails, or its answer is lost.
RemovalUnanswered(r) ==
    /\ removal[r].place = "asking"
    /\ Asks(r) \/ UNCHANGED workerVars
    /\ RemovalAt(r, AfterAnswer(r, "lost"))
    /\ UNCHANGED <<member, ticket, entry, departure, outcome>>

\* The row forbids the request or a call failed; the media sessions were
\* revoked or their reconciliation is pending; the process died.
RemovalEnds(r) ==
    /\ removal[r].place # "idle"
    /\ RemovalAt(r, "idle")
    /\ UNCHANGED <<workerVars, member, ticket, entry, departure, outcome>>

-----------------------------------------------------------------------------
(* The object on its own *)

Speaks(c) ==
    /\ \E cmd \in ClientCommandsOf[socket[c].user], id \in CommandIds :
          /\ cmd.type \in SentTypes
          /\ ~Remembered(recent, id)
          /\ Message(c, EnvelopeOf(id, room.sequence, cmd))
    /\ UNCHANGED <<member, ticket, requests, outcome>>

Disconnects(c) ==
    /\ Close(c)
    /\ UNCHANGED <<member, ticket, requests, outcome>>

AccessNext ==
    \/ \E id \in Ids : HostTicket(id) \/ TicketExpires(id)
    \/ \E c \in Conns : Arrives(c)
    \/ \E r \in Entries : \/ \E u \in Viewers : EnterBegins(r, u)
                          \/ EnterReads(r) \/ EnterInserts(r)
                          \/ EnterReactivates(r) \/ EnterFails(r)
                          \/ \E id \in Ids : EnterIssues(r, id)
    \/ \E r \in Departures : \/ \E u \in Viewers : LeaveBegins(r, u)
                             \/ LeaveReads(r) \/ LeaveMarks(r) \/ LeaveEnds(r)
    \/ \E r \in Removals : \/ \E kind \in {"eject_participant", "demote_speaker"},
                                 u \in Viewers : RemovalBegins(r, kind, u)
                           \/ EjectionPersisted(r) \/ DemotionChecked(r)
                           \/ RemovalAnswered(r) \/ RemovalUnanswered(r)
                           \/ RemovalEnds(r)
    \/ \E c \in OpenConns : Speaks(c)
    \/ \E c \in Conns : Disconnects(c)

AccessSpec == AccessInit /\ [][AccessNext]_accessVars

-----------------------------------------------------------------------------
(* Properties *)

AccessTypeOK ==
    /\ member \in [Viewers -> Standings]
    /\ ticket \in [Ids -> Users \cup {NoUser}]
    /\ entry \in [Entries ->
         [place : EntryCalls \cup {"idle", "admitted"},
          user  : Viewers \cup {NoUser}]]
    /\ departure \in [Departures ->
         [place : {"idle", "reading", "marking"},
          user  : Viewers \cup {NoUser}]]
    /\ removal \in [Removals ->
         [place    : {"idle", "checking", "asking", "revoking"},
          kind     : {"none", "eject_participant", "demote_speaker"},
          target   : Viewers \cup {NoUser},
          expected : Nat,
          attempt  : {1, 2}]]
    /\ outcome \in [Viewers -> {"none", "confirmed", "final"}]

\* "An ejected row cannot be reactivated by browser policy, a new Room Brain
\* ticket, or a new provider media exchange" (docs/DOMAIN_MODEL.md): whatever
\* first joins, returns, departures and ejections cross between the reads and
\* the writes of roomMembership.ts.
EjectedRowsStay ==
    [][\A u \in Viewers : member[u] = "ejected" => member'[u] = "ejected"]_accessVars

\* Whoever is admitted is an active member at that moment: the row that a
\* request read, inserted or updated was not ejected or left in between without
\* the request noticing, through every race of ensureActiveMembership.
AdmissionIsCurrent ==
    [][\A r \in Entries :
          entry[r].place # "admitted" /\ entry'[r].place = "admitted" =>
             member'[entry[r].user] = "active"
      ]_accessVars

\* Everyone in the room, connected to it or about to be has a membership row:
\* an ejection never finds someone to remove whom it cannot persist.
EveryoneIsEjectable ==
    \A u \in Viewers :
       \/ u \in Participants(room)
       \/ OpenConnsOf(u) # {}
       \/ \E id \in Ids : ticket[id] = u
       => member[u] # "missing"

\* "A retry of this endpoint converges idempotently" (the eject route): once the
\* object has confirmed an ejection and no ticket or request from before it is
\* left, used or not, the user is out for good, however often the calls failed
\* before and whatever sockets one ticket opened.
ShutOutForGood ==
    \A u \in Viewers : outcome[u] = "final" =>
        u \notin Participants(room) /\ OpenConnsOf(u) = {}

\* "Ejection is persisted here first so reconnecting cannot bypass removal"
\* (docs/PRODUCT_ARCHITECTURE_V1.md): whoever the object has confirmed to be
\* ejected is not in the room again.
ConfirmedEjectionRemoves ==
    \A u \in Viewers : outcome[u] # "none" => u \notin Participants(room)

=============================================================================
