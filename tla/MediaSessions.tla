---------------------------- MODULE MediaSessions ----------------------------
(***************************************************************************)
(* The media provider sessions of one user in one room, on the server:     *)
(* POST media-session creates a participant at the provider and tracks it, *)
(* revokeTrackedMediaSessionsForUser ends the tracked participants after an *)
(* ejection, a demotion or a leave, and the scheduled reconciliation ends   *)
(* what a revocation left (app/api/rooms/[roomId]/media-session/route.ts,   *)
(* lib/realtime/server/roomMediaProviderSession.ts and the SQL functions    *)
(* it calls).  They run in different processes; they share the rows of      *)
(* room_media_provider_sessions, the provider and the Room Brain.           *)
(*                                                                         *)
(* A step is one call to one of these.  A call that fails may have taken   *)
(* effect all the same, and a process may die between two calls.           *)
(*                                                                         *)
(* Every exchange makes a participant of its own, so the exchange names    *)
(* the participant and its row.                                            *)
(***************************************************************************)
EXTENDS Naturals, FiniteSets

CONSTANTS
    Exchanges,     \* requests for a media session, and their participants
    Revocations,   \* revocations for the user or for the whole room
    Passes,        \* reconciliation processes, each running pass after pass
    MaxHandles,    \* rows of the user each revocation is ready to list
    MaxSequence    \* bound on the changes of the room

ASSUME SessionsAssumption ==
    /\ Revocations \cap Passes = {}
    /\ MaxHandles \in [Revocations -> Nat]

VARIABLES
    authority,     \* the Room Brain: its sequence, and whether it has the user
    participant,   \* the provider's side of each exchange
    row,           \* the tracked session of each exchange
    exchange,      \* where each exchange is
    delivered,     \* exchanges whose credentials went to the browser
    job            \* where each revocation and each reconciliation pass is

sessionsVars ==
    <<authority, participant, row, exchange, delivered, job>>

Jobs == Revocations \cup Passes

-----------------------------------------------------------------------------
(* Rows *)

\* A row is tracked from its registration to its revocation; in between its
\* reconciliation may be requested, and then leased to a pass.
RowStates == {"none", "tracked", "requested", "leased", "revoked"}

\* A participant whose row awaits its revocation.
Unrevoked(p) == row[p].state \in {"tracked", "requested", "leased"}

Handles == {p \in Exchanges : Unrevoked(p)}

\* The row an exchange inserts.
NewRow == [state |-> "tracked", current |-> TRUE]

\* The defect of taking a superseded row for a revoked one.
RegisteredRevoking(e) ==
    [p \in Exchanges |->
        IF p = e THEN NewRow
        ELSE IF Unrevoked(p) THEN [state |-> "revoked", current |-> FALSE]
        ELSE row[p]]

\* register_room_media_provider_session: the other rows of the user lose
\* their currency in the transaction that inserts the new one.
Registered(e) ==
    [p \in Exchanges |-> IF p = e THEN NewRow
                         ELSE [row[p] EXCEPT !.current = FALSE]]

\* markRevoked: a row that is missing or already revoked is left alone.
MarkedRevoked(p) ==
    IF Unrevoked(p) THEN [row EXCEPT ![p] = [state |-> "revoked", current |-> FALSE]]
    ELSE row

\* requestReconciliation: an unrevoked row becomes due at once.
Requested(p) ==
    IF Unrevoked(p) THEN [row EXCEPT ![p].state = "requested"] ELSE row

\* The defect of reconciling superseded sessions only.
DueIfSuperseded(p) == row[p].state = "requested" /\ ~row[p].current

\* claim_room_media_revocations: requested, unrevoked, neither leased nor
\* waiting out its backoff.
Due(p) == row[p].state = "requested"

Claimed(s) == [p \in Exchanges |-> IF p \in s THEN [row[p] EXCEPT !.state = "leased"]
                                   ELSE row[p]]

\* revokeParticipant: DELETE at the provider; one it does not have is gone.
Deleted(p) == [participant EXCEPT ![p] = "deleted"]

-----------------------------------------------------------------------------
(* Processes *)

ExchangePlaces == {"unused", "granted", "created", "untracked", "replacing",
                   "marking", "verifying", "confirming", "revoking",
                   "markingSelf", "delivered", "failed", "unresolved"}

Ended == {"delivered", "failed", "unresolved"}

JobPlaces == {"unused", "listed", "revoking", "marking", "done", "failed"}

\* An exchange holds the sequence of its grant, the earlier participants it
\* still has to end and, between delete and mark, the one it is about.
NewExchange == [at |-> "unused", sequence |-> 0, todo |-> {}, target |-> {}]

\* A job holds the same, the sequence at which it listed the participants, and
\* whether all went well.
NewJob == [at |-> "unused", sequence |-> 0, todo |-> {}, target |-> {},
           clean |-> TRUE]

Init ==
    /\ authority = [sequence |-> 0, present |-> TRUE]
    /\ participant = [e \in Exchanges |-> "none"]
    /\ row = [e \in Exchanges |-> [state |-> "none", current |-> FALSE]]
    /\ exchange = [e \in Exchanges |-> NewExchange]
    /\ delivered = {}
    /\ job = [j \in Jobs |-> NewJob]

Goes(e, place) == exchange' = [exchange EXCEPT ![e].at = place]

\* An exchange that ends without credentials; what it held is gone.
Ends(e, place) == exchange' = [exchange EXCEPT ![e] = [NewExchange EXCEPT !.at = place]]

-----------------------------------------------------------------------------
(* The Room Brain *)

\* Any change of the room: the user is demoted, ejected, back, or untouched.
AuthorityChanges ==
    /\ authority.sequence < MaxSequence
    /\ \E b \in BOOLEAN :
          authority' = [sequence |-> authority.sequence + 1, present |-> b]
    /\ UNCHANGED <<participant, row, exchange, delivered, job>>

\* The defect of granting media to whoever is in the room, whatever sequence
\* the request was made under.
GrantsPresent(n) == authority.present

\* The grant of the Room Brain: the very sequence, with the user in the room.
Grants(n) == authority.present /\ authority.sequence = n

-----------------------------------------------------------------------------
(* An exchange *)

\* The capability and the fresh grant; everything before only reads.
Begin(e) ==
    /\ exchange[e].at = "unused"
    /\ Grants(authority.sequence)
    /\ exchange' = [exchange EXCEPT ![e] = [@ EXCEPT !.at = "granted",
                                                     !.sequence = authority.sequence]]
    /\ UNCHANGED <<authority, participant, row, delivered, job>>

ProviderCreates(e) ==
    /\ exchange[e].at = "granted"
    /\ participant' = [participant EXCEPT ![e] = "live"]
    /\ Goes(e, "created")
    /\ UNCHANGED <<authority, row, delivered, job>>

\* The answer is lost or invalid, and the adapter's own clean-up may fail.
ProviderFails(e) ==
    /\ exchange[e].at = "granted"
    /\ \E s \in {"none", "live"} : participant' = [participant EXCEPT ![e] = s]
    /\ Ends(e, "failed")
    /\ UNCHANGED <<authority, row, delivered, job>>

\* The loop over the previous participants goes on, or is over.
NextPlace(todo) == IF todo = {} THEN "verifying" ELSE "replacing"

\* registerActiveSession returns the other unrevoked participants.
Register(e) ==
    /\ exchange[e].at = "created"
    /\ row' = Registered(e)
    /\ exchange' = [exchange EXCEPT ![e] =
                      [@ EXCEPT !.at = NextPlace(Handles), !.todo = Handles]]
    /\ UNCHANGED <<authority, participant, delivered, job>>

RegisterFails(e) ==
    /\ exchange[e].at = "created"
    /\ row' \in {row, Registered(e)}
    /\ Goes(e, "untracked")
    /\ UNCHANGED <<authority, participant, delivered, job>>

\* compensateUntrackedParticipant
CompensateUntracked(e) ==
    /\ exchange[e].at = "untracked"
    /\ participant' = Deleted(e)
    /\ Ends(e, "failed")
    /\ UNCHANGED <<authority, row, delivered, job>>

\* "Manual cleanup required": what has no row, or may have none, is nobody's to
\* schedule.
CompensateUntrackedFails(e) ==
    /\ exchange[e].at = "untracked"
    /\ participant' \in {participant, Deleted(e)}
    /\ Ends(e, "failed")
    /\ UNCHANGED <<authority, row, delivered, job>>

\* The defect of delivering although an earlier participant could not be ended.
GoesOn(e) == "verifying"

\* An earlier participant that cannot be ended costs the new one its session.
AfterFailedReplacement(e) == "revoking"

\* The loop over the previous participants: one is deleted, then marked.
RevokePrevious(e) ==
    /\ exchange[e].at = "replacing"
    /\ \E p \in exchange[e].todo :
          /\ participant' = Deleted(p)
          /\ exchange' = [exchange EXCEPT ![e] = [@ EXCEPT !.at = "marking",
                                                           !.target = {p}]]
    /\ UNCHANGED <<authority, row, delivered, job>>

RevokePreviousFails(e) ==
    /\ exchange[e].at = "replacing"
    /\ \E p \in exchange[e].todo : participant' \in {participant, Deleted(p)}
    /\ exchange' = [exchange EXCEPT ![e] = [@ EXCEPT !.at = AfterFailedReplacement(e),
                                                     !.todo = {}, !.target = {}]]
    /\ UNCHANGED <<authority, row, delivered, job>>

MarkPrevious(e) ==
    /\ exchange[e].at = "marking"
    /\ \E p \in exchange[e].target :
          /\ row' = MarkedRevoked(p)
          /\ LET rest == exchange[e].todo \ {p}
             IN  exchange' = [exchange EXCEPT ![e] =
                                [@ EXCEPT !.at = NextPlace(rest), !.todo = rest,
                                          !.target = {}]]
    /\ UNCHANGED <<authority, participant, delivered, job>>

MarkPreviousFails(e) ==
    /\ exchange[e].at = "marking"
    /\ \E p \in exchange[e].target : row' \in {row, MarkedRevoked(p)}
    /\ exchange' = [exchange EXCEPT ![e] = [@ EXCEPT !.at = AfterFailedReplacement(e),
                                                     !.todo = {}, !.target = {}]]
    /\ UNCHANGED <<authority, participant, delivered, job>>

\* isCurrentSession: a later exchange may have taken over, a revocation may
\* have ended this one.
Verify(e) ==
    /\ exchange[e].at = "verifying"
    /\ Goes(e, IF Unrevoked(e) /\ row[e].current THEN "confirming" ELSE "revoking")
    /\ UNCHANGED <<authority, participant, row, delivered, job>>

\* Nothing undoes the participant when the question itself fails.
VerifyFails(e) ==
    /\ exchange[e].at = "verifying"
    /\ Ends(e, "failed")
    /\ UNCHANGED <<authority, participant, row, delivered, job>>

\* The second grant, after the participant is tracked: the credentials leave.
Deliver(e) ==
    /\ exchange[e].at = "confirming"
    /\ Grants(exchange[e].sequence)
    /\ delivered' = delivered \cup {e}
    /\ Goes(e, "delivered")
    /\ UNCHANGED <<authority, participant, row, job>>

Refuse(e) ==
    /\ exchange[e].at = "confirming"
    /\ ~Grants(exchange[e].sequence)
    /\ Goes(e, "revoking")
    /\ UNCHANGED <<authority, participant, row, delivered, job>>

ConfirmFails(e) ==
    /\ exchange[e].at = "confirming"
    /\ Goes(e, "revoking")
    /\ UNCHANGED <<authority, participant, row, delivered, job>>

\* The clean-up of an exchange that must not deliver.
RevokeSelf(e) ==
    /\ exchange[e].at = "revoking"
    /\ participant' = Deleted(e)
    /\ Goes(e, "markingSelf")
    /\ UNCHANGED <<authority, row, delivered, job>>

MarkSelf(e) ==
    /\ exchange[e].at = "markingSelf"
    /\ row' = MarkedRevoked(e)
    /\ Ends(e, "failed")
    /\ UNCHANGED <<authority, participant, delivered, job>>

\* The clean-up of a tracked participant fails: "cleanup requires reconciliation",
\* which nothing requests.
CleanUpFails(e) ==
    /\ exchange[e].at \in {"revoking", "markingSelf"}
    /\ \/ exchange[e].at = "revoking" /\ participant' \in {participant, Deleted(e)}
          /\ UNCHANGED row
       \/ exchange[e].at = "markingSelf" /\ row' \in {row, MarkedRevoked(e)}
          /\ UNCHANGED participant
    /\ Ends(e, "unresolved")
    /\ UNCHANGED <<authority, delivered, job>>

ExchangeDies(e) ==
    /\ exchange[e].at \notin Ended \cup {"unused"}
    /\ Ends(e, "failed")
    /\ UNCHANGED <<authority, participant, row, delivered, job>>

-----------------------------------------------------------------------------
(* Revocations and reconciliation passes *)

\* listActiveUserSessions for a leave, an ejection or a demotion, and
\* listActiveRoomSessions for a closure; more rows than the bound make each throw.
List(r) ==
    /\ job[r].at = "unused"
    /\ job' = [job EXCEPT ![r] =
                 IF Cardinality(Handles) > MaxHandles[r]
                 THEN [NewJob EXCEPT !.at = "failed"]
                 ELSE [NewJob EXCEPT !.at = "listed", !.todo = Handles,
                                     !.sequence = authority.sequence]]
    /\ UNCHANGED <<authority, participant, row, exchange, delivered>>

\* claim_room_media_revocations leases what is due to one pass.
Claim(p) ==
    LET due == {e \in Exchanges : Due(e)}
    IN  /\ job[p].at = "unused"
        /\ due # {}
        /\ row' = Claimed(due)
        /\ job' = [job EXCEPT ![p] = [@ EXCEPT !.at = "listed", !.todo = due]]
        /\ UNCHANGED <<authority, participant, exchange, delivered>>

\* The lease and the backoff of a row run out.
LeaseExpires(e) ==
    /\ row[e].state = "leased"
    /\ row' = [row EXCEPT ![e].state = "requested"]
    /\ UNCHANGED <<authority, participant, exchange, delivered, job>>

\* The next participant of the list: a revocation first schedules its
\* reconciliation, which may fail without holding it up.
Take(j) ==
    /\ job[j].at = "listed"
    /\ \E e \in job[j].todo :
          /\ job' = [job EXCEPT ![j] = [@ EXCEPT !.at = "revoking", !.target = {e}]]
          /\ \/ j \in Revocations /\ row' = Requested(e)
             \/ UNCHANGED row
    /\ UNCHANGED <<authority, participant, exchange, delivered>>

RevokeTarget(j) ==
    /\ job[j].at = "revoking"
    /\ \E e \in job[j].target : participant' = Deleted(e)
    /\ job' = [job EXCEPT ![j].at = "marking"]
    /\ UNCHANGED <<authority, row, exchange, delivered>>

MarkTarget(j) ==
    /\ job[j].at = "marking"
    /\ \E e \in job[j].target : row' = MarkedRevoked(e)
    /\ job' = [job EXCEPT ![j] = [@ EXCEPT !.at = "listed", !.target = {},
                                           !.todo = job[j].todo \ job[j].target]]
    /\ UNCHANGED <<authority, participant, exchange, delivered>>

\* All attempts failed: the job goes on with the next one and reports it.
TargetFails(j) ==
    /\ job[j].at \in {"revoking", "marking"}
    /\ \E e \in job[j].target :
          \/ job[j].at = "revoking" /\ participant' \in {participant, Deleted(e)}
             /\ UNCHANGED row
          \/ job[j].at = "marking" /\ row' \in {row, MarkedRevoked(e)}
             /\ UNCHANGED participant
    /\ job' = [job EXCEPT ![j] = [@ EXCEPT !.at = "listed", !.target = {},
                                           !.todo = job[j].todo \ job[j].target,
                                           !.clean = FALSE]]
    /\ UNCHANGED <<authority, exchange, delivered>>

\* A revocation ends; a pass ends and the schedule brings the next.
Finish(j) ==
    /\ job[j].at = "listed"
    /\ job[j].todo = {}
    /\ job' = [job EXCEPT ![j] = IF j \in Passes THEN NewJob
                                 ELSE IF job[j].clean THEN [@ EXCEPT !.at = "done"]
                                 ELSE [NewJob EXCEPT !.at = "failed"]]
    /\ UNCHANGED <<authority, participant, row, exchange, delivered>>

JobDies(j) ==
    /\ job[j].at \in {"listed", "revoking", "marking"}
    /\ job' = [job EXCEPT ![j] = IF j \in Passes THEN NewJob
                                 ELSE [NewJob EXCEPT !.at = "failed"]]
    /\ UNCHANGED <<authority, participant, row, exchange, delivered>>

-----------------------------------------------------------------------------
(* Specification *)

ExchangeStep(e) ==
    \/ Begin(e) \/ ProviderCreates(e) \/ ProviderFails(e)
    \/ Register(e) \/ RegisterFails(e)
    \/ CompensateUntracked(e) \/ CompensateUntrackedFails(e)
    \/ RevokePrevious(e) \/ RevokePreviousFails(e)
    \/ MarkPrevious(e) \/ MarkPreviousFails(e)
    \/ Verify(e) \/ VerifyFails(e)
    \/ Deliver(e) \/ Refuse(e) \/ ConfirmFails(e)
    \/ RevokeSelf(e) \/ MarkSelf(e) \/ CleanUpFails(e)
    \/ ExchangeDies(e)

JobStep(j) ==
    Take(j) \/ RevokeTarget(j) \/ MarkTarget(j) \/ TargetFails(j) \/ Finish(j)

Next ==
    \/ AuthorityChanges
    \/ \E e \in Exchanges : ExchangeStep(e) \/ LeaseExpires(e)
    \/ \E r \in Revocations : List(r)
    \/ \E p \in Passes : Claim(p)
    \/ \E j \in Jobs : JobStep(j) \/ JobDies(j)

Spec == Init /\ [][Next]_sessionsVars

\* The schedule starts passes for ever and leases run out; passes may die and
\* calls may fail again and again, but not for ever.  Nothing is assumed of
\* exchanges and revocations.
FairSpec ==
    /\ Spec
    /\ \A p \in Passes : /\ WF_sessionsVars(Claim(p)) /\ WF_sessionsVars(Finish(p))
                         /\ SF_sessionsVars(Take(p))
                         /\ SF_sessionsVars(RevokeTarget(p))
                         /\ SF_sessionsVars(MarkTarget(p))
    /\ \A e \in Exchanges : WF_sessionsVars(LeaseExpires(e))

-----------------------------------------------------------------------------
(* Properties *)

\* The variables have their types; a current row awaits its revocation, and one
\* row at most is current (room_media_provider_sessions_current_user_idx).
TypeOK ==
    /\ authority \in [sequence : Nat, present : BOOLEAN]
    /\ participant \in [Exchanges -> {"none", "live", "deleted"}]
    /\ row \in [Exchanges -> [state : RowStates, current : BOOLEAN]]
    /\ exchange \in [Exchanges -> [at : ExchangePlaces, sequence : Nat,
                                   todo : SUBSET Exchanges,
                                   target : SUBSET Exchanges]]
    /\ delivered \subseteq Exchanges
    /\ job \in [Jobs -> [at : JobPlaces, sequence : Nat, todo : SUBSET Exchanges,
                         target : SUBSET Exchanges, clean : BOOLEAN]]
    /\ \A p \in Exchanges : row[p].current => Unrevoked(p)
    /\ \A p, q \in Exchanges : row[p].current /\ row[q].current => p = q

\* A participant whose credentials are out is tracked until the provider has
\* deleted it, and no row says revoked of a participant that is not deleted
\* (replaceTrackedMediaProviderSession, markRevoked): whatever fails or dies,
\* a revocation can find every participant it has to end.
TrackedUntilGone ==
    /\ \A e \in delivered : participant[e] = "live" => Unrevoked(e)
    /\ \A e \in Exchanges : row[e].state = "revoked" => participant[e] = "deleted"

\* However exchanges of a user overlap and fail, two participants with
\* credentials are never live at once: of two registered ones, the later is
\* delivered only when the earlier is deleted (the unrevoked participants that
\* register_room_media_provider_session returns).
OneDeliveredLive ==
    \A d, e \in delivered :
        participant[d] = "live" /\ participant[e] = "live" => d = e

\* A revocation that reports success has ended the user's media as of the
\* sequence at which it listed the sessions: no participant of an earlier
\* sequence is live with credentials, then or later, although exchanges were
\* under way all the while (the second grant of the media-session route).
CleanRevocation ==
    \A r \in Revocations : job[r].at = "done" =>
        \A e \in delivered :
            exchange[e].sequence < job[r].sequence => participant[e] # "live"

\* A scheduled reconciliation is carried out, whichever process fails or dies
\* in between (claim_room_media_revocations).
RequestedIsRevoked ==
    \A e \in Exchanges : row[e].state = "requested" ~> row[e].state = "revoked"

\* "Unresolved provider cleanup is durably scheduled for reconciliation"
\* (docs/ARCHITECTURE.md): of a tracked participant whose clean-up after the final
\* grant failed, the participant is gone or its reconciliation is scheduled.
UnresolvedCleanupIsScheduled ==
    \A e \in Exchanges :
        exchange[e].at = "unresolved" =>
            participant[e] # "live" \/ row[e].state \in {"requested", "leased"}

=============================================================================
