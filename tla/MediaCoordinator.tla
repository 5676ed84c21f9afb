--------------------------- MODULE MediaCoordinator ---------------------------
(***************************************************************************)
(* The browser's media session coordinator: lib/realtime/                  *)
(* roomMediaSessionCoordinator.ts over the decision of packages/domain/src/*)
(* room-media-session.ts and the provider of realtimeKitMediaProvider.ts.  *)
(* It brings the session at the media provider into line with what the     *)
(* room's authority allows and what the user wants.                        *)
(*                                                                         *)
(* One worker runs at a time.  It is a loop of passes; a pass runs up to   *)
(* its first await, so a step of the worker is the code from one await to  *)
(* the next, and the room, the user and stop() may act at every await.     *)
(* A provider or authorization call ends with success or failure; a failed *)
(* call may have taken effect.  What the coordinator and the provider know *)
(* is one session, the one the provider has a handle of.  A failed join may*)
(* leave another behind, of which nobody has a handle (stray).             *)
(***************************************************************************)
EXTENDS Naturals

CONSTANTS
    MediaRoles,       \* roles a participant of the room may have
    Publishers,       \* those that may publish audio and video
    NoRole,           \* no role: no participant, or no synchronized room
    MaxRevision,      \* bound on the number of changes of the intent
    ProviderMayFail   \* calls to the provider and for authorizations may fail

ASSUME CoordinatorAssumption ==
    /\ Publishers \subseteq MediaRoles
    /\ NoRole \notin MediaRoles
    /\ ProviderMayFail \in BOOLEAN

VARIABLES
    intent,       \* what the room decided and the user asked for
    settled,      \* the revision of the intent the worker last settled
    phase,        \* the phase shown to the page
    joinedRole,   \* role of the session the coordinator believes to hold
    enabled,      \* publications it believes to be on
    worker,       \* where the worker waits
    session,      \* the session the provider has a handle of, as it really is
    stray         \* a failed join left a session behind, without a handle

belief == <<joinedRole, enabled>>
coordinatorVars == <<intent, settled, phase, joinedRole, enabled, worker, session,
                    stray>>

-----------------------------------------------------------------------------
(* Intent *)

Kinds == {"audio", "video"}

\* What the replica says: whether it is synchronized, and the user's role in
\* the newest room it showed.
Decisions == [synchronized : BOOLEAN,
              role         : MediaRoles \cup {NoRole},
              sequence     : Nat]

NothingShown == [synchronized |-> FALSE, role |-> NoRole, sequence |-> 0]

Intents == [decision  : Decisions,
            requested : SUBSET Kinds,
            stopped   : BOOLEAN,
            revision  : Nat]

\* shouldJoinSfu and its role: a synchronized replica that lists the user.
Wanted(i) ==
    IF ~i.stopped /\ i.decision.synchronized THEN i.decision.role ELSE NoRole

\* The defect of publishing what the user asks for in any role.
AnyoneMayPublish(i) == i.requested

\* What should be published: the user narrows what the role allows.
MayPublish(i) == IF i.decision.role \in Publishers THEN i.requested ELSE {}

-----------------------------------------------------------------------------
(* The worker *)

NoSession == [role |-> NoRole, published |-> {}]

\* The worker at a place, in a pass that began under intent i; kind is the
\* publication it works on.
AtKind(place, i, kind) == [at       |-> place,
                           revision |-> i.revision,
                           role     |-> Wanted(i),
                           sequence |-> i.decision.sequence,
                           kind     |-> kind]

At(place, i) == AtKind(place, i, "none")

\* No worker; the revision is that of the last pass.
IdleAfter(revision) == [at |-> "idle", revision |-> revision, role |-> NoRole,
                        sequence |-> 0, kind |-> "none"]

\* The defect of changing the role without leaving first.
NeverLeavesForRole(i) == FALSE

\* A session under another role is left before the new role joins.
LeavesForRole(i) == joinedRole # Wanted(i)

\* leaveCurrentSession: publications that are on are turned off one by one,
\* audio first, then the session is left.
Leaving(i) ==
    IF "audio" \in enabled THEN AtKind("muting", i, "audio")
    ELSE IF "video" \in enabled THEN AtKind("muting", i, "video")
    ELSE At("leaving", i)

AfterMuting(w) ==
    IF w.kind = "audio" /\ "video" \in enabled
    THEN [w EXCEPT !.kind = "video"]
    ELSE [w EXCEPT !.at = "leaving", !.kind = "none"]

\* The first await of a pass under intent i (reconcileOneStep); "checking"
\* is the pass that found nothing to do.
Pass(i) ==
    IF Wanted(i) = NoRole
    THEN IF joinedRole = NoRole THEN At("checking", i) ELSE Leaving(i)
    ELSE IF joinedRole = NoRole THEN At("authorizing", i)
    ELSE IF LeavesForRole(i) THEN Leaving(i)
    ELSE IF ("audio" \in enabled) # ("audio" \in MayPublish(i))
         THEN AtKind("setting", i, "audio")
    ELSE IF ("video" \in enabled) # ("video" \in MayPublish(i))
         THEN AtKind("setting", i, "video")
    ELSE At("checking", i)

\* The phase a pass sets before its first await.
PhaseOf(w) ==
    CASE w.at = "authorizing"           -> "joining"
      [] w.at \in {"muting", "leaving"} -> "leaving"
      [] OTHER                          -> phase

Init ==
    /\ intent = [decision |-> NothingShown, requested |-> {}, stopped |-> FALSE,
                 revision |-> 0]
    /\ settled = 0
    /\ phase = "idle"
    /\ joinedRole = NoRole
    /\ enabled = {}
    /\ worker = IdleAfter(0)
    /\ session = NoSession
    /\ stray = FALSE

-----------------------------------------------------------------------------
(* Room, user and stop: requestReconciliation *)

\* The intent changes; an idle worker starts its first pass at once.
Intend(i) ==
    /\ ~intent.stopped
    /\ intent.revision < MaxRevision
    /\ intent' = [i EXCEPT !.revision = intent.revision + 1]
    /\ IF worker.at = "idle"
       THEN /\ worker' = Pass(intent')
            /\ phase' = PhaseOf(worker')
       ELSE UNCHANGED <<worker, phase>>
    /\ UNCHANGED <<settled, belief, session, stray>>

\* The replica loses or regains its synchronization, or shows the next room,
\* in which the user may have another role or none.
UpdateRoomBrainState ==
    \/ \E b \in BOOLEAN : Intend([intent EXCEPT !.decision.synchronized = b])
    \/ \E r \in MediaRoles \cup {NoRole} :
          Intend([intent EXCEPT !.decision =
                    [synchronized |-> TRUE,
                     role         |-> r,
                     sequence     |-> intent.decision.sequence + 1]])

SetRequested ==
    \E k \in Kinds :
        Intend([intent EXCEPT !.requested = IF k \in @ THEN @ \ {k} ELSE @ \cup {k}])

Stop == Intend([intent EXCEPT !.stopped = TRUE, !.decision = NothingShown])

-----------------------------------------------------------------------------
(* Steps of the worker *)

\* The pass made progress; the loop turns.
Turn == worker' = [worker EXCEPT !.at = "turning", !.kind = "none"]

\* The defect of settling on an error whatever was asked for in the meantime.
SettlesNewest(w) == intent.revision

\* An error settles the revision under which its pass began.
SettlesOnError(w) == w.revision

\* The pass threw: the loop ends.
Fail ==
    /\ settled' = SettlesOnError(worker)
    /\ phase' = "error"
    /\ worker' = [worker EXCEPT !.at = "ending", !.kind = "none"]

NextPass ==
    /\ worker.at = "turning"
    /\ worker' = Pass(intent)
    /\ phase' = PhaseOf(worker')
    /\ UNCHANGED <<intent, settled, belief, session, stray>>

\* A pass without anything to do: settle, unless the intent moved on.
Settle ==
    /\ worker.at = "checking"
    /\ IF worker.revision = intent.revision
       THEN /\ settled' = worker.revision
            /\ phase' = IF intent.stopped THEN "stopped"
                        ELSE IF joinedRole = NoRole THEN "idle" ELSE "joined"
            /\ worker' = [worker EXCEPT !.at = "ending"]
       ELSE /\ worker' = Pass(intent)
            /\ phase' = PhaseOf(worker')
            /\ UNCHANGED settled
    /\ UNCHANGED <<intent, belief, session, stray>>

\* The defect of letting the worker end whatever came in while it ended.
EndsAnyway == TRUE

\* Everything that was asked for is settled.
IsSettled == settled = intent.revision

\* The finally clause: a change that came in while the worker ended starts a
\* new one.
WorkerEnds ==
    /\ worker.at = "ending"
    /\ IF IsSettled
       THEN worker' = IdleAfter(worker.revision) /\ UNCHANGED phase
       ELSE worker' = Pass(intent) /\ phase' = PhaseOf(worker')
    /\ UNCHANGED <<intent, settled, belief, session, stray>>

\* The defect of joining with whatever authorization arrives.
JoinAnyway(w) == TRUE

\* The defect of waiting for a sequence past the one asked for.
WaitsForNextSequence(w) == w.sequence < intent.decision.sequence

\* The room still has the user in the role and at the sequence asked for.
IsJoinStillAuthorized(w) ==
    /\ w.revision = intent.revision
    /\ Wanted(intent) = w.role
    /\ intent.decision.sequence = w.sequence

\* A valid authorization arrives: provider.join is called, unless the room
\* or the user moved on.
AuthorizationArrives ==
    /\ worker.at = "authorizing"
    /\ IF IsJoinStillAuthorized(worker)
       THEN worker' = [worker EXCEPT !.at = "joining"]
       ELSE Turn
    /\ UNCHANGED <<intent, settled, phase, belief, session, stray>>

\* The request is refused, or its answer is expired or bound to something else.
AuthorizationFails ==
    /\ ProviderMayFail
    /\ worker.at = "authorizing"
    /\ IF IsJoinStillAuthorized(worker) THEN Fail
       ELSE Turn /\ UNCHANGED <<settled, phase>>
    /\ UNCHANGED <<intent, belief, session, stray>>

JoinCompletes ==
    /\ worker.at = "joining"
    /\ session' = [role |-> worker.role, published |-> {}]
    /\ joinedRole' = worker.role
    /\ enabled' = {}
    /\ Turn
    /\ UNCHANGED <<intent, settled, phase, stray>>

\* The provider leaves after a join that failed half-way, and drops the handle
\* also when that fails: the session may live on.
JoinFails ==
    /\ ProviderMayFail
    /\ worker.at = "joining"
    /\ stray' \in {stray, TRUE}
    /\ Fail
    /\ UNCHANGED <<intent, belief, session>>

\* The session without publication k.
Silenced(k) == [session EXCEPT !.published = @ \ {k}]

\* One publication is turned off on the way out.
MuteCompletes ==
    /\ worker.at = "muting"
    /\ session' = Silenced(worker.kind)
    /\ enabled' = enabled \ {worker.kind}
    /\ worker' = AfterMuting(worker)
    /\ UNCHANGED <<intent, settled, phase, joinedRole, stray>>

\* A publication that cannot be turned off does not keep the session; the
\* device may be off all the same.
MuteFails ==
    /\ ProviderMayFail
    /\ worker.at = "muting"
    /\ session' \in {session, Silenced(worker.kind)}
    /\ worker' = AfterMuting(worker)
    /\ UNCHANGED <<intent, settled, phase, belief, stray>>

LeaveCompletes ==
    /\ worker.at = "leaving"
    /\ session' = NoSession
    /\ joinedRole' = NoRole
    /\ enabled' = {}
    /\ Turn
    /\ UNCHANGED <<intent, settled, phase, stray>>

\* provider.leave turns off what it can before the meeting refuses, which may
\* have ended the session all the same: the handle and the belief stay.
LeaveFails ==
    /\ ProviderMayFail
    /\ worker.at = "leaving"
    /\ \/ session' = NoSession
       \/ \E p \in SUBSET session.published :
             session' = [session EXCEPT !.published = p]
    /\ Fail
    /\ UNCHANGED <<intent, belief, stray>>

\* The session with publication k switched over; one that ended has none.
Switched(k) ==
    IF session.role = NoRole THEN session
    ELSE IF k \in enabled THEN Silenced(k)
    ELSE [session EXCEPT !.published = @ \cup {k}]

SetCompletes ==
    LET k == worker.kind
    IN  /\ worker.at = "setting"
        /\ session' = Switched(k)
        /\ enabled' = IF k \in enabled THEN enabled \ {k} ELSE enabled \cup {k}
        /\ Turn
        /\ UNCHANGED <<intent, settled, phase, joinedRole, stray>>

\* The device may have switched all the same.
SetFails ==
    /\ ProviderMayFail
    /\ worker.at = "setting"
    /\ session' \in {session, Switched(worker.kind)}
    /\ Fail
    /\ UNCHANGED <<intent, belief, stray>>

Work ==
    \/ NextPass \/ Settle \/ WorkerEnds
    \/ AuthorizationArrives \/ AuthorizationFails
    \/ JoinCompletes \/ JoinFails
    \/ MuteCompletes \/ MuteFails
    \/ LeaveCompletes \/ LeaveFails
    \/ SetCompletes \/ SetFails

Next == UpdateRoomBrainState \/ SetRequested \/ Stop \/ Work

Spec == Init /\ [][Next]_coordinatorVars

\* Promise continuations run and every call of the provider comes back.
FairSpec == Spec /\ WF_coordinatorVars(Work)

-----------------------------------------------------------------------------
(* Properties *)

TypeOK ==
    /\ intent \in Intents
    /\ settled \in 0 .. intent.revision
    /\ phase \in {"idle", "joining", "joined", "leaving", "error", "stopped"}
    /\ joinedRole \in MediaRoles \cup {NoRole}
    /\ enabled \subseteq Kinds
    /\ worker.at \in {"idle", "turning", "checking", "ending", "authorizing",
                      "joining", "muting", "leaving", "setting"}
    /\ worker.revision \in 0 .. intent.revision
    /\ worker.at \in {"muting", "setting"} => worker.kind \in Kinds
    /\ session.role \in MediaRoles \cup {NoRole}
    /\ session.published \subseteq Kinds
    /\ stray \in BOOLEAN

\* provider.join is called for the role and the sequence the room has at that
\* moment, and never while the provider has a handle of a session, which it would
\* refuse: an authorization that arrives late is dropped, a role change leaves
\* first. (What a failed join left behind is beyond that.)
JoinsUnderCurrentAuthority ==
    [][worker'.at = "joining" =>
         \/ worker.at = "joining"
         \/ /\ worker'.role = Wanted(intent')
            /\ worker'.sequence = intent'.decision.sequence
            /\ joinedRole' = NoRole /\ session' = NoSession
      ]_coordinatorVars

\* A session in a role that may not publish carries no publication, whatever
\* overlap of promotion, demotion and late device calls.
PublishesAsAllowed ==
    session.published # {} => session.role \in Publishers

\* No change of the room or of the user's wishes is lost to the worker: when
\* it rests, its last pass began under the newest intent.
NoChangeIgnored ==
    worker.at = "idle" => worker.revision = intent.revision

\* A worker that rests without an error believes to hold the role the room wants,
\* with the publications room and user want, and what it holds is a session in no
\* other role: none when none is wanted. (A call that takes effect and then reports
\* an error deceives it: it may believe in a session whose leave was said to fail,
\* or in a device that switched.)
RestsInLine ==
    worker.at = "idle" /\ phase # "error" =>
        /\ joinedRole = Wanted(intent)
        /\ joinedRole # NoRole => enabled = MayPublish(intent)
        /\ session.role \in {joinedRole, NoRole}

\* The passes come to an end once the room and the user stop changing: no two
\* of them undo each other for ever.
ComesToRest == <>[](worker.at = "idle")

\* A session without authority that the provider has a handle of is left, or the
\* failure to leave it is shown: the worker never sits on such a session in
\* silence. (One that a failed join left behind is shown as that join's error only.)
AuthorityLossLeaves ==
    Wanted(intent) = NoRole
      ~> session = NoSession \/ Wanted(intent) # NoRole \/ phase = "error"

=============================================================================
