------------------------ MODULE MediaCoordinatorProofs ------------------------
(***************************************************************************)
(* Proofs about MediaCoordinator, for every set of roles, any number of    *)
(* changes of the intent and a provider that fails or does not.            *)
(***************************************************************************)
EXTENDS MediaCoordinator, TLAPS

-----------------------------------------------------------------------------
(* The inductive invariant *)

AllRoles == MediaRoles \cup {NoRole}

Places == {"idle", "turning", "checking", "ending", "authorizing", "joining",
           "muting", "leaving", "setting"}

Workers == [at : Places, revision : Nat, role : AllRoles, sequence : Nat,
            kind : Kinds \cup {"none"}]

Sessions == [role : AllRoles, published : SUBSET Kinds]

Phases == {"idle", "joining", "joined", "leaving", "error", "stopped"}

Types ==
    /\ intent \in Intents
    /\ settled \in Nat
    /\ phase \in Phases
    /\ joinedRole \in AllRoles
    /\ enabled \in SUBSET Kinds
    /\ worker \in Workers
    /\ session \in Sessions
    /\ stray \in BOOLEAN

\* The revisions: a pass never begins under a revision yet to come.
Revisions ==
    /\ settled <= intent.revision
    /\ worker.revision <= intent.revision
    /\ worker.at = "ending" => worker.revision = settled
    /\ worker.at = "idle" => worker.revision = intent.revision

\* What the worker may rely on at the place where it waits.
Waits(w) ==
    /\ w.at \in {"muting", "setting"} => w.kind \in Kinds
    /\ w.at \in {"authorizing", "joining"} => joinedRole = NoRole
    /\ w.at = "joining" => w.role \in MediaRoles
    /\ w.at = "setting" /\ w.kind \notin enabled => joinedRole \in Publishers
    /\ w.at = "authorizing" => w.role \in MediaRoles

\* What the coordinator believes of the role of the session is true, unless the
\* session has ended; one that has ended carries no publication.
Believes ==
    /\ session.role \in {joinedRole, NoRole}
    /\ session.published # {} =>
          session.role = joinedRole /\ joinedRole \in Publishers

IInv == Types /\ Revisions /\ Waits(worker) /\ Believes

-----------------------------------------------------------------------------
(* Passes *)

LEMMA WantedType ==
    ASSUME NEW i \in Intents
    PROVE  /\ Wanted(i) \in AllRoles
           /\ Wanted(i) # NoRole => Wanted(i) = i.decision.role
  BY DEF Wanted, Intents, Decisions, AllRoles

\* The worker at a place is well formed.
LEMMA AtKindType ==
    ASSUME NEW i \in Intents, NEW p \in Places, NEW k \in Kinds \cup {"none"}
    PROVE  /\ AtKind(p, i, k) \in Workers
           /\ AtKind(p, i, k).at = p
           /\ AtKind(p, i, k).kind = k
           /\ AtKind(p, i, k).revision = i.revision
           /\ AtKind(p, i, k).role = Wanted(i)
<1>1. Wanted(i) \in AllRoles /\ i.revision \in Nat /\ i.decision.sequence \in Nat
  BY WantedType DEF Intents, Decisions
<1>. QED BY <1>1 DEF AtKind, Workers

\* The places a pass may wait at, each with what led there.
LEMMA PassCases ==
    ASSUME NEW i \in Intents, Types
    PROVE  \E p \in Places \ {"idle", "ending", "joining", "turning"},
              k \in Kinds \cup {"none"} :
              /\ Pass(i) = AtKind(p, i, k)
              /\ p \in {"muting", "setting"} => k \in Kinds
              /\ p = "authorizing" => Wanted(i) # NoRole /\ joinedRole = NoRole
              /\ p = "setting" => Wanted(i) # NoRole /\ joinedRole = Wanted(i)
              /\ p = "setting" /\ k \notin enabled => k \in MayPublish(i)
<1>. DEFINE Q(p, k) ==
              /\ Pass(i) = AtKind(p, i, k)
              /\ p \in {"muting", "setting"} => k \in Kinds
              /\ p = "authorizing" => Wanted(i) # NoRole /\ joinedRole = NoRole
              /\ p = "setting" => Wanted(i) # NoRole /\ joinedRole = Wanted(i)
              /\ p = "setting" /\ k \notin enabled => k \in MayPublish(i)
<1>1. \/ Q("checking", "none") \/ Q("muting", "audio") \/ Q("muting", "video")
      \/ Q("leaving", "none") \/ Q("authorizing", "none")
      \/ Q("setting", "audio") \/ Q("setting", "video")
  BY DEF Pass, Leaving, At, LeavesForRole, Kinds
<1>. HIDE DEF Q
<1>2. \E p \in Places \ {"idle", "ending", "joining", "turning"},
         k \in Kinds \cup {"none"} : Q(p, k)
  BY <1>1 DEF Places, Kinds
<1>. QED BY <1>2 DEF Q

\* A pass waits where its belief allows it to.
LEMMA PassWaits ==
    ASSUME NEW i \in Intents, Types
    PROVE  /\ Pass(i) \in Workers
           /\ Pass(i).revision = i.revision
           /\ Pass(i).at \notin {"idle", "ending", "joining", "turning"}
           /\ Waits(Pass(i))
           /\ PhaseOf(Pass(i)) \in Phases
<1>1. PICK p \in Places \ {"idle", "ending", "joining", "turning"},
           k \in Kinds \cup {"none"} :
              /\ Pass(i) = AtKind(p, i, k)
              /\ p \in {"muting", "setting"} => k \in Kinds
              /\ p = "authorizing" => Wanted(i) # NoRole /\ joinedRole = NoRole
              /\ p = "setting" => Wanted(i) # NoRole /\ joinedRole = Wanted(i)
              /\ p = "setting" /\ k \notin enabled => k \in MayPublish(i)
  BY PassCases
<1>2. /\ Pass(i) \in Workers
      /\ Pass(i).at = p
      /\ Pass(i).kind = k
      /\ Pass(i).revision = i.revision
      /\ Pass(i).role = Wanted(i)
  BY <1>1, AtKindType
<1>3. Waits(Pass(i))
  BY <1>1, <1>2, WantedType DEF Waits, MayPublish, AllRoles
<1>4. PhaseOf(Pass(i)) \in Phases
  BY DEF PhaseOf, Phases, Types
<1>. QED BY <1>1, <1>2, <1>3, <1>4

-----------------------------------------------------------------------------
(* Invariance *)

LEMMA InitIInv == Init => IInv
<1>. SUFFICES ASSUME Init PROVE IInv
  OBVIOUS
<1>1. /\ joinedRole = NoRole /\ enabled = {} /\ stray = FALSE /\ settled = 0
      /\ session = NoSession /\ NoSession.role = NoRole /\ NoSession.published = {}
  BY DEF Init, NoSession
<1>2. Types
  BY DEF Init, Types, Intents, Decisions, NothingShown, Phases, AllRoles, Workers,
         Places, IdleAfter, Sessions, NoSession
<1>3. Revisions /\ Waits(worker)
  BY DEF Init, Revisions, Waits, IdleAfter
<1>. QED BY <1>1, <1>2, <1>3 DEF IInv, Believes

\* A change of the intent.
LEMMA IntendKeeps ==
    ASSUME IInv, NEW i \in Intents, Intend(i)
    PROVE  IInv'
<1>1. /\ intent' \in Intents
      /\ intent'.revision = intent.revision + 1
  BY DEF Intend, Intents, IInv, Types
<1>2. UNCHANGED <<settled, joinedRole, enabled, session, stray>>
  BY DEF Intend, belief
<1>3. CASE worker.at = "idle"
  <2>1. worker' = Pass(intent') /\ phase' = PhaseOf(worker')
    BY <1>3 DEF Intend
  <2>2. /\ Pass(intent') \in Workers
        /\ Pass(intent').revision = intent'.revision
        /\ Pass(intent').at \notin {"idle", "ending", "joining", "turning"}
        /\ Waits(Pass(intent'))
        /\ PhaseOf(Pass(intent')) \in Phases
    BY <1>1, PassWaits DEF IInv
  <2>3. Types'
    BY <1>1, <1>2, <2>1, <2>2 DEF IInv, Types
  <2>4. Waits(worker)'
    BY <1>2, <2>1, <2>2 DEF Waits
  <2>5. Revisions'
    BY <1>1, <1>2, <2>1, <2>2 DEF IInv, Types, Revisions, Intents
  <2>. QED BY <1>2, <2>3, <2>4, <2>5 DEF IInv, Believes
<1>4. CASE worker.at # "idle"
  <2>1. UNCHANGED <<worker, phase>>
    BY <1>4 DEF Intend
  <2>2. Revisions'
    BY <1>1, <1>2, <1>4, <2>1 DEF IInv, Types, Revisions, Intents, Workers
  <2>. QED BY <1>1, <1>2, <2>1, <2>2 DEF IInv, Types, Waits, Believes
<1>. QED BY <1>3, <1>4

\* A pass that begins while the rest stands still.
LEMMA PassKeeps ==
    ASSUME IInv, worker' = Pass(intent), phase' = PhaseOf(worker'),
           UNCHANGED <<intent, settled, belief, session, stray>>
    PROVE  IInv'
<1>1. /\ Pass(intent) \in Workers
      /\ Pass(intent).revision = intent.revision
      /\ Pass(intent).at \notin {"idle", "ending", "joining", "turning"}
      /\ Waits(Pass(intent))
      /\ PhaseOf(Pass(intent)) \in Phases
  BY PassWaits DEF IInv, Types
<1>2. Waits(worker)'
  BY <1>1 DEF Waits, belief
<1>3. Revisions'
  BY <1>1 DEF IInv, Types, Revisions, Intents
<1>. QED BY <1>1, <1>2, <1>3 DEF IInv, Types, Believes, belief

\* A pass that made progress, or threw, keeps the revision it began under.
LEMMA TurnType ==
    ASSUME Types, Turn
    PROVE  /\ worker' \in Workers
           /\ worker'.at = "turning"
           /\ worker'.revision = worker.revision
  BY DEF Types, Turn, Workers, Places

LEMMA FailType ==
    ASSUME Types, Fail
    PROVE  /\ worker' \in Workers
           /\ worker'.at = "ending"
           /\ worker'.revision = worker.revision
           /\ settled' = worker.revision
           /\ phase' \in Phases
  BY DEF Types, Fail, Workers, Places, SettlesOnError, Phases

LEMMA AfterMutingType ==
    ASSUME Types, worker.at = "muting", Waits(worker)
    PROVE  /\ AfterMuting(worker) \in Workers
           /\ AfterMuting(worker).at \in {"muting", "leaving"}
           /\ AfterMuting(worker).revision = worker.revision
           /\ AfterMuting(worker).at = "muting" => AfterMuting(worker).kind \in Kinds
  BY DEF Types, AfterMuting, Workers, Places, Kinds, Waits

\* What the room decides and the user asks for is an intent again.
LEMMA DecisionsAreIntents ==
    ASSUME IInv, UpdateRoomBrainState \/ SetRequested \/ Stop
    PROVE  \E i \in Intents : Intend(i)
<1>0. intent \in Intents
  BY DEF IInv, Types
<1>1. CASE UpdateRoomBrainState
  <2>1. ASSUME NEW b \in BOOLEAN,
               Intend([intent EXCEPT !.decision.synchronized = b])
        PROVE  \E i \in Intents : Intend(i)
    <3>1. [intent EXCEPT !.decision.synchronized = b] \in Intents
      BY <1>0 DEF Intents, Decisions
    <3>. QED BY <2>1, <3>1
  <2>2. ASSUME NEW r \in MediaRoles \cup {NoRole},
               Intend([intent EXCEPT !.decision =
                         [synchronized |-> TRUE,
                          role         |-> r,
                          sequence     |-> intent.decision.sequence + 1]])
        PROVE  \E i \in Intents : Intend(i)
    <3>. DEFINE d == [synchronized |-> TRUE,
                      role         |-> r,
                      sequence     |-> intent.decision.sequence + 1]
    <3>1. d \in Decisions
      BY <1>0 DEF Intents, Decisions
    <3>. HIDE DEF d
    <3>2. [intent EXCEPT !.decision = d] \in Intents
      BY <1>0, <3>1 DEF Intents
    <3>3. Intend([intent EXCEPT !.decision = d])
      BY <2>2 DEF d
    <3>. QED BY <3>2, <3>3
  <2>. QED BY <1>1, <2>1, <2>2 DEF UpdateRoomBrainState
<1>2. CASE SetRequested
  <2>1. PICK k \in Kinds :
           Intend([intent EXCEPT !.requested = IF k \in @ THEN @ \ {k} ELSE @ \cup {k}])
    BY <1>2 DEF SetRequested
  <2>2. [intent EXCEPT !.requested = IF k \in @ THEN @ \ {k} ELSE @ \cup {k}]
           \in Intents
    BY <1>0 DEF Intents
  <2>. QED BY <2>1, <2>2
<1>3. CASE Stop
  <2>1. [intent EXCEPT !.stopped = TRUE, !.decision = NothingShown] \in Intents
    BY <1>0 DEF Intents, Decisions, NothingShown
  <2>. QED BY <1>3, <2>1 DEF Stop
<1>. QED BY <1>1, <1>2, <1>3

\* Every step of the worker keeps the invariant.
LEMMA WorkKeeps ==
    ASSUME IInv, Work
    PROVE  IInv'
<1>. USE DEF IInv
<1>1. CASE NextPass
  BY <1>1, PassKeeps DEF NextPass
<1>2. CASE Settle
  <2>1. CASE worker.revision = intent.revision
    <3>1. /\ settled' = worker.revision
          /\ phase' \in Phases
          /\ worker' = [worker EXCEPT !.at = "ending"]
          /\ UNCHANGED <<intent, belief, session, stray>>
      BY <1>2, <2>1 DEF Settle, Phases
    <3>2. /\ worker' \in Workers /\ worker'.at = "ending"
          /\ worker'.revision = worker.revision
      BY <3>1 DEF Types, Workers, Places
    <3>. QED BY <3>1, <3>2 DEF Types, Workers, Revisions, Waits, Believes, belief, Intents
  <2>2. CASE worker.revision # intent.revision
    BY <1>2, <2>2, PassKeeps DEF Settle
  <2>. QED BY <2>1, <2>2
<1>3. CASE WorkerEnds
  <2>1. CASE IsSettled
    <3>1. /\ worker' = IdleAfter(worker.revision)
          /\ UNCHANGED <<intent, settled, phase, belief, session, stray>>
      BY <1>3, <2>1 DEF WorkerEnds
    <3>2. worker' \in Workers /\ worker'.at = "idle" /\ worker'.revision = worker.revision
      BY <3>1 DEF IdleAfter, Types, Workers, Places, AllRoles
    <3>3. worker.revision = intent.revision
      BY <1>3, <2>1 DEF WorkerEnds, IsSettled, Revisions
    <3>. QED BY <3>1, <3>2, <3>3 DEF Types, Revisions, Waits, Believes, belief
  <2>2. CASE ~IsSettled
    BY <1>3, <2>2, PassKeeps DEF WorkerEnds
  <2>. QED BY <2>1, <2>2
<1>4. CASE AuthorizationArrives
  <2>1. CASE IsJoinStillAuthorized(worker)
    <3>1. /\ worker' = [worker EXCEPT !.at = "joining"]
          /\ worker.at = "authorizing"
          /\ UNCHANGED <<intent, settled, phase, belief, session, stray>>
      BY <1>4, <2>1 DEF AuthorizationArrives
    <3>2. /\ worker' \in Workers /\ worker'.at = "joining"
          /\ worker'.revision = worker.revision /\ worker'.role = worker.role
      BY <3>1 DEF Types, Workers, Places
    <3>. QED BY <3>1, <3>2 DEF Types, Revisions, Waits, Believes, belief
  <2>2. CASE ~IsJoinStillAuthorized(worker)
    <3>1. Turn /\ UNCHANGED <<intent, settled, phase, belief, session, stray>>
      BY <1>4, <2>2 DEF AuthorizationArrives
    <3>. QED BY <3>1, TurnType DEF Types, Revisions, Waits, Believes, belief
  <2>. QED BY <2>1, <2>2
<1>5. CASE AuthorizationFails
  <2>1. CASE IsJoinStillAuthorized(worker)
    <3>1. Fail /\ UNCHANGED <<intent, belief, session, stray>>
      BY <1>5, <2>1 DEF AuthorizationFails
    <3>. QED BY <3>1, FailType DEF Types, Workers, Intents, Revisions, Waits, Believes, belief
  <2>2. CASE ~IsJoinStillAuthorized(worker)
    <3>1. Turn /\ UNCHANGED <<intent, settled, phase, belief, session, stray>>
      BY <1>5, <2>2 DEF AuthorizationFails
    <3>. QED BY <3>1, TurnType DEF Types, Revisions, Waits, Believes, belief
  <2>. QED BY <2>1, <2>2
<1>6. CASE JoinCompletes
  <2>1. /\ Turn /\ worker.at = "joining"
        /\ session' = [role |-> worker.role, published |-> {}]
        /\ joinedRole' = worker.role
        /\ enabled' = {}
        /\ UNCHANGED <<intent, settled, phase, stray>>
    BY <1>6 DEF JoinCompletes
  <2>2. session' \in Sessions /\ joinedRole' \in AllRoles
    BY <2>1 DEF Sessions, Types, Workers
  <2>. QED BY <2>1, <2>2, TurnType DEF Types, Revisions, Waits, Believes
<1>7. CASE JoinFails
  <2>1. Fail /\ stray' \in {stray, TRUE} /\ UNCHANGED <<intent, belief, session>>
    BY <1>7 DEF JoinFails
  <2>. QED BY <2>1, FailType DEF Types, Workers, Intents, Revisions, Waits, Believes, belief
<1>s. /\ Silenced(worker.kind) \in Sessions
      /\ Silenced(worker.kind).role = session.role
      /\ Silenced(worker.kind).published \subseteq session.published
  BY DEF Silenced, Types, Sessions
<1>8. CASE MuteCompletes
  <2>1. /\ worker.at = "muting"
        /\ session' = Silenced(worker.kind)
        /\ enabled' = enabled \ {worker.kind}
        /\ worker' = AfterMuting(worker)
        /\ UNCHANGED <<intent, settled, phase, joinedRole, stray>>
    BY <1>8 DEF MuteCompletes
  <2>. QED BY <1>s, <2>1, AfterMutingType DEF Types, Revisions, Waits, Believes
<1>9. CASE MuteFails
  <2>1. /\ worker.at = "muting"
        /\ session' \in {session, Silenced(worker.kind)}
        /\ worker' = AfterMuting(worker)
        /\ UNCHANGED <<intent, settled, phase, belief, stray>>
    BY <1>9 DEF MuteFails
  <2>. QED BY <1>s, <2>1, AfterMutingType DEF Types, Revisions, Waits, Believes, belief
<1>n. NoSession \in Sessions /\ NoSession.role = NoRole /\ NoSession.published = {}
  BY DEF NoSession, Sessions, AllRoles
<1>10. CASE LeaveCompletes
  <2>1. /\ Turn /\ session' = NoSession /\ joinedRole' = NoRole /\ enabled' = {}
        /\ UNCHANGED <<intent, settled, phase, stray>>
    BY <1>10 DEF LeaveCompletes
  <2>. QED BY <1>n, <2>1, TurnType DEF Types, Revisions, Waits, Believes, AllRoles
<1>11. CASE LeaveFails
  <2>1. /\ session' \in Sessions
        /\ \/ session' = NoSession
           \/ /\ session'.role = session.role
              /\ session'.published \subseteq session.published
    BY <1>11, <1>n DEF LeaveFails, Types, Sessions
  <2>2. Fail /\ UNCHANGED <<intent, belief, stray>>
    BY <1>11 DEF LeaveFails
  <2>. QED BY <1>n, <2>1, <2>2, FailType
           DEF Types, Workers, Intents, Revisions, Waits, Believes, belief
<1>12. ASSUME worker.at = "setting"
       PROVE  /\ Switched(worker.kind) \in Sessions
              /\ Switched(worker.kind).role = session.role
              /\ Switched(worker.kind).published # {} =>
                    session.role = joinedRole /\ joinedRole \in Publishers
  <2>1. CASE session.role = NoRole \/ worker.kind \in enabled
    BY <1>s, <1>12, <2>1 DEF Switched, Types, Believes
  <2>2. CASE session.role # NoRole /\ worker.kind \notin enabled
    BY <1>12, <2>2 DEF Switched, Types, Sessions, Waits, Believes, Kinds
  <2>. QED BY <2>1, <2>2
<1>13. CASE SetCompletes
  <2>1. /\ Turn /\ worker.at = "setting"
        /\ session' = Switched(worker.kind)
        /\ enabled' = IF worker.kind \in enabled THEN enabled \ {worker.kind}
                       ELSE enabled \cup {worker.kind}
        /\ UNCHANGED <<intent, settled, phase, joinedRole, stray>>
    BY <1>13 DEF SetCompletes
  <2>2. enabled' \in SUBSET Kinds
    BY <2>1 DEF Types, Waits
  <2>. QED BY <2>1, <2>2, <1>12, TurnType DEF Types, Revisions, Waits, Believes
<1>14. CASE SetFails
  <2>1. /\ Fail /\ worker.at = "setting"
        /\ session' \in {session, Switched(worker.kind)}
        /\ UNCHANGED <<intent, belief, stray>>
    BY <1>14 DEF SetFails
  <2>. QED BY <2>1, <1>12, FailType DEF Types, Workers, Intents, Revisions, Waits, Believes, belief
<1>. QED BY <1>1, <1>2, <1>3, <1>4, <1>5, <1>6, <1>7, <1>8, <1>9, <1>10, <1>11,
            <1>13, <1>14 DEF Work

THEOREM Invariance == Spec => []IInv
<1>1. Init => IInv
  BY InitIInv
<1>2. IInv /\ [Next]_coordinatorVars => IInv'
  <2>. SUFFICES ASSUME IInv, [Next]_coordinatorVars PROVE IInv'
    OBVIOUS
  <2>1. CASE UpdateRoomBrainState \/ SetRequested \/ Stop
    BY <2>1, DecisionsAreIntents, IntendKeeps
  <2>2. CASE Work
    BY <2>2, WorkKeeps
  <2>3. CASE UNCHANGED coordinatorVars
    BY <2>3 DEF coordinatorVars, IInv, Types, Revisions, Waits, Believes, belief
  <2>. QED BY <2>1, <2>2, <2>3 DEF Next
<1>. QED BY <1>1, <1>2, PTL DEF Spec

-----------------------------------------------------------------------------
(* The properties *)

\* The variables keep their types; no pass is settled ahead of the intent.
THEOREM TypeCorrect == Spec => []TypeOK
<1>1. IInv => TypeOK
  BY DEF IInv, Types, Revisions, Waits, TypeOK, Phases, AllRoles, Workers, Places,
     Sessions, Intents
<1>. QED BY <1>1, Invariance, PTL

\* The finally clause of ensureWorker and the check before settling lose no
\* change, however many come in while a pass awaits the provider.
THEOREM NoChangeIsIgnored == Spec => []NoChangeIgnored
<1>1. IInv => NoChangeIgnored
  BY DEF IInv, Revisions, NoChangeIgnored
<1>. QED BY <1>1, Invariance, PTL

\* Only a host, moderator or speaker ever publishes, also while the room
\* changes the role under an open session and calls of the device fail.
THEOREM PublicationIsAllowed == Spec => []PublishesAsAllowed
<1>1. IInv => PublishesAsAllowed
  BY DEF IInv, Believes, PublishesAsAllowed
<1>. QED BY <1>1, Invariance, PTL

\* The provider is joined only under the role and the sequence of the moment,
\* and only when the provider has no handle of a session.
THEOREM JoinsAreCurrent == Spec => JoinsUnderCurrentAuthority
<1>. DEFINE J == worker'.at = "joining" =>
                   \/ worker.at = "joining"
                   \/ /\ worker'.role = Wanted(intent')
                      /\ worker'.sequence = intent'.decision.sequence
                      /\ joinedRole' = NoRole /\ session' = NoSession
<1>1. IInv /\ [Next]_coordinatorVars => [J]_coordinatorVars
  <2>. SUFFICES ASSUME IInv, Next, worker'.at = "joining", worker.at # "joining"
                PROVE  J
    OBVIOUS
  <2>. USE DEF IInv
  <2>1. \A i \in Intents : ~ Intend(i)
    <3>. SUFFICES ASSUME NEW i \in Intents, Intend(i) PROVE FALSE
      OBVIOUS
    <3>1. intent' \in Intents
      BY DEF Intend, Intents, Types
    <3>2. Pass(intent').at # "joining"
      BY <3>1, PassWaits
    <3>. QED BY <3>2 DEF Intend
  <2>2. ~ (UpdateRoomBrainState \/ SetRequested \/ Stop)
    BY <2>1, DecisionsAreIntents
  <2>3. intent \in Intents /\ Pass(intent).at # "joining"
    BY PassWaits DEF Types
  <2>4. ~ (NextPass \/ Settle \/ WorkerEnds)
    BY <2>3 DEF NextPass, Settle, WorkerEnds, IdleAfter, Types, Workers
  <2>5. ~ Turn /\ ~ Fail
    BY TurnType, FailType
  <2>6. ~ (MuteCompletes \/ MuteFails)
    BY AfterMutingType DEF MuteCompletes, MuteFails
  <2>7. AuthorizationArrives
    BY <2>2, <2>4, <2>5, <2>6 DEF Next, Work, AuthorizationFails, JoinCompletes,
       JoinFails, LeaveCompletes, LeaveFails, SetCompletes, SetFails
  <2>8. /\ worker.at = "authorizing"
        /\ IsJoinStillAuthorized(worker)
        /\ worker' = [worker EXCEPT !.at = "joining"]
        /\ UNCHANGED <<intent, joinedRole, session>>
    BY <2>5, <2>7 DEF AuthorizationArrives, belief
  <2>9. worker'.role = worker.role /\ worker'.sequence = worker.sequence
    BY <2>8 DEF Types, Workers
  <2>10. joinedRole = NoRole /\ session = NoSession
    <3>1. joinedRole = NoRole /\ session.role = NoRole /\ session.published = {}
      BY <2>8, CoordinatorAssumption DEF Waits, Believes
    <3>. QED BY <3>1 DEF Types, Sessions, NoSession
  <2>. QED BY <2>8, <2>9, <2>10 DEF IsJoinStillAuthorized, Wanted
<1>. QED BY <1>1, Invariance, PTL DEF Spec, JoinsUnderCurrentAuthority

-----------------------------------------------------------------------------
(* A worker at rest *)

\* What the coordinator believes to hold is what intent i asks for.
InLine(i) ==
    /\ joinedRole = Wanted(i)
    /\ Wanted(i) # NoRole => enabled = MayPublish(i)

\* A pass that found nothing to do, and a worker that settled it, are in line
\* with the newest intent, unless the intent moved on or the pass threw.
Quiet ==
    (/\ worker.at \in {"checking", "ending", "idle"}
     /\ worker.revision = intent.revision
     /\ worker.at # "checking" => phase # "error")
    => InLine(intent)

\* Only a belief in line with the intent leaves a pass nothing to do.
LEMMA PassFindsNothing ==
    ASSUME NEW i \in Intents, Types, Pass(i).at = "checking"
    PROVE  InLine(i)
<1>1. CASE Wanted(i) = NoRole
  BY <1>1 DEF Pass, Leaving, At, AtKind, InLine
<1>2. CASE Wanted(i) # NoRole
  <2>1. /\ joinedRole = Wanted(i)
        /\ ("audio" \in enabled) = ("audio" \in MayPublish(i))
        /\ ("video" \in enabled) = ("video" \in MayPublish(i))
    BY <1>2 DEF Pass, Leaving, At, AtKind, LeavesForRole
  <2>2. enabled \subseteq Kinds /\ MayPublish(i) \subseteq Kinds
    BY DEF Types, MayPublish, Intents
  <2>3. \A k \in Kinds : k \in enabled <=> k \in MayPublish(i)
    BY <2>1, Zenon DEF Kinds
  <2>4. enabled = MayPublish(i)
    BY <2>2, <2>3
  <2>. QED BY <2>1, <2>4 DEF InLine
<1>. QED BY <1>1, <1>2

\* A pass that begins and waits to settle is quiet.
LEMMA PassIsQuiet ==
    ASSUME IInv, NEW i \in Intents, worker' = Pass(i), intent' = i,
           UNCHANGED belief
    PROVE  Quiet'
<1>1. /\ Pass(i).at \notin {"ending", "idle"}
      /\ Pass(i).at = "checking" => InLine(i)
  BY PassWaits, PassFindsNothing DEF IInv
<1>. QED BY <1>1 DEF Quiet, InLine, belief

\* No change of the intent and no step of the worker breaks it: what the worker
\* changes, it looks at again in another pass.
LEMMA NextQuiet ==
    ASSUME IInv, Quiet, [Next]_coordinatorVars
    PROVE  Quiet'
<1>0. intent \in Intents /\ worker \in Workers /\ Types
  BY DEF IInv, Types
<1>1. CASE UpdateRoomBrainState \/ SetRequested \/ Stop
  <2>1. PICK i \in Intents : Intend(i)
    BY <1>1, DecisionsAreIntents
  <2>2. intent' \in Intents /\ intent'.revision = intent.revision + 1
    BY <2>1 DEF Intend, Intents, IInv, Types
  <2>3. CASE worker.at = "idle"
    BY <2>1, <2>2, <2>3, PassIsQuiet DEF Intend
  <2>4. CASE worker.at # "idle"
    <3>1. worker' = worker /\ worker.revision < intent'.revision
      BY <2>1, <2>2, <2>4, <1>0 DEF Intend, IInv, Revisions, Intents, Workers
    <3>2. worker'.revision # intent'.revision
      BY <3>1, <2>2, <1>0 DEF Workers, Intents
    <3>. QED BY <3>2 DEF Quiet
  <2>. QED BY <2>3, <2>4
<1>2. ASSUME worker' = Pass(intent), UNCHANGED <<intent, belief>>
      PROVE  Quiet'
  BY <1>0, <1>2, PassIsQuiet
<1>3. CASE NextPass
  BY <1>2, <1>3 DEF NextPass
<1>4. CASE Settle
  <2>1. CASE worker.revision = intent.revision
    <3>1. InLine(intent) /\ UNCHANGED <<intent, belief>>
      BY <1>4, <2>1 DEF Settle, Quiet
    <3>. QED BY <3>1 DEF Quiet, InLine, belief
  <2>2. CASE worker.revision # intent.revision
    BY <1>2, <1>4, <2>2 DEF Settle
  <2>. QED BY <2>1, <2>2
<1>5. CASE WorkerEnds
  <2>1. CASE IsSettled
    <3>1. /\ worker.revision = intent.revision /\ worker.at = "ending"
          /\ UNCHANGED <<intent, phase, belief>> /\ worker' = IdleAfter(worker.revision)
      BY <1>5, <2>1 DEF WorkerEnds, IsSettled, IInv, Revisions
    <3>2. worker'.at = "idle"
      BY <3>1 DEF IdleAfter
    <3>. QED BY <3>1, <3>2 DEF Quiet, InLine, belief
  <2>2. CASE ~IsSettled
    BY <1>2, <1>5, <2>2 DEF WorkerEnds
  <2>. QED BY <2>1, <2>2
<1>6. ASSUME Turn \/ Fail
      PROVE  Quiet'
  BY <1>0, <1>6, TurnType, FailType DEF Quiet, Fail
<1>7. CASE AuthorizationArrives
  <2>1. Turn \/ worker'.at = "joining"
    BY <1>0, <1>7 DEF AuthorizationArrives, Workers
  <2>. QED BY <1>6, <2>1 DEF Quiet
<1>8. CASE MuteCompletes \/ MuteFails
  <2>1. worker' = AfterMuting(worker) /\ worker.at = "muting"
    BY <1>8 DEF MuteCompletes, MuteFails
  <2>2. worker'.at \in {"muting", "leaving"}
    BY <1>0, <2>1, AfterMutingType DEF IInv
  <2>. QED BY <2>2 DEF Quiet
<1>9. CASE AuthorizationFails \/ JoinCompletes \/ JoinFails \/ LeaveCompletes
             \/ LeaveFails \/ SetCompletes \/ SetFails
  BY <1>6, <1>9 DEF AuthorizationFails, JoinCompletes, JoinFails, LeaveCompletes,
     LeaveFails, SetCompletes, SetFails
<1>10. CASE UNCHANGED coordinatorVars
  BY <1>10 DEF coordinatorVars, belief, Quiet, InLine
<1>. QED BY <1>1, <1>3, <1>4, <1>5, <1>7, <1>8, <1>9, <1>10 DEF Next, Work

\* A worker that rests without an error believes to hold the role and the
\* publications that room and user want, whatever came in while it worked, and
\* holds a session in no other role.
THEOREM RestingIsInLine == Spec => []RestsInLine
<1>1. Init => Quiet
  BY DEF Init, Quiet, InLine, IdleAfter, Wanted, NothingShown
<1>2. IInv /\ Quiet => RestsInLine
  BY DEF IInv, Revisions, Believes, Quiet, InLine, RestsInLine
<1>. QED BY <1>1, <1>2, NextQuiet, Invariance, PTL DEF Spec

=============================================================================
