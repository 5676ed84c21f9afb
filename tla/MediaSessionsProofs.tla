------------------------- MODULE MediaSessionsProofs -------------------------
(***************************************************************************)
(* Theorems about MediaSessions, for any numbers of exchanges, revocations *)
(* and passes, any bound on the handles and any number of failures.        *)
(***************************************************************************)
EXTENDS MediaSessions, TLAPS

-----------------------------------------------------------------------------
(* Types *)

RowType == [Exchanges -> [state : RowStates, current : BOOLEAN]]

\* A registration keeps rows of their type and makes the only current row.
LEMMA RegisteredRows ==
    ASSUME TypeOK, NEW e \in Exchanges
    PROVE  /\ Registered(e) \in RowType
           /\ Registered(e)[e] = NewRow
           /\ \A p \in Exchanges \ {e} :
                 /\ Registered(e)[p].state = row[p].state
                 /\ ~Registered(e)[p].current
<1>0. row \in RowType
  BY DEF TypeOK, RowType
<1>1. \A p \in Exchanges :
        [row[p] EXCEPT !.current = FALSE] \in [state : RowStates, current : BOOLEAN]
  BY <1>0 DEF RowType
<1>2. Registered(e) \in RowType
  BY <1>1 DEF RowType, Registered, NewRow, RowStates
<1>3. \A p \in Exchanges \ {e} :
        Registered(e)[p].state = row[p].state /\ ~Registered(e)[p].current
  BY DEF TypeOK, Registered
<1>. QED
  BY <1>2, <1>3 DEF Registered

\* A mark keeps rows of their type and touches no other row.
LEMMA MarkedRows ==
    ASSUME TypeOK, NEW e \in Exchanges
    PROVE  /\ MarkedRevoked(e) \in RowType
           /\ \A p \in Exchanges \ {e} : MarkedRevoked(e)[p] = row[p]
           /\ \/ MarkedRevoked(e)[e] = [state |-> "revoked", current |-> FALSE]
              \/ ~Unrevoked(e) /\ MarkedRevoked(e)[e] = row[e]
BY DEF TypeOK, RowType, MarkedRevoked, RowStates

\* A request keeps rows of their type, current and unrevoked.
LEMMA RequestedRows ==
    ASSUME TypeOK, NEW e \in Exchanges
    PROVE  /\ Requested(e) \in RowType
           /\ \A p \in Exchanges :
                 /\ Requested(e)[p].current = row[p].current
                 /\ \/ Requested(e)[p].state = row[p].state
                    \/ Unrevoked(p) /\ Requested(e)[p].state = "requested"
BY DEF TypeOK, RowType, Requested, RowStates, Unrevoked

\* So does a claim.
LEMMA ClaimedRows ==
    ASSUME TypeOK
    PROVE  LET c == Claimed({e \in Exchanges : Due(e)})
           IN  /\ c \in RowType
               /\ \A p \in Exchanges :
                     /\ c[p].current = row[p].current
                     /\ \/ c[p].state = row[p].state
                        \/ Unrevoked(p) /\ c[p].state = "leased"
BY DEF TypeOK, RowType, Claimed, Due, RowStates, Unrevoked

\* What each operation makes of the state of a row.
LEMMA RowOperations ==
    ASSUME TypeOK, NEW e \in Exchanges, NEW p \in Exchanges
    PROVE  /\ Registered(e)[p].state = IF p = e THEN "tracked" ELSE row[p].state
           /\ MarkedRevoked(e)[p].state =
                IF p = e /\ Unrevoked(p) THEN "revoked" ELSE row[p].state
           /\ Requested(e)[p].state =
                IF p = e /\ Unrevoked(p) THEN "requested" ELSE row[p].state
           /\ Claimed({q \in Exchanges : Due(q)})[p].state =
                IF Due(p) THEN "leased" ELSE row[p].state
           /\ [row EXCEPT ![e].state = "requested"][p].state =
                IF p = e THEN "requested" ELSE row[p].state
<1>t. row \in RowType
  BY DEF TypeOK, RowType
<1>1. Registered(e)[p].state = IF p = e THEN "tracked" ELSE row[p].state
  BY RegisteredRows DEF NewRow
<1>2. MarkedRevoked(e)[p].state =
        IF p = e /\ Unrevoked(p) THEN "revoked" ELSE row[p].state
  BY <1>t DEF MarkedRevoked, RowType
<1>3. Requested(e)[p].state =
        IF p = e /\ Unrevoked(p) THEN "requested" ELSE row[p].state
  BY <1>t DEF Requested, RowType
<1>4. Claimed({q \in Exchanges : Due(q)})[p].state =
        IF Due(p) THEN "leased" ELSE row[p].state
  BY <1>t DEF Claimed, RowType
<1>5. [row EXCEPT ![e].state = "requested"][p].state =
        IF p = e THEN "requested" ELSE row[p].state
  BY <1>t DEF RowType
<1>. QED
  BY <1>1, <1>2, <1>3, <1>4, <1>5

LEMMA DeletedParticipants ==
    ASSUME TypeOK, NEW e \in Exchanges
    PROVE  /\ Deleted(e) \in [Exchanges -> {"none", "live", "deleted"}]
           /\ Deleted(e)[e] = "deleted"
           /\ \A p \in Exchanges \ {e} : Deleted(e)[p] = participant[p]
BY DEF TypeOK, Deleted

\* What is left of TypeOK when only the rows are looked at.
RowsOK ==
    /\ row \in RowType
    /\ \A p \in Exchanges : row[p].current => Unrevoked(p)
    /\ \A p, q \in Exchanges : row[p].current /\ row[q].current => p = q

ExchangeRecord == [at : ExchangePlaces, sequence : Nat,
                   todo : SUBSET Exchanges, target : SUBSET Exchanges]

JobRecord == [at : JobPlaces, sequence : Nat, todo : SUBSET Exchanges,
              target : SUBSET Exchanges, clean : BOOLEAN]

\* What it says of the other variables.
OthersOK ==
    /\ authority \in [sequence : Nat, present : BOOLEAN]
    /\ participant \in [Exchanges -> {"none", "live", "deleted"}]
    /\ exchange \in [Exchanges -> ExchangeRecord]
    /\ delivered \subseteq Exchanges
    /\ job \in [Jobs -> JobRecord]

LEMMA TypeParts == TypeOK <=> RowsOK /\ OthersOK
BY DEF TypeOK, RowsOK, OthersOK, RowType, ExchangeRecord, JobRecord

\* A step changes the rows by one of five operations.
RowStep ==
    \/ row' = row
    \/ \E e \in Exchanges : row' \in {Registered(e), MarkedRevoked(e), Requested(e)}
    \/ row' = Claimed({e \in Exchanges : Due(e)})
    \/ \E e \in Exchanges : /\ row[e].state = "leased"
                            /\ row' = [row EXCEPT ![e].state = "requested"]

LEMMA NextRowStep == TypeOK /\ Next => RowStep
<1>. SUFFICES ASSUME TypeOK, Next PROVE RowStep
  OBVIOUS
<1>1. CASE AuthorityChanges
  BY <1>1 DEF AuthorityChanges, RowStep
<1>2. ASSUME NEW e \in Exchanges, ExchangeStep(e) PROVE RowStep
  BY <1>2 DEF RowStep, TypeOK, ExchangeStep,
     Begin, ProviderCreates, ProviderFails, Register, RegisterFails, CompensateUntracked, CompensateUntrackedFails, RevokePrevious, RevokePreviousFails, MarkPrevious, MarkPreviousFails, Verify, VerifyFails, Deliver, Refuse, ConfirmFails, RevokeSelf, MarkSelf, CleanUpFails, ExchangeDies
<1>3. ASSUME NEW e \in Exchanges, LeaseExpires(e) PROVE RowStep
  BY <1>3 DEF LeaseExpires, RowStep
<1>4. ASSUME NEW r \in Revocations, List(r) PROVE RowStep
  BY <1>4 DEF List, RowStep
<1>5. ASSUME NEW p \in Passes, Claim(p) PROVE RowStep
  BY <1>5 DEF Claim, RowStep
<1>6. ASSUME NEW j \in Jobs, JobStep(j) \/ JobDies(j) PROVE RowStep
  BY <1>6 DEF RowStep, TypeOK, JobStep, Take, RevokeTarget, MarkTarget,
     TargetFails, Finish, JobDies
<1>. QED
  BY <1>1, <1>2, <1>3, <1>4, <1>5, <1>6 DEF Next

LEMMA RowsStayOK == TypeOK /\ RowStep => RowsOK'
<1>. SUFFICES ASSUME TypeOK, RowStep PROVE RowsOK'
  OBVIOUS
<1>0. RowsOK
  BY TypeParts
<1>1. CASE row' = row
  BY <1>0, <1>1 DEF RowsOK, RowType, Unrevoked
<1>2. ASSUME NEW e \in Exchanges, row' = Registered(e) PROVE RowsOK'
  BY <1>0, <1>2, RegisteredRows DEF RowsOK, Unrevoked, NewRow
<1>3. ASSUME NEW e \in Exchanges, row' = MarkedRevoked(e) PROVE RowsOK'
  BY <1>0, <1>3, MarkedRows DEF RowsOK, Unrevoked
<1>4. ASSUME NEW e \in Exchanges, row' = Requested(e) PROVE RowsOK'
  BY <1>0, <1>4, RequestedRows DEF RowsOK, Unrevoked
<1>5. CASE row' = Claimed({e \in Exchanges : Due(e)})
  BY <1>0, <1>5, ClaimedRows DEF RowsOK, Unrevoked
<1>6. ASSUME NEW e \in Exchanges, row[e].state = "leased",
             row' = [row EXCEPT ![e].state = "requested"]
      PROVE  RowsOK'
  BY <1>0, <1>6 DEF RowsOK, RowType, RowStates, Unrevoked
<1>. QED
  BY <1>1, <1>2, <1>3, <1>4, <1>5, <1>6 DEF RowStep

\* The updates the actions make of the record of an exchange.
LEMMA ExchangeUpdates ==
    ASSUME NEW x \in ExchangeRecord, NEW a \in ExchangePlaces, NEW n \in Nat,
           NEW s \in SUBSET Exchanges, NEW t \in SUBSET Exchanges
    PROVE  /\ [x EXCEPT !.at = a] \in ExchangeRecord
           /\ [x EXCEPT !.at = a, !.sequence = n] \in ExchangeRecord
           /\ [x EXCEPT !.at = a, !.todo = s] \in ExchangeRecord
           /\ [x EXCEPT !.at = a, !.target = t] \in ExchangeRecord
           /\ [x EXCEPT !.at = a, !.todo = s, !.target = t] \in ExchangeRecord
           /\ [NewExchange EXCEPT !.at = a] \in ExchangeRecord
BY DEF ExchangeRecord, NewExchange, ExchangePlaces

\* A step of an exchange sets its record.
LEMMA ExchangesStayOK ==
    ASSUME exchange \in [Exchanges -> ExchangeRecord], authority.sequence \in Nat,
           NEW e \in Exchanges, ExchangeStep(e)
    PROVE  exchange' \in [Exchanges -> ExchangeRecord]
<1>. SUFFICES \E y \in ExchangeRecord : exchange' = [exchange EXCEPT ![e] = y]
  OBVIOUS
<1>x. exchange[e] \in ExchangeRecord
  OBVIOUS
<1>p. \A s : NextPlace(s) \in ExchangePlaces
  BY DEF NextPlace, ExchangePlaces
<1>s. /\ exchange[e].todo \in SUBSET Exchanges
      /\ exchange[e].target \in SUBSET Exchanges
      /\ {} \in SUBSET Exchanges
  BY <1>x DEF ExchangeRecord
<1>1. CASE Begin(e)
  <2>1. [exchange[e] EXCEPT !.at = "granted", !.sequence = authority.sequence]
          \in ExchangeRecord
    BY <1>x, <1>s, ExchangeUpdates DEF ExchangePlaces
  <2>. QED
    BY <1>1, <2>1 DEF Begin
<1>2. CASE Register(e)
  <2>1. Handles \in SUBSET Exchanges
    BY DEF Handles
  <2>2. [exchange[e] EXCEPT !.at = NextPlace(Handles), !.todo = Handles]
          \in ExchangeRecord
    BY <1>x, <1>p, <1>s, <2>1, ExchangeUpdates
  <2>. QED
    BY <1>2, <2>2 DEF Register
<1>3. CASE RevokePrevious(e)
  <2>1. PICK p \in exchange[e].todo :
          exchange' = [exchange EXCEPT ![e] = [exchange[e] EXCEPT !.at = "marking",
                                                                 !.target = {p}]]
    BY <1>3 DEF RevokePrevious
  <2>2. {p} \in SUBSET Exchanges
    BY <1>s, <2>1
  <2>3. [exchange[e] EXCEPT !.at = "marking", !.target = {p}] \in ExchangeRecord
    BY <1>x, <1>s, <2>2, ExchangeUpdates DEF ExchangePlaces
  <2>. QED
    BY <2>1, <2>3
<1>4. CASE MarkPrevious(e)
  <2>1. PICK p \in exchange[e].target :
          exchange' = [exchange EXCEPT ![e] =
                         [exchange[e] EXCEPT !.at = NextPlace(exchange[e].todo \ {p}),
                                             !.todo = exchange[e].todo \ {p},
                                             !.target = {}]]
    BY <1>4 DEF MarkPrevious
  <2>2. exchange[e].todo \ {p} \in SUBSET Exchanges
    BY <1>s
  <2>3. [exchange[e] EXCEPT !.at = NextPlace(exchange[e].todo \ {p}),
                            !.todo = exchange[e].todo \ {p},
                            !.target = {}] \in ExchangeRecord
    BY <1>x, <1>p, <1>s, <2>2, ExchangeUpdates
  <2>. QED
    BY <2>1, <2>3
<1>5. CASE RevokePreviousFails(e)
  <2>1. [exchange[e] EXCEPT !.at = "revoking", !.todo = {}, !.target = {}]
          \in ExchangeRecord
    BY <1>x, <1>s, ExchangeUpdates DEF ExchangePlaces
  <2>. QED
    BY <1>5, <2>1 DEF RevokePreviousFails, AfterFailedReplacement
<1>6. CASE MarkPreviousFails(e)
  <2>1. [exchange[e] EXCEPT !.at = "revoking", !.todo = {}, !.target = {}]
          \in ExchangeRecord
    BY <1>x, <1>s, ExchangeUpdates DEF ExchangePlaces
  <2>. QED
    BY <1>6, <2>1 DEF MarkPreviousFails, AfterFailedReplacement
<1>7. ASSUME NEW a \in ExchangePlaces, Goes(e, a) \/ Ends(e, a)
      PROVE  \E y \in ExchangeRecord : exchange' = [exchange EXCEPT ![e] = y]
  <2>1. [exchange[e] EXCEPT !.at = a] \in ExchangeRecord
    BY <1>x, <1>s, ExchangeUpdates
  <2>2. [NewExchange EXCEPT !.at = a] \in ExchangeRecord
    BY <1>x, <1>s, ExchangeUpdates
  <2>. QED
    BY <1>7, <2>1, <2>2 DEF Goes, Ends
<1>8. ASSUME \/ ProviderCreates(e) \/ ProviderFails(e) \/ RegisterFails(e)
             \/ CompensateUntracked(e) \/ CompensateUntrackedFails(e)
             \/ Verify(e) \/ VerifyFails(e) \/ Deliver(e) \/ Refuse(e)
             \/ ConfirmFails(e) \/ RevokeSelf(e) \/ MarkSelf(e)
             \/ CleanUpFails(e) \/ ExchangeDies(e)
      PROVE  \E a \in ExchangePlaces : Goes(e, a) \/ Ends(e, a)
  BY <1>8 DEF ExchangePlaces, ProviderCreates, ProviderFails, RegisterFails,
     CompensateUntracked, CompensateUntrackedFails, Verify, VerifyFails, Deliver,
     Refuse, ConfirmFails, RevokeSelf, MarkSelf, CleanUpFails, ExchangeDies
<1>. QED
  BY <1>1, <1>2, <1>3, <1>4, <1>5, <1>6, <1>7, <1>8 DEF ExchangeStep

\* The updates the actions make of the record of a job.
LEMMA JobUpdates ==
    ASSUME NEW x \in JobRecord, NEW a \in JobPlaces, NEW n \in Nat, NEW b \in BOOLEAN,
           NEW s \in SUBSET Exchanges, NEW t \in SUBSET Exchanges
    PROVE  /\ [x EXCEPT !.at = a] \in JobRecord
           /\ [x EXCEPT !.at = a, !.todo = s] \in JobRecord
           /\ [x EXCEPT !.at = a, !.target = t] \in JobRecord
           /\ [x EXCEPT !.at = a, !.target = t, !.todo = s] \in JobRecord
           /\ [x EXCEPT !.at = a, !.target = t, !.todo = s, !.clean = b] \in JobRecord
           /\ NewJob \in JobRecord
           /\ [NewJob EXCEPT !.at = a] \in JobRecord
           /\ [NewJob EXCEPT !.at = a, !.todo = s, !.sequence = n] \in JobRecord
BY DEF JobRecord, NewJob, JobPlaces

\* A step of a job sets its record.
LEMMA JobsStayOK ==
    ASSUME job \in [Jobs -> JobRecord], NEW j \in Jobs, JobStep(j) \/ JobDies(j)
    PROVE  job' \in [Jobs -> JobRecord]
<1>. SUFFICES \E y \in JobRecord : job' = [job EXCEPT ![j] = y]
  OBVIOUS
<1>x. job[j] \in JobRecord
  OBVIOUS
<1>s. /\ job[j].todo \in SUBSET Exchanges
      /\ {} \in SUBSET Exchanges
      /\ job[j].todo \ job[j].target \in SUBSET Exchanges
  BY <1>x DEF JobRecord
<1>1. CASE Take(j)
  <2>1. PICK e \in job[j].todo :
          job' = [job EXCEPT ![j] = [job[j] EXCEPT !.at = "revoking", !.target = {e}]]
    BY <1>1 DEF Take
  <2>2. {e} \in SUBSET Exchanges
    BY <1>s, <2>1
  <2>3. [job[j] EXCEPT !.at = "revoking", !.target = {e}] \in JobRecord
    BY <1>x, <1>s, <2>2, JobUpdates DEF JobPlaces
  <2>. QED
    BY <2>1, <2>3
<1>2. CASE RevokeTarget(j)
  <2>1. [job[j] EXCEPT !.at = "marking"] \in JobRecord
    BY <1>x, <1>s, JobUpdates DEF JobPlaces
  <2>. QED
    BY <1>2, <2>1 DEF RevokeTarget
<1>3. CASE MarkTarget(j)
  <2>1. [job[j] EXCEPT !.at = "listed", !.target = {},
                       !.todo = job[j].todo \ job[j].target] \in JobRecord
    BY <1>x, <1>s, JobUpdates DEF JobPlaces
  <2>. QED
    BY <1>3, <2>1 DEF MarkTarget
<1>4. CASE TargetFails(j)
  <2>1. [job[j] EXCEPT !.at = "listed", !.target = {},
                       !.todo = job[j].todo \ job[j].target,
                       !.clean = FALSE] \in JobRecord
    BY <1>x, <1>s, JobUpdates DEF JobPlaces
  <2>. QED
    BY <1>4, <2>1 DEF TargetFails
<1>5. /\ NewJob \in JobRecord
      /\ [job[j] EXCEPT !.at = "done"] \in JobRecord
      /\ [NewJob EXCEPT !.at = "failed"] \in JobRecord
  BY <1>x, <1>s, JobUpdates DEF JobPlaces
<1>6. CASE Finish(j)
  BY <1>5, <1>6 DEF Finish
<1>7. CASE JobDies(j)
  BY <1>5, <1>7 DEF JobDies
<1>. QED
  BY <1>1, <1>2, <1>3, <1>4, <1>6, <1>7 DEF JobStep

\* A step changes the participants by a creation or a deletion.
ParticipantStep ==
    \/ participant' = participant
    \/ \E e \in Exchanges, s \in {"none", "live"} :
          /\ exchange[e].at = "granted"
          /\ participant' = [participant EXCEPT ![e] = s]
    \/ \E e \in Exchanges : participant' = Deleted(e)

LEMMA NextParticipantStep == TypeOK /\ Next => ParticipantStep
<1>. SUFFICES ASSUME TypeOK, Next PROVE ParticipantStep
  OBVIOUS
<1>1. CASE AuthorityChanges
  BY <1>1 DEF AuthorityChanges, ParticipantStep
<1>2. ASSUME NEW e \in Exchanges, ExchangeStep(e) PROVE ParticipantStep
  BY <1>2 DEF ParticipantStep, TypeOK, ExchangeStep,
     Begin, ProviderCreates, ProviderFails, Register, RegisterFails, CompensateUntracked, CompensateUntrackedFails,
     RevokePrevious, RevokePreviousFails, MarkPrevious, MarkPreviousFails, Verify, VerifyFails,
     Deliver, Refuse, ConfirmFails, RevokeSelf, MarkSelf, CleanUpFails, ExchangeDies
<1>3. ASSUME NEW e \in Exchanges, LeaseExpires(e) PROVE ParticipantStep
  BY <1>3 DEF LeaseExpires, ParticipantStep
<1>4. ASSUME NEW r \in Revocations, List(r) PROVE ParticipantStep
  BY <1>4 DEF List, ParticipantStep
<1>5. ASSUME NEW p \in Passes, Claim(p) PROVE ParticipantStep
  BY <1>5 DEF Claim, ParticipantStep
<1>6. ASSUME NEW j \in Jobs, JobStep(j) \/ JobDies(j) PROVE ParticipantStep
  BY <1>6 DEF ParticipantStep, TypeOK, JobStep, Take, RevokeTarget, MarkTarget,
     TargetFails, Finish, JobDies
<1>. QED
  BY <1>1, <1>2, <1>3, <1>4, <1>5, <1>6 DEF Next

LEMMA OthersStayOK == TypeOK /\ Next => OthersOK'
<1>. SUFFICES ASSUME TypeOK, Next PROVE OthersOK'
  OBVIOUS
<1>0. OthersOK
  BY TypeParts
<1>p. participant' \in [Exchanges -> {"none", "live", "deleted"}]
  BY <1>0, NextParticipantStep, DeletedParticipants DEF ParticipantStep, OthersOK
<1>a. authority.sequence \in Nat
  BY <1>0 DEF OthersOK
<1>1. CASE AuthorityChanges
  BY <1>0, <1>1 DEF AuthorityChanges, OthersOK
<1>2. ASSUME NEW e \in Exchanges, ExchangeStep(e) PROVE OthersOK'
  <2>1. exchange' \in [Exchanges -> ExchangeRecord]
    BY <1>0, <1>2, <1>a, ExchangesStayOK DEF OthersOK
  <2>2. /\ UNCHANGED <<authority, job>>
        /\ delivered' \in {delivered, delivered \cup {e}}
    BY <1>2 DEF ExchangeStep,
     Begin, ProviderCreates, ProviderFails, Register, RegisterFails, CompensateUntracked, CompensateUntrackedFails,
     RevokePrevious, RevokePreviousFails, MarkPrevious, MarkPreviousFails, Verify, VerifyFails,
     Deliver, Refuse, ConfirmFails, RevokeSelf, MarkSelf, CleanUpFails, ExchangeDies
  <2>. QED
    BY <1>0, <1>p, <2>1, <2>2 DEF OthersOK
<1>3. ASSUME NEW e \in Exchanges, LeaseExpires(e) PROVE OthersOK'
  BY <1>0, <1>3 DEF LeaseExpires, OthersOK
<1>4. ASSUME NEW r \in Revocations, List(r) PROVE OthersOK'
  <2>1. Handles \subseteq Exchanges
    BY DEF Handles
  <2>2. /\ [NewJob EXCEPT !.at = "failed"] \in JobRecord
        /\ [NewJob EXCEPT !.at = "listed", !.todo = Handles,
                          !.sequence = authority.sequence] \in JobRecord
    BY <1>a, <2>1 DEF NewJob, JobPlaces, JobRecord
  <2>3. job' \in [Jobs -> JobRecord]
    BY <1>0, <1>4, <2>2 DEF List, OthersOK, Jobs
  <2>. QED
    BY <1>0, <1>4, <2>3 DEF List, OthersOK
<1>5. ASSUME NEW p \in Passes, Claim(p) PROVE OthersOK'
  <2>1. job[p] \in JobRecord
    BY <1>0 DEF OthersOK, Jobs
  <2>2. [job[p] EXCEPT !.at = "listed", !.todo = {e \in Exchanges : Due(e)}]
          \in JobRecord
    BY <2>1 DEF JobRecord, JobPlaces
  <2>3. job' \in [Jobs -> JobRecord]
    BY <1>0, <1>5, <2>2 DEF Claim, OthersOK, Jobs
  <2>. QED
    BY <1>0, <1>5, <2>3 DEF Claim, OthersOK
<1>6. ASSUME NEW j \in Jobs, JobStep(j) \/ JobDies(j) PROVE OthersOK'
  <2>1. job' \in [Jobs -> JobRecord]
    BY <1>0, <1>6, JobsStayOK DEF OthersOK
  <2>2. UNCHANGED <<authority, exchange, delivered>>
    BY <1>6 DEF JobStep, Take, RevokeTarget, MarkTarget, TargetFails, Finish, JobDies
  <2>. QED
    BY <1>0, <1>p, <2>1, <2>2 DEF OthersOK
<1>. QED
  BY <1>1, <1>2, <1>3, <1>4, <1>5, <1>6 DEF Next

\* The variables keep their types, and one row at most is current, however
\* exchanges, revocations and passes overlap.
THEOREM SessionTypes == Spec => []TypeOK
<1>1. Init => TypeOK
  BY DEF Init, TypeOK, ExchangePlaces, JobPlaces, NewExchange, NewJob, RowStates
<1>2. TypeOK /\ [Next]_sessionsVars => TypeOK'
  <2>. SUFFICES ASSUME TypeOK, [Next]_sessionsVars PROVE TypeOK'
    OBVIOUS
  <2>1. CASE Next
    BY <2>1, NextRowStep, RowsStayOK, OthersStayOK
       DEF TypeOK, RowsOK, OthersOK, RowType, ExchangeRecord, JobRecord
  <2>2. CASE UNCHANGED sessionsVars
    BY <2>2 DEF sessionsVars, TypeOK, Unrevoked
  <2>. QED
    BY <2>1, <2>2
<1>. QED
  BY <1>1, <1>2, PTL DEF Spec

-----------------------------------------------------------------------------
(* The inductive invariant *)

Fresh == {"unused", "granted", "created"}

\* Places of an exchange whose participant is registered and may be delivered.
Active == {"replacing", "marking", "verifying", "confirming", "delivered"}

\* What the place of an exchange says of its participant and its row.
ExchangeFacts(e) ==
    /\ exchange[e].at \in {"unused", "granted"} => participant[e] = "none"
    /\ exchange[e].at \in Fresh => row[e].state = "none"
    /\ exchange[e].at \in Active \cup {"revoking", "markingSelf"} => row[e].state # "none"
    /\ exchange[e].at = "markingSelf" => participant[e] = "deleted"
    /\ exchange[e].at = "marking" =>
         \A p \in exchange[e].target : participant[p] = "deleted"
    /\ exchange[e].at \in {"verifying", "confirming", "delivered"} =>
         exchange[e].todo = {}
    /\ e \in delivered => exchange[e].at = "delivered"
    /\ row[e].state = "revoked" => participant[e] = "deleted"

\* A job is about one participant at a time; it marks what it has deleted.
JobFacts(j) ==
    /\ job[j].at = "revoking" => \A p, q \in job[j].target : p = q
    /\ job[j].at = "marking" => \A p \in job[j].target : participant[p] = "deleted"

\* Only participants that were tracked once are listed for their end.
Registrants(s) == \A p \in s : row[p].state # "none"

ListsRegistrants ==
    /\ \A e \in Exchanges : Registrants(exchange[e].todo \cup exchange[e].target)
    /\ \A j \in Jobs : Registrants(job[j].todo \cup job[j].target)

\* Of two active exchanges with live participants, one still has to end the
\* other: the one that registered later.
Behind(d, e) ==
    /\ exchange[d].at \in Active /\ participant[d] = "live"
    /\ exchange[e].at \in Active /\ participant[e] = "live"
    => d \in exchange[e].todo \/ e \in exchange[d].todo

\* What a revocation that has gone well so far still has to end.
Listing(r) ==
    /\ job[r].sequence <= authority.sequence
    /\ job[r].at = "done" => job[r].clean /\ job[r].todo = {}
    /\ job[r].at # "unused" /\ job[r].clean =>
         \A e \in delivered :
            participant[e] = "live" /\ exchange[e].sequence < job[r].sequence
              => e \in job[r].todo

IInv ==
    /\ TypeOK
    /\ \A e \in Exchanges : ExchangeFacts(e)
    /\ \A j \in Jobs : JobFacts(j)
    /\ ListsRegistrants
    /\ \A d, e \in Exchanges : d # e => Behind(d, e)
    /\ \A r \in Revocations : Listing(r)

-----------------------------------------------------------------------------
(* What steps never undo *)

\* A deleted participant stays deleted; only a granted exchange makes one live.
LEMMA DeletedStays ==
    ASSUME IInv, Next, NEW p \in Exchanges
    PROVE  /\ participant[p] = "deleted" => participant'[p] = "deleted"
           /\ participant'[p] = "live" => \/ participant[p] = "live"
                                         \/ exchange[p].at = "granted"
<1>1. ParticipantStep
  BY NextParticipantStep DEF IInv
<1>2. \A e \in Exchanges : exchange[e].at = "granted" => participant[e] = "none"
  BY DEF IInv, ExchangeFacts
<1>3. participant \in [Exchanges -> {"none", "live", "deleted"}]
  BY DEF IInv, TypeOK
<1>. QED
  BY <1>1, <1>2, <1>3 DEF ParticipantStep, Deleted

\* The steps of an exchange set its own record.
LEMMA OthersExchangesStay ==
    ASSUME TypeOK, NEW e \in Exchanges, ExchangeStep(e), NEW d \in Exchanges \ {e}
    PROVE  exchange'[d] = exchange[d]
BY DEF TypeOK, ExchangeStep, Goes, Ends, Begin, ProviderCreates, ProviderFails, Register, RegisterFails, CompensateUntracked, CompensateUntrackedFails,
     RevokePrevious, RevokePreviousFails, MarkPrevious, MarkPreviousFails, Verify, VerifyFails,
     Deliver, Refuse, ConfirmFails, RevokeSelf, MarkSelf, CleanUpFails, ExchangeDies

\* The exchange at whose step we look.
LEMMA ExchangeFactsStay ==
    ASSUME IInv, NEW e \in Exchanges, ExchangeStep(e), Next
    PROVE  ExchangeFacts(e)'
<1>t. /\ exchange \in [Exchanges -> ExchangeRecord]
      /\ participant \in [Exchanges -> {"none", "live", "deleted"}]
      /\ exchange[e].target \in SUBSET Exchanges
  BY DEF IInv, TypeOK, ExchangeRecord
<1>f. ExchangeFacts(e)
  BY DEF IInv
<1>d. \A p \in Exchanges : participant[p] = "deleted" => participant'[p] = "deleted"
  BY DeletedStays
<1>r. Registered(e)[e].state = "tracked"
  BY RowOperations DEF IInv
<1>m. \A p \in Exchanges :
        MarkedRevoked(p)[e].state =
          IF p = e /\ Unrevoked(e) THEN "revoked" ELSE row[e].state
  BY RowOperations DEF IInv
<1>x. Deleted(e)[e] = "deleted"
  BY DeletedParticipants DEF IInv
<1>1. CASE Begin(e)
  BY <1>t, <1>f, <1>d, <1>r, <1>m, <1>x, <1>1
     DEF Begin, ExchangeFacts, ExchangeRecord, Fresh, Active, Goes, Ends,
     NewExchange, NewRow, Unrevoked, Deleted
<1>2. CASE ProviderCreates(e)
  BY <1>t, <1>f, <1>d, <1>r, <1>m, <1>x, <1>2
     DEF ProviderCreates, ExchangeFacts, ExchangeRecord, Fresh, Active, Goes, Ends,
     NewExchange, NewRow, Unrevoked, Deleted
<1>3. CASE ProviderFails(e)
  BY <1>t, <1>f, <1>d, <1>r, <1>m, <1>x, <1>3
     DEF ProviderFails, ExchangeFacts, ExchangeRecord, Fresh, Active, Goes, Ends,
     NewExchange, NewRow, Unrevoked, Deleted
<1>4. CASE Register(e)
  BY <1>t, <1>f, <1>d, <1>r, <1>m, <1>x, <1>4
     DEF Register, ExchangeFacts, ExchangeRecord, Fresh, Active, Goes, Ends,
     NewExchange, NewRow, Unrevoked, Deleted, NextPlace
<1>5. CASE RegisterFails(e)
  BY <1>t, <1>f, <1>d, <1>r, <1>m, <1>x, <1>5
     DEF RegisterFails, ExchangeFacts, ExchangeRecord, Fresh, Active, Goes, Ends,
     NewExchange, NewRow, Unrevoked, Deleted
<1>6. CASE CompensateUntracked(e)
  BY <1>t, <1>f, <1>d, <1>r, <1>m, <1>x, <1>6
     DEF CompensateUntracked, ExchangeFacts, ExchangeRecord, Fresh, Active, Goes, Ends,
     NewExchange, NewRow, Unrevoked, Deleted
<1>7. CASE CompensateUntrackedFails(e)
  BY <1>t, <1>f, <1>d, <1>r, <1>m, <1>x, <1>7
     DEF CompensateUntrackedFails, ExchangeFacts, ExchangeRecord, Fresh, Active, Goes, Ends,
     NewExchange, NewRow, Unrevoked, Deleted
<1>8. CASE RevokePrevious(e)
  BY <1>t, <1>f, <1>d, <1>r, <1>m, <1>x, <1>8
     DEF RevokePrevious, ExchangeFacts, ExchangeRecord, Fresh, Active, Goes, Ends,
     NewExchange, NewRow, Unrevoked, Deleted
<1>9. CASE RevokePreviousFails(e)
  BY <1>t, <1>f, <1>d, <1>r, <1>m, <1>x, <1>9
     DEF RevokePreviousFails, ExchangeFacts, ExchangeRecord, Fresh, Active, Goes, Ends,
     NewExchange, NewRow, Unrevoked, Deleted, AfterFailedReplacement
<1>10. CASE MarkPrevious(e)
  BY <1>t, <1>f, <1>d, <1>r, <1>m, <1>x, <1>10
     DEF MarkPrevious, ExchangeFacts, ExchangeRecord, Fresh, Active, Goes, Ends,
     NewExchange, NewRow, Unrevoked, Deleted, NextPlace
<1>11. CASE MarkPreviousFails(e)
  BY <1>t, <1>f, <1>d, <1>r, <1>m, <1>x, <1>11
     DEF MarkPreviousFails, ExchangeFacts, ExchangeRecord, Fresh, Active, Goes, Ends,
     NewExchange, NewRow, Unrevoked, Deleted, AfterFailedReplacement
<1>12. CASE Verify(e)
  BY <1>t, <1>f, <1>d, <1>r, <1>m, <1>x, <1>12
     DEF Verify, ExchangeFacts, ExchangeRecord, Fresh, Active, Goes, Ends,
     NewExchange, NewRow, Unrevoked, Deleted
<1>13. CASE VerifyFails(e)
  BY <1>t, <1>f, <1>d, <1>r, <1>m, <1>x, <1>13
     DEF VerifyFails, ExchangeFacts, ExchangeRecord, Fresh, Active, Goes, Ends,
     NewExchange, NewRow, Unrevoked, Deleted
<1>14. CASE Deliver(e)
  BY <1>t, <1>f, <1>d, <1>r, <1>m, <1>x, <1>14
     DEF Deliver, ExchangeFacts, ExchangeRecord, Fresh, Active, Goes, Ends,
     NewExchange, NewRow, Unrevoked, Deleted
<1>15. CASE Refuse(e)
  BY <1>t, <1>f, <1>d, <1>r, <1>m, <1>x, <1>15
     DEF Refuse, ExchangeFacts, ExchangeRecord, Fresh, Active, Goes, Ends,
     NewExchange, NewRow, Unrevoked, Deleted
<1>16. CASE ConfirmFails(e)
  BY <1>t, <1>f, <1>d, <1>r, <1>m, <1>x, <1>16
     DEF ConfirmFails, ExchangeFacts, ExchangeRecord, Fresh, Active, Goes, Ends,
     NewExchange, NewRow, Unrevoked, Deleted
<1>17. CASE RevokeSelf(e)
  BY <1>t, <1>f, <1>d, <1>r, <1>m, <1>x, <1>17
     DEF RevokeSelf, ExchangeFacts, ExchangeRecord, Fresh, Active, Goes, Ends,
     NewExchange, NewRow, Unrevoked, Deleted
<1>18. CASE MarkSelf(e)
  BY <1>t, <1>f, <1>d, <1>r, <1>m, <1>x, <1>18
     DEF MarkSelf, ExchangeFacts, ExchangeRecord, Fresh, Active, Goes, Ends,
     NewExchange, NewRow, Unrevoked, Deleted
<1>19. CASE CleanUpFails(e)
  BY <1>t, <1>f, <1>d, <1>r, <1>m, <1>x, <1>19
     DEF CleanUpFails, ExchangeFacts, ExchangeRecord, Fresh, Active, Goes, Ends,
     NewExchange, NewRow, Unrevoked, Deleted
<1>20. CASE ExchangeDies(e)
  BY <1>t, <1>f, <1>d, <1>r, <1>m, <1>x, <1>20
     DEF ExchangeDies, Ended, ExchangeFacts, ExchangeRecord, Fresh, Active, Goes, Ends,
     NewExchange, NewRow, Unrevoked, Deleted
<1>. QED
  BY <1>1, <1>2, <1>3, <1>4, <1>5, <1>6, <1>7, <1>8, <1>9, <1>10, <1>11, <1>12, <1>13, <1>14, <1>15, <1>16, <1>17, <1>18, <1>19, <1>20 DEF ExchangeStep

\* A row that says revoked after a step said so before, or was marked after its
\* participant was deleted; a row never disappears, and only its own exchange
\* makes it.
LEMMA RowsStayTrue ==
    ASSUME IInv, Next, NEW p \in Exchanges
    PROVE  /\ row[p].state # "none" => row'[p].state # "none"
           /\ row'[p].state = "revoked" => participant'[p] = "deleted"
<1>t. row \in RowType
  BY DEF IInv, TypeOK, RowType
<1>o. TypeOK
  BY DEF IInv
<1>f. \A e \in Exchanges : ExchangeFacts(e)
  BY DEF IInv
<1>j. \A j \in Jobs : JobFacts(j)
  BY DEF IInv
<1>d. participant[p] = "deleted" => participant'[p] = "deleted"
  BY DeletedStays
<1>s. RowStep
  BY <1>o, NextRowStep
<1>a. \A e \in Exchanges :
        /\ Registered(e)[p].state = IF p = e THEN "tracked" ELSE row[p].state
        /\ MarkedRevoked(e)[p].state =
             IF p = e /\ Unrevoked(p) THEN "revoked" ELSE row[p].state
        /\ Requested(e)[p].state =
             IF p = e /\ Unrevoked(p) THEN "requested" ELSE row[p].state
        /\ [row EXCEPT ![e].state = "requested"][p].state =
             IF p = e THEN "requested" ELSE row[p].state
  BY <1>o, RowOperations
<1>c. Claimed({q \in Exchanges : Due(q)})[p].state =
        IF Due(p) THEN "leased" ELSE row[p].state
  BY <1>o, RowOperations
<1>1. row[p].state # "none" => row'[p].state # "none"
  <2>1. CASE row' = row
    BY <2>1
  <2>2. ASSUME NEW e \in Exchanges, row' = Registered(e)
        PROVE  row[p].state # "none" => row'[p].state # "none"
    BY <2>2, <1>a
  <2>3. ASSUME NEW e \in Exchanges, row' = MarkedRevoked(e)
        PROVE  row[p].state # "none" => row'[p].state # "none"
    BY <2>3, <1>a
  <2>4. ASSUME NEW e \in Exchanges, row' = Requested(e)
        PROVE  row[p].state # "none" => row'[p].state # "none"
    BY <2>4, <1>a
  <2>5. CASE row' = Claimed({e \in Exchanges : Due(e)})
    BY <2>5, <1>c
  <2>6. ASSUME NEW e \in Exchanges, row' = [row EXCEPT ![e].state = "requested"]
        PROVE  row[p].state # "none" => row'[p].state # "none"
    BY <2>6, <1>a
  <2>. QED
    BY <1>s, <2>1, <2>2, <2>3, <2>4, <2>5, <2>6 DEF RowStep
<1>2. ASSUME row'[p].state = "revoked", row[p].state # "revoked"
      PROVE  participant[p] = "deleted"
  <2>0. /\ row' # row
        /\ row' # Claimed({e \in Exchanges : Due(e)})
        /\ \A e \in Exchanges : row' # Registered(e) /\ row' # Requested(e)
        /\ \A e \in Exchanges : row' # [row EXCEPT ![e].state = "requested"]
        /\ \A e \in Exchanges : row' = MarkedRevoked(e) => e = p
    <3>1. row' # row
      BY <1>2
    <3>2. row' # Claimed({e \in Exchanges : Due(e)})
      BY <1>2, <1>c
    <3>3. ASSUME NEW e \in Exchanges
          PROVE  /\ row' # Registered(e) /\ row' # Requested(e)
                 /\ row' # [row EXCEPT ![e].state = "requested"]
                 /\ row' = MarkedRevoked(e) => e = p
      <4>1. row' # Registered(e)
        BY <1>2, <1>a
      <4>2. row' # Requested(e)
        BY <1>2, <1>a
      <4>3. ASSUME row' = [row EXCEPT ![e].state = "requested"] PROVE FALSE
        <5>1. row'[p].state = IF p = e THEN "requested" ELSE row[p].state
          BY <1>a, <4>3
        <5>. QED
          BY <1>2, <5>1
      <4>4. row' = MarkedRevoked(e) => e = p
        BY <1>2, <1>a
      <4>. QED
        BY <4>1, <4>2, <4>3, <4>4
    <3>. QED
      BY <3>1, <3>2, <3>3
  <2>1. ASSUME NEW e \in Exchanges, ExchangeStep(e) PROVE participant[p] = "deleted"
    <3>1. \/ MarkPrevious(e) \/ MarkPreviousFails(e) \/ MarkSelf(e)
          \/ (CleanUpFails(e) /\ exchange[e].at = "markingSelf")
      BY <2>0, <2>1 DEF ExchangeStep,
         Begin, ProviderCreates, ProviderFails, Register, RegisterFails, CompensateUntracked, CompensateUntrackedFails,
         RevokePrevious, RevokePreviousFails, MarkPrevious, MarkPreviousFails, Verify, VerifyFails,
         Deliver, Refuse, ConfirmFails, RevokeSelf, MarkSelf, CleanUpFails, ExchangeDies
    <3>2. exchange[e].target \subseteq Exchanges
      BY <1>o DEF TypeOK
    <3>3. CASE MarkPrevious(e) \/ MarkPreviousFails(e)
      <4>1. /\ exchange[e].at = "marking"
            /\ \E q \in exchange[e].target : row' = MarkedRevoked(q)
        BY <2>0, <3>3 DEF MarkPrevious, MarkPreviousFails
      <4>. QED
        BY <1>f, <2>0, <3>2, <4>1 DEF ExchangeFacts
    <3>4. CASE MarkSelf(e) \/ (CleanUpFails(e) /\ exchange[e].at = "markingSelf")
      <4>1. exchange[e].at = "markingSelf" /\ row' = MarkedRevoked(e)
        BY <2>0, <3>4 DEF MarkSelf, CleanUpFails
      <4>. QED
        BY <1>f, <2>0, <4>1 DEF ExchangeFacts
    <3>. QED
      BY <3>1, <3>3, <3>4
  <2>2. ASSUME NEW j \in Jobs, JobStep(j) \/ JobDies(j) PROVE participant[p] = "deleted"
    <3>1. \/ MarkTarget(j)
          \/ (TargetFails(j) /\ job[j].at = "marking")
          \/ Take(j)
      BY <2>0, <2>2 DEF JobStep, RevokeTarget, TargetFails, Finish, JobDies
    <3>2. job[j].target \subseteq Exchanges /\ job[j].todo \subseteq Exchanges
      BY <1>o DEF TypeOK
    <3>3. CASE MarkTarget(j)
      BY <1>j, <2>0, <3>2, <3>3 DEF MarkTarget, JobFacts
    <3>4. CASE TargetFails(j) /\ job[j].at = "marking"
      BY <1>j, <2>0, <3>2, <3>4 DEF TargetFails, JobFacts
    <3>5. CASE Take(j)
      BY <2>0, <3>2, <3>5 DEF Take
    <3>. QED
      BY <3>1, <3>3, <3>4, <3>5
  <2>. QED
    BY <2>0, <2>1, <2>2 DEF Next, AuthorityChanges, LeaseExpires, List, Claim
<1>. QED
  BY <1>1, <1>2, <1>d, <1>f DEF ExchangeFacts

\* Rows of exchanges that have not registered are not there.
LEMMA FreshRows ==
    ASSUME IInv, Next, NEW d \in Exchanges, row[d].state = "none",
           \A e \in Exchanges : ExchangeStep(e) => e # d
    PROVE  row'[d].state = "none"
<1>o. TypeOK
  BY DEF IInv
<1>t. row \in RowType
  BY <1>o DEF TypeOK, RowType
<1>1. RowStep
  BY <1>o, NextRowStep
<1>2. row' # Registered(d) \/ row' = row
  <2>1. ASSUME NEW e \in Exchanges, ExchangeStep(e), row' = Registered(d), row' # row
        PROVE  FALSE
    <3>1. d # e /\ Registered(d)[d].state = "tracked"
      BY <1>o, <2>1, RegisteredRows DEF NewRow
    <3>2. Registered(e)[d].state = "none" /\ MarkedRevoked(e)[d].state = "none"
      BY <1>o, <3>1, RegisteredRows, MarkedRows
    <3>3. \A p \in Exchanges : MarkedRevoked(p)[d].state # "tracked"
      BY <1>o, MarkedRows DEF Unrevoked
    <3>4. exchange[e].target \subseteq Exchanges
      BY <1>o DEF TypeOK
    <3>. QED
      BY <2>1, <3>1, <3>2, <3>3, <3>4 DEF ExchangeStep,
         Begin, ProviderCreates, ProviderFails, Register, RegisterFails, CompensateUntracked, CompensateUntrackedFails,
         RevokePrevious, RevokePreviousFails, MarkPrevious, MarkPreviousFails, Verify, VerifyFails,
         Deliver, Refuse, ConfirmFails, RevokeSelf, MarkSelf, CleanUpFails, ExchangeDies
  <2>2. ASSUME NEW j \in Jobs, JobStep(j) \/ JobDies(j), row' = Registered(d), row' # row
        PROVE  FALSE
    <3>1. Registered(d)[d].state = "tracked"
      BY <1>o, RegisteredRows DEF NewRow
    <3>2. \A p \in Exchanges : /\ MarkedRevoked(p)[d].state # "tracked"
                              /\ Requested(p)[d].state # "tracked"
      BY <1>o, MarkedRows, RequestedRows DEF Unrevoked
    <3>3. job[j].target \subseteq Exchanges /\ job[j].todo \subseteq Exchanges
      BY <1>o DEF TypeOK
    <3>. QED
      BY <2>2, <3>1, <3>2, <3>3 DEF JobStep, JobDies, Take, RevokeTarget, MarkTarget,
         TargetFails, Finish
  <2>3. ASSUME NEW e \in Exchanges, LeaseExpires(e) PROVE row' # Registered(d)
    <3>1. Registered(d)[d].state = "tracked"
      BY <1>o, RegisteredRows DEF NewRow
    <3>. QED
      BY <1>t, <2>3, <3>1 DEF LeaseExpires, RowType
  <2>4. ASSUME NEW q \in Passes, Claim(q) PROVE row' # Registered(d)
    <3>1. Registered(d)[d].state = "tracked"
      BY <1>o, RegisteredRows DEF NewRow
    <3>2. Claimed({e \in Exchanges : Due(e)})[d].state # "tracked"
      BY <1>o, ClaimedRows DEF Unrevoked
    <3>. QED
      BY <2>4, <3>1, <3>2 DEF Claim
  <2>. QED
    BY <2>1, <2>2, <2>3, <2>4 DEF Next, AuthorityChanges, List
<1>. QED
  BY <1>o, <1>1, <1>2, RowOperations DEF RowStep, Unrevoked, Due


-----------------------------------------------------------------------------
(* Who changes what *)

\* The steps of an exchange change no job and deliver only themselves.
LEMMA ExchangeFrame ==
    ASSUME NEW e \in Exchanges, ExchangeStep(e)
    PROVE  /\ job' = job /\ authority' = authority
           /\ \/ delivered' = delivered
              \/ Deliver(e) /\ delivered' = delivered \cup {e}
BY DEF ExchangeStep, Begin, ProviderCreates, ProviderFails, Register, RegisterFails, CompensateUntracked, CompensateUntrackedFails,
     RevokePrevious, RevokePreviousFails, MarkPrevious, MarkPreviousFails, Verify, VerifyFails,
     Deliver, Refuse, ConfirmFails, RevokeSelf, MarkSelf, CleanUpFails, ExchangeDies

\* The others change no exchange.
LEMMA JobFrame ==
    ASSUME Next, \A e \in Exchanges : ~ExchangeStep(e)
    PROVE  /\ exchange' = exchange /\ delivered' = delivered
           /\ authority' = authority \/ AuthorityChanges
BY DEF Next, LeaseExpires, List, Claim, JobStep, JobDies, Take, RevokeTarget,
   MarkTarget, TargetFails, Finish, AuthorityChanges

\* What an exchange lists after its step it listed before, or it is tracked.
LEMMA ExchangeLists ==
    ASSUME TypeOK, NEW e \in Exchanges, ExchangeStep(e)
    PROVE  exchange'[e].todo \cup exchange'[e].target
             \subseteq exchange[e].todo \cup exchange[e].target \cup Handles
<1>t. exchange \in [Exchanges -> ExchangeRecord]
  BY DEF TypeOK, ExchangeRecord
<1>1. CASE Begin(e)
  BY <1>t, <1>1 DEF Begin, Goes, Ends, NewExchange, ExchangeRecord
<1>2. CASE ProviderCreates(e)
  BY <1>t, <1>2 DEF ProviderCreates, Goes, Ends, NewExchange, ExchangeRecord
<1>3. CASE ProviderFails(e)
  BY <1>t, <1>3 DEF ProviderFails, Goes, Ends, NewExchange, ExchangeRecord
<1>4. CASE Register(e)
  BY <1>t, <1>4 DEF Register, Goes, Ends, NewExchange, ExchangeRecord
<1>5. CASE RegisterFails(e)
  BY <1>t, <1>5 DEF RegisterFails, Goes, Ends, NewExchange, ExchangeRecord
<1>6. CASE CompensateUntracked(e)
  BY <1>t, <1>6 DEF CompensateUntracked, Goes, Ends, NewExchange, ExchangeRecord
<1>7. CASE CompensateUntrackedFails(e)
  BY <1>t, <1>7 DEF CompensateUntrackedFails, Goes, Ends, NewExchange, ExchangeRecord
<1>8. CASE RevokePrevious(e)
  BY <1>t, <1>8 DEF RevokePrevious, Goes, Ends, NewExchange, ExchangeRecord
<1>9. CASE RevokePreviousFails(e)
  BY <1>t, <1>9 DEF RevokePreviousFails, Goes, Ends, NewExchange, ExchangeRecord, AfterFailedReplacement
<1>10. CASE MarkPrevious(e)
  BY <1>t, <1>10 DEF MarkPrevious, Goes, Ends, NewExchange, ExchangeRecord
<1>11. CASE MarkPreviousFails(e)
  BY <1>t, <1>11 DEF MarkPreviousFails, Goes, Ends, NewExchange, ExchangeRecord, AfterFailedReplacement
<1>12. CASE Verify(e)
  BY <1>t, <1>12 DEF Verify, Goes, Ends, NewExchange, ExchangeRecord
<1>13. CASE VerifyFails(e)
  BY <1>t, <1>13 DEF VerifyFails, Goes, Ends, NewExchange, ExchangeRecord
<1>14. CASE Deliver(e)
  BY <1>t, <1>14 DEF Deliver, Goes, Ends, NewExchange, ExchangeRecord
<1>15. CASE Refuse(e)
  BY <1>t, <1>15 DEF Refuse, Goes, Ends, NewExchange, ExchangeRecord
<1>16. CASE ConfirmFails(e)
  BY <1>t, <1>16 DEF ConfirmFails, Goes, Ends, NewExchange, ExchangeRecord
<1>17. CASE RevokeSelf(e)
  BY <1>t, <1>17 DEF RevokeSelf, Goes, Ends, NewExchange, ExchangeRecord
<1>18. CASE MarkSelf(e)
  BY <1>t, <1>18 DEF MarkSelf, Goes, Ends, NewExchange, ExchangeRecord
<1>19. CASE CleanUpFails(e)
  BY <1>t, <1>19 DEF CleanUpFails, Goes, Ends, NewExchange, ExchangeRecord
<1>20. CASE ExchangeDies(e)
  BY <1>t, <1>20 DEF ExchangeDies, Goes, Ends, NewExchange, ExchangeRecord
<1>. QED
  BY <1>1, <1>2, <1>3, <1>4, <1>5, <1>6, <1>7, <1>8, <1>9, <1>10, <1>11, <1>12, <1>13, <1>14, <1>15, <1>16, <1>17, <1>18, <1>19, <1>20 DEF ExchangeStep

\* So does a job.
LEMMA JobLists ==
    ASSUME TypeOK, Next, NEW j \in Jobs
    PROVE  job'[j].todo \cup job'[j].target
             \subseteq job[j].todo \cup job[j].target \cup Handles
<1>t. job \in [Jobs -> JobRecord]
  BY DEF TypeOK, JobRecord
<1>1. CASE job' = job
  BY <1>1
<1>2. ASSUME NEW r \in Revocations, List(r)
      PROVE  job'[j].todo \cup job'[j].target
               \subseteq job[j].todo \cup job[j].target \cup Handles
  <2>1. CASE r = j
    BY <1>t, <1>2, <2>1 DEF List, NewJob, JobRecord
  <2>2. CASE r # j
    BY <1>t, <1>2, <2>2 DEF List, JobRecord
  <2>. QED
    BY <2>1, <2>2
<1>3. ASSUME NEW p \in Passes, Claim(p)
      PROVE  job'[j].todo \cup job'[j].target
               \subseteq job[j].todo \cup job[j].target \cup Handles
  <2>1. {e \in Exchanges : Due(e)} \subseteq Handles
    BY DEF Due, Handles, Unrevoked
  <2>2. CASE p = j
    BY <1>t, <1>3, <2>1, <2>2 DEF Claim, JobRecord
  <2>3. CASE p # j
    BY <1>t, <1>3, <2>3 DEF Claim, JobRecord
  <2>. QED
    BY <2>2, <2>3
<1>4. ASSUME NEW k \in Jobs, JobStep(k) \/ JobDies(k)
      PROVE  job'[j].todo \cup job'[j].target
               \subseteq job[j].todo \cup job[j].target \cup Handles
  <2>1. CASE k = j
    <3>1. CASE Take(k)
      BY <1>t, <2>1, <3>1 DEF Take, JobRecord
    <3>2. CASE RevokeTarget(k)
      BY <1>t, <2>1, <3>2 DEF RevokeTarget, JobRecord
    <3>3. CASE MarkTarget(k)
      BY <1>t, <2>1, <3>3 DEF MarkTarget, JobRecord
    <3>4. CASE TargetFails(k)
      BY <1>t, <2>1, <3>4 DEF TargetFails, JobRecord
    <3>5. CASE Finish(k)
      BY <1>t, <2>1, <3>5 DEF Finish, NewJob, JobRecord
    <3>6. CASE JobDies(k)
      BY <1>t, <2>1, <3>6 DEF JobDies, NewJob, JobRecord
    <3>. QED
      BY <1>4, <3>1, <3>2, <3>3, <3>4, <3>5, <3>6 DEF JobStep
  <2>2. CASE k # j
    BY <1>t, <1>4, <2>2 DEF JobStep, JobDies, Take, RevokeTarget, MarkTarget,
       TargetFails, Finish, JobRecord
  <2>. QED
    BY <2>1, <2>2
<1>. QED
  BY <1>1, <1>2, <1>3, <1>4, ExchangeFrame DEF Next, AuthorityChanges, LeaseExpires

\* Lists keep to participants that were tracked.
LEMMA ListsStay == IInv /\ Next => ListsRegistrants'
<1>. SUFFICES ASSUME IInv, Next PROVE ListsRegistrants'
  OBVIOUS
<1>o. TypeOK /\ ListsRegistrants
  BY DEF IInv
<1>r. \A p \in Exchanges : row[p].state # "none" => row'[p].state # "none"
  BY RowsStayTrue
<1>h. \A p \in Handles : p \in Exchanges /\ row[p].state # "none"
  BY DEF Handles, Unrevoked
<1>1. ASSUME NEW e \in Exchanges
      PROVE  \A p \in exchange'[e].todo \cup exchange'[e].target : row'[p].state # "none"
  <2>1. exchange[e].todo \cup exchange[e].target \subseteq Exchanges
    BY <1>o DEF TypeOK
  <2>2. exchange'[e].todo \cup exchange'[e].target
          \subseteq exchange[e].todo \cup exchange[e].target \cup Handles
    <3>1. CASE ExchangeStep(e)
      BY <1>o, <3>1, ExchangeLists
    <3>2. ASSUME NEW d \in Exchanges \ {e}, ExchangeStep(d)
          PROVE  exchange'[e] = exchange[e]
      BY <1>o, <3>2, OthersExchangesStay
    <3>3. CASE \A d \in Exchanges : ~ExchangeStep(d)
      BY <3>3, JobFrame
    <3>. QED
      BY <3>1, <3>2, <3>3
  <2>. QED
    BY <1>o, <1>r, <1>h, <2>1, <2>2 DEF ListsRegistrants, Registrants
<1>2. ASSUME NEW j \in Jobs
      PROVE  \A p \in job'[j].todo \cup job'[j].target : row'[p].state # "none"
  <2>1. job[j].todo \cup job[j].target \subseteq Exchanges
    BY <1>o DEF TypeOK
  <2>. QED
    BY <1>o, <1>r, <1>h, <2>1, JobLists DEF ListsRegistrants, Registrants
<1>. QED
  BY <1>1, <1>2 DEF ListsRegistrants, Registrants

\* The participant of an exchange that has not created one is left alone.
LEMMA FreshParticipants ==
    ASSUME IInv, Next, NEW d \in Exchanges, row[d].state = "none",
           exchange[d].at \in {"unused", "granted"},
           \A e \in Exchanges : ExchangeStep(e) => e # d
    PROVE  participant'[d] = participant[d]
<1>t. participant \in [Exchanges -> {"none", "live", "deleted"}]
  BY DEF IInv, TypeOK
<1>l. /\ \A e \in Exchanges : d \notin exchange[e].todo /\ d \notin exchange[e].target
      /\ \A j \in Jobs : d \notin job[j].todo /\ d \notin job[j].target
  BY DEF IInv, ListsRegistrants, Registrants
<1>1. ASSUME NEW e \in Exchanges \ {d}, ExchangeStep(e)
      PROVE  participant'[d] = participant[d]
  <2>1. d \notin exchange[e].todo
    BY <1>l
  <2>. QED
    BY <1>t, <1>1, <2>1 DEF ExchangeStep, Deleted, Begin, ProviderCreates, ProviderFails, Register, RegisterFails, CompensateUntracked, CompensateUntrackedFails,
     RevokePrevious, RevokePreviousFails, MarkPrevious, MarkPreviousFails, Verify, VerifyFails,
     Deliver, Refuse, ConfirmFails, RevokeSelf, MarkSelf, CleanUpFails, ExchangeDies
<1>2. ASSUME NEW j \in Jobs, JobStep(j) \/ JobDies(j)
      PROVE  participant'[d] = participant[d]
  BY <1>t, <1>2, <1>l DEF JobStep, JobDies, Deleted, Take, RevokeTarget, MarkTarget,
     TargetFails, Finish
<1>. QED
  BY <1>1, <1>2 DEF Next, AuthorityChanges, LeaseExpires, List, Claim


-----------------------------------------------------------------------------
(* The parts of the invariant *)

\* An exchange that takes no step keeps its facts.
LEMMA OthersFactsStay ==
    ASSUME IInv, Next, NEW d \in Exchanges, \A e \in Exchanges : ExchangeStep(e) => e # d
    PROVE  ExchangeFacts(d)'
<1>o. TypeOK /\ ExchangeFacts(d)
  BY DEF IInv
<1>1. exchange'[d] = exchange[d] /\ (d \in delivered' => d \in delivered)
  <2>1. ASSUME NEW e \in Exchanges, ExchangeStep(e)
        PROVE  exchange'[d] = exchange[d] /\ (d \in delivered' => d \in delivered)
    BY <1>o, <2>1, OthersExchangesStay, ExchangeFrame
  <2>2. CASE \A e \in Exchanges : ~ExchangeStep(e)
    BY <2>2, JobFrame
  <2>. QED
    BY <2>1, <2>2
<1>2. exchange[d].at \in Fresh => row'[d].state = "none"
  BY <1>o, FreshRows DEF ExchangeFacts
<1>3. exchange[d].at \in {"unused", "granted"} => participant'[d] = "none"
  BY <1>o, FreshParticipants DEF ExchangeFacts, Fresh
<1>4. /\ row[d].state # "none" => row'[d].state # "none"
      /\ row'[d].state = "revoked" => participant'[d] = "deleted"
  BY RowsStayTrue
<1>5. exchange[d].target \subseteq Exchanges
  BY <1>o DEF TypeOK
<1>6. \A p \in Exchanges : participant[p] = "deleted" => participant'[p] = "deleted"
  BY DeletedStays
<1>. QED
  BY <1>o, <1>1, <1>2, <1>3, <1>4, <1>5, <1>6 DEF ExchangeFacts

LEMMA FactsStay == IInv /\ Next => \A e \in Exchanges : ExchangeFacts(e)'
BY ExchangeFactsStay, OthersFactsStay

LEMMA JobFactsStay ==
    ASSUME IInv, Next, NEW j \in Jobs
    PROVE  JobFacts(j)'
<1>t. /\ TypeOK /\ JobFacts(j)
      /\ job \in [Jobs -> JobRecord]
      /\ participant \in [Exchanges -> {"none", "live", "deleted"}]
  BY DEF IInv, TypeOK, JobRecord
<1>d. \A p \in Exchanges : participant[p] = "deleted" => participant'[p] = "deleted"
  BY DeletedStays
<1>s. job[j].target \subseteq Exchanges
  BY <1>t DEF JobRecord
<1>1. CASE job'[j] = job[j]
  BY <1>t, <1>d, <1>s, <1>1 DEF JobFacts
<1>2. CASE job'[j].at \notin {"revoking", "marking"}
  BY <1>2 DEF JobFacts
<1>3. CASE RevokeTarget(j)
  <2>1. PICK e \in job[j].target : participant' = Deleted(e)
    BY <1>3 DEF RevokeTarget
  <2>2. job'[j].target = job[j].target /\ job'[j].at = "marking"
    BY <1>t, <1>3 DEF RevokeTarget, JobRecord
  <2>3. \A p \in job[j].target : p = e
    BY <1>t, <1>3, <2>1 DEF RevokeTarget, JobFacts
  <2>4. Deleted(e)[e] = "deleted"
    BY <1>s, <1>t, <2>1, DeletedParticipants
  <2>. QED
    BY <2>1, <2>2, <2>3, <2>4 DEF JobFacts
<1>4. CASE Take(j)
  <2>1. PICK e \in job[j].todo :
          job' = [job EXCEPT ![j] = [job[j] EXCEPT !.at = "revoking", !.target = {e}]]
    BY <1>4 DEF Take
  <2>2. job'[j].at = "revoking" /\ job'[j].target = {e}
    BY <1>t, <2>1 DEF JobRecord
  <2>. QED
    BY <2>2 DEF JobFacts
<1>5. \/ job'[j] = job[j]
      \/ job'[j].at \notin {"revoking", "marking"}
      \/ RevokeTarget(j) \/ Take(j)
  <2>1. CASE job' = job
    BY <2>1
  <2>2. ASSUME NEW r \in Revocations, List(r)
        PROVE  job'[j] = job[j] \/ job'[j].at \notin {"revoking", "marking"}
    BY <1>t, <2>2 DEF List, NewJob, JobRecord
  <2>3. ASSUME NEW p \in Passes, Claim(p)
        PROVE  job'[j] = job[j] \/ job'[j].at \notin {"revoking", "marking"}
    BY <1>t, <2>3 DEF Claim, JobRecord
  <2>4. ASSUME NEW k \in Jobs, JobStep(k) \/ JobDies(k)
        PROVE  \/ job'[j] = job[j]
               \/ job'[j].at \notin {"revoking", "marking"}
               \/ RevokeTarget(j) \/ Take(j)
    <3>1. CASE k # j
      BY <1>t, <2>4, <3>1 DEF JobStep, JobDies, Take, RevokeTarget, MarkTarget,
         TargetFails, Finish, JobRecord
    <3>2. CASE k = j
      <4>1. CASE MarkTarget(k)
        BY <1>t, <3>2, <4>1 DEF MarkTarget, JobRecord
      <4>2. CASE TargetFails(k)
        BY <1>t, <3>2, <4>2 DEF TargetFails, JobRecord
      <4>3. CASE Finish(k)
        BY <1>t, <3>2, <4>3 DEF Finish, NewJob, JobRecord
      <4>4. CASE JobDies(k)
        BY <1>t, <3>2, <4>4 DEF JobDies, NewJob, JobRecord
      <4>. QED
        BY <2>4, <3>2, <4>1, <4>2, <4>3, <4>4 DEF JobStep
    <3>. QED
      BY <3>1, <3>2
  <2>. QED
    BY <2>1, <2>2, <2>3, <2>4, ExchangeFrame DEF Next, AuthorityChanges, LeaseExpires
<1>. QED
  BY <1>1, <1>2, <1>3, <1>4, <1>5

\* How an exchange comes to be active, and what it then lists.
LEMMA ActiveSteps ==
    ASSUME TypeOK, NEW x \in Exchanges, ExchangeStep(x), exchange'[x].at \in Active
    PROVE  \/ Register(x) \/ RevokePrevious(x) \/ MarkPrevious(x)
           \/ exchange[x].at \in Active /\ exchange'[x].todo = exchange[x].todo
<1>t. exchange \in [Exchanges -> ExchangeRecord]
  BY DEF TypeOK, ExchangeRecord
<1>1. CASE Begin(x)
  BY <1>t, <1>1 DEF Begin, Goes, Ends, NewExchange, Active, ExchangeRecord
<1>2. CASE ProviderCreates(x)
  BY <1>t, <1>2 DEF ProviderCreates, Goes, Ends, NewExchange, Active, ExchangeRecord
<1>3. CASE ProviderFails(x)
  BY <1>t, <1>3 DEF ProviderFails, Goes, Ends, NewExchange, Active, ExchangeRecord
<1>4. CASE RegisterFails(x)
  BY <1>t, <1>4 DEF RegisterFails, Goes, Ends, NewExchange, Active, ExchangeRecord
<1>5. CASE CompensateUntracked(x)
  BY <1>t, <1>5 DEF CompensateUntracked, Goes, Ends, NewExchange, Active, ExchangeRecord
<1>6. CASE CompensateUntrackedFails(x)
  BY <1>t, <1>6 DEF CompensateUntrackedFails, Goes, Ends, NewExchange, Active, ExchangeRecord
<1>7. CASE RevokePreviousFails(x)
  BY <1>t, <1>7 DEF RevokePreviousFails, Goes, Ends, NewExchange, Active, ExchangeRecord, AfterFailedReplacement
<1>8. CASE MarkPreviousFails(x)
  BY <1>t, <1>8 DEF MarkPreviousFails, Goes, Ends, NewExchange, Active, ExchangeRecord, AfterFailedReplacement
<1>9. CASE Verify(x)
  BY <1>t, <1>9 DEF Verify, Goes, Ends, NewExchange, Active, ExchangeRecord
<1>10. CASE VerifyFails(x)
  BY <1>t, <1>10 DEF VerifyFails, Goes, Ends, NewExchange, Active, ExchangeRecord
<1>11. CASE Deliver(x)
  BY <1>t, <1>11 DEF Deliver, Goes, Ends, NewExchange, Active, ExchangeRecord
<1>12. CASE Refuse(x)
  BY <1>t, <1>12 DEF Refuse, Goes, Ends, NewExchange, Active, ExchangeRecord
<1>13. CASE ConfirmFails(x)
  BY <1>t, <1>13 DEF ConfirmFails, Goes, Ends, NewExchange, Active, ExchangeRecord
<1>14. CASE RevokeSelf(x)
  BY <1>t, <1>14 DEF RevokeSelf, Goes, Ends, NewExchange, Active, ExchangeRecord
<1>15. CASE MarkSelf(x)
  BY <1>t, <1>15 DEF MarkSelf, Goes, Ends, NewExchange, Active, ExchangeRecord
<1>16. CASE CleanUpFails(x)
  BY <1>t, <1>16 DEF CleanUpFails, Goes, Ends, NewExchange, Active, ExchangeRecord
<1>17. CASE ExchangeDies(x)
  BY <1>t, <1>17 DEF ExchangeDies, Goes, Ends, NewExchange, Active, ExchangeRecord
<1>. QED
  BY <1>1, <1>2, <1>3, <1>4, <1>5, <1>6, <1>7, <1>8, <1>9, <1>10, <1>11, <1>12, <1>13, <1>14, <1>15, <1>16, <1>17 DEF ExchangeStep

\* Of two active exchanges, the one that registered later lists the earlier,
\* and drops it only when it is deleted.
LEMMA BehindStays ==
    ASSUME IInv, Next, NEW d \in Exchanges, NEW e \in Exchanges, d # e
    PROVE  Behind(d, e)'
<1>o. /\ TypeOK /\ Behind(d, e) /\ Behind(e, d)
      /\ exchange \in [Exchanges -> ExchangeRecord]
  BY DEF IInv, TypeOK, ExchangeRecord
<1>f. \A p \in Exchanges : ExchangeFacts(p)
  BY DEF IInv
<1>d. \A p \in Exchanges : participant'[p] = "live" =>
         participant[p] = "live" \/ exchange[p].at = "granted"
  BY DeletedStays
<1>1. ASSUME NEW x \in Exchanges, NEW y \in Exchanges, x # y,
             ExchangeStep(x), Behind(x, y),
             exchange'[x].at \in Active, participant'[x] = "live",
             exchange'[y].at \in Active, participant'[y] = "live"
      PROVE  x \in exchange'[y].todo \/ y \in exchange'[x].todo
  <2>1. exchange'[y] = exchange[y]
    BY <1>o, <1>1, OthersExchangesStay
  <2>2. participant[y] = "live"
    BY <1>d, <1>1, <2>1 DEF Active
  <2>3. CASE Register(x)
    <3>1. row[y].state # "none" /\ row[y].state # "revoked"
      BY <1>f, <1>1, <2>1, <2>2 DEF ExchangeFacts
    <3>2. y \in Handles
      BY <1>o, <3>1 DEF Handles, Unrevoked, TypeOK, RowStates
    <3>3. exchange'[x].todo = Handles
      BY <1>o, <2>3 DEF Register, ExchangeRecord
    <3>. QED
      BY <3>2, <3>3
  <2>4. CASE exchange[x].at \in Active
    <3>1. participant[x] = "live"
      BY <1>d, <1>1, <2>4 DEF Active
    <3>2. x \in exchange[y].todo \/ y \in exchange[x].todo
      BY <1>1, <2>1, <2>2, <2>4, <3>1 DEF Behind
    <3>3. ASSUME y \in exchange[x].todo PROVE y \in exchange'[x].todo
      <4>1. CASE MarkPrevious(x)
        <5>1. PICK p \in exchange[x].target :
                exchange'[x].todo = exchange[x].todo \ {p}
          BY <1>o, <4>1 DEF MarkPrevious, ExchangeRecord
        <5>2. participant[p] = "deleted"
          BY <1>f, <4>1, <5>1 DEF MarkPrevious, ExchangeFacts
        <5>. QED
          BY <2>2, <3>3, <5>1, <5>2
      <4>2. CASE RevokePrevious(x)
        BY <1>o, <3>3, <4>2 DEF RevokePrevious, ExchangeRecord
      <4>3. CASE exchange'[x].todo = exchange[x].todo
        BY <3>3, <4>3
      <4>4. ~Register(x)
        BY <2>4 DEF Register, Active
      <4>. QED
        BY <1>o, <1>1, <4>1, <4>2, <4>3, <4>4, ActiveSteps
    <3>. QED
      BY <2>1, <3>2, <3>3
  <2>5. Register(x) \/ exchange[x].at \in Active
    BY <1>o, <1>1, ActiveSteps DEF RevokePrevious, MarkPrevious, Active
  <2>. QED
    BY <2>3, <2>4, <2>5
<1>2. CASE ExchangeStep(d)
  BY <1>o, <1>1, <1>2 DEF Behind
<1>3. CASE ExchangeStep(e)
  BY <1>o, <1>1, <1>3 DEF Behind
<1>4. CASE ~ExchangeStep(d) /\ ~ExchangeStep(e)
  <2>1. exchange'[d] = exchange[d] /\ exchange'[e] = exchange[e]
    <3>1. ASSUME NEW x \in Exchanges, ExchangeStep(x)
          PROVE  exchange'[d] = exchange[d] /\ exchange'[e] = exchange[e]
      BY <1>o, <1>4, <3>1, OthersExchangesStay
    <3>2. CASE \A x \in Exchanges : ~ExchangeStep(x)
      BY <3>2, JobFrame
    <3>. QED
      BY <3>1, <3>2
  <2>. QED
    BY <1>o, <1>d, <2>1 DEF Behind, Active
<1>. QED
  BY <1>2, <1>3, <1>4


\* Delivery is of the sequence of the Room Brain.
LEMMA DeliveredSteps ==
    ASSUME IInv, Next, NEW e \in delivered'
    PROVE  /\ e \in Exchanges
           /\ \/ e \in delivered /\ exchange'[e].sequence = exchange[e].sequence
              \/ exchange'[e].sequence = authority.sequence /\ job' = job
<1>o. /\ TypeOK /\ delivered \subseteq Exchanges
      /\ exchange \in [Exchanges -> ExchangeRecord]
  BY DEF IInv, TypeOK, ExchangeRecord
<1>1. ASSUME NEW x \in Exchanges, ExchangeStep(x), e = x
      PROVE  exchange'[e].sequence = authority.sequence \/ e \in delivered
  BY <1>o, <1>1, ExchangeFrame DEF Deliver, Grants, Goes, ExchangeRecord
<1>2. ASSUME NEW x \in Exchanges, ExchangeStep(x), e = x, e \in delivered
      PROVE  FALSE
  <2>1. exchange[x].at = "delivered"
    BY <1>2 DEF IInv, ExchangeFacts
  <2>. QED
    BY <1>2, <2>1 DEF ExchangeStep, Ended, Begin, ProviderCreates, ProviderFails, Register, RegisterFails, CompensateUntracked, CompensateUntrackedFails,
     RevokePrevious, RevokePreviousFails, MarkPrevious, MarkPreviousFails, Verify, VerifyFails,
     Deliver, Refuse, ConfirmFails, RevokeSelf, MarkSelf, CleanUpFails, ExchangeDies
<1>3. ASSUME NEW x \in Exchanges, ExchangeStep(x), e # x
      PROVE  e \in delivered /\ exchange'[e] = exchange[e]
  BY <1>o, <1>3, ExchangeFrame, OthersExchangesStay
<1>4. CASE \A x \in Exchanges : ~ExchangeStep(x)
  BY <1>o, <1>4, JobFrame
<1>5. ASSUME NEW x \in Exchanges, ExchangeStep(x) PROVE x \in Exchanges /\ job' = job
  BY <1>5, ExchangeFrame
<1>. QED
  BY <1>o, <1>1, <1>2, <1>3, <1>4, <1>5

\* What a revocation lists when it starts, and how it gets on.
LEMMA RevocationSteps ==
    ASSUME IInv, Next, NEW r \in Revocations, job'[r] # job[r]
    PROVE  /\ exchange' = exchange /\ delivered' = delivered /\ authority' = authority
           /\ \/ /\ job'[r].sequence = authority.sequence /\ job'[r].todo = Handles
                 /\ job'[r].at = "listed" /\ job'[r].clean
              \/ job'[r].at = "failed" /\ job'[r].sequence = 0
              \/ /\ job'[r].sequence = job[r].sequence
                 /\ job[r].at # "unused" /\ job'[r].at # "done"
                 /\ job'[r].clean => job[r].clean
                 /\ \/ job'[r].todo = job[r].todo
                    \/ ~job'[r].clean
                    \/ /\ job[r].at = "marking"
                       /\ job'[r].todo = job[r].todo \ job[r].target
              \/ /\ job'[r].at = "done" /\ job[r].at = "listed"
                 /\ job'[r].sequence = job[r].sequence
                 /\ job[r].clean /\ job'[r].clean
                 /\ job[r].todo = {} /\ job'[r].todo = {}
<1>t. /\ job \in [Jobs -> JobRecord] /\ r \in Jobs /\ r \notin Passes
  BY SessionsAssumption DEF IInv, TypeOK, JobRecord, Jobs
<1>u. \A x \in Exchanges : ~ExchangeStep(x)
  BY ExchangeFrame
<1>f. exchange' = exchange /\ delivered' = delivered
  BY <1>u, JobFrame
<1>1. ASSUME NEW q \in Revocations, List(q), q = r
      PROVE  \/ /\ job'[r].sequence = authority.sequence /\ job'[r].todo = Handles
                /\ job'[r].at = "listed" /\ job'[r].clean
             \/ job'[r].at = "failed" /\ job'[r].sequence = 0
  BY <1>t, <1>1 DEF List, NewJob
<1>2. ASSUME Take(r) \/ RevokeTarget(r)
      PROVE  /\ job'[r].sequence = job[r].sequence
             /\ job[r].at # "unused" /\ job'[r].at # "done"
             /\ job'[r].clean = job[r].clean /\ job'[r].todo = job[r].todo
  <2>1. CASE Take(r)
    BY <1>t, <2>1 DEF Take, JobRecord
  <2>2. CASE RevokeTarget(r)
    BY <1>t, <2>2 DEF RevokeTarget, JobRecord
  <2>. QED
    BY <1>2, <2>1, <2>2
<1>3. ASSUME MarkTarget(r)
      PROVE  /\ job'[r].sequence = job[r].sequence
             /\ job[r].at = "marking" /\ job'[r].at # "done"
             /\ job'[r].clean = job[r].clean
             /\ job'[r].todo = job[r].todo \ job[r].target
  BY <1>t, <1>3 DEF MarkTarget, JobRecord
<1>4. ASSUME TargetFails(r)
      PROVE  /\ job'[r].sequence = job[r].sequence
             /\ job[r].at # "unused" /\ job'[r].at # "done" /\ ~job'[r].clean
  BY <1>t, <1>4 DEF TargetFails, JobRecord
<1>5. ASSUME Finish(r)
      PROVE  \/ job'[r].at = "failed" /\ job'[r].sequence = 0
             \/ /\ job'[r].at = "done" /\ job[r].at = "listed"
                /\ job'[r].sequence = job[r].sequence
                /\ job[r].clean /\ job'[r].clean
                /\ job[r].todo = {} /\ job'[r].todo = {}
  BY <1>t, <1>5 DEF Finish, NewJob, JobRecord
<1>6. ASSUME JobDies(r) PROVE job'[r].at = "failed" /\ job'[r].sequence = 0
  BY <1>t, <1>6 DEF JobDies, NewJob, JobRecord
<1>7. \/ \E q \in Revocations : List(q) /\ q = r
      \/ JobStep(r) \/ JobDies(r)
  <2>1. ASSUME NEW q \in Revocations, List(q), q # r PROVE FALSE
    BY <1>t, <2>1 DEF List
  <2>2. ASSUME NEW p \in Passes, Claim(p) PROVE FALSE
    BY <1>t, <2>2 DEF Claim
  <2>3. ASSUME NEW j \in Jobs, JobStep(j) \/ JobDies(j), j # r PROVE FALSE
    BY <1>t, <2>3 DEF JobStep, JobDies, Take, RevokeTarget, MarkTarget, TargetFails, Finish
  <2>. QED
    BY <1>u, <2>1, <2>2, <2>3 DEF Next, AuthorityChanges, LeaseExpires
<1>8. authority' = authority
  BY <1>7 DEF List, JobStep, JobDies, Take, RevokeTarget, MarkTarget, TargetFails, Finish
<1>. QED
  BY <1>1, <1>2, <1>3, <1>4, <1>5, <1>6, <1>7, <1>8, <1>f DEF JobStep

\* A revocation keeps on its list whatever it still has to end.
LEMMA ListingStays ==
    ASSUME IInv, Next, NEW r \in Revocations
    PROVE  Listing(r)'
<1>o. /\ TypeOK /\ Listing(r) /\ r \in Jobs
      /\ exchange \in [Exchanges -> ExchangeRecord] /\ job \in [Jobs -> JobRecord]
      /\ delivered \subseteq Exchanges
  BY DEF IInv, TypeOK, ExchangeRecord, JobRecord, Jobs
<1>a. authority.sequence \in Nat /\ authority'.sequence \in Nat
        /\ authority.sequence <= authority'.sequence
  BY <1>o, ExchangeFrame, JobFrame DEF TypeOK, AuthorityChanges
<1>n. /\ \A e \in Exchanges : exchange[e].sequence \in Nat
      /\ job[r].sequence \in Nat
  BY <1>o DEF ExchangeRecord, JobRecord
<1>f. \A e \in Exchanges : ExchangeFacts(e)
  BY DEF IInv
<1>d. \A p \in Exchanges : participant'[p] = "live" =>
         participant[p] = "live" \/ exchange[p].at = "granted"
  BY DeletedStays
<1>l. \A e \in delivered : participant'[e] = "live" => participant[e] = "live"
  BY <1>o, <1>d, <1>f DEF ExchangeFacts
<1>1. CASE job'[r] = job[r]
  <2>1. ASSUME NEW e \in delivered', participant'[e] = "live",
               exchange'[e].sequence < job[r].sequence,
               job[r].at # "unused", job[r].clean
        PROVE  e \in job[r].todo
    <3>1. e \in Exchanges /\ e \in delivered /\ exchange'[e].sequence = exchange[e].sequence
      BY <1>o, <1>a, <1>n, <2>1, DeliveredSteps DEF Listing
    <3>. QED
      BY <1>o, <1>l, <2>1, <3>1 DEF Listing
  <2>. QED
    BY <1>o, <1>a, <1>n, <1>1, <2>1 DEF Listing
<1>2. CASE job'[r] # job[r]
  <2>1. exchange' = exchange /\ delivered' = delivered /\ authority' = authority
    BY <1>2, RevocationSteps
  <2>2. CASE /\ job'[r].sequence = authority.sequence /\ job'[r].todo = Handles
             /\ job'[r].at = "listed" /\ job'[r].clean
    <3>1. ASSUME NEW e \in delivered, participant[e] = "live" PROVE e \in Handles
      <4>1. row[e].state # "none" /\ row[e].state # "revoked"
        BY <1>o, <1>f, <3>1 DEF ExchangeFacts, Active
      <4>. QED
        BY <1>o, <3>1, <4>1 DEF Handles, Unrevoked, TypeOK, RowStates
    <3>. QED
      BY <1>a, <1>l, <2>1, <2>2, <3>1 DEF Listing
  <2>3. CASE job'[r].at = "failed" /\ job'[r].sequence = 0
    BY <1>o, <1>a, <1>n, <2>1, <2>3 DEF Listing
  <2>4. CASE /\ job'[r].sequence = job[r].sequence
             /\ job[r].at # "unused" /\ job'[r].at # "done"
             /\ job'[r].clean => job[r].clean
             /\ job'[r].todo = job[r].todo \/ ~job'[r].clean
    BY <1>o, <1>l, <2>1, <2>4 DEF Listing
  <2>5. CASE /\ job'[r].sequence = job[r].sequence
             /\ job[r].at = "marking" /\ job'[r].at # "done"
             /\ job'[r].clean => job[r].clean
             /\ job'[r].todo = job[r].todo \ job[r].target
    <3>1. \A e \in job[r].target : participant[e] = "deleted"
      BY <1>o, <2>5 DEF IInv, JobFacts
    <3>. QED
      BY <1>o, <1>l, <2>1, <2>5, <3>1 DEF Listing
  <2>6. CASE /\ job'[r].at = "done" /\ job[r].at = "listed"
             /\ job'[r].sequence = job[r].sequence
             /\ job[r].clean /\ job'[r].clean
             /\ job[r].todo = {} /\ job'[r].todo = {}
    BY <1>o, <1>l, <2>1, <2>6 DEF Listing
  <2>. QED
    BY <1>2, <2>2, <2>3, <2>4, <2>5, <2>6, RevocationSteps
<1>. QED
  BY <1>1, <1>2

-----------------------------------------------------------------------------
(* The theorems *)

LEMMA InitIInv == Init => IInv
BY DEF Init, IInv, TypeOK, ExchangeFacts, JobFacts, ListsRegistrants, Registrants, Behind,
   Listing, ExchangePlaces, JobPlaces, NewExchange, NewJob, RowStates, Fresh, Active, Jobs

LEMMA NextIInv == IInv /\ [Next]_sessionsVars => IInv'
<1>. SUFFICES ASSUME IInv, [Next]_sessionsVars PROVE IInv'
  OBVIOUS
<1>1. CASE Next
  <2>1. TypeOK'
    BY <1>1, NextRowStep, RowsStayOK, OthersStayOK
       DEF IInv, TypeOK, RowsOK, OthersOK, RowType, ExchangeRecord, JobRecord
  <2>. QED
    BY <1>1, <2>1, FactsStay, JobFactsStay, ListsStay, BehindStays, ListingStays DEF IInv
<1>2. CASE UNCHANGED sessionsVars
  BY <1>2 DEF sessionsVars, IInv, TypeOK, Unrevoked, ExchangeFacts, JobFacts,
     ListsRegistrants, Registrants, Behind, Listing
<1>. QED
  BY <1>1, <1>2

LEMMA SessionInvariant == Spec => []IInv
BY InitIInv, NextIInv, PTL DEF Spec

\* Whatever fails or dies, a participant with credentials stays tracked until
\* the provider has deleted it, and a row says revoked only of a deleted one:
\* media-session tracks before it delivers, and every path deletes before it
\* marks.
THEOREM TrackedTheorem == Spec => []TrackedUntilGone
<1>1. IInv => TrackedUntilGone
  <2>. SUFFICES ASSUME IInv PROVE TrackedUntilGone
    OBVIOUS
  <2>1. \A e \in Exchanges : row[e].state \in RowStates
    BY DEF IInv, TypeOK
  <2>2. delivered \subseteq Exchanges
    BY DEF IInv, TypeOK
  <2>. QED
    BY <2>1, <2>2 DEF IInv, ExchangeFacts, Active, TrackedUntilGone, Unrevoked, RowStates
<1>. QED
  BY <1>1, SessionInvariant, PTL

\* However exchanges overlap and fail, two participants with credentials are
\* never live at once: the exchange that registered later delivers only when
\* it has deleted what registerActiveSession returned.
THEOREM OneDeliveredTheorem == Spec => []OneDeliveredLive
<1>1. IInv => OneDeliveredLive
  <2>. SUFFICES ASSUME IInv, NEW d \in delivered, NEW e \in delivered,
                       participant[d] = "live", participant[e] = "live", d # e
                PROVE  FALSE
    BY DEF OneDeliveredLive
  <2>1. d \in Exchanges /\ e \in Exchanges
    BY DEF IInv, TypeOK
  <2>2. /\ exchange[d].at = "delivered" /\ exchange[d].todo = {}
        /\ exchange[e].at = "delivered" /\ exchange[e].todo = {}
    BY <2>1 DEF IInv, ExchangeFacts
  <2>. QED
    BY <2>1, <2>2 DEF IInv, Behind, Active
<1>. QED
  BY <1>1, SessionInvariant, PTL

\* A revocation that reports success leaves no participant with credentials
\* from before its sequence live, then or later: tracked ones were on its list,
\* and an exchange under way is refused by its second grant.
THEOREM CleanRevocationTheorem == Spec => []CleanRevocation
<1>1. IInv => CleanRevocation
  BY DEF IInv, Listing, CleanRevocation
<1>. QED
  BY <1>1, SessionInvariant, PTL

=============================================================================
