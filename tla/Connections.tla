------------------------------ MODULE Connections ------------------------------
(***************************************************************************)
(* Connection requests: request_connection_from_resonance, which the form  *)
(* of a profile page calls, over the table connections, with the outcome   *)
(* that record_resonance_outcome writes in the same transaction            *)
(* (supabase/migrations/20260831160432 and 20260831120219).                *)
(*                                                                         *)
(* A call is one transaction under READ COMMITTED, the isolation a call of *)
(* PostgREST has: each statement sees what was committed when it began,    *)
(* besides the writes of its own transaction.  A step is one statement.    *)
(* A transaction may fail or die between any two, and then leaves nothing. *)
(* The checks before the first read of connections (session, access, a     *)
(* discoverable candidate, a live batch) change nothing and are left out.  *)
(***************************************************************************)
EXTENDS Integers, FiniteSets

CONSTANTS
    Users,
    Requests,      \* calls, each of which runs once
    NoRequest,     \* nobody holds a lock
    Asks,          \* the <<viewer, candidate>> that are explored
    Limit,         \* new connections of one viewer within a window (20)
    Window,        \* length of the window (10 minutes)
    MaxTime        \* bound on the clock

Pairs == {p \in Users \X Users : p[1] # p[2]}

ASSUME ConnectionsAssumption ==
    /\ NoRequest \notin Requests
    /\ Asks \subseteq Pairs
    /\ Limit \in Nat \ {0}
    /\ Window \in Nat
    /\ MaxTime \in Nat

VARIABLES
    connection,    \* the committed row of each <<requester, addressee>>
    outcomes,      \* committed outcomes: <<viewer, candidate, kind>>
    request,       \* the transactions
    lock,          \* the advisory lock of each viewer: the request that holds it
    clock,
    connected      \* history: the pairs whose row was accepted at some time

vars == <<connection, outcomes, request, lock, clock, connected>>

-----------------------------------------------------------------------------
(* Rows and transactions *)

Statuses == {"none", "pending", "accepted", "blocked"}
OutcomeKinds == {"connection_requested", "connection_accepted"}

NoRow == [status |-> "none", created_at |-> 0]

Places == {"idle", "outbound", "inbound", "accept", "lock", "count", "insert",
           "record", "commit", "done"}

Idle == [place |-> "idle", viewer |-> NoRequest, candidate |-> NoRequest,
         batch |-> FALSE, now |-> 0, outbound |-> "none",
         write |-> "none", kind |-> "none", after |-> {}]

Outbound(q) == <<request[q].viewer, request[q].candidate>>
Inbound(q) == <<request[q].candidate, request[q].viewer>>

At(q, place) == request[q].place = place

\* The row a transaction has written and not committed: the inbound one it
\* accepts, or the outbound one it inserts.
Writes(q, p) ==
    /\ request[q].place \in {"record", "commit"}
    /\ \/ request[q].write = "accepted" /\ p = Inbound(q)
       \/ request[q].write = "pending" /\ p = Outbound(q)

\* An uncommitted write makes the writes of others to that row wait.
IsFree(q, p) == \A r \in Requests \ {q} : ~Writes(r, p)

\* The status a statement of transaction q sees.
StatusSeenBy(q, p) == IF Writes(q, p) THEN request[q].write
                      ELSE connection[p].status

Init ==
    /\ connection = [p \in Pairs |-> NoRow]
    /\ outcomes = {}
    /\ request = [q \in Requests |-> Idle]
    /\ lock = [u \in Users |-> NoRequest]
    /\ clock = 0
    /\ connected = {}

\* Transaction q goes on at a place, having written or learned something.
Goes(q, place) == request' = [request EXCEPT ![q].place = place]

-----------------------------------------------------------------------------
(* request_connection_from_resonance *)

\* now() is the time at which the transaction began.  A batch is the one the
\* candidate was discovered in, or none.
Begin(q, ask, batch) ==
    /\ At(q, "idle")
    /\ request' = [request EXCEPT
                     ![q] = [Idle EXCEPT
                               !.place = "outbound",
                               !.viewer = ask[1], !.candidate = ask[2],
                               !.batch = batch, !.now = clock,
                               !.after = {r \in Requests : At(r, "done")}]]
    /\ UNCHANGED <<connection, outcomes, lock, clock, connected>>

ReadOutbound(q) ==
    /\ At(q, "outbound")
    /\ request' = [request EXCEPT
                     ![q].place = "inbound",
                     ![q].outbound = connection[Outbound(q)].status]
    /\ UNCHANGED <<connection, outcomes, lock, clock, connected>>

\* The defect of looking the inbound row up by the outbound key.
LooksOutboundTwice(q) == connection[Outbound(q)].status

LooksInbound(q) == connection[Inbound(q)].status

\* Where the two statuses lead: a blocked pair is an error, a request that is
\* already there is answered as it is, an inbound one is accepted, and only a
\* new one needs the lock.
Continuation(outbound, inbound) ==
    CASE "blocked" \in {outbound, inbound} -> "done"
      [] outbound \in {"pending", "accepted"} -> "done"
      [] inbound = "accepted" /\ outbound = "none" -> "done"
      [] inbound = "pending" /\ outbound = "none" -> "accept"
      [] OTHER -> "lock"

ReadInbound(q) ==
    /\ At(q, "inbound")
    /\ request' = [request EXCEPT
                     ![q].place = Continuation(request[q].outbound,
                                                 LooksInbound(q))]
    /\ UNCHANGED <<connection, outcomes, lock, clock, connected>>

\* The outcome is recorded only for a request that came from a batch.
AfterWrite(q) == IF request[q].batch THEN "record" ELSE "commit"

\* The defect of an update that is not guarded by the status.
AcceptsAnyway(p) == TRUE

\* The update accepts a row that still is pending.
Acceptable(p) == connection[p].status = "pending"

AcceptInbound(q) ==
    /\ At(q, "accept")
    /\ IsFree(q, Inbound(q))
    /\ request' = [request EXCEPT
                     ![q].write = IF Acceptable(Inbound(q)) THEN "accepted" ELSE "none",
                     ![q].kind = "connection_accepted",
                     ![q].place = AfterWrite(q)]
    /\ UNCHANGED <<connection, outcomes, lock, clock, connected>>

\* The defect of counting without the lock.
DoesNotWait(u) == TRUE

\* pg_advisory_xact_lock waits until the lock is free.
LockIsFree(u) == lock[u] = NoRequest

TakeLock(q) ==
    /\ At(q, "lock")
    /\ LockIsFree(request[q].viewer)
    /\ lock' = [lock EXCEPT ![request[q].viewer] = q]
    /\ Goes(q, "count")
    /\ UNCHANGED <<connection, outcomes, clock, connected>>

RecentOutbound(q) ==
    {p \in Pairs : /\ p[1] = request[q].viewer
                   /\ connection[p].status # "none"
                   /\ connection[p].created_at >= request[q].now - Window}

\* Too many new requests are an error (AbortTransaction).
CountRecent(q) ==
    /\ At(q, "count")
    /\ Cardinality(RecentOutbound(q)) < Limit
    /\ Goes(q, "insert")
    /\ UNCHANGED <<connection, outcomes, lock, clock, connected>>

\* on conflict do nothing: a row of another request of the viewer stays.
InsertPending(q) ==
    /\ At(q, "insert")
    /\ IsFree(q, Outbound(q))
    /\ request' = [request EXCEPT
                     ![q].write = IF connection[Outbound(q)].status = "none"
                                  THEN "pending" ELSE "none",
                     ![q].kind = "connection_requested",
                     ![q].place = AfterWrite(q)]
    /\ UNCHANGED <<connection, outcomes, lock, clock, connected>>

-----------------------------------------------------------------------------
(* record_resonance_outcome, and the end of a transaction *)

\* The defect of recording what the caller says.
TrustsCaller(q) == TRUE

\* The outcome must match a row; otherwise it is an error.
OutcomeMatches(q) ==
    CASE request[q].kind = "connection_requested" ->
           StatusSeenBy(q, Outbound(q)) \in {"pending", "accepted"}
      [] request[q].kind = "connection_accepted" ->
           \E p \in {Outbound(q), Inbound(q)} : StatusSeenBy(q, p) = "accepted"

RecordOutcome(q) ==
    /\ At(q, "record")
    /\ OutcomeMatches(q)
    /\ Goes(q, "commit")
    /\ UNCHANGED <<connection, outcomes, lock, clock, connected>>

Released(q) == [u \in Users |-> IF lock[u] = q THEN NoRequest ELSE lock[u]]

\* The defect of storing the end of the window.
ExpiryTime(q) == request[q].now + Window

\* created_at defaults to now(): not to the time of the insert or the commit.
CreationTime(q) == request[q].now

\* The row p once transaction q is committed.
Committed(q, p) ==
    IF ~Writes(q, p) THEN connection[p]
    ELSE IF request[q].write = "accepted"
         THEN [connection[p] EXCEPT !.status = "accepted"]
         ELSE [status |-> "pending", created_at |-> CreationTime(q)]

Commit(q) ==
    /\ At(q, "commit")
    /\ connection' = [p \in Pairs |-> Committed(q, p)]
    /\ connected' = connected \cup {p \in Pairs : connection'[p].status = "accepted"}
    /\ outcomes' = IF request[q].batch
                   THEN outcomes \cup {<<request[q].viewer, request[q].candidate,
                                         request[q].kind>>}
                   ELSE outcomes
    /\ lock' = Released(q)
    /\ Goes(q, "done")
    /\ UNCHANGED clock

\* A statement raises, or the connection is lost: nothing of it remains.
AbortTransaction(q) ==
    /\ request[q].place \notin {"idle", "done"}
    /\ lock' = Released(q)
    /\ request' = [request EXCEPT ![q] = [Idle EXCEPT !.place = "done"]]
    /\ UNCHANGED <<connection, outcomes, clock, connected>>

-----------------------------------------------------------------------------
(* The environment *)

\* A participant blocks the other one: an update the table's policy allows.
\* The functions expect such rows; no page writes them yet.
Block(p) ==
    /\ connection[p].status \in {"pending", "accepted"}
    /\ IsFree(NoRequest, p)
    /\ connection' = [connection EXCEPT ![p].status = "blocked"]
    /\ UNCHANGED <<outcomes, request, lock, clock, connected>>

Tick ==
    /\ clock < MaxTime
    /\ clock' = clock + 1
    /\ UNCHANGED <<connection, outcomes, request, lock, connected>>

Next ==
    \/ \E q \in Requests :
          \/ \E ask \in Asks, batch \in BOOLEAN : Begin(q, ask, batch)
          \/ ReadOutbound(q) \/ ReadInbound(q)
          \/ AcceptInbound(q)
          \/ TakeLock(q) \/ CountRecent(q) \/ InsertPending(q)
          \/ RecordOutcome(q) \/ Commit(q) \/ AbortTransaction(q)
    \/ \E p \in Pairs : Block(p)
    \/ Tick

Spec == Init /\ [][Next]_vars

-----------------------------------------------------------------------------
(* Properties *)

TypeOK ==
    /\ connection \in [Pairs -> [status : Statuses, created_at : 0 .. MaxTime]]
    /\ outcomes \subseteq Users \X Users \X OutcomeKinds
    /\ request \in [Requests ->
         [place : Places, viewer : Users \cup {NoRequest},
          candidate : Users \cup {NoRequest}, batch : BOOLEAN, now : 0 .. MaxTime,
          outbound : Statuses,
          write : {"none", "accepted", "pending"},
          kind : OutcomeKinds \cup {"none"}, after : SUBSET Requests]]
    /\ lock \in [Users -> Requests \cup {NoRequest}]
    /\ clock \in 0 .. MaxTime
    /\ connected \subseteq Pairs

\* Nobody has more new connections than the limit in any window of time,
\* whatever calls run at the same time and however long they wait: created_at
\* is the time a transaction began, not the one at which its row appears.
ThrottleHolds ==
    \A u \in Users, t \in 0 .. MaxTime :
        Cardinality({p \in Pairs : /\ p[1] = u
                                   /\ connection[p].status # "none"
                                   /\ connection[p].created_at \in t .. t + Window})
          <= Limit

\* Request q is over and left the row it inserted.
Asked(q) == At(q, "done") /\ request[q].write = "pending"

\* Two people who ask for each other are connected, unless their requests ran
\* at the same time: only then do both rows stay pending.
RequestsMeetUnlessCrossed ==
    \A q, r \in Requests :
        (/\ Asked(q) /\ Asked(r) /\ Outbound(q) = Inbound(r)
         /\ connection[Outbound(q)].status = "pending"
         /\ connection[Outbound(r)].status = "pending")
          => q \notin request[r].after /\ r \notin request[q].after

\* No request turns a blocked row into anything else, though it may have read
\* the row before it was blocked.
BlockStands ==
    [][\A p \in Pairs : connection[p].status = "blocked" =>
                            connection'[p].status = "blocked"]_vars

\* "record resonance telemetry only after the durable connection state is
\* valid" (docs/PRESENCE_AND_RESONANCE_OUTCOMES.md): a recorded outcome is one
\* that happened, even if the row changed while the request ran.
OutcomesAreTrue ==
    \A o \in outcomes :
        LET p == <<o[1], o[2]>>
        IN  CASE o[3] = "connection_requested" -> connection[p].status # "none"
              [] o[3] = "connection_accepted" -> {p, <<p[2], p[1]>>} \cap connected # {}

=============================================================================
