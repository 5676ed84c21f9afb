--------------------------- MODULE ConnectionsProofs ---------------------------
(***************************************************************************)
(* Proofs about Connections for any people, calls and limits: the types,   *)
(* the throttle, that people who ask for each other meet, that recorded    *)
(* outcomes happened, and that a blocked row stays blocked.                *)
(***************************************************************************)
EXTENDS Connections, FiniteSetTheorems, TLAPS

-----------------------------------------------------------------------------
(* Transactions *)

Rows == [status : Statuses, created_at : 0 .. MaxTime]

Transactions ==
    [place : Places, viewer : Users \cup {NoRequest},
     candidate : Users \cup {NoRequest}, batch : BOOLEAN, now : 0 .. MaxTime,
     outbound : Statuses, write : {"none", "accepted", "pending"},
     kind : OutcomeKinds \cup {"none"}, after : SUBSET Requests]

IsPair(x) == <<x.viewer, x.candidate>> \in Pairs

\* A transaction under way serves a pair; it has written nothing before its
\* update or insert, and its outcome tells which of the two that was.
Sound(x) ==
    /\ x \in Transactions
    /\ x.place \notin {"idle", "done"} => IsPair(x)
    /\ x.write # "none" => IsPair(x) /\ x.place \in {"record", "commit", "done"}
    /\ x.write = "accepted" => x.kind = "connection_accepted"
    /\ x.write = "pending" => x.kind = "connection_requested"
    /\ x.place \in {"record", "commit"} => x.kind \in OutcomeKinds

TypeInv ==
    /\ connection \in [Pairs -> Rows]
    /\ outcomes \subseteq Users \X Users \X OutcomeKinds
    /\ request \in [Requests -> Transactions]
    /\ \A q \in Requests : Sound(request[q])
    /\ lock \in [Users -> Requests \cup {NoRequest}]
    /\ clock \in 0 .. MaxTime
    /\ connected \subseteq Pairs

\* The steps of transaction q.
Runs(q) ==
    \/ \E ask \in Asks, batch \in BOOLEAN : Begin(q, ask, batch)
    \/ ReadOutbound(q) \/ ReadInbound(q) \/ AcceptInbound(q) \/ TakeLock(q)
    \/ CountRecent(q) \/ InsertPending(q) \/ RecordOutcome(q)
    \/ Commit(q) \/ AbortTransaction(q)

\* The steps of the environment, and stutters.
Outside == (\E p \in Pairs : Block(p)) \/ Tick \/ UNCHANGED vars

LEMMA StepKinds == [Next]_vars => Outside \/ \E q \in Requests : Runs(q)
  BY DEF Next, Outside, Runs

\* A pair can be read from either side.
LEMMA PairParts ==
    /\ \A x : IsPair(x) => /\ x.viewer \in Users /\ x.candidate \in Users
                           /\ <<x.candidate, x.viewer>> \in Pairs
                           /\ x.viewer # x.candidate
    /\ \A u, v : <<u, v>> \in Pairs => <<v, u>> \in Pairs /\ u \in Users /\ v \in Users
  BY DEF IsPair, Pairs

\* What a step makes of the transaction that takes it.
LEMMA RunsSound ==
    ASSUME TypeInv, NEW q \in Requests, Runs(q)
    PROVE  /\ request' = [request EXCEPT ![q] = request'[q]]
           /\ Sound(request'[q])
<1>0. Sound(request[q]) /\ DOMAIN request = Requests /\ request[q] \in Transactions
      /\ connection \in [Pairs -> Rows] /\ clock \in 0 .. MaxTime
  BY DEF TypeInv, Sound
<1>1. ASSUME NEW x, request' = [request EXCEPT ![q] = x], Sound(x)
      PROVE  /\ request' = [request EXCEPT ![q] = request'[q]]
             /\ Sound(request'[q])
  BY <1>0, <1>1
<1>2. ASSUME NEW ask \in Asks, NEW batch \in BOOLEAN, Begin(q, ask, batch)
      PROVE  /\ request' = [request EXCEPT ![q] = request'[q]]
             /\ Sound(request'[q])
  <2>. DEFINE x == [Idle EXCEPT !.place = "outbound",
                               !.viewer = ask[1], !.candidate = ask[2],
                               !.batch = batch, !.now = clock,
                               !.after = {r \in Requests : At(r, "done")}]
  <2>1. request' = [request EXCEPT ![q] = x]
    BY <1>2 DEF Begin
  <2>2. ask \in Pairs /\ ask = <<ask[1], ask[2]>> /\ ask[1] \in Users /\ ask[2] \in Users
    BY ConnectionsAssumption DEF Pairs
  <2>3. Sound(x)
    BY <1>0, <2>2 DEF Sound, IsPair, Transactions, Idle, Places, Statuses, OutcomeKinds
  <2>. HIDE DEF x
  <2> QED
    BY <1>1, <2>1, <2>3
<1>3. CASE ReadOutbound(q)
  <2>. DEFINE x == [request[q] EXCEPT !.place = "inbound",
                                     !.outbound = connection[Outbound(q)].status]
  <2>1. request' = [request EXCEPT ![q] = x] /\ At(q, "outbound")
    BY <1>0, <1>3 DEF ReadOutbound
  <2>2. connection[Outbound(q)].status \in Statuses
    BY <1>0, <2>1 DEF At, Sound, IsPair, Outbound, Rows
  <2>3. Sound(x)
    BY <1>0, <2>1, <2>2 DEF At, Sound, IsPair, Transactions, Places
  <2>. HIDE DEF x
  <2> QED
    BY <1>1, <2>1, <2>3
<1>4. CASE ReadInbound(q)
  <2>. DEFINE n == Continuation(request[q].outbound, LooksInbound(q))
              x == [request[q] EXCEPT !.place = n]
  <2>1. request' = [request EXCEPT ![q] = x] /\ At(q, "inbound")
    BY <1>0, <1>4 DEF ReadInbound
  <2>2. n \in {"done", "accept", "lock"}
    BY DEF Continuation
  <2>. HIDE DEF n
  <2>3. Sound(x)
    BY <1>0, <2>1, <2>2 DEF At, Sound, IsPair, Transactions, Places
  <2>. HIDE DEF x
  <2> QED
    BY <1>1, <2>1, <2>3
<1>5. CASE AcceptInbound(q)
  <2>. DEFINE w == IF Acceptable(Inbound(q)) THEN "accepted" ELSE "none"
              x == [request[q] EXCEPT !.write = w, !.kind = "connection_accepted",
                                     !.place = AfterWrite(q)]
  <2>1. request' = [request EXCEPT ![q] = x] /\ At(q, "accept")
    BY <1>0, <1>5 DEF AcceptInbound
  <2>2. AfterWrite(q) \in {"record", "commit"}
    BY DEF AfterWrite
  <2>3. Sound(x)
    BY <1>0, <2>1, <2>2 DEF At, Sound, IsPair, Transactions, Places, OutcomeKinds
  <2>. HIDE DEF x
  <2> QED
    BY <1>1, <2>1, <2>3
<1>6. CASE InsertPending(q)
  <2>. DEFINE w == IF connection[Outbound(q)].status = "none" THEN "pending" ELSE "none"
              x == [request[q] EXCEPT !.write = w, !.kind = "connection_requested",
                                     !.place = AfterWrite(q)]
  <2>1. request' = [request EXCEPT ![q] = x] /\ At(q, "insert")
    BY <1>0, <1>6 DEF InsertPending
  <2>2. AfterWrite(q) \in {"record", "commit"}
    BY DEF AfterWrite
  <2>3. Sound(x)
    BY <1>0, <2>1, <2>2 DEF At, Sound, IsPair, Transactions, Places, OutcomeKinds
  <2>. HIDE DEF x
  <2> QED
    BY <1>1, <2>1, <2>3
<1>7. ASSUME NEW n \in Places, Goes(q, n),
             \/ request[q].place \in {"lock", "count"} /\ n \in {"count", "insert"}
             \/ request[q].place = "record" /\ n = "commit"
             \/ request[q].place = "commit" /\ n = "done"
      PROVE  /\ request' = [request EXCEPT ![q] = request'[q]]
             /\ Sound(request'[q])
  <2>. DEFINE x == [request[q] EXCEPT !.place = n]
  <2>1. request' = [request EXCEPT ![q] = x]
    BY <1>0, <1>7 DEF Goes
  <2>2. Sound(x)
    BY <1>0, <1>7 DEF Sound, IsPair, Transactions
  <2>. HIDE DEF x
  <2> QED
    BY <1>1, <2>1, <2>2
<1>8. CASE AbortTransaction(q)
  <2>. DEFINE x == [Idle EXCEPT !.place = "done"]
  <2>1. request' = [request EXCEPT ![q] = x]
    BY <1>8 DEF AbortTransaction
  <2>2. Sound(x)
    <3>1. Idle \in Transactions /\ Idle.write = "none"
      BY ConnectionsAssumption DEF Transactions, Idle, Places, Statuses, OutcomeKinds
    <3>2. x \in Transactions /\ x.place = "done" /\ x.write = "none"
      BY <3>1 DEF Transactions, Places
    <3> QED
      BY <3>2 DEF Sound
  <2>. HIDE DEF x
  <2> QED
    BY <1>1, <2>1, <2>2
<1>9. CASE TakeLock(q) \/ CountRecent(q) \/ RecordOutcome(q) \/ Commit(q)
  BY <1>7, <1>9 DEF TakeLock, CountRecent, RecordOutcome, Commit, At, Places
<1> QED
  BY <1>2, <1>3, <1>4, <1>5, <1>6, <1>8, <1>9 DEF Runs

\* The rows a commit leaves behind.
LEMMA CommitRows ==
    ASSUME TypeInv, NEW q \in Requests, Commit(q)
    PROVE  /\ connection' \in [Pairs -> Rows]
           /\ \A p \in Pairs : ~Writes(q, p) => connection'[p] = connection[p]
           /\ \A p \in Pairs : Writes(q, p) =>
                 \/ /\ request[q].write = "accepted" /\ p = Inbound(q)
                    /\ connection'[p].status = "accepted"
                    /\ connection'[p].created_at = connection[p].created_at
                 \/ /\ request[q].write = "pending" /\ p = Outbound(q)
                    /\ connection'[p] = [status |-> "pending", created_at |-> request[q].now]
<1>0. connection \in [Pairs -> Rows] /\ request[q].now \in 0 .. MaxTime
  BY DEF TypeInv, Sound, Transactions
<1>1. connection' = [p \in Pairs |-> Committed(q, p)]
  BY DEF Commit
<1>2. ASSUME NEW p \in Pairs
      PROVE  /\ connection'[p] \in Rows
             /\ ~Writes(q, p) => connection'[p] = connection[p]
             /\ Writes(q, p) =>
                 \/ /\ request[q].write = "accepted" /\ p = Inbound(q)
                    /\ connection'[p].status = "accepted"
                    /\ connection'[p].created_at = connection[p].created_at
                 \/ /\ request[q].write = "pending" /\ p = Outbound(q)
                    /\ connection'[p] = [status |-> "pending", created_at |-> request[q].now]
  <2>0. connection'[p] = Committed(q, p) /\ connection[p] \in Rows
    BY <1>0, <1>1
  <2>1. CASE ~Writes(q, p)
    BY <2>0, <2>1 DEF Committed
  <2>2. CASE Writes(q, p) /\ request[q].write = "accepted"
    <3>1. connection'[p] = [connection[p] EXCEPT !.status = "accepted"] /\ p = Inbound(q)
      BY <2>0, <2>2 DEF Committed, Writes
    <3> QED
      BY <2>0, <2>2, <3>1 DEF Rows, Statuses
  <2>3. CASE Writes(q, p) /\ request[q].write = "pending"
    <3>1. /\ connection'[p] = [status |-> "pending", created_at |-> request[q].now]
          /\ p = Outbound(q)
      BY <2>0, <2>3 DEF Committed, Writes, CreationTime
    <3> QED
      BY <1>0, <2>3, <3>1 DEF Rows, Statuses
  <2> QED
    BY <2>1, <2>2, <2>3 DEF Writes
<1> QED
  BY <1>1, <1>2

LEMMA CommitStatus ==
    ASSUME TypeInv, NEW q \in Requests, Commit(q), NEW p \in Pairs, Writes(q, p)
    PROVE  connection'[p].status = request[q].write
<1>1. \/ /\ request[q].write = "accepted" /\ connection'[p].status = "accepted"
      \/ /\ request[q].write = "pending"
         /\ connection'[p] = [status |-> "pending", created_at |-> request[q].now]
  BY CommitRows
<1> QED
  BY <1>1

LEMMA InitType == Init => TypeInv
  BY ConnectionsAssumption
     DEF Init, TypeInv, Sound, IsPair, Transactions, Rows, Idle, NoRow, Statuses,
         Places, OutcomeKinds

\* Every statement keeps the types.
LEMMA NextType ==
    ASSUME TypeInv, [Next]_vars
    PROVE  TypeInv'
<1>1. CASE Outside
  <2>1. ASSUME NEW p \in Pairs, Block(p)
        PROVE  connection' \in [Pairs -> Rows]
    BY <2>1 DEF Block, TypeInv, Rows, Statuses
  <2>2. connection' \in [Pairs -> Rows]
    BY <1>1, <2>1 DEF Outside, Tick, vars, TypeInv
  <2>3. clock' \in 0 .. MaxTime
    BY <1>1, ConnectionsAssumption DEF Outside, Block, Tick, vars, TypeInv
  <2>4. UNCHANGED <<outcomes, request, lock, connected>>
    BY <1>1 DEF Outside, Block, Tick, vars
  <2> QED
    BY <2>2, <2>3, <2>4 DEF TypeInv
<1>2. ASSUME NEW q \in Requests, Runs(q)
      PROVE  TypeInv'
  <2>1. request' \in [Requests -> Transactions] /\ \A r \in Requests : Sound(request'[r])
    BY <1>2, RunsSound DEF TypeInv, Sound
  <2>2. connection' \in [Pairs -> Rows]
    BY <1>2, CommitRows DEF Runs, Begin, ReadOutbound, ReadInbound, AcceptInbound,
                            TakeLock, CountRecent, InsertPending, RecordOutcome,
                            AbortTransaction, TypeInv
  <2>3. lock' \in [Users -> Requests \cup {NoRequest}]
    BY <1>2 DEF Runs, Begin, ReadOutbound, ReadInbound, AcceptInbound,
                TakeLock, CountRecent, InsertPending, RecordOutcome, Commit,
                AbortTransaction, Released, TypeInv
  <2>4. connected' \subseteq Pairs /\ clock' \in 0 .. MaxTime
    BY <1>2 DEF Runs, Begin, ReadOutbound, ReadInbound, AcceptInbound,
                TakeLock, CountRecent, InsertPending, RecordOutcome, Commit,
                AbortTransaction, TypeInv
  <2>5. outcomes' \subseteq Users \X Users \X OutcomeKinds
    <3>1. CASE Commit(q)
      <4>1. Sound(request[q]) /\ request[q].place = "commit"
        BY <3>1 DEF Commit, At, TypeInv
      <4>2. <<request[q].viewer, request[q].candidate, request[q].kind>>
               \in Users \X Users \X OutcomeKinds
        BY <4>1, PairParts DEF Sound
      <4> QED
        BY <3>1, <4>2 DEF Commit, TypeInv
    <3>2. CASE outcomes' = outcomes
      BY <3>2 DEF TypeInv
    <3> QED
      BY <1>2, <3>1, <3>2 DEF Runs, Begin, ReadOutbound, ReadInbound, AcceptInbound,
                              TakeLock, CountRecent, InsertPending, RecordOutcome,
                              AbortTransaction
  <2> QED
    BY <2>1, <2>2, <2>3, <2>4, <2>5 DEF TypeInv
<1> QED
  BY <1>1, <1>2, StepKinds

\* Every variable keeps its type.
THEOREM SpecTypeOK == Spec => []TypeOK
<1>1. TypeInv /\ [Next]_vars => TypeInv'
  BY NextType
<1>2. TypeInv => TypeOK
  BY DEF TypeInv, TypeOK, Rows, Transactions
<1> QED
  BY <1>1, <1>2, InitType, PTL DEF Spec

-----------------------------------------------------------------------------
(* Rows *)

Out(x) == <<x.viewer, x.candidate>>
In(x) == <<x.candidate, x.viewer>>

\* Transaction x has written row p and not committed it.
Wrote(x, p) ==
    /\ x.place \in {"record", "commit"}
    /\ \/ x.write = "accepted" /\ p = In(x)
       \/ x.write = "pending" /\ p = Out(x)

\* A row has one writer at a time, and still is as it was when it was written.
WriteInv ==
    /\ \A q \in Requests, p \in Pairs :
          Wrote(request[q], p) =>
             connection[p].status = IF request[q].write = "accepted" THEN "pending" ELSE "none"
    /\ \A q, r \in Requests, p \in Pairs :
          Wrote(request[q], p) /\ Wrote(request[r], p) => q = r

\* The row of p stays as it is, is accepted or blocked, or appears.
RowStep(p) ==
    \/ connection'[p] = connection[p]
    \/ /\ connection[p].status \in {"pending", "accepted"}
       /\ connection'[p].status # "none"
       /\ connection'[p].created_at = connection[p].created_at
    \/ \E q \in Requests :
          /\ Commit(q)
          /\ request[q].write = "pending"
          /\ p = Out(request[q])
          /\ connection[p].status = "none"
          /\ connection'[p] = [status |-> "pending", created_at |-> request[q].now]

\* Only commits and blocks change rows, and they do that.
LEMMA RowSteps ==
    ASSUME TypeInv, WriteInv, [Next]_vars, NEW p \in Pairs
    PROVE  RowStep(p)
<1>0. connection \in [Pairs -> Rows]
  BY DEF TypeInv
<1>1. CASE connection' = connection
  BY <1>1 DEF RowStep
<1>2. ASSUME NEW d \in Pairs, Block(d) PROVE RowStep(p)
  BY <1>0, <1>2 DEF Block, RowStep, Rows
<1>3. ASSUME NEW q \in Requests, Commit(q) PROVE RowStep(p)
  <2>0. \A d \in Pairs : Writes(q, d) <=> Wrote(request[q], d)
    BY DEF Writes, Wrote, Inbound, Outbound, In, Out
  <2>1. CASE ~Writes(q, p)
    BY <1>3, <2>1, CommitRows DEF RowStep
  <2>2. CASE Writes(q, p) /\ request[q].write = "accepted"
    BY <1>3, <2>0, <2>2, CommitRows DEF RowStep, WriteInv
  <2>3. CASE Writes(q, p) /\ request[q].write = "pending"
    <3>1. /\ p = Out(request[q]) /\ connection[p].status = "none"
          /\ connection'[p] = [status |-> "pending", created_at |-> request[q].now]
      BY <1>3, <2>0, <2>3, CommitRows DEF WriteInv, Outbound, Out
    <3> QED
      BY <1>3, <2>3, <3>1 DEF RowStep
  <2> QED
    BY <2>1, <2>2, <2>3 DEF Writes
<1> QED
  BY <1>1, <1>2, <1>3 DEF Next, Begin, ReadOutbound, ReadInbound, AcceptInbound,
                          TakeLock, CountRecent, InsertPending, RecordOutcome,
                          AbortTransaction, Tick, vars

\* What a transaction has written after its step.
LEMMA WroteAfter ==
    ASSUME TypeInv, NEW q \in Requests, Runs(q), NEW p \in Pairs, Wrote(request'[q], p)
    PROVE  /\ ~Commit(q)
           /\ \/ Wrote(request[q], p) /\ request'[q].write = request[q].write
              \/ /\ IsFree(q, p)
                 /\ connection[p].status = IF request'[q].write = "accepted" THEN "pending"
                                           ELSE "none"
<1>0. /\ request \in [Requests -> Transactions] /\ Sound(request[q])
  BY DEF TypeInv
<1>1. CASE AcceptInbound(q)
  BY <1>0, <1>1 DEF AcceptInbound, Wrote, Acceptable, Commit, At, Inbound, In, Transactions
<1>2. CASE InsertPending(q)
  BY <1>0, <1>2 DEF InsertPending, Wrote, Commit, At, Outbound, Out, Transactions
<1>3. CASE RecordOutcome(q)
  BY <1>0, <1>3 DEF RecordOutcome, Goes, Wrote, Commit, At, Out, In, Transactions
<1>4. CASE Commit(q) \/ TakeLock(q) \/ CountRecent(q)
  BY <1>0, <1>4 DEF Commit, TakeLock, CountRecent, Goes, Wrote, Transactions
<1>5. CASE ReadOutbound(q) \/ ReadInbound(q)
  BY <1>0, <1>5 DEF ReadOutbound, ReadInbound, Continuation, Wrote, Transactions
<1>6. CASE AbortTransaction(q)
  BY <1>0, <1>6 DEF AbortTransaction, Wrote, Idle
<1>7. ASSUME NEW ask \in Asks, NEW batch \in BOOLEAN, Begin(q, ask, batch)
      PROVE  FALSE
  BY <1>0, <1>7 DEF Begin, Wrote, Idle
<1> QED
  BY <1>1, <1>2, <1>3, <1>4, <1>5, <1>6, <1>7 DEF Runs

\* Waiting for the writer of a row keeps writers apart.
LEMMA NextWrites ==
    ASSUME TypeInv, WriteInv, [Next]_vars
    PROVE  WriteInv'
<1>w. \A q \in Requests, p \in Pairs : Writes(q, p) <=> Wrote(request[q], p)
  BY DEF Writes, Wrote, Inbound, Outbound, In, Out
<1>1. CASE Outside
  <2>1. request' = request
    BY <1>1 DEF Outside, Block, Tick, vars
  <2>2. ASSUME NEW q \in Requests, NEW p \in Pairs, Wrote(request[q], p)
        PROVE  connection'[p] = connection[p]
    <3>1. ASSUME NEW d \in Pairs, Block(d) PROVE connection'[p] = connection[p]
      <4>1. NoRequest \notin Requests /\ connection \in [Pairs -> Rows]
        BY ConnectionsAssumption DEF TypeInv
      <4>2. p # d
        BY <1>w, <2>2, <3>1, <4>1 DEF Block, IsFree
      <4> QED
        BY <3>1, <4>1, <4>2 DEF Block
    <3> QED
      BY <1>1, <3>1 DEF Outside, Tick, vars
  <2> QED
    BY <2>1, <2>2 DEF WriteInv
<1>2. ASSUME NEW q \in Requests, Runs(q)
      PROVE  WriteInv'
  <2>0. /\ request' = [request EXCEPT ![q] = request'[q]]
        /\ request \in [Requests -> Transactions] /\ connection \in [Pairs -> Rows]
    BY <1>2, RunsSound DEF TypeInv
  <2>1. ASSUME NEW r \in Requests \ {q} PROVE request'[r] = request[r]
    BY <2>0
  <2>2. ASSUME NEW r \in Requests \ {q}, NEW p \in Pairs, Wrote(request[r], p)
        PROVE  /\ connection'[p] = connection[p]
               /\ ~Wrote(request'[q], p)
    <3>1. ~Wrote(request[q], p)
      BY <2>2 DEF WriteInv
    <3>2. connection'[p] = connection[p]
      BY <1>2, <1>w, <3>1, CommitRows DEF Runs, Begin, ReadOutbound, ReadInbound,
         AcceptInbound, TakeLock, CountRecent, InsertPending, RecordOutcome,
         AbortTransaction
    <3>3. ~IsFree(q, p)
      BY <1>w, <2>2 DEF IsFree
    <3> QED
      BY <1>2, <3>1, <3>2, <3>3, WroteAfter
  <2>3. ASSUME NEW p \in Pairs, Wrote(request'[q], p)
        PROVE  connection'[p].status = IF request'[q].write = "accepted" THEN "pending"
                                       ELSE "none"
    <3>1. ~Commit(q)
      BY <1>2, <2>3, WroteAfter
    <3>2. connection' = connection
      BY <1>2, <3>1 DEF Runs, Begin, ReadOutbound, ReadInbound, AcceptInbound, TakeLock,
                        CountRecent, InsertPending, RecordOutcome, AbortTransaction
    <3> QED
      BY <1>2, <2>3, <3>2, WroteAfter DEF WriteInv
  <2>4. ASSUME NEW r \in Requests, NEW p \in Pairs, Wrote(request'[r], p)
        PROVE  connection'[p].status = IF request'[r].write = "accepted" THEN "pending"
                                       ELSE "none"
    BY <2>1, <2>2, <2>3, <2>4 DEF WriteInv
  <2>5. ASSUME NEW r \in Requests, NEW t \in Requests, NEW p \in Pairs,
               Wrote(request'[r], p), Wrote(request'[t], p)
        PROVE  r = t
    BY <2>1, <2>2, <2>5 DEF WriteInv
  <2> QED
    BY <2>4, <2>5 DEF WriteInv
<1> QED
  BY <1>1, <1>2, StepKinds

LEMMA InitWrites == Init => WriteInv
  BY DEF Init, WriteInv, Wrote, Idle

\* No request turns a blocked row into anything else.
THEOREM SpecBlockStands == Spec => BlockStands
<1>1. Init => TypeInv /\ WriteInv
  BY InitType, InitWrites
<1>2. TypeInv /\ WriteInv /\ [Next]_vars => (TypeInv /\ WriteInv)'
  BY NextType, NextWrites
<1>3. TypeInv /\ WriteInv /\ [Next]_vars =>
         [\A p \in Pairs : connection[p].status = "blocked" =>
                               connection'[p].status = "blocked"]_vars
  BY RowSteps DEF RowStep
<1> QED
  BY <1>1, <1>2, <1>3, PTL DEF Spec, BlockStands

-----------------------------------------------------------------------------
(* The throttle *)

\* Every row but that of a pending write being committed keeps what the
\* throttle looks at, or disappears from its view.
Kept(p) ==
    connection'[p].status # "none" =>
       /\ connection[p].status # "none"
       /\ connection'[p].created_at = connection[p].created_at

\* One row at most appears in a step.
LEMMA Appearing ==
    ASSUME TypeInv, WriteInv, [Next]_vars
    PROVE  \/ \A p \in Pairs : Kept(p)
           \/ \E q \in Requests :
                 /\ Commit(q)
                 /\ request[q].write = "pending"
                 /\ Out(request[q]) \in Pairs
                 /\ connection'[Out(request[q])].created_at = request[q].now
                 /\ \A p \in Pairs \ {Out(request[q])} : Kept(p)
<1>1. CASE \A p \in Pairs : Kept(p)
  BY <1>1
<1>2. CASE \E p \in Pairs : ~Kept(p)
  <2>1. PICK p \in Pairs : ~Kept(p)
    BY <1>2
  <2>2. PICK q \in Requests :
          /\ Commit(q)
          /\ request[q].write = "pending"
          /\ p = Out(request[q])
          /\ connection'[p] = [status |-> "pending", created_at |-> request[q].now]
    BY <2>1, RowSteps DEF RowStep, Kept
  <2>3. ASSUME NEW d \in Pairs \ {Out(request[q])} PROVE Kept(d)
    <3>1. ~Writes(q, d)
      BY <2>2, <2>3 DEF Writes, Outbound, Out
    <3> QED
      BY <2>2, <3>1, CommitRows DEF Kept
  <2> QED
    BY <2>2, <2>3
<1> QED
  BY <1>1, <1>2

\* Transaction x may insert, and so holds the lock of its viewer.
Serial(x) ==
    \/ x.place \in {"count", "insert"}
    \/ x.place \in {"record", "commit"} /\ x.write = "pending"

LockInv == \A q \in Requests : Serial(request[q]) => lock[request[q].viewer] = q

LEMMA SerialAfter ==
    ASSUME TypeInv, NEW q \in Requests, Runs(q), Serial(request'[q])
    PROVE  /\ request'[q].viewer = request[q].viewer
           /\ request'[q].now = request[q].now
           /\ ~Commit(q)
           /\ connection' = connection
           /\ \/ TakeLock(q)
              \/ Serial(request[q]) /\ lock' = lock
<1>0. /\ request \in [Requests -> Transactions] /\ Sound(request[q])
  BY DEF TypeInv
<1>1. CASE TakeLock(q)
  BY <1>0, <1>1 DEF TakeLock, Goes, Commit, At, Transactions
<1>2. CASE CountRecent(q)
  BY <1>0, <1>2 DEF CountRecent, Goes, Commit, At, Transactions, Serial
<1>3. CASE InsertPending(q)
  BY <1>0, <1>3 DEF InsertPending, Commit, At, Transactions, Serial
<1>4. CASE RecordOutcome(q)
  BY <1>0, <1>4 DEF RecordOutcome, Goes, Commit, At, Transactions, Serial
<1>5. CASE Commit(q)
  BY <1>0, <1>5 DEF Commit, Goes, Transactions, Serial
<1>6. CASE ReadOutbound(q) \/ ReadInbound(q)
  BY <1>0, <1>6 DEF ReadOutbound, ReadInbound, Continuation, Transactions, Serial
<1>7. CASE AcceptInbound(q)
  BY <1>0, <1>7 DEF AcceptInbound, AfterWrite, Transactions, Serial
<1>8. CASE AbortTransaction(q)
  BY <1>0, <1>8 DEF AbortTransaction, Idle, Serial
<1>9. ASSUME NEW ask \in Asks, NEW batch \in BOOLEAN, Begin(q, ask, batch)
      PROVE  FALSE
  BY <1>0, <1>9 DEF Begin, Idle, Serial
<1> QED
  BY <1>1, <1>2, <1>3, <1>4, <1>5, <1>6, <1>7, <1>8, <1>9 DEF Runs

\* Two transactions of a viewer do not come between the lock and the commit.
LEMMA NextLock ==
    ASSUME TypeInv, LockInv, [Next]_vars
    PROVE  LockInv'
<1>1. CASE Outside
  <2>1. request' = request /\ lock' = lock
    BY <1>1 DEF Outside, Block, Tick, vars
  <2> QED
    BY <2>1 DEF LockInv
<1>2. ASSUME NEW q \in Requests, Runs(q)
      PROVE  LockInv'
  <2>0. /\ request' = [request EXCEPT ![q] = request'[q]]
        /\ request \in [Requests -> Transactions]
        /\ lock \in [Users -> Requests \cup {NoRequest}]
        /\ NoRequest \notin Requests
        /\ \A r \in Requests : Sound(request[r])
    BY <1>2, RunsSound, ConnectionsAssumption DEF TypeInv
  <2>1. ASSUME NEW r \in Requests \ {q}, Serial(request'[r])
        PROVE  lock'[request'[r].viewer] = r
    <3>1. request'[r] = request[r] /\ lock[request[r].viewer] = r
      BY <2>0, <2>1 DEF LockInv
    <3>2. request[r].viewer \in Users
      BY <2>0, <2>1, <3>1, PairParts DEF Serial, Sound
    <3>3. CASE TakeLock(q)
      BY <2>0, <3>1, <3>2, <3>3 DEF TakeLock, LockIsFree
    <3>4. CASE lock' = Released(q)
      BY <2>0, <3>1, <3>2, <3>4 DEF Released
    <3>5. CASE lock' = lock
      BY <3>1, <3>5
    <3> QED
      BY <1>2, <3>3, <3>4, <3>5 DEF Runs, Begin, ReadOutbound, ReadInbound, AcceptInbound,
         CountRecent, InsertPending, RecordOutcome, Commit, AbortTransaction
  <2>2. ASSUME Serial(request'[q])
        PROVE  lock'[request'[q].viewer] = q
    <3>1. CASE TakeLock(q)
      <4>1. request[q].viewer \in Users
        BY <2>0, <3>1, PairParts DEF TakeLock, At, Sound
      <4>2. request'[q].viewer = request[q].viewer
        BY <1>2, <2>2, SerialAfter
      <4> QED
        BY <2>0, <3>1, <4>1, <4>2 DEF TakeLock
    <3>2. CASE Serial(request[q]) /\ lock' = lock
      BY <1>2, <2>2, <3>2, SerialAfter DEF LockInv
    <3> QED
      BY <1>2, <2>2, <3>1, <3>2, SerialAfter
  <2> QED
    BY <2>1, <2>2 DEF LockInv
<1> QED
  BY <1>1, <1>2, StepKinds

\* The rows of a viewer that rows is right to count, from a time on.
Recent(u, from, rows) ==
    {p \in Pairs : /\ p[1] = u
                   /\ rows[p].status # "none"
                   /\ rows[p].created_at >= from}

\* The rows that there are.
Present(rows) == {p \in Pairs : rows[p].status # "none"}

\* Transaction x has counted, and not inserted for good.
Counted(x) ==
    \/ x.place = "insert"
    \/ x.place \in {"record", "commit"} /\ x.write = "pending"

CountInv ==
    \A q \in Requests :
        Counted(request[q]) =>
           Cardinality(Recent(request[q].viewer, request[q].now - Window, connection)) < Limit

\* The rows of a viewer within a window.
Within(u, t, rows) ==
    {p \in Pairs : /\ p[1] = u
                   /\ rows[p].status # "none"
                   /\ rows[p].created_at \in t .. t + Window}

ThrottleInv ==
    /\ IsFiniteSet(Present(connection))
    /\ LockInv
    /\ CountInv
    /\ \A u \in Users, t \in 0 .. MaxTime : Cardinality(Within(u, t, connection)) <= Limit

\* A set of rows that loses members does not get larger.
LEMMA Fewer ==
    ASSUME NEW S, NEW T, S \subseteq T, IsFiniteSet(T)
    PROVE  /\ IsFiniteSet(S) /\ Cardinality(S) \in Nat /\ Cardinality(T) \in Nat
           /\ Cardinality(S) <= Cardinality(T)
  BY FS_Subset, FS_CardinalityType

LEMMA StillFew ==
    ASSUME NEW S, NEW T, S \subseteq T, IsFiniteSet(T), NEW n \in Nat, Cardinality(T) <= n
    PROVE  Cardinality(S) <= n
<1>1. /\ Cardinality(S) \in Nat /\ Cardinality(T) \in Nat
      /\ Cardinality(S) <= Cardinality(T)
  BY Fewer
<1> QED
  BY <1>1

\* One more row than fewer than n.
LEMMA OneMore ==
    ASSUME NEW S, NEW T, NEW x, S \subseteq T \cup {x}, IsFiniteSet(T),
           NEW n \in Nat, Cardinality(T) < n
    PROVE  Cardinality(S) <= n
<1>1. IsFiniteSet(T \cup {x}) /\ Cardinality(T) \in Nat
  BY FS_AddElement, FS_CardinalityType
<1>2. Cardinality(T \cup {x}) = IF x \in T THEN Cardinality(T) ELSE Cardinality(T) + 1
  BY FS_AddElement
<1>3. Cardinality(T \cup {x}) <= n
  BY <1>1, <1>2
<1> QED
  BY <1>1, <1>3, StillFew

\* A count made under the lock still holds at the commit: nobody else inserts.
LEMMA NextCount ==
    ASSUME TypeInv, WriteInv, ThrottleInv, [Next]_vars
    PROVE  CountInv'
<1>0. /\ request \in [Requests -> Transactions]
      /\ \A r \in Requests : Sound(request[r])
      /\ IsFiniteSet(Present(connection)) /\ Limit \in Nat
  BY ConnectionsAssumption DEF TypeInv, ThrottleInv
<1>. SUFFICES ASSUME NEW r \in Requests, Counted(request'[r])
              PROVE  Cardinality(Recent(request'[r].viewer, request'[r].now - Window,
                                        connection')) < Limit
  BY DEF CountInv
<1>. DEFINE u == request[r].viewer
            from == request[r].now - Window
<1>1. ASSUME Counted(request[r]), request'[r] = request[r] \/ Runs(r)
      PROVE  /\ request'[r].viewer = u /\ request'[r].now = request[r].now
             /\ ~Commit(r)
  <2>1. CASE Runs(r)
    BY <2>1, SerialAfter DEF Counted, Serial
  <2>2. CASE request'[r] = request[r] /\ ~Runs(r)
    BY <2>2 DEF Runs
  <2> QED
    BY <1>1, <2>1, <2>2
<1>2. request'[r] = request[r] \/ Runs(r)
  <2>1. CASE Outside
    BY <2>1 DEF Outside, Block, Tick, vars
  <2>2. ASSUME NEW q \in Requests, Runs(q) PROVE request'[r] = request[r] \/ Runs(r)
    BY <1>0, <2>2, RunsSound
  <2> QED
    BY <2>1, <2>2, StepKinds
<1>3. CASE Counted(request[r])
  <2>1. Recent(u, from, connection') \subseteq Recent(u, from, connection)
    <3>1. CASE \A p \in Pairs : Kept(p)
      BY <3>1 DEF Kept, Recent
    <3>2. ASSUME NEW q \in Requests, Commit(q), request[q].write = "pending",
                 \A p \in Pairs \ {Out(request[q])} : Kept(p)
          PROVE  Recent(u, from, connection') \subseteq Recent(u, from, connection)
      <4>1. q # r
        BY <1>1, <1>2, <1>3, <3>2
      <4>2. Serial(request[q]) /\ Serial(request[r])
        BY <1>3, <3>2 DEF Serial, Counted, Commit, At
      <4>3. request[q].viewer # u
        BY <4>1, <4>2 DEF ThrottleInv, LockInv
      <4>4. ASSUME NEW p \in Pairs, p[1] = u PROVE Kept(p)
        BY <3>2, <4>3, <4>4 DEF Out
      <4> QED
        BY <4>4 DEF Kept, Recent
    <3> QED
      BY <3>1, <3>2, Appearing
  <2>2. Recent(u, from, connection) \subseteq Present(connection)
    BY DEF Recent, Present
  <2>3. Cardinality(Recent(u, from, connection)) < Limit
    BY <1>3 DEF ThrottleInv, CountInv
  <2>4. IsFiniteSet(Recent(u, from, connection))
    BY <1>0, <2>2, Fewer
  <2>5. Cardinality(Recent(u, from, connection')) < Limit
    BY <1>0, <2>1, <2>3, <2>4, Fewer
  <2> QED
    BY <1>1, <1>2, <1>3, <2>5
<1>4. CASE ~Counted(request[r])
  <2>1. Runs(r) /\ Serial(request'[r])
    BY <1>2, <1>4 DEF Counted, Serial
  <2>2. CASE CountRecent(r)
    <3>1. /\ request'[r].viewer = u /\ request'[r].now = request[r].now
          /\ connection' = connection
      BY <2>1, SerialAfter
    <3>2. RecentOutbound(r) = Recent(u, from, connection)
      BY DEF RecentOutbound, Recent
    <3> QED
      BY <2>2, <3>1, <3>2 DEF CountRecent
  <2>3. CASE ~CountRecent(r)
    <3>1. TakeLock(r) \/ Serial(request[r])
      BY <2>1, SerialAfter
    <3>2. request[r].place \in {"lock", "count"}
      BY <1>4, <3>1 DEF TakeLock, At, Serial, Counted
    <3>3. TakeLock(r) \/ AbortTransaction(r)
      BY <2>1, <2>3, <3>2 DEF Runs, Begin, ReadOutbound, ReadInbound, AcceptInbound,
         InsertPending, RecordOutcome, Commit, At
    <3>4. ~Counted(request'[r])
      BY <1>0, <3>3 DEF TakeLock, Goes, AbortTransaction, Idle, Counted, At, Transactions, Sound
    <3> QED
      BY <3>4
  <2> QED
    BY <2>2, <2>3
<1> QED
  BY <1>3, <1>4

LEMMA NextThrottle ==
    ASSUME TypeInv, WriteInv, ThrottleInv, [Next]_vars
    PROVE  ThrottleInv'
<1>0. /\ IsFiniteSet(Present(connection)) /\ Limit \in Nat \ {0} /\ Window \in Nat
      /\ connection \in [Pairs -> Rows]
  BY ConnectionsAssumption DEF ThrottleInv, TypeInv
<1>1. CountInv' /\ LockInv'
  BY NextCount, NextLock DEF ThrottleInv
<1>2. CASE \A p \in Pairs : Kept(p)
  <2>1. Present(connection') \subseteq Present(connection)
    BY <1>2 DEF Kept, Present
  <2>2. IsFiniteSet(Present(connection'))
    BY <1>0, <2>1, Fewer
  <2>3. ASSUME NEW u \in Users, NEW t \in 0 .. MaxTime
        PROVE  Cardinality(Within(u, t, connection')) <= Limit
    <3>1. Within(u, t, connection') \subseteq Within(u, t, connection)
      BY <1>2 DEF Kept, Within
    <3>2. IsFiniteSet(Within(u, t, connection))
      <4>1. Within(u, t, connection) \subseteq Present(connection)
        BY DEF Within, Present
      <4> QED
        BY <1>0, <4>1, Fewer
    <3>3. Cardinality(Within(u, t, connection)) <= Limit
      BY DEF ThrottleInv
    <3> QED
      BY <1>0, <3>1, <3>2, <3>3, Fewer
  <2> QED
    BY <1>1, <2>2, <2>3 DEF ThrottleInv
<1>3. ASSUME NEW q \in Requests, Commit(q), request[q].write = "pending",
             Out(request[q]) \in Pairs,
             connection'[Out(request[q])].created_at = request[q].now,
             \A p \in Pairs \ {Out(request[q])} : Kept(p)
      PROVE  ThrottleInv'
  <2>. DEFINE o == Out(request[q])
              v == request[q].viewer
              now == request[q].now
              before == Recent(v, now - Window, connection)
  <2>1. IsFiniteSet(Present(connection'))
    <3>1. Present(connection') \subseteq Present(connection) \cup {o}
      BY <1>3 DEF Kept, Present
    <3>2. IsFiniteSet(Present(connection) \cup {o})
      BY <1>0, FS_AddElement
    <3> QED
      BY <3>1, <3>2, Fewer
  <2>2. Cardinality(before) < Limit /\ now \in 0 .. MaxTime /\ o[1] = v
    <3>1. Counted(request[q])
      BY <1>3 DEF Counted, Commit, At
    <3> QED
      BY <3>1 DEF ThrottleInv, CountInv, TypeInv, Transactions, Out
  <2>3. IsFiniteSet(before)
    <3>1. before \subseteq Present(connection)
      BY DEF Recent, Present
    <3> QED
      BY <1>0, <3>1, Fewer
  <2>4. ASSUME NEW u \in Users, NEW t \in 0 .. MaxTime
        PROVE  Cardinality(Within(u, t, connection')) <= Limit
    <3>. DEFINE new == Within(u, t, connection')
                old == Within(u, t, connection)
    <3>1. CASE o \notin new
      <4>1. new \subseteq old
        BY <1>3, <3>1 DEF Kept, Within
      <4>2. old \subseteq Present(connection)
        BY DEF Within, Present
      <4>3. Cardinality(old) <= Limit
        BY DEF ThrottleInv
      <4>4. IsFiniteSet(old)
        BY <1>0, <4>2, Fewer
      <4>5. Limit \in Nat
        BY <1>0
      <4>. HIDE DEF new, old
      <4>6. Cardinality(new) <= Limit
        BY <4>1, <4>3, <4>4, <4>5, StillFew
      <4> QED
        BY <4>6 DEF new
    <3>2. CASE o \in new
      <4>1. u = v /\ now \in t .. t + Window
        BY <1>3, <2>2, <3>2 DEF Within
      <4>2. new \subseteq before \cup {o}
        <5>1. ASSUME NEW p \in new, p # o PROVE p \in before
          <6>1. /\ p \in Pairs /\ p[1] = v /\ connection'[p].status # "none"
                /\ connection'[p].created_at \in t .. t + Window
            BY <4>1, <5>1 DEF Within
          <6>2. connection[p].status # "none" /\ connection[p].created_at \in t .. t + Window
            BY <1>3, <5>1, <6>1 DEF Kept
          <6>3. connection[p].created_at >= now - Window
            BY <1>0, <2>2, <4>1, <6>2
          <6> QED
            BY <6>1, <6>2, <6>3 DEF Recent
        <5> QED
          BY <5>1
      <4>3. Limit \in Nat
        BY <1>0
      <4>. HIDE DEF new, before, o
      <4>4. Cardinality(new) <= Limit
        BY <2>2, <2>3, <4>2, <4>3, OneMore
      <4> QED
        BY <4>4 DEF new
    <3> QED
      BY <3>1, <3>2
  <2> QED
    BY <1>1, <2>1, <2>4 DEF ThrottleInv
<1> QED
  BY <1>2, <1>3, Appearing

LEMMA InitThrottle == Init => ThrottleInv
<1>. SUFFICES ASSUME Init PROVE ThrottleInv
  OBVIOUS
<1>1. Present(connection) = {} /\ \A u, t : Within(u, t, connection) = {}
  BY DEF Init, Present, Within, NoRow
<1>2. LockInv /\ CountInv
  BY DEF Init, LockInv, CountInv, Serial, Counted, Idle
<1> QED
  BY <1>1, <1>2, FS_EmptySet, ConnectionsAssumption DEF ThrottleInv

\* Nobody has more new connections than the limit in any window of time,
\* whatever calls run at the same time and however long they wait.
THEOREM SpecThrottleHolds == Spec => []ThrottleHolds
<1>1. Init => TypeInv /\ WriteInv /\ ThrottleInv
  BY InitType, InitWrites, InitThrottle
<1>2. TypeInv /\ WriteInv /\ ThrottleInv /\ [Next]_vars
        => (TypeInv /\ WriteInv /\ ThrottleInv)'
  BY NextType, NextWrites, NextThrottle
<1>3. ThrottleInv => ThrottleHolds
  BY DEF ThrottleInv, ThrottleHolds, Within
<1> QED
  BY <1>1, <1>2, <1>3, PTL DEF Spec

-----------------------------------------------------------------------------
(* People who ask for each other *)

\* Transaction x is on its way to a row of its own, or has written it.
Late(x) == x.place \in {"lock", "count", "insert"} \/ x.write = "pending"

\* A row that was left is not removed; who began after a request was over has
\* seen the row it left, and does not insert the opposite one.
MeetInv ==
    /\ \A q \in Requests : Asked(q) => connection[Out(request[q])].status # "none"
    /\ \A q, r \in Requests : q \in request[r].after => request[q].place = "done"
    /\ \A q, r \in Requests :
          q \in request[r].after /\ Asked(q) /\ Late(request[r])
            => Out(request[q]) # In(request[r])

\* Who reads an inbound row does not go for the lock.
LEMMA ReadsInbound ==
    ASSUME TypeInv, NEW q \in Requests, ReadInbound(q), Late(request'[q])
    PROVE  connection[In(request[q])].status = "none"
<1>1. /\ request \in [Requests -> Transactions] /\ connection \in [Pairs -> Rows]
      /\ Sound(request[q]) /\ request[q].place = "inbound"
  BY DEF TypeInv, ReadInbound, At
<1>2. request[q].write = "none" /\ In(request[q]) \in Pairs
  BY <1>1, PairParts DEF Sound, In, Transactions
<1>3. /\ request'[q].write = "none"
      /\ request'[q].place = Continuation(request[q].outbound, LooksInbound(q))
  BY <1>1, <1>2 DEF ReadInbound, Transactions
<1>4. Continuation(request[q].outbound, LooksInbound(q)) = "lock"
  BY <1>3 DEF Late, Continuation
<1>5. request[q].outbound \in Statuses /\ LooksInbound(q) \in Statuses
  BY <1>1, <1>2 DEF Transactions, LooksInbound, Inbound, In, Rows
<1>6. LooksInbound(q) = "none"
  BY <1>4, <1>5 DEF Continuation, Statuses
<1> QED
  BY <1>6 DEF LooksInbound, Inbound, In

\* How a transaction becomes late, and how it becomes one that asked.
LEMMA LateAfter ==
    ASSUME TypeInv, NEW q \in Requests, Runs(q), Late(request'[q])
    PROVE  /\ request'[q].after = request[q].after
           /\ In(request'[q]) = In(request[q])
           /\ ReadInbound(q) \/ Late(request[q])
           /\ request'[q].place = "done" /\ request'[q].write = "pending"
                => /\ Commit(q) /\ request[q].write = "pending"
                   /\ Out(request'[q]) = Out(request[q])
<1>0. /\ request \in [Requests -> Transactions] /\ Sound(request[q])
  BY DEF TypeInv
<1>1. CASE TakeLock(q) \/ CountRecent(q) \/ RecordOutcome(q)
  BY <1>0, <1>1 DEF TakeLock, CountRecent, RecordOutcome, Goes, At, Transactions, Late, In
<1>2. CASE ReadOutbound(q)
  BY <1>0, <1>2 DEF ReadOutbound, At, Transactions, Late, Sound
<1>3. CASE ReadInbound(q)
  BY <1>0, <1>3 DEF ReadInbound, Sound, At, Transactions, Late, In
<1>4. CASE InsertPending(q)
  BY <1>0, <1>4 DEF InsertPending, AfterWrite, At, Transactions, Late, In
<1>5. CASE AcceptInbound(q)
  BY <1>0, <1>5 DEF AcceptInbound, AfterWrite, Transactions, Late
<1>6. CASE Commit(q)
  BY <1>0, <1>6 DEF Commit, Goes, Transactions, Late, In, Out
<1>7. CASE AbortTransaction(q)
  BY <1>0, <1>7 DEF AbortTransaction, Idle, Late
<1>8. ASSUME NEW ask \in Asks, NEW batch \in BOOLEAN, Begin(q, ask, batch)
      PROVE  FALSE
  BY <1>0, <1>8 DEF Begin, Idle, Late
<1> QED
  BY <1>1, <1>2, <1>3, <1>4, <1>5, <1>6, <1>7, <1>8 DEF Runs

\* Those a transaction knows to have been over when it began.
LEMMA AfterSteps ==
    ASSUME TypeInv, NEW q \in Requests, Runs(q), NEW r \in request'[q].after
    PROVE  r \in request[q].after \/ (r \in Requests /\ request[r].place = "done")
<1>0. request \in [Requests -> Transactions]
  BY DEF TypeInv
<1>1. ASSUME NEW ask \in Asks, NEW batch \in BOOLEAN, Begin(q, ask, batch)
      PROVE  r \in Requests /\ request[r].place = "done"
  BY <1>0, <1>1 DEF Begin, Idle, At
<1>2. CASE AbortTransaction(q)
  BY <1>0, <1>2 DEF AbortTransaction, Idle
<1>3. CASE \/ ReadOutbound(q) \/ ReadInbound(q) \/ AcceptInbound(q) \/ InsertPending(q)
           \/ TakeLock(q) \/ CountRecent(q) \/ RecordOutcome(q) \/ Commit(q)
  BY <1>0, <1>3 DEF ReadOutbound, ReadInbound, AcceptInbound, InsertPending,
     TakeLock, CountRecent, RecordOutcome, Commit, Goes, Transactions
<1> QED
  BY <1>1, <1>2, <1>3 DEF Runs

\* What is over stays over.
LEMMA OverStays ==
    ASSUME TypeInv, [Next]_vars, NEW q \in Requests, request[q].place = "done"
    PROVE  request'[q] = request[q]
<1>1. CASE Outside
  BY <1>1 DEF Outside, Block, Tick, vars
<1>2. ASSUME NEW r \in Requests, Runs(r) PROVE request'[q] = request[q]
  <2>1. q # r
    BY <1>2 DEF Runs, Begin, ReadOutbound, ReadInbound, AcceptInbound, TakeLock,
                CountRecent, InsertPending, RecordOutcome, Commit, AbortTransaction, At
  <2>2. request' = [request EXCEPT ![r] = request'[r]] /\ request \in [Requests -> Transactions]
    BY <1>2, RunsSound DEF TypeInv
  <2> QED
    BY <2>1, <2>2
<1> QED
  BY <1>1, <1>2, StepKinds

LEMMA NextMeet ==
    ASSUME TypeInv, WriteInv, MeetInv, [Next]_vars
    PROVE  MeetInv'
<1>0. request \in [Requests -> Transactions] /\ \A q \in Requests : Sound(request[q])
  BY DEF TypeInv
<1>1. ASSUME NEW q \in Requests
      PROVE  request'[q] = request[q] \/ Runs(q)
  <2>1. CASE Outside
    BY <2>1 DEF Outside, Block, Tick, vars
  <2>2. ASSUME NEW r \in Requests, Runs(r) PROVE request'[q] = request[q] \/ Runs(q)
    BY <1>0, <2>2, RunsSound
  <2> QED
    BY <2>1, <2>2, StepKinds
<1>2. ASSUME NEW q \in Requests, NEW r \in Requests, q \in request'[r].after
      PROVE  request[q].place = "done" /\ request'[q] = request[q]
  <2>1. request[q].place = "done"
    BY <1>1, <1>2, AfterSteps DEF MeetInv
  <2> QED
    BY <2>1, OverStays
<1>3. ASSUME NEW q \in Requests, request'[q].place = "done", request'[q].write = "pending"
      PROVE  connection'[Out(request'[q])].status # "none"
  <2>1. CASE request'[q] = request[q]
    <3>. DEFINE p == Out(request[q])
    <3>1. Asked(q) /\ p \in Pairs
      BY <1>0, <1>3, <2>1 DEF Asked, At, Sound, IsPair, Out
    <3>2. connection[p].status # "none"
      BY <3>1 DEF MeetInv
    <3>. HIDE DEF p
    <3>3. RowStep(p)
      BY <3>1, RowSteps
    <3>4. connection'[p].status # "none"
      BY <3>2, <3>3 DEF RowStep
    <3> QED
      BY <2>1, <3>4 DEF p
  <2>2. CASE Runs(q)
    <3>1. Commit(q) /\ request[q].write = "pending" /\ Out(request'[q]) = Out(request[q])
      BY <1>3, <2>2, LateAfter DEF Late
    <3>2. Out(request[q]) \in Pairs /\ Writes(q, Out(request[q]))
      BY <1>0, <3>1 DEF Sound, IsPair, Out, Outbound, Writes, Commit, At
    <3>3. connection'[Out(request[q])].status = "pending"
      BY <3>1, <3>2, CommitStatus
    <3> QED
      BY <3>1, <3>3
  <2> QED
    BY <1>1, <2>1, <2>2
<1>4. ASSUME NEW q \in Requests, NEW r \in Requests, q \in request'[r].after,
             request'[q].place = "done", request'[q].write = "pending", Late(request'[r])
      PROVE  Out(request'[q]) # In(request'[r])
  <2>1. request'[q] = request[q] /\ Asked(q)
    BY <1>2, <1>4 DEF Asked, At
  <2>2. CASE request'[r] = request[r]
    BY <1>4, <2>1, <2>2 DEF MeetInv
  <2>3. CASE Runs(r)
    <3>1. /\ q \in request[r].after /\ In(request'[r]) = In(request[r])
          /\ ReadInbound(r) \/ Late(request[r])
      BY <1>4, <2>3, LateAfter
    <3>2. CASE Late(request[r])
      BY <2>1, <3>1, <3>2 DEF MeetInv
    <3>3. CASE ReadInbound(r)
      <4>1. connection[In(request[r])].status = "none"
        BY <1>4, <3>3, ReadsInbound
      <4> QED
        BY <2>1, <3>1, <4>1 DEF MeetInv
    <3> QED
      BY <3>1, <3>2, <3>3
  <2> QED
    BY <1>1, <2>2, <2>3
<1> QED
  BY <1>2, <1>3, <1>4 DEF MeetInv, Asked, At

LEMMA InitMeet == Init => MeetInv
  BY DEF Init, MeetInv, Asked, At, Idle

\* Two people who ask for each other are connected, unless their requests ran
\* at the same time.
THEOREM SpecRequestsMeetUnlessCrossed == Spec => []RequestsMeetUnlessCrossed
<1>1. Init => TypeInv /\ WriteInv /\ MeetInv
  BY InitType, InitWrites, InitMeet
<1>2. TypeInv /\ WriteInv /\ MeetInv /\ [Next]_vars => (TypeInv /\ WriteInv /\ MeetInv)'
  BY NextType, NextWrites, NextMeet
<1>3. MeetInv => RequestsMeetUnlessCrossed
  <2>. SUFFICES ASSUME MeetInv, NEW q \in Requests, NEW r \in Requests,
                       Asked(q), Asked(r), Outbound(q) = Inbound(r)
                PROVE  q \notin request[r].after /\ r \notin request[q].after
    BY DEF RequestsMeetUnlessCrossed
  <2>1. Late(request[q]) /\ Late(request[r])
    BY DEF Late, Asked
  <2>2. Out(request[q]) = In(request[r]) /\ Out(request[r]) = In(request[q])
    BY DEF Outbound, Inbound, Out, In
  <2> QED
    BY <2>1, <2>2 DEF MeetInv
<1> QED
  BY <1>1, <1>2, <1>3, PTL DEF Spec

-----------------------------------------------------------------------------
(* Outcomes *)

\* The outcome x is to record is one that happened, or does at its commit.
Happened(x, rows, seen) ==
    /\ x.kind = "connection_requested" =>
          x.write = "pending" \/ rows[Out(x)].status # "none"
    /\ x.kind = "connection_accepted" =>
          x.write = "accepted" \/ {Out(x), In(x)} \cap seen # {}

OutcomeInv ==
    /\ \A p \in Pairs : connection[p].status = "accepted" => p \in connected
    /\ \A q \in Requests :
          request[q].place = "commit" /\ request[q].batch
            => Happened(request[q], connection, connected)
    /\ \A u, v \in Users :
          /\ <<u, v, "connection_requested">> \in outcomes =>
                <<u, v>> \in Pairs /\ connection[<<u, v>>].status # "none"
          /\ <<u, v, "connection_accepted">> \in outcomes =>
                {<<u, v>>, <<v, u>>} \cap connected # {}

\* What is there does not disappear, and what was accepted stays in the
\* history.
LEMMA StillThere ==
    ASSUME TypeInv, WriteInv, OutcomeInv, [Next]_vars
    PROVE  /\ \A p \in Pairs : connection[p].status # "none" => connection'[p].status # "none"
           /\ connected \subseteq connected'
           /\ \A p \in Pairs : connection'[p].status = "accepted" => p \in connected'
<1>0. connection \in [Pairs -> Rows]
  BY DEF TypeInv
<1>1. \A p \in Pairs : connection[p].status # "none" => connection'[p].status # "none"
  BY RowSteps DEF RowStep
<1>2. connected \subseteq connected'
  BY DEF Next, Begin, ReadOutbound, ReadInbound, AcceptInbound, TakeLock, CountRecent,
         InsertPending, RecordOutcome, Commit, AbortTransaction, Block, Tick, vars
<1>3. ASSUME NEW p \in Pairs, connection'[p].status = "accepted" PROVE p \in connected'
  <2>1. ASSUME NEW q \in Requests, Commit(q) PROVE p \in connected'
    BY <1>3, <2>1 DEF Commit
  <2>2. ASSUME NEW d \in Pairs, Block(d) PROVE p \in connected'
    BY <1>0, <1>2, <1>3, <2>2 DEF Block, OutcomeInv, Rows
  <2>3. CASE connection' = connection
    BY <1>2, <1>3, <2>3 DEF OutcomeInv
  <2> QED
    BY <2>1, <2>2, <2>3 DEF Next, Begin, ReadOutbound, ReadInbound, AcceptInbound,
       TakeLock, CountRecent, InsertPending, RecordOutcome, AbortTransaction, Tick, vars
<1> QED
  BY <1>1, <1>2, <1>3

\* An outcome that passed the check of record_resonance_outcome happened.
LEMMA MatchHappened ==
    ASSUME TypeInv, OutcomeInv, NEW q \in Requests, RecordOutcome(q)
    PROVE  Happened(request[q], connection, connected)
<1>0. /\ Sound(request[q]) /\ request[q].place = "record" /\ OutcomeMatches(q)
      /\ Out(request[q]) \in Pairs /\ In(request[q]) \in Pairs
      /\ Outbound(q) = Out(request[q]) /\ Inbound(q) = In(request[q])
  BY PairParts DEF TypeInv, RecordOutcome, At, Sound, IsPair, Out, In, Outbound, Inbound
<1>1. CASE request[q].kind = "connection_requested"
  <2>1. StatusSeenBy(q, Out(request[q])) \in {"pending", "accepted"}
    BY <1>0, <1>1 DEF OutcomeMatches
  <2>2. CASE Writes(q, Out(request[q]))
    BY <1>0, <1>1, <2>2 DEF Writes, Sound, Happened
  <2>3. CASE ~Writes(q, Out(request[q]))
    BY <1>1, <2>1, <2>3 DEF StatusSeenBy, Happened
  <2> QED
    BY <2>2, <2>3
<1>2. CASE request[q].kind = "connection_accepted"
  <2>1. PICK p \in {Out(request[q]), In(request[q])} : StatusSeenBy(q, p) = "accepted"
    BY <1>0, <1>2 DEF OutcomeMatches
  <2>2. CASE Writes(q, p)
    BY <1>2, <2>1, <2>2 DEF StatusSeenBy, Happened
  <2>3. CASE ~Writes(q, p)
    <3>1. p \in connected
      BY <1>0, <2>1, <2>3 DEF StatusSeenBy, OutcomeInv
    <3> QED
      BY <1>2, <2>1, <3>1 DEF Happened
  <2> QED
    BY <2>2, <2>3
<1> QED
  BY <1>1, <1>2 DEF Happened

\* A transaction comes to its commit with the outcome checked.
LEMMA CommitAfter ==
    ASSUME TypeInv, NEW q \in Requests, Runs(q),
           request'[q].place = "commit", request'[q].batch
    PROVE  /\ RecordOutcome(q)
           /\ request'[q].kind = request[q].kind /\ request'[q].write = request[q].write
           /\ Out(request'[q]) = Out(request[q]) /\ In(request'[q]) = In(request[q])
           /\ connection' = connection /\ connected' = connected
<1>0. request \in [Requests -> Transactions] /\ Sound(request[q])
  BY DEF TypeInv
<1>1. CASE RecordOutcome(q)
  BY <1>0, <1>1 DEF RecordOutcome, Goes, Transactions, Out, In
<1>2. CASE AcceptInbound(q) \/ InsertPending(q)
  BY <1>0, <1>2 DEF AcceptInbound, InsertPending, AfterWrite, Transactions
<1>3. CASE Commit(q) \/ TakeLock(q) \/ CountRecent(q)
  BY <1>0, <1>3 DEF Commit, TakeLock, CountRecent, Goes, Transactions
<1>4. CASE ReadOutbound(q) \/ ReadInbound(q)
  BY <1>0, <1>4 DEF ReadOutbound, ReadInbound, Continuation, Transactions
<1>5. CASE AbortTransaction(q)
  BY <1>0, <1>5 DEF AbortTransaction, Idle
<1>6. ASSUME NEW ask \in Asks, NEW batch \in BOOLEAN, Begin(q, ask, batch)
      PROVE  FALSE
  BY <1>0, <1>6 DEF Begin, Idle
<1> QED
  BY <1>1, <1>2, <1>3, <1>4, <1>5, <1>6 DEF Runs

LEMMA NextOutcomes ==
    ASSUME TypeInv, WriteInv, OutcomeInv, [Next]_vars
    PROVE  OutcomeInv'
<1>0. /\ request \in [Requests -> Transactions] /\ \A q \in Requests : Sound(request[q])
      /\ connection \in [Pairs -> Rows]
  BY DEF TypeInv
<1>1. ASSUME NEW q \in Requests, request'[q].place = "commit", request'[q].batch
      PROVE  Happened(request'[q], connection', connected')
  <2>1. CASE request'[q] = request[q]
    <3>1. Happened(request[q], connection, connected) /\ Out(request[q]) \in Pairs
      BY <1>0, <1>1, <2>1 DEF OutcomeInv, Sound, IsPair, Out
    <3> QED
      BY <2>1, <3>1, StillThere DEF Happened
  <2>2. CASE Runs(q)
    <3>1. /\ RecordOutcome(q)
          /\ request'[q].kind = request[q].kind /\ request'[q].write = request[q].write
          /\ Out(request'[q]) = Out(request[q]) /\ In(request'[q]) = In(request[q])
          /\ connection' = connection /\ connected' = connected
      BY <1>1, <2>2, CommitAfter
    <3> QED
      BY <3>1, MatchHappened DEF Happened
  <2>3. request'[q] = request[q] \/ Runs(q)
    <3>1. CASE Outside
      BY <3>1 DEF Outside, Block, Tick, vars
    <3>2. ASSUME NEW r \in Requests, Runs(r) PROVE request'[q] = request[q] \/ Runs(q)
      BY <1>0, <3>2, RunsSound
    <3> QED
      BY <3>1, <3>2, StepKinds
  <2> QED
    BY <2>1, <2>2, <2>3
<1>2. ASSUME NEW u \in Users, NEW v \in Users, NEW kind \in OutcomeKinds,
             <<u, v, kind>> \in outcomes'
      PROVE  \/ <<u, v, kind>> \in outcomes
             \/ \E q \in Requests :
                   /\ Commit(q) /\ request[q].kind = kind
                   /\ <<u, v>> = Out(request[q]) /\ <<v, u>> = In(request[q])
                   /\ Happened(request[q], connection, connected)
  <2>1. ASSUME NEW q \in Requests, Commit(q), <<u, v, kind>> \notin outcomes
        PROVE  /\ request[q].kind = kind
               /\ <<u, v>> = Out(request[q]) /\ <<v, u>> = In(request[q])
               /\ Happened(request[q], connection, connected)
    <3>1. /\ request[q].batch /\ request[q].place = "commit"
          /\ <<u, v, kind>> = <<request[q].viewer, request[q].candidate, request[q].kind>>
      BY <1>2, <2>1 DEF Commit, At
    <3>2. request[q].kind = kind /\ u = request[q].viewer /\ v = request[q].candidate
      BY <3>1
    <3> QED
      BY <3>1, <3>2 DEF Out, In, OutcomeInv
  <2> QED
    BY <1>2, <2>1 DEF Next, Begin, ReadOutbound, ReadInbound, AcceptInbound, TakeLock,
       CountRecent, InsertPending, RecordOutcome, AbortTransaction, Block, Tick, vars
<1>3. ASSUME NEW q \in Requests, Commit(q), Happened(request[q], connection, connected)
      PROVE  /\ Out(request[q]) \in Pairs
             /\ request[q].kind = "connection_requested" =>
                   connection'[Out(request[q])].status # "none"
             /\ request[q].kind = "connection_accepted" =>
                   {Out(request[q]), In(request[q])} \cap connected' # {}
  <2>1. /\ Out(request[q]) \in Pairs /\ In(request[q]) \in Pairs
        /\ request[q].place = "commit"
    BY <1>0, <1>3, PairParts DEF Commit, At, Sound, IsPair, Out, In
  <2>2. CASE request[q].write = "pending"
    <3>1. Writes(q, Out(request[q])) /\ request[q].kind = "connection_requested"
      BY <1>0, <2>1, <2>2 DEF Writes, Out, Outbound, Sound
    <3>2. connection'[Out(request[q])].status = "pending"
      BY <1>3, <2>1, <2>2, <3>1, CommitStatus
    <3> QED
      BY <2>1, <3>1, <3>2
  <2>3. CASE request[q].write = "accepted"
    <3>1. Writes(q, In(request[q])) /\ request[q].kind = "connection_accepted"
      BY <1>0, <2>1, <2>3 DEF Writes, In, Inbound, Sound
    <3>2. connection'[In(request[q])].status = "accepted"
      BY <1>3, <2>1, <2>3, <3>1, CommitStatus
    <3> QED
      BY <2>1, <3>1, <3>2, StillThere
  <2>4. CASE request[q].write \notin {"pending", "accepted"}
    BY <1>3, <2>1, <2>4, StillThere DEF Happened
  <2> QED
    BY <2>2, <2>3, <2>4
<1>4. ASSUME NEW u \in Users, NEW v \in Users
      PROVE  /\ <<u, v, "connection_requested">> \in outcomes' =>
                   <<u, v>> \in Pairs /\ connection'[<<u, v>>].status # "none"
             /\ <<u, v, "connection_accepted">> \in outcomes' =>
                   {<<u, v>>, <<v, u>>} \cap connected' # {}
  <2>1. ASSUME <<u, v, "connection_requested">> \in outcomes'
        PROVE  <<u, v>> \in Pairs /\ connection'[<<u, v>>].status # "none"
    <3>1. CASE <<u, v, "connection_requested">> \in outcomes
      BY <3>1, StillThere DEF OutcomeInv
    <3>2. CASE <<u, v, "connection_requested">> \notin outcomes
      <4>1. "connection_requested" \in OutcomeKinds
        BY DEF OutcomeKinds
      <4>2. PICK q \in Requests :
              /\ Commit(q) /\ request[q].kind = "connection_requested"
              /\ <<u, v>> = Out(request[q]) /\ <<v, u>> = In(request[q])
              /\ Happened(request[q], connection, connected)
        BY <1>2, <2>1, <3>2, <4>1
      <4> QED
        BY <1>3, <4>2
    <3> QED
      BY <3>1, <3>2
  <2>2. ASSUME <<u, v, "connection_accepted">> \in outcomes'
        PROVE  {<<u, v>>, <<v, u>>} \cap connected' # {}
    <3>1. CASE <<u, v, "connection_accepted">> \in outcomes
      BY <3>1, StillThere DEF OutcomeInv
    <3>2. CASE <<u, v, "connection_accepted">> \notin outcomes
      <4>1. "connection_accepted" \in OutcomeKinds
        BY DEF OutcomeKinds
      <4>2. PICK q \in Requests :
              /\ Commit(q) /\ request[q].kind = "connection_accepted"
              /\ <<u, v>> = Out(request[q]) /\ <<v, u>> = In(request[q])
              /\ Happened(request[q], connection, connected)
        BY <1>2, <2>2, <3>2, <4>1
      <4> QED
        BY <1>3, <4>2
    <3> QED
      BY <3>1, <3>2
  <2> QED
    BY <2>1, <2>2
<1> QED
  BY <1>1, <1>4, StillThere DEF OutcomeInv

LEMMA InitOutcomes == Init => OutcomeInv
  BY DEF Init, OutcomeInv, NoRow, Idle

\* A recorded outcome is one that happened, even if the row changed while the
\* request ran.
THEOREM SpecOutcomesAreTrue == Spec => []OutcomesAreTrue
<1>1. Init => TypeInv /\ WriteInv /\ OutcomeInv
  BY InitType, InitWrites, InitOutcomes
<1>2. TypeInv /\ WriteInv /\ OutcomeInv /\ [Next]_vars
        => (TypeInv /\ WriteInv /\ OutcomeInv)'
  BY NextType, NextWrites, NextOutcomes
<1>3. TypeInv /\ OutcomeInv => OutcomesAreTrue
  <2>. SUFFICES ASSUME TypeInv, OutcomeInv, NEW o \in outcomes
                PROVE  CASE o[3] = "connection_requested" ->
                              connection[<<o[1], o[2]>>].status # "none"
                         [] o[3] = "connection_accepted" ->
                              {<<o[1], o[2]>>, <<o[2], o[1]>>} \cap connected # {}
    BY DEF OutcomesAreTrue
  <2>1. PICK u \in Users, v \in Users, kind \in OutcomeKinds : o = <<u, v, kind>>
    BY DEF TypeInv
  <2>2. CASE kind = "connection_requested"
    BY <2>1, <2>2 DEF OutcomeInv
  <2>3. CASE kind = "connection_accepted"
    BY <2>1, <2>3 DEF OutcomeInv
  <2> QED
    BY <2>2, <2>3 DEF OutcomeKinds
<1> QED
  BY <1>1, <1>2, <1>3, PTL DEF Spec

=============================================================================
