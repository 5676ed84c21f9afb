--------------------------- MODULE RoomBrainLemmas ---------------------------
(***************************************************************************)
(* What one command does to a room, for every room: the lemmas about       *)
(* room-brain.ts that the proofs about the protocol and about the edge     *)
(* actor share.                                                            *)
(***************************************************************************)
EXTENDS RoomBrain, WellFoundedInduction, TLAPS

-----------------------------------------------------------------------------
(* The speaker queue: what state.speakerQueue.filter((id) => id !== userId) *)
(* leaves.  Without is a recursive function; its values are obtained here   *)
(* by descent on the natural numbers.                                       *)

\* A set of natural numbers that is not empty has a least element.
LEMMA LeastNat ==
    ASSUME NEW T, T \subseteq Nat, T # {}
    PROVE  \E m \in T : \A k \in T : ~ (k < m)
<1>1. PICK m \in T : \A k \in T : ~ (<<k, m>> \in OpToRel(<, Nat))
  BY NatLessThanWellFounded, WFMin, Zenon
<1>2. \A k \in T : ~ (k < m)
  <2>. SUFFICES ASSUME NEW k \in T, k < m PROVE FALSE
    OBVIOUS
  <2>1. <<k, m>> \in Nat \X Nat
    OBVIOUS
  <2>2. <<k, m>>[1] < <<k, m>>[2]
    OBVIOUS
  <2>3. <<k, m>> \in OpToRel(<, Nat)
    BY <2>1, <2>2, Zenon DEF OpToRel
  <2> QED
    BY <1>1, <2>3
<1> QED
  BY <1>2

\* The body of the recursion in Without.
KeptAt(f, q, u, n) ==
    IF n = 0 THEN << >>
    ELSE IF q[n] = u THEN f[n - 1]
         ELSE Append(f[n - 1], q[n])

\* The recursion of Without has a solution: the queue is filtered front to back.
LEMMA KeptExists ==
    ASSUME NEW q, NEW u, NEW N \in Nat
    PROVE  \E f : f = [n \in 0 .. N |-> KeptAt(f, q, u, n)]
<1>. DEFINE P(m) == \E f : f = [n \in 0 .. m |-> KeptAt(f, q, u, n)]
            T == {m \in Nat : ~P(m)}
<1>. SUFFICES ASSUME T # {} PROVE FALSE
  OBVIOUS
<1>1. PICK m \in T : \A k \in T : ~ (k < m)
  <2>. HIDE DEF P
  <2> QED
    BY LeastNat
<1>2. P(0)
  <2>. DEFINE f == [n \in 0 .. 0 |-> << >>]
  <2>1. f = [n \in 0 .. 0 |-> KeptAt(f, q, u, n)]
     BY DEF KeptAt
  <2> QED
    BY <2>1
<1>3. m # 0
  <2>. HIDE DEF P
  <2> QED
    BY <1>2
<1>4. P(m - 1)
  <2>. HIDE DEF P
  <2>1. m \in Nat
    OBVIOUS
  <2>2. m - 1 \in Nat /\ m - 1 < m
    BY <1>3, <2>1
  <2> QED
    BY <1>1, <2>2
<1>5. PICK g : g = [n \in 0 .. m - 1 |-> KeptAt(g, q, u, n)]
  BY <1>4
<1>. DEFINE f == [n \in 0 .. m |-> IF n = m THEN KeptAt(g, q, u, m) ELSE g[n]]
<1>6. f = [n \in 0 .. m |-> KeptAt(f, q, u, n)]
  <2>. SUFFICES ASSUME NEW n \in 0 .. m PROVE f[n] = KeptAt(f, q, u, n)
    BY Zenon
  <2>0. m \in Nat \ {0}
    BY <1>3
  <2>1. CASE n = m
    <3>1. f[n - 1] = g[n - 1]
      BY <2>0, <2>1
    <3> QED
      BY <2>1, <3>1, <2>0 DEF KeptAt
  <2>2. CASE n # m
    <3>0. n \in 0 .. m - 1
      BY <2>0, <2>2
    <3>1. f[n] = KeptAt(g, q, u, n)
      BY <3>0, <1>5, <2>2
    <3>2. CASE n = 0
      BY <3>1, <3>2 DEF KeptAt
    <3>3. CASE n # 0 
      <4>1. f[n - 1] = g[n - 1]
        BY <3>0, <3>3, <2>0
      <4> QED
        BY <3>1, <4>1, <3>3 DEF KeptAt
    <3> QED
      BY <3>2, <3>3
  <2> QED
    BY <2>1, <2>2
<1>7. P(m)
  BY <1>6
<1> QED
  BY <1>7

\* Without is the last value of that solution.
LEMMA WithoutKept ==
    ASSUME NEW q, NEW u, Len(q) \in Nat
    PROVE  \E f : /\ f = [n \in 0 .. Len(q) |-> KeptAt(f, q, u, n)]
                  /\ Without(q, u) = f[Len(q)]
<1>. DEFINE kept == CHOOSE f : f = [n \in 0 .. Len(q) |->
                      IF n = 0 THEN << >>
                      ELSE IF q[n] = u THEN f[n - 1]
                           ELSE Append(f[n - 1], q[n])]
            Kept(f) == f = [n \in 0 .. Len(q) |->
                      IF n = 0 THEN << >>
                      ELSE IF q[n] = u THEN f[n - 1]
                           ELSE Append(f[n - 1], q[n])]
<1>1. \E f : f = [n \in 0 .. Len(q) |-> KeptAt(f, q, u, n)]
  BY KeptExists
<1>2. \E f : Kept(f)
  BY <1>1, Zenon DEF KeptAt
<1>3. Kept(CHOOSE f : Kept(f))
  <2>. HIDE DEF Kept
  <2> QED
    BY <1>2, Zenon
<1>4. Kept(kept)
  BY <1>3, Zenon
<1>5. kept = [n \in 0 .. Len(q) |-> KeptAt(kept, q, u, n)]
  BY <1>4, Zenon DEF KeptAt
<1>6. Without(q, u) = kept[Len(q)]
  BY Zenon DEF Without
<1> QED
  BY <1>5, <1>6

\* No element occurs twice in q.
Once(q) == \A i, j \in DOMAIN q : q[i] = q[j] => i = j

\* w holds the first n elements of q that differ from u, and repeats none that
\* q does not repeat.
Filters(w, q, u, n) ==
    /\ \A i \in DOMAIN w : \E j \in 1 .. n : w[i] = q[j]
    /\ \A i \in DOMAIN w : w[i] # u
    /\ \A j \in 1 .. n : q[j] # u => \E i \in DOMAIN w : w[i] = q[j]
    /\ Once(q) => Once(w)

\* Keeping one more element of the queue.
LEMMA FilterStep ==
    ASSUME NEW S, NEW q \in Seq(S), NEW u, NEW n \in 1 .. Len(q),
           NEW w \in Seq(S), Filters(w, q, u, n - 1), q[n] # u
    PROVE  /\ Append(w, q[n]) \in Seq(S)
           /\ Filters(Append(w, q[n]), q, u, n)
<1>. DEFINE v == Append(w, q[n])
<1>1. n \in Nat /\ n # 0 /\ n \in DOMAIN q /\ q[n] \in S /\ Len(q) \in Nat
  OBVIOUS
<1>2. v \in Seq(S) /\ Len(v) = Len(w) + 1 /\ Len(w) \in Nat
  BY <1>1
<1>3. v[Len(v)] = q[n] /\ \A i \in 1 .. Len(w) : v[i] = w[i]
  BY <1>1, <1>2
<1>4. DOMAIN v = 1 .. Len(v) /\ DOMAIN w = 1 .. Len(w) /\ DOMAIN q = 1 .. Len(q)
  BY <1>2
<1>. HIDE DEF v
<1>5. \A i \in DOMAIN v : i = Len(v) \/ (i \in DOMAIN w /\ v[i] = w[i])
  BY <1>2, <1>3, <1>4
<1>6. ASSUME NEW i \in DOMAIN v
      PROVE  \E j \in 1 .. n : v[i] = q[j]
  <2>1. CASE i = Len(v)
    <3>1. n \in 1 .. n
      BY <1>1
    <3> QED
      BY <2>1, <3>1, <1>3
  <2>2. CASE i \in DOMAIN w /\ v[i] = w[i]
    <3>1. PICK j \in 1 .. n - 1 : w[i] = q[j]
      BY <2>2 DEF Filters
    <3>2. j \in 1 .. n
      BY <1>1
    <3> QED
      BY <2>2, <3>1, <3>2
  <2> QED
    BY <2>1, <2>2, <1>5
<1>7. \A i \in DOMAIN v : v[i] # u
  BY <1>3, <1>5 DEF Filters
<1>8. ASSUME NEW j \in 1 .. n, q[j] # u
      PROVE  \E i \in DOMAIN v : v[i] = q[j]
  <2>1. CASE j = n
    BY <2>1, <1>2, <1>3, <1>4
  <2>2. CASE j # n
    <3>1. j \in 1 .. n - 1
      BY <1>1, <2>2
    <3>2. PICK i \in DOMAIN w : w[i] = q[j]
      BY <3>1, <1>8 DEF Filters
    <3> QED
      BY <3>2, <1>2, <1>3, <1>4
  <2> QED
    BY <2>1, <2>2
<1>9. ASSUME Once(q) PROVE Once(v)
  <2>1. Once(w)
    BY <1>9 DEF Filters
  <2>2. \A i \in DOMAIN w : w[i] # q[n]
    <3>1. SUFFICES ASSUME NEW i \in DOMAIN w, w[i] = q[n] PROVE FALSE
      OBVIOUS
    <3>2. PICK j \in 1 .. n - 1 : w[i] = q[j]
      BY DEF Filters
    <3>3. j \in DOMAIN q /\ j # n
      BY <1>1, <1>4
    <3> QED
      BY <3>1, <3>2, <3>3, <1>1, <1>9 DEF Once
  <2> QED
    BY <2>1, <2>2, <1>3, <1>5 DEF Once
<1> QED
  BY <1>2, <1>6, <1>7, <1>8, <1>9 DEF Filters, v

\* Filtering a user out of the speaker queue removes every place of that user,
\* and only those.
LEMMA WithoutFilters ==
    ASSUME NEW S, NEW q \in Seq(S), NEW u
    PROVE  /\ Without(q, u) \in Seq(S)
           /\ Filters(Without(q, u), q, u, Len(q))
<1>1. Len(q) \in Nat
  OBVIOUS
<1>2. PICK f : /\ f = [n \in 0 .. Len(q) |-> KeptAt(f, q, u, n)]
               /\ Without(q, u) = f[Len(q)]
  BY <1>1, WithoutKept
<1>. DEFINE Good(n) == f[n] \in Seq(S) /\ Filters(f[n], q, u, n)
            T == {n \in 0 .. Len(q) : ~Good(n)}
<1>3. Good(0)
  <2>1. f[0] = << >>
    BY <1>1, <1>2 DEF KeptAt
  <2> QED
    BY <2>1 DEF Filters, Once
<1>4. ASSUME NEW n \in 1 .. Len(q), Good(n - 1) PROVE Good(n)
  <2>0. n \in Nat /\ n # 0 /\ n \in 0 .. Len(q)
    BY <1>1
  <2>1. CASE q[n] = u
    <3>1. f[n] = f[n - 1]
      BY <1>2, <2>0, <2>1 DEF KeptAt
    <3>2. \A j \in 1 .. n : j = n \/ j \in 1 .. n - 1
      BY <2>0
    <3>3. \A j \in 1 .. n - 1 : j \in 1 .. n
      BY <2>0
    <3> QED
      BY <1>4, <2>1, <3>1, <3>2, <3>3 DEF Filters
  <2>2. CASE q[n] # u
    <3>1. f[n] = Append(f[n - 1], q[n])
      BY <1>2, <2>0, <2>2 DEF KeptAt
    <3> QED
      BY <1>4, <2>2, <3>1, FilterStep
  <2> QED
    BY <2>1, <2>2
<1>5. ASSUME T # {} PROVE FALSE
  <2>. HIDE DEF Good
  <2>. T \subseteq Nat
    BY <1>1
  <2>. HIDE DEF T
  <2>1. PICK m \in T : \A k \in T : ~ (k < m)
    BY <1>5, LeastNat
  <2>. USE DEF T
  <2>2. m # 0
    BY <1>3
  <2>3. m \in 1 .. Len(q) /\ m - 1 \in 0 .. Len(q) /\ m - 1 < m
    BY <1>1, <2>2
  <2>4. Good(m - 1)
    BY <2>1, <2>3
  <2> QED
    BY <1>4, <2>3, <2>4
<1> QED
  BY <1>1, <1>2, <1>5

-----------------------------------------------------------------------------
(* Rooms *)

\* The queue of room r names each user once, and viewers only.
QueueOfViewers(r) ==
    /\ Once(r.queue)
    /\ \A i \in DOMAIN r.queue : r.role[r.queue[i]] = "viewer"

\* Only the host moderates room r.
NoPrivilegeMinted(r) ==
    \A u \in Users : Moderates(r, u) => u = Host

\* What every reachable room satisfies.  The host is never a viewer: a demotion
\* needs a moderating actor other than its target, a moderating actor is the
\* host, and the host's own token never joins as a viewer.  Without this part the
\* queue could come to hold a host who joins again.
RoomInv(r) ==
    /\ r \in Rooms
    /\ QueueOfViewers(r)
    /\ NoPrivilegeMinted(r)
    /\ r.role[Host] # "viewer"

\* The commands that reach the room: a join carries the role of its user's token.
Permitted(c) ==
    /\ c \in Commands
    /\ c.type = "join" => c.role = TokenRole(c.user)

\* Whoever changes role to anything and gives up the place in the queue leaves a
\* well-formed room whose queue still holds viewers only.
LEMMA AssignedRoom ==
    ASSUME NEW r, r \in Rooms, QueueOfViewers(r), NEW u \in Users,
           NEW role \in Roles \cup {Absent}
    PROVE  /\ Assigned(r, u, role) \in Rooms
           /\ QueueOfViewers(Assigned(r, u, role))
           /\ Assigned(r, u, role).role = [r.role EXCEPT ![u] = role]
           /\ Assigned(r, u, role).sequence = r.sequence
<1>. DEFINE w == Without(r.queue, u)
            a == Assigned(r, u, role)
<1>1. r.queue \in Seq(Users) /\ r.role \in [Users -> Roles \cup {Absent}]
  BY DEF Rooms
<1>2. w \in Seq(Users) /\ Filters(w, r.queue, u, Len(r.queue))
  BY <1>1, WithoutFilters
<1>. HIDE DEF w
<1>3. a = [r EXCEPT !.role[u] = role, !.queue = w]
  BY DEF Assigned, w
<1>4. /\ a.queue = w
      /\ a.role = [r.role EXCEPT ![u] = role]
      /\ a.sequence = r.sequence
      /\ a \in Rooms
  BY <1>1, <1>2, <1>3 DEF Rooms
<1>. HIDE DEF a
<1>5. \A i \in DOMAIN w : w[i] # u /\ \E j \in DOMAIN r.queue : w[i] = r.queue[j]
  BY <1>1, <1>2 DEF Filters
<1>6. \A i \in DOMAIN w : w[i] \in Users
  BY <1>2
<1>7. \A i \in DOMAIN w : a.role[w[i]] = "viewer"
  BY <1>1, <1>4, <1>5, <1>6 DEF QueueOfViewers
<1>8. Once(w)
  BY <1>2 DEF Filters, QueueOfViewers
<1> QED
  BY <1>4, <1>7, <1>8 DEF QueueOfViewers, a

\* What the updates of single fields leave of a room.
LEMMA RoomUpdates ==
    ASSUME NEW r \in Rooms
    PROVE  /\ \A u \in Users, x \in Roles \cup {Absent} :
                LET e == [r EXCEPT !.role[u] = x]
                IN  /\ e \in Rooms /\ e.role = [r.role EXCEPT ![u] = x]
                    /\ e.queue = r.queue
           /\ \A q \in Seq(Users) :
                LET e == [r EXCEPT !.queue = q]
                IN  e \in Rooms /\ e.role = r.role /\ e.queue = q
           /\ \A b \in BOOLEAN :
                LET e == [r EXCEPT !.locked = b]
                IN  e \in Rooms /\ e.role = r.role /\ e.queue = r.queue
           /\ \A x \in ValidReactions :
                LET e == [r EXCEPT !.reactions[x] = @ + 1]
                IN  e \in Rooms /\ e.role = r.role /\ e.queue = r.queue
           /\ \A n \in Nat :
                LET e == [r EXCEPT !.sequence = n]
                IN  /\ e \in Rooms /\ e.role = r.role /\ e.queue = r.queue
                    /\ e.sequence = n
<1>1. /\ r.sequence \in Nat /\ r.locked \in BOOLEAN
      /\ r.role \in [Users -> Roles \cup {Absent}]
      /\ r.queue \in Seq(Users) /\ r.reactions \in [ValidReactions -> Nat]
      /\ r = [sequence |-> r.sequence, locked |-> r.locked, role |-> r.role,
              queue |-> r.queue, reactions |-> r.reactions]
  BY DEF Rooms
<1>2. ASSUME NEW u \in Users, NEW x \in Roles \cup {Absent}
      PROVE  LET e == [r EXCEPT !.role[u] = x]
             IN  /\ e \in Rooms /\ e.role = [r.role EXCEPT ![u] = x]
                 /\ e.queue = r.queue
  BY <1>1 DEF Rooms
<1>3. ASSUME NEW q \in Seq(Users)
      PROVE  LET e == [r EXCEPT !.queue = q]
             IN  e \in Rooms /\ e.role = r.role /\ e.queue = q
  BY <1>1 DEF Rooms
<1>4. ASSUME NEW b \in BOOLEAN
      PROVE  LET e == [r EXCEPT !.locked = b]
             IN  e \in Rooms /\ e.role = r.role /\ e.queue = r.queue
  BY <1>1 DEF Rooms
<1>5. ASSUME NEW x \in ValidReactions
      PROVE  LET e == [r EXCEPT !.reactions[x] = @ + 1]
             IN  e \in Rooms /\ e.role = r.role /\ e.queue = r.queue
  <2>1. [r.reactions EXCEPT ![x] = @ + 1] \in [ValidReactions -> Nat]
    BY <1>1
  <2> QED
    BY <1>1, <2>1 DEF Rooms
<1>6. ASSUME NEW n \in Nat
      PROVE  LET e == [r EXCEPT !.sequence = n]
             IN  /\ e \in Rooms /\ e.role = r.role /\ e.queue = r.queue
                 /\ e.sequence = n
  BY <1>1 DEF Rooms
<1> QED
  BY <1>2, <1>3, <1>4, <1>5, <1>6

\* The sequence advances by one whatever the command does.
LEMMA AppliedRoom ==
    ASSUME NEW r \in Rooms, NEW c, Effect(r, c) \in Rooms
    PROVE  /\ Applied(r, c) \in Rooms
           /\ Applied(r, c).role = Effect(r, c).role
           /\ Applied(r, c).queue = Effect(r, c).queue
           /\ Applied(r, c).sequence = r.sequence + 1
<1>1. r.sequence + 1 \in Nat
  BY DEF Rooms
<1> QED
  BY <1>1, RoomUpdates DEF Applied

\* No permitted command that the room accepts breaks what rooms satisfy: every
\* branch of applyRoomBrainCommand.
LEMMA EffectKeepsRoomInv ==
    ASSUME NEW r, RoomInv(r), NEW c, Permitted(c), Accepts(r, c)
    PROVE  RoomInv(Effect(r, c))
<1>. DEFINE e == Effect(r, c)
<1>. USE HostAssumption
<1>0. /\ r \in Rooms /\ QueueOfViewers(r) /\ NoPrivilegeMinted(r)
      /\ r.role[Host] # "viewer"
      /\ r.role \in [Users -> Roles \cup {Absent}]
      /\ r.queue \in Seq(Users)
      /\ c \in Commands
  BY DEF RoomInv, Rooms, Permitted
<1>1. CASE c \in JoinCommands
  <2>1. c.type = "join" /\ c.user \in Users /\ c.role \in Roles /\ c.role = TokenRole(c.user)
    BY <1>1 DEF JoinCommands, Permitted
  <2>2. e = [r EXCEPT !.role[c.user] = c.role]
    BY <2>1 DEF Effect
  <2>3. /\ e \in Rooms /\ e.queue = r.queue
        /\ e.role = [r.role EXCEPT ![c.user] = c.role]
    BY <1>0, <2>1, <2>2, RoomUpdates
  <2>4. (c.user = Host /\ c.role = "host") \/ (c.user # Host /\ c.role = "viewer")
    BY <2>1 DEF TokenRole
  <2>5. \A i \in DOMAIN r.queue : r.queue[i] \in Users /\ r.queue[i] # Host
    BY <1>0 DEF QueueOfViewers
  <2>6. QueueOfViewers(e)
    BY <1>0, <2>1, <2>3, <2>4, <2>5 DEF QueueOfViewers
  <2>7. NoPrivilegeMinted(e)
    <3>. SUFFICES ASSUME NEW u \in Users, e.role[u] \in ModeratingRoles
                  PROVE  u = Host
      BY DEF NoPrivilegeMinted, Moderates
    <3>1. CASE u = c.user
      <4>1. e.role[u] = c.role
        BY <1>0, <2>1, <2>3, <3>1
      <4> QED
        BY <2>4, <3>1, <4>1 DEF ModeratingRoles
    <3>2. CASE u # c.user
      <4>1. e.role[u] = r.role[u]
        BY <1>0, <2>1, <2>3, <3>2
      <4> QED
        BY <1>0, <4>1 DEF NoPrivilegeMinted, Moderates
    <3> QED
      BY <3>1, <3>2
  <2>8. e.role[Host] # "viewer"
    BY <1>0, <2>1, <2>3, <2>4
  <2> QED
    BY <2>3, <2>6, <2>7, <2>8 DEF RoomInv
<1>2. ASSUME NEW u \in Users, NEW role \in {"speaker", "viewer", Absent},
             role = "viewer" => u # Host,
             e = Assigned(r, u, role)
      PROVE  RoomInv(e)
  <2>1. role \in Roles \cup {Absent}
    BY DEF Roles
  <2>2. /\ e \in Rooms /\ QueueOfViewers(e)
        /\ e.role = [r.role EXCEPT ![u] = role]
    <3>1. LET a == Assigned(r, u, role)
          IN  /\ a \in Rooms /\ QueueOfViewers(a)
              /\ a.role = [r.role EXCEPT ![u] = role]
      BY <1>0, <2>1, AssignedRoom
    <3> QED
      BY <1>2, <3>1
  <2>3. NoPrivilegeMinted(e)
    <3>. SUFFICES ASSUME NEW v \in Users, e.role[v] \in ModeratingRoles
                  PROVE  v = Host
      BY DEF NoPrivilegeMinted, Moderates
    <3>1. v # u
      BY <1>0, <1>2, <2>2 DEF ModeratingRoles, Absent
    <3>2. e.role[v] = r.role[v]
      BY <1>0, <2>2, <3>1
    <3> QED
      BY <1>0, <3>2 DEF NoPrivilegeMinted, Moderates
  <2>4. e.role[Host] # "viewer"
    BY <1>0, <1>2, <2>2 DEF Absent
  <2> QED
    BY <2>2, <2>3, <2>4 DEF RoomInv
<1>3. CASE c \in PersonalCommands
  <2>0. c.user \in Users /\ c.type \in {"leave", "request_seat", "cancel_seat"}
    BY <1>3 DEF PersonalCommands
  <2>1. CASE c.type = "leave"
    BY <1>2, <2>0, <2>1 DEF Effect, Absent
  <2>2. CASE c.type = "request_seat"
    <3>1. r.role[c.user] = "viewer"
      BY <2>2 DEF Accepts, MayRequestSeat
    <3>2. CASE c.user \in Queued(r)
      BY <2>2, <3>2 DEF Effect
    <3>3. CASE c.user \notin Queued(r)
      <4>1. e = [r EXCEPT !.queue = Append(r.queue, c.user)]
        BY <2>2, <3>3 DEF Effect
      <4>2. /\ e \in Rooms /\ e.role = r.role
            /\ e.queue = Append(r.queue, c.user)
        <5>1. Append(r.queue, c.user) \in Seq(Users)
          BY <1>0, <2>0
        <5>2. LET a == [r EXCEPT !.queue = Append(r.queue, c.user)]
              IN  /\ a \in Rooms /\ a.role = r.role
                  /\ a.queue = Append(r.queue, c.user)
          BY <1>0, <5>1, RoomUpdates, Zenon
        <5> QED
          BY <4>1, <5>2
      <4>3. \A i \in DOMAIN e.queue : \/ i \in DOMAIN r.queue /\ e.queue[i] = r.queue[i]
                                      \/ i = Len(r.queue) + 1 /\ e.queue[i] = c.user
        BY <1>0, <2>0, <4>2
      <4>4. \A i \in DOMAIN r.queue : r.queue[i] # c.user
        BY <3>3 DEF Queued
      <4>5. QueueOfViewers(e)
        BY <1>0, <3>1, <4>2, <4>3, <4>4 DEF QueueOfViewers, Once
      <4> QED
        BY <1>0, <4>2, <4>5 DEF RoomInv, NoPrivilegeMinted, Moderates
    <3> QED
      BY <3>2, <3>3
  <2>3. CASE c.type = "cancel_seat"
    <3>. DEFINE w == Without(r.queue, c.user)
    <3>1. w \in Seq(Users) /\ Filters(w, r.queue, c.user, Len(r.queue))
      BY <1>0, WithoutFilters
    <3>2. e = [r EXCEPT !.queue = w]
      BY <2>3 DEF Effect
    <3>. HIDE DEF w
    <3>3. e \in Rooms /\ e.role = r.role /\ e.queue = w
      BY <1>0, <3>1, <3>2, RoomUpdates
    <3>4. QueueOfViewers(e)
      BY <1>0, <3>1, <3>3 DEF QueueOfViewers, Filters
    <3> QED
      BY <1>0, <3>3, <3>4 DEF RoomInv, NoPrivilegeMinted, Moderates
  <2> QED
    BY <2>0, <2>1, <2>2, <2>3
<1>4. CASE c \in SeatCommands
  <2>1. c.type = "grant_seat" /\ c.target \in Users
    BY <1>4 DEF SeatCommands
  <2> QED
    BY <1>2, <2>1 DEF Effect
<1>5. CASE c \in RemovalCommands
  <2>1. /\ c.type \in {"demote_speaker", "eject_participant"}
        /\ c.actor \in Users /\ c.target \in Users
    BY <1>5 DEF RemovalCommands
  <2>2. CASE c.type = "demote_speaker"
    <3>1. Moderates(r, c.actor) /\ c.actor # c.target
      BY <2>2 DEF Accepts
    <3>2. c.target # Host
      BY <1>0, <2>1, <3>1 DEF NoPrivilegeMinted
    <3> QED
      BY <1>2, <2>1, <2>2, <3>2 DEF Effect
  <2>3. CASE c.type = "eject_participant"
    BY <1>2, <2>1, <2>3 DEF Effect, Absent
  <2> QED
    BY <2>1, <2>2, <2>3
<1>6. CASE c \in LockCommands
  <2>1. c.type = "set_room_lock" /\ c.locked \in BOOLEAN
    BY <1>6 DEF LockCommands
  <2>2. e = [r EXCEPT !.locked = c.locked]
    BY <2>1 DEF Effect
  <2>3. e \in Rooms /\ e.role = r.role /\ e.queue = r.queue
    BY <1>0, <2>1, <2>2, RoomUpdates
  <2> QED
    BY <1>0, <2>3 DEF RoomInv, QueueOfViewers, NoPrivilegeMinted, Moderates
<1>7. CASE c \in ReactCommands
  <2>1. c.type = "react" /\ c.reaction \in ValidReactions
    BY <1>7 DEF ReactCommands, Accepts
  <2>2. e = [r EXCEPT !.reactions[c.reaction] = @ + 1]
    BY <2>1 DEF Effect
  <2>3. e \in Rooms /\ e.role = r.role /\ e.queue = r.queue
    <3>1. LET a == [r EXCEPT !.reactions[c.reaction] = @ + 1]
          IN  a \in Rooms /\ a.role = r.role /\ a.queue = r.queue
      BY <1>0, <2>1, RoomUpdates, Zenon
    <3> QED
      BY <2>2, <3>1
  <2> QED
    BY <1>0, <2>3 DEF RoomInv, QueueOfViewers, NoPrivilegeMinted, Moderates
<1> QED
  BY <1>0, <1>1, <1>3, <1>4, <1>5, <1>6, <1>7 DEF Commands, ClientCommands

\* An applied command keeps what rooms satisfy and advances the sequence.
LEMMA ChangeKeepsRoomInv ==
    ASSUME NEW r, RoomInv(r), NEW c, Permitted(c), Accepts(r, c)
    PROVE  /\ RoomInv(Applied(r, c))
           /\ Applied(r, c).sequence = r.sequence + 1
<1>1. RoomInv(Effect(r, c))
  BY EffectKeepsRoomInv
<1> QED
  BY <1>1, AppliedRoom DEF RoomInv, QueueOfViewers, NoPrivilegeMinted, Moderates

\* The window of remembered keys (recentCommandIds.slice(-256)): the new key comes
\* last, the others stay in order, and the oldest falls out when it is full.
LEMMA RememberWindow ==
    ASSUME NEW keys \in Seq(CommandIds), Len(keys) <= RecentLimit,
           NEW id \in CommandIds
    PROVE  LET now == Remember(keys, id)
           IN  /\ now \in Seq(CommandIds)
               /\ Len(now) <= RecentLimit
               /\ now[Len(now)] = id
               /\ \/ Len(keys) < RecentLimit /\ Len(now) = Len(keys) + 1
                     /\ \A i \in 1 .. Len(keys) : now[i] = keys[i]
                  \/ Len(keys) = RecentLimit /\ Len(now) = Len(keys)
                     /\ \A i \in 1 .. Len(keys) - 1 : now[i] = keys[i + 1]
<1>. USE RecentLimitAssumption
<1>. DEFINE all == Append(keys, id)
            now == Remember(keys, id)
<1>1. /\ all \in Seq(CommandIds) /\ Len(keys) \in Nat
      /\ Len(all) = Len(keys) + 1 /\ all[Len(all)] = id
      /\ \A i \in 1 .. Len(keys) : all[i] = keys[i]
  OBVIOUS
<1>2. CASE Len(keys) < RecentLimit
  <2>1. now = all
    BY <1>1, <1>2 DEF Remember
  <2>. HIDE DEF all, now
  <2> QED
    BY <1>1, <1>2, <2>1 DEF now
<1>3. CASE Len(keys) = RecentLimit
  <2>1. now = SubSeq(all, 2, RecentLimit + 1)
    BY <1>1, <1>3 DEF Remember
  <2>. HIDE DEF all, now
  <2>2. now \in Seq(CommandIds) /\ Len(now) = RecentLimit
    BY <1>1, <1>3, <2>1
  <2>3. \A i \in 1 .. RecentLimit : now[i] = all[i + 1]
    BY <1>1, <1>3, <2>1
  <2>4. now[RecentLimit] = id
    BY <1>1, <1>3, <2>3
  <2> QED
    BY <1>1, <1>3, <2>2, <2>3, <2>4 DEF now
<1> QED
  BY <1>1, <1>2, <1>3

\* The commands a socket may submit are permitted.
LEMMA ClientCommandsPermitted ==
    ASSUME NEW u \in Users, NEW c \in ClientCommandsOf[u]
    PROVE  Permitted(c)
<1>1. c \in ClientCommands /\ Authorized(u, c)
  BY DEF ClientCommandsOf
<1>2. c.type = "join" => c.role = TokenRole(c.user)
  BY <1>1 DEF Authorized, MayClaim
<1> QED
  BY <1>1, <1>2 DEF Permitted, Commands

\* So are the demotions and ejections the backend relays.
LEMMA RemovalCommandsPermitted ==
    ASSUME NEW c \in RemovalCommands
    PROVE  Permitted(c)
  BY DEF RemovalCommands, Permitted, Commands

\* So are the join and the leave the actor applies itself.
LEMMA ConnectionCommandsPermitted ==
    ASSUME NEW u \in Users
    PROVE  /\ Permitted(Join(u, TokenRole(u)))
           /\ \A r : Permitted(Leave(u)) /\ Accepts(r, Leave(u))
<1>1. Permitted(Join(u, TokenRole(u)))
  BY DEF Permitted, Join, TokenRole, Commands, ClientCommands, JoinCommands,
         Roles
<1>2. \A r : Permitted(Leave(u)) /\ Accepts(r, Leave(u))
  BY DEF Permitted, Leave, Commands, ClientCommands, PersonalCommands, Accepts
<1> QED
  BY <1>1, <1>2

\* The roles after a join or a leave that the actor applies itself.
LEMMA ConnectionRoles ==
    ASSUME NEW r \in Rooms, QueueOfViewers(r), NEW u \in Users
    PROVE  /\ Applied(r, Join(u, TokenRole(u))).role
                = [r.role EXCEPT ![u] = TokenRole(u)]
           /\ Applied(r, Leave(u)).role = [r.role EXCEPT ![u] = Absent]
<1>1. Effect(r, Join(u, TokenRole(u))) = [r EXCEPT !.role[u] = TokenRole(u)]
  BY DEF Effect, Join
<1>2. Effect(r, Leave(u)) = Assigned(r, u, Absent)
  BY DEF Effect, Leave
<1>3. TokenRole(u) \in Roles \cup {Absent} /\ Absent \in Roles \cup {Absent}
  BY DEF TokenRole, Roles
<1>4. ASSUME NEW x \in Roles \cup {Absent}, NEW c,
             \/ Effect(r, c) = [r EXCEPT !.role[u] = x]
             \/ Effect(r, c) = Assigned(r, u, x)
      PROVE  Applied(r, c).role = [r.role EXCEPT ![u] = x]
  <2>1. Effect(r, c) \in Rooms /\ Effect(r, c).role = [r.role EXCEPT ![u] = x]
    <3>1. LET e == [r EXCEPT !.role[u] = x]
          IN  e \in Rooms /\ e.role = [r.role EXCEPT ![u] = x]
      BY RoomUpdates
    <3>2. LET e == Assigned(r, u, x)
          IN  e \in Rooms /\ e.role = [r.role EXCEPT ![u] = x]
      BY AssignedRoom
    <3> QED
      BY <1>4, <3>1, <3>2, Zenon
  <2> QED
    BY <2>1, AppliedRoom
<1>5. Applied(r, Join(u, TokenRole(u))).role = [r.role EXCEPT ![u] = TokenRole(u)]
  BY <1>1, <1>3, <1>4
<1>6. Applied(r, Leave(u)).role = [r.role EXCEPT ![u] = Absent]
  BY <1>2, <1>3, <1>4
<1> QED
  BY <1>5, <1>6

\* Only a join of its own brings a user who is outside into the room.
LEMMA OutsiderEffect ==
    ASSUME NEW r, RoomInv(r), NEW c, Permitted(c), Accepts(r, c),
           NEW u \in Users, r.role[u] = Absent
    PROVE  \/ Applied(r, c).role[u] = Absent
           \/ /\ c.type = "join" /\ c.user = u
              /\ Applied(r, c).role[u] = c.role
<1>. DEFINE e == Effect(r, c)
<1>0. /\ r \in Rooms /\ QueueOfViewers(r) /\ c \in Commands
      /\ r.role \in [Users -> Roles \cup {Absent}]
      /\ u \notin Participants(r)
  BY DEF RoomInv, Rooms, Permitted, Participants
<1>1. SUFFICES \/ e.role[u] = Absent
               \/ c.type = "join" /\ c.user = u /\ e.role[u] = c.role
  BY <1>0, EffectKeepsRoomInv, AppliedRoom DEF RoomInv
<1>2. ASSUME NEW v \in Users, NEW role \in {"speaker", "viewer", Absent},
             role # Absent => v # u, e = Assigned(r, v, role)
      PROVE  e.role[u] = Absent
  <2>1. role \in Roles \cup {Absent}
    BY DEF Roles
  <2>2. Assigned(r, v, role).role = [r.role EXCEPT ![v] = role]
    BY <1>0, <2>1, AssignedRoom
  <2> QED
    BY <1>0, <1>2, <2>2
<1>3. CASE c \in JoinCommands
  <2>1. c.type = "join" /\ c.user \in Users /\ c.role \in Roles
    BY <1>3 DEF JoinCommands
  <2>2. e = [r EXCEPT !.role[c.user] = c.role]
    BY <2>1 DEF Effect
  <2>3. e.role = [r.role EXCEPT ![c.user] = c.role]
    BY <1>0, <2>1, <2>2, RoomUpdates
  <2> QED
    BY <1>0, <2>1, <2>3
<1>4. CASE c \in PersonalCommands
  <2>1. c.user \in Users /\ c.type \in {"leave", "request_seat", "cancel_seat"}
    BY <1>4 DEF PersonalCommands
  <2>2. CASE c.type = "leave"
    BY <1>2, <2>1, <2>2 DEF Effect, Absent
  <2>3. CASE c.type = "request_seat"
    <3>1. Append(r.queue, c.user) \in Seq(Users)
      BY <1>0, <2>1 DEF Rooms
    <3>2. [r EXCEPT !.queue = Append(r.queue, c.user)].role = r.role
      BY <1>0, <3>1, RoomUpdates, Zenon
    <3>3. e = r \/ e = [r EXCEPT !.queue = Append(r.queue, c.user)]
      BY <2>3 DEF Effect
    <3> QED
      BY <1>0, <3>2, <3>3
  <2>4. CASE c.type = "cancel_seat"
    <3>1. r.queue \in Seq(Users)
      BY <1>0 DEF Rooms
    <3>2. Without(r.queue, c.user) \in Seq(Users)
      BY <3>1, WithoutFilters
    <3>3. [r EXCEPT !.queue = Without(r.queue, c.user)].role = r.role
      BY <1>0, <3>2, RoomUpdates, Zenon
    <3>4. e = [r EXCEPT !.queue = Without(r.queue, c.user)]
      BY <2>4 DEF Effect
    <3> QED
      BY <1>0, <3>3, <3>4
  <2> QED
    BY <2>1, <2>2, <2>3, <2>4
<1>5. CASE c \in SeatCommands
  <2>1. c.type = "grant_seat" /\ c.target \in Users /\ c.target # u
    BY <1>0, <1>5 DEF SeatCommands, Accepts
  <2> QED
    BY <1>2, <2>1 DEF Effect
<1>6. CASE c \in RemovalCommands
  <2>1. /\ c.type \in {"demote_speaker", "eject_participant"}
        /\ c.actor \in Users /\ c.target \in Users
    BY <1>6 DEF RemovalCommands
  <2>2. CASE c.type = "demote_speaker"
    <3>1. c.target # u
      BY <2>2 DEF Accepts, Absent
    <3> QED
      BY <1>2, <2>1, <2>2, <3>1 DEF Effect
  <2>3. CASE c.type = "eject_participant"
    BY <1>2, <2>1, <2>3 DEF Effect, Absent
  <2> QED
    BY <2>1, <2>2, <2>3
<1>7. CASE c \in LockCommands
  <2>1. c.type = "set_room_lock" /\ c.locked \in BOOLEAN
    BY <1>7 DEF LockCommands
  <2>2. e = [r EXCEPT !.locked = c.locked]
    BY <2>1 DEF Effect
  <2>3. e.role = r.role
    BY <1>0, <2>1, <2>2, RoomUpdates
  <2> QED
    BY <2>3
<1>8. CASE c \in ReactCommands
  <2>1. c.type = "react" /\ c.reaction \in ValidReactions
    BY <1>8 DEF ReactCommands, Accepts
  <2>2. [r EXCEPT !.reactions[c.reaction] = @ + 1].role = r.role
    BY <1>0, <2>1, RoomUpdates, Zenon
  <2>3. e = [r EXCEPT !.reactions[c.reaction] = @ + 1]
    BY <2>1 DEF Effect
  <2> QED
    BY <2>2, <2>3
<1> QED
  BY <1>0, <1>3, <1>4, <1>5, <1>6, <1>7, <1>8 DEF Commands, ClientCommands

\* In a locked room no permitted command makes a viewer of a user outside.
LEMMA LockedEffect ==
    ASSUME NEW r, RoomInv(r), NEW c, Permitted(c), Accepts(r, c), r.locked,
           NEW u \in Users, r.role[u] = Absent
    PROVE  Applied(r, c).role[u] # "viewer"
<1>1. CASE c.type = "join"
  <2>1. c.role # "viewer"
    BY <1>1 DEF Accepts, Admits
  <2> QED
    BY <2>1, OutsiderEffect DEF Absent
<1>2. CASE c.type # "join"
  BY <1>2, OutsiderEffect DEF Absent
<1> QED
  BY <1>1, <1>2

=============================================================================
