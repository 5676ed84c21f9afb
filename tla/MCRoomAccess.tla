----------------------------- MODULE MCRoomAccess -----------------------------
(***************************************************************************)
(* Model checking of RoomAccess.  One of the tickets opens two sockets.    *)
(***************************************************************************)
EXTENDS RoomAccess, TLC

CONSTANTS h, v, c1, c2, c3, k1, k2, t1, t2, e1, e2, d1, r1

Tickets == (c1 :> t1) @@ (c2 :> t1) @@ (c3 :> t2)

Symmetry == Permutations({c1, c2}) \cup Permutations(Entries)

\* The outputs of the handler that ran last are no state of the system, which
\* keys are remembered does not matter where every key is a new one, a stale
\* sequence is as good as any other, and only one property tells a confirmed
\* ejection from none.
Removing == [r \in Removals |-> <<removal[r].place, removal[r].kind,
                                  removal[r].target, removal[r].attempt,
                                  removal[r].expected = room.sequence>>]

Final == {u \in Viewers : outcome[u] = "final"}

View == <<room, presence, socket, member, ticket, entry, departure,
          Removing, Final>>

ViewOfConfirmed == <<View, outcome>>

\* A bound: two requests at most are under way at once. One can still meet any
\* sequence of others at each of its steps.
TwoUnderWay ==
    Cardinality({r \in Entries : entry[r].place # "idle"}
                \cup {r \in Departures : departure[r].place # "idle"}
                \cup {r \in Removals : removal[r].place # "idle"}) <= 2

=============================================================================
