------------------------------ MODULE MCRoomSync ------------------------------
(***************************************************************************)
(* Model checking of RoomSync.  A page asks for a ticket of its own for    *)
(* every socket it opens.                                                  *)
(***************************************************************************)
EXTENDS RoomSync, TLC

CONSTANTS h, v, c1, c2, c3, k1, k2

OneTicketEach == [c \in Conns |-> c]

\* What the last handler sent has been queued on the sockets, and the rooms
\* shown are read by the refinement only: they do not tell states apart.
View == <<stored, socket, client, up, down, history>>
LogView == <<View, shown>>

Symmetry == Permutations(Conns) \cup Permutations(CommandIds)

=============================================================================
