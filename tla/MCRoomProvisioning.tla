------------------------- MODULE MCRoomProvisioning -------------------------
(***************************************************************************)
(* Model checking of RoomProvisioning.                                     *)
(***************************************************************************)
EXTENDS RoomProvisioning, TLC

CONSTANTS r1, p1, p2, p3, m1, m2, m3

Symmetry == Permutations(Requests) \cup Permutations(Meetings)

=============================================================================
