-------------------------- MODULE MCRoomBrainReplay --------------------------
(***************************************************************************)
(* Model checking of RoomBrainReplay: one host, two interchangeable        *)
(* viewers, three keys over a window of two, so that keys leave the window *)
(* and come back.                                                          *)
(***************************************************************************)
EXTENDS RoomBrainReplay, TLC

CONSTANTS h, v, w, k1, k2, k3, clap, blank

Symmetry == Permutations({v, w}) \cup Permutations({k1, k2, k3})

=============================================================================
