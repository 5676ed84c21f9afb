------------------------- MODULE MCMediaCoordinator -------------------------
(***************************************************************************)
(* Model checking of MediaCoordinator.                                     *)
(***************************************************************************)
EXTENDS MediaCoordinator

CONSTANTS host, speaker, viewer

=============================================================================
