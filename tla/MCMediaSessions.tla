--------------------------- MODULE MCMediaSessions ---------------------------
(***************************************************************************)
(* Instances of MediaSessions for TLC.                                     *)
(***************************************************************************)
EXTENDS MediaSessions

CONSTANTS e1, e2, r1, p1

\* A revocation that finds the rows of both exchanges gives up.
OneHandle == [r \in Revocations |-> 1]

=============================================================================
