-------------------------- MODULE MCRoomBrainWorker --------------------------
(***************************************************************************)
(* Model checking of RoomBrainWorker.  One of the tickets opens two        *)
(* sockets.                                                                *)
(***************************************************************************)
EXTENDS RoomBrainWorker, TLC

CONSTANTS h, v, c1, c2, c3, c4, k1, k2, t1, t2, t3

Tickets == (c1 :> t1) @@ (c2 :> t1) @@ (c3 :> t2) @@ (c4 :> t3)

\* Sockets are interchangeable as far as their tickets are.
TicketsSwapped == (c3 :> c4) @@ (c4 :> c3) @@ (t2 :> t3) @@ (t3 :> t2)

Symmetry == Permutations({c1, c2}) \cup {TicketsSwapped} \cup Permutations(CommandIds)

\* What the last handler sent and replied is no state of the object; one property
\* of this run reads whether the reply was that of an ejection.
View == <<stored, socket, reply.status = "ejected" /\ OpenConnsOf(reply.target) # {}>>

=============================================================================
