---------------------------- MODULE MCConnections ----------------------------
(***************************************************************************)
(* Model checking of Connections: one user asks two others, one of whom    *)
(* asks back.                                                              *)
(***************************************************************************)
EXTENDS Connections, TLC

CONSTANTS a, b, c, q1, q2, q3

MCAsks == {<<a, b>>, <<a, c>>, <<b, a>>}

\* What a request read is dead once it has decided, and of a finished request
\* only the row it inserted matters.
Rest(q) ==
    CASE request[q].place = "inbound" -> request[q]
      [] At(q, "done") /\ ~Asked(q) -> "done"
      [] Asked(q) -> <<Outbound(q), request[q].after>>
      [] OTHER -> [request[q] EXCEPT !.outbound = "none"]

View == <<connection, outcomes, [q \in Requests |-> Rest(q)], lock, clock, connected>>

Symmetry == Permutations(Requests)

=============================================================================
