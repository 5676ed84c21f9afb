--------------------------- MODULE RoomBrainReplay ---------------------------
(***************************************************************************)
(* RoomBrainProtocol with a history variable: the accepted envelopes in the*)
(* order of acceptance.  It states what the idempotency keys and the       *)
(* expected sequence achieve together.                                     *)
(***************************************************************************)
EXTENDS RoomBrainProtocol

VARIABLE log    \* accepted envelopes, oldest first

replayVars == <<room, recent, log>>

ReplayInit == Init /\ log = << >>

Logged(e) ==
    /\ \/ \E u \in Users : ClientCommand(u, e)
       \/ ModerationAction(e)
    /\ log' = Append(log, e)

Unlogged ==
    /\ \E u \in Users : ConnectionJoin(u) \/ ConnectionLeave(u)
    /\ UNCHANGED log

ReplayNext ==
    /\ room.sequence < MaxSequence
    /\ \/ \E id \in CommandIds, n \in 0 .. room.sequence, c \in Commands :
            Logged([id |-> id, expected |-> n, command |-> c])
       \/ Unlogged

ReplaySpec == ReplayInit /\ [][ReplayNext]_replayVars

-----------------------------------------------------------------------------
(* Properties *)

\* An envelope delivered again is never applied again, even after its key has
\* left the window of remembered keys: "without replaying actions", as
\* docs/ROOM_BRAIN_PROTOCOL.md puts the goal.
NoReplay == \A i, j \in DOMAIN log : log[i] = log[j] => i = j

\* Within the window the key alone decides: a command retried under its key
\* with a refreshed expected sequence is not applied a second time.
KeysFreshWithinWindow ==
    \A i, j \in DOMAIN log :
        i < j /\ j - i <= RecentLimit => log[i].id # log[j].id

=============================================================================
