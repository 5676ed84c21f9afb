---------------------------- MODULE ReplicatedRoom ----------------------------
(***************************************************************************)
(* What the control channel promises to the people in a room, with no      *)
(* sockets, messages or storage: there is one history of authoritative     *)
(* rooms, each made from the one before by one accepted command, and each  *)
(* page shows a room of that history and never goes back in it.            *)
(***************************************************************************)
EXTENDS RoomBrain

CONSTANTS
    NoRoom,         \* a page that has shown no room yet
    MaxSequence     \* bound on the number of changes explored by TLC

VARIABLES
    history,   \* the authoritative rooms, oldest first
    shown      \* the room each page showed last

logVars == <<history, shown>>

Newest == history[Len(history)]

Init ==
    /\ history = <<InitialRoom>>
    /\ shown = [u \in Users |-> NoRoom]

\* The room changes by one accepted command.
Commit ==
    /\ UNCHANGED shown
    /\ Newest.sequence < MaxSequence
    /\ Len(history') = Len(history) + 1
    /\ \E c \in Commands :
          /\ Accepts(Newest, c)
          /\ history' = Append(history, Applied(Newest, c))

\* The page of u shows a room at least as new as the one it showed last.
Show(u) ==
    /\ UNCHANGED history
    /\ \E i \in DOMAIN history :
          /\ shown[u] # NoRoom => shown[u].sequence <= history[i].sequence
          /\ shown' = [shown EXCEPT ![u] = history[i]]

Next == Commit \/ \E u \in Users : Show(u)

Spec == Init /\ [][Next]_logVars

=============================================================================
