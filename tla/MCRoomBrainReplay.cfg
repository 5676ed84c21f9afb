SPECIFICATION ReplaySpec
CONSTANTS
    h = h  v = v  w = w
    k1 = k1  k2 = k2  k3 = k3
    clap = clap  blank = blank
    Users = {h, v, w}
    Host = h
    Reactions = {clap, blank}
    ValidReactions = {clap}
    CommandIds = {k1, k2, k3}
    RecentLimit = 2
    MaxSequence = 5
SYMMETRY Symmetry
INVARIANTS
    QueueHoldsViewers
    NoMintedPrivilege
    NoReplay
    KeysFreshWithinWindow
PROPERTIES
    LockedRoomAdmitsNoViewer
CHECK_DEADLOCK FALSE
