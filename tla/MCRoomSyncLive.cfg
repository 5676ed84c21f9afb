SPECIFICATION FairSyncSpec
CONSTANTS
    h = h  v = v
    c1 = c1  c2 = c2  c3 = c3
    k1 = k1  k2 = k2
    NoUser = NoUser
    NoRoom = NoRoom
    NoConn = NoConn
    Users = {h, v}
    Host = h
    Reactions = {}
    ValidReactions = {}
    CommandIds = {k1, k2}
    RecentLimit = 1
    Conns = {c1, c2}
    IdOf <- OneTicketEach
    ConnectionLimit = 2
    MaxSequence = 3
    Pages = {h, v}
    Spoken = {"request_seat"}
    MaxUnderWay = 1
    StorageMayFail = TRUE
    MayRestart = TRUE
    MayModerateRooms = FALSE
    CloseThrows = TRUE
VIEW LogView
INVARIANTS
    NoGaps
PROPERTIES
    ChangesArrive
    ImplementsReplicatedRoom
CHECK_DEADLOCK FALSE
