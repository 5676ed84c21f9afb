SPECIFICATION SyncSpec
CONSTANTS
    h = h  v = v
    c1 = c1  c2 = c2  c3 = c3
    k1 = k1  k2 = k2
    NoUser = NoUser
    NoRoom = NoRoom
    NoConn = NoConn
    Users = {h, v}
    Host = h
    Reactions = {}
    ValidReactions = {}
    CommandIds = {k1, k2}
    RecentLimit = 1
    Conns = {c1, c2, c3}
    IdOf <- OneTicketEach
    ConnectionLimit = 2
    MaxSequence = 5
    Pages = {h, v}
    Spoken = {"request_seat"}
    MaxUnderWay = 1
    StorageMayFail = FALSE
    MayRestart = FALSE
    MayModerateRooms = TRUE
    CloseThrows = TRUE
SYMMETRY Symmetry
VIEW LogView
INVARIANTS
    ReplicaAgreement
PROPERTIES
    ImplementsReplicatedRoom
CHECK_DEADLOCK FALSE
