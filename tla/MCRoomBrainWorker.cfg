SPECIFICATION Spec
CONSTANTS
    h = h  v = v
    c1 = c1  c2 = c2  c3 = c3  c4 = c4
    k1 = k1  k2 = k2
    t1 = t1  t2 = t2  t3 = t3
    NoUser = NoUser
    Users = {h, v}
    Host = h
    Reactions = {}
    ValidReactions = {}
    CommandIds = {k1, k2}
    RecentLimit = 1
    Conns = {c1, c2, c3, c4}
    IdOf <- Tickets
    ConnectionLimit = 2
    MaxSequence = 4
    StorageMayFail = TRUE
    MayRestart = TRUE
SYMMETRY Symmetry
VIEW View
INVARIANTS
    ConnectionLimitHolds
    EjectionDisconnects
PROPERTIES
    LateEndKeepsUser
    ImplementsProtocol
CHECK_DEADLOCK FALSE
