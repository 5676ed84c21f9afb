SPECIFICATION AccessSpec
CONSTANTS
    h = h  v = v
    c1 = c1  c2 = c2  c3 = c3
    k1 = k1  k2 = k2
    t1 = t1  t2 = t2
    e1 = e1  e2 = e2  d1 = d1  r1 = r1
    NoUser = NoUser
    Users = {h, v}
    Host = h
    Reactions = {}
    ValidReactions = {}
    CommandIds = {k1, k2}
    RecentLimit = 1
    Conns = {c1, c2, c3}
    IdOf <- Tickets
    ConnectionLimit = 2
    MaxSequence = 4
    StorageMayFail = FALSE
    MayRestart = FALSE
    Entries = {e1, e2}
    Departures = {d1}
    Removals = {r1}
    SentTypes = {"grant_seat"}
SYMMETRY Symmetry
VIEW ViewOfConfirmed
INVARIANTS
    ConfirmedEjectionRemoves
CHECK_DEADLOCK FALSE
