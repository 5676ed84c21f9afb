SPECIFICATION FairSpec
CONSTANTS
    e1 = e1  e2 = e2
    r1 = r1
    p1 = p1
    Exchanges = {e1, e2}
    Revocations = {r1}
    Passes = {p1}
    MaxHandles <- OneHandle
    MaxSequence = 1
INVARIANTS
    TrackedUntilGone
    OneDeliveredLive
    CleanRevocation
PROPERTIES
    RequestedIsRevoked
CHECK_DEADLOCK FALSE
