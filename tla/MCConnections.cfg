SPECIFICATION Spec
CONSTANTS
    a = a  b = b  c = c
    q1 = q1  q2 = q2  q3 = q3
    NoRequest = NoRequest
    Users = {a, b, c}
    Requests = {q1, q2, q3}
    Asks <- MCAsks
    Limit = 1
    Window = 1
    MaxTime = 2
SYMMETRY Symmetry
VIEW View
INVARIANTS
    TypeOK
    ThrottleHolds
    RequestsMeetUnlessCrossed
    OutcomesAreTrue
PROPERTIES
    BlockStands
CHECK_DEADLOCK FALSE
