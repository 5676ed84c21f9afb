SPECIFICATION Spec
CONSTANTS
    r1 = r1  p1 = p1  p2 = p2  p3 = p3
    m1 = m1  m2 = m2  m3 = m3
    NoRoom = NoRoom
    NoMeeting = NoMeeting
    Requests = {p1, p2, p3}
    Rooms = {r1}
    Meetings = {m1, m2, m3}
SYMMETRY Symmetry
INVARIANTS
    OpenRoomsHaveMeetings
    NoMeetingIsForgotten
    RoomsAtRestAgree
    ClosuresAreFinal
