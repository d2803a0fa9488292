SPECIFICATION OrderSpec
CONSTANTS
    c1 = c1  c2 = c2  c3 = c3
    p1 = p1
    r1 = r1  r2 = r2
    s1 = s1  s2 = s2
    Conns = {c1, c2, c3}
    Posters = {}
    Rooms = {r1}
    Subjects = {s1, s2}
    RoomOf <- OneRoomOf
    SubjectOf <- TwoTabsSubjectOf
    Slow = {}
    BroadcastCap = 1
    ProfileCap = 1
    MaxComments = 2
    MaxProfiles = 0
SYMMETRY TabSymmetry
INVARIANTS
    TypeOK
    RegisteredWhileHandled
    ViewersMatchConnections
    PresenceIsCurrent
    SeenIsFeedSegment
    SendersOrderKept
CHECK_DEADLOCK FALSE
