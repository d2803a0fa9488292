SPECIFICATION FairSpec
CONSTANTS
    c1 = c1  c2 = c2  c3 = c3
    p1 = p1
    r1 = r1  r2 = r2
    s1 = s1  s2 = s2
    Conns = {c1, c3}
    Posters = {p1}
    Rooms = {r1, r2}
    Subjects = {s1, s2}
    RoomOf <- TwoRoomsOf
    SubjectOf <- TwoTabsSubjectOf
    Slow = {c1}
    BroadcastCap = 1
    ProfileCap = 1
    MaxComments = 2
    MaxProfiles = 1
INVARIANTS
    CommentsConserved
PROPERTIES
    ImplementsRoomFeed
    GoneIsUncounted
    StoredIsBroadcast
CHECK_DEADLOCK FALSE
