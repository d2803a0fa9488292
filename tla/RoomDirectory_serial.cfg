SPECIFICATION BackendSpec
CONSTANTS
    ra = ra  rb = rb
    oa = oa  ob = ob
    q1 = q1  q2 = q2
    Rooms = {ra, rb}
    Owners = {oa, ob}
    NoOwner = NoOwner
    Requests = {q1}
    Impatient = {q1}
    Grace = 1
    MaxGens = 2
    Callers = {c1, c2, c3}
    Names = {n1}
    Handlers = {h1, h2}
    Passwords = {p1}
    MaxIssued = 3
    PageSize = 1
    MaxComments = 2
    Slots = {s1, s2}
    MaxRooms = 1
SYMMETRY BackendSymmetry
INVARIANTS
    BackendTypeOK
    CommentNamesWereCurrent
    VoidStaysVoid
    NeverStuckLoading
PROPERTIES
    GraceKept
    StartedIsKept
CHECK_DEADLOCK FALSE
