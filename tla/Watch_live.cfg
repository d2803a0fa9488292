SPECIFICATION MCSpec
CONSTANTS
    Attempts = {a1, a2}
    NoAttempt = none
    Variants = {}
    Offers <- MCOffers
    Credentials = {"none", "right", "wrong"}
    MaxChanges = 1
    Polls = {p1, p2}
    PageSize = 1
    MaxComments = 1
    Sockets = {w1, w2, w3, w4}
    NoSocket = NoSocket
    MaxRequests = 2
INVARIANTS
    PageAndPlayerAgree
    ClientTypeOK
    RequestsKept
    NeverStranded
PROPERTIES
    PasswordIsDecided
    EventuallyAttached
    CountSettles
    StaysDisconnected
    PendingIsSent
CHECK_DEADLOCK FALSE
