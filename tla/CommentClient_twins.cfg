SPECIFICATION ClientSpec
CONSTANTS
    Sockets = {w1, w2, w3}
    NoSocket = NoSocket
    MaxRequests = 1
INVARIANTS
    OneLiveSocket
CHECK_DEADLOCK FALSE
