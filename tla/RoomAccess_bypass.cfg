SPECIFICATION AccessSpec
CONSTANTS
    Handlers = {h1}
    Passwords = {p1}
    MaxIssued = 2
PROPERTIES
    BypassGoesWithPassword
CHECK_DEADLOCK FALSE
