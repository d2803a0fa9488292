SPECIFICATION ProfilesSpec
CONSTANTS
    Callers = {r1, r2}
    Names = {n1}
PROPERTIES
    SavedNameStays
CHECK_DEADLOCK FALSE
