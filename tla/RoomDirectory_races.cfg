SPECIFICATION Spec
CONSTANTS
    ra = ra  rb = rb
    oa = oa  ob = ob
    q1 = q1  q2 = q2
    Rooms = {ra}
    Owners = {oa, ob}
    NoOwner = NoOwner
    Requests = {q1, q2}
    Impatient = {q1, q2}
    Grace = 1
    MaxGens = 2
SYMMETRY Symmetry
INVARIANTS
    RowsConsistent
PROPERTIES
    ImplementsRoomLedger
