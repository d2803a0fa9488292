SPECIFICATION FairSpec
CONSTANTS
    ra = ra  rb = rb
    oa = oa  ob = ob
    q1 = q1  q2 = q2
    Rooms = {ra}
    Owners = {oa}
    NoOwner = NoOwner
    Requests = {q1, q2}
    Impatient = {q2}
    Grace = 1
    MaxGens = 1
PROPERTIES
    GoneStreamEnds
    StreamGoesLive
