SPECIFICATION Spec
CONSTANTS
    Item = {x1, x2}
    Donor = {d1}
    Clerk = {w1, w2}
    Amount = {0, 2}
    Caps = {3}
    DonorCap = 3
    None = None
    Voter = {x1, x2}
    Consent = {k1}
    Dsar = {y1, y2}
    Panelist = {p1}
    Handler = {w1, w2}
    Chunk = 1
    Incident = {n1}
    Profile = {y1, y2}
    Viewer = {z1, z2}
    Editor = {w1, w2}
    Stream = {s1, s2, s3, s4}
    OneStream = s1
    MaxClients = 3
    MaxPerUser = 2
    NoOne = NoOne
SYMMETRY Symmetry
CHECK_DEADLOCK FALSE
INVARIANTS
     LedgerTraces
    VoterInv ErasureReal
    WarRoomInv ViewersTold
