SPECIFICATION Spec
CONSTANTS
    Result = {1, 2}
    Checkin = {3}
    Report = {4}
    Drain = {d1, d2}
    MaxAttempts = 2
    MaxCopies = 2
    MaxKills = 1
    None = None
    Other = Other
    Knock = {k1}
    Pledge = {g1}
    Place = {1, 2}
    Window = 1
    Keep = 1
    MaxRetries = 2
    Sync = {x1, x2}
    OneCall = q1
    Api = {q1, q2}
    MaxToken = 2
CHECK_DEADLOCK FALSE
INVARIANTS
    OutboxInv CanvassInv SessionInv
PROPERTIES
    OutboxDelivers EveryRowEnds CanvassDelivers KeepsTrying
    CallsEnd RestartArrives
