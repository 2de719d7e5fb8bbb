SPECIFICATION Spec
CONSTANTS
    Deadline = {d1, d2}
    Agent = {a1, a2}
    Manager = {m1, m2}
    Run = {r1, r2}
    OldAge = 2
    Caller = {c1, c2, c3}
    OnlyLogsIn = c3
    Account = {k1, k2}
    Signer = {s1, s2}
    NoPhone = {s2}
    UserLimit = 2
    IpLimit = 4
    SignLimit = 1
    LlmLimit = 2
    Retries = 2
CHECK_DEADLOCK FALSE
INVARIANTS
    ScheduleInv AdmissionInv GuessesBounded
PROPERTIES
    SilenceNoticed
