SPECIFICATION Spec
CONSTANTS
    c1 = c1
    c2 = c2
    s1 = s1
    s2 = s2
    Daemon = Daemon
    None = None
    Clients = {c1, c2}
    Sessions = {s1}
    Reach <- Everywhere
    MaxRuns = 3
    MaxCrashes = 0
    MaxConcurrent = 2
    AbortForms = {"runId", "sessionId"}
    WaitMayTimeOut = TRUE
    StoreMayFail = FALSE
CHECK_DEADLOCK FALSE
INVARIANTS
    TypeOK
    FrameMatchesRecord
    DaemonWithinCapacity
SYMMETRY ClientSymmetry
