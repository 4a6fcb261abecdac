SPECIFICATION Spec
CONSTANTS
    c1 = c1
    c2 = c2
    s1 = s1
    s2 = s2
    Daemon = Daemon
    None = None
    Clients = {c1, c2}
    Sessions = {s1}
    Reach <- ClientsOnly
    MaxRuns = 3
    MaxCrashes = 0
    MaxConcurrent = 1
    AbortForms = {"runId"}
    WaitMayTimeOut = FALSE
    StoreMayFail = FALSE
CHECK_DEADLOCK FALSE
INVARIANTS
    OneRunningPerSession
