SPECIFICATION Spec
CONSTANTS
    c1 = c1
    c2 = c2
    s1 = s1
    s2 = s2
    Daemon = Daemon
    None = None
    Clients = {c1, c2}
    Sessions = {s1, s2}
    Reach <- Apart
    MaxRuns = 3
    MaxCrashes = 1
    MaxConcurrent = 1
    AbortForms = {"runId", "sessionId"}
    WaitMayTimeOut = FALSE
    StoreMayFail = FALSE
CHECK_DEADLOCK FALSE
INVARIANTS
    OneTurnPerSession
    TurnOwnsAgent
PROPERTIES
    CountsRuns
