SPECIFICATION FairSpec
CONSTANTS
    c1 = c1
    c2 = c2
    s1 = s1
    s2 = s2
    Daemon = Daemon
    None = None
    Clients = {c1}
    Sessions = {s1}
    Reach <- Everywhere
    MaxRuns = 2
    MaxCrashes = 1
    MaxConcurrent = 1
    AbortForms = {}
    WaitMayTimeOut = FALSE
    StoreMayFail = FALSE
CHECK_DEADLOCK FALSE
PROPERTIES
    ResumeRestartsWork
