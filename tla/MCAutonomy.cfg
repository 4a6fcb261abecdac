SPECIFICATION FairSpec
CONSTANTS
    sweep = sweep
    first = first
    second = second
    goal = goal
    s1 = s1
    Direct = Direct
    Orders = {sweep, first, second}
    Governance = {sweep}
    EventOrders = {second}
    Goals = {goal}
    Given = {sweep, first, goal}
    Age <- Ages
    Sessions = {s1}
    SessionOf <- SessionsOf
    Schedule = s1
    Inbox = s1
    Sensed = {"file"}
    Profiles = {"balanced"}
    MaxDispatches = 1
    MaxConcurrent = 2
    BacklogThreshold = 2
    RunThreshold = 1
    MaxQueue = 2
    MaxFaults = 1
CHECK_DEADLOCK FALSE
INVARIANTS TypeOK SlotRunOnce SlotKept Throttled PressureFollows
PROPERTIES SweepsStayInternal OldestServed CountsRuns
