SPECIFICATION FairSpec
CONSTANTS
    q1 = q1
    q2 = q2
    p1 = p1
    Questions = {q1, q2}
    Proposals = {}
    MaxCrashes = 1
    MaxSaves = 0
INVARIANTS
    AgentActsOnAnswer
PROPERTIES
    AnswerReachesAgent
