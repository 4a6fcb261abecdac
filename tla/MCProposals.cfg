SPECIFICATION Spec
CONSTANTS
    q1 = q1
    q2 = q2
    p1 = p1
    Questions = {}
    Proposals = {p1}
    MaxCrashes = 2
    MaxSaves = 3
INVARIANTS
    TypeOK
    ProposalAsked
    SavedOnce
    OneGrant
PROPERTIES
    ReviewIsFinal
    KeepsPromise
