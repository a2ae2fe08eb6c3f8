SPECIFICATION Spec
CONSTANTS
    evidence = evidence
    g1 = g1
    lane = lane
    cliLane = cliLane
    Payloads = {evidence}
    NoPayload = NoPayload
    MaxRuns = 2
    Tokens <- MCTokens
    NoToken = 0
    Groups = {g1}
    Lanes = {lane}
    LaneOf <- OneLane
    Eligible = {g1}
    MaxAttempts = 2
    MaxRequests <- MoreEach
    MaxBare = 1
    MaxFaults = 1
    MaxCrashes = 1
INVARIANTS
    TypeOK
    CompletedIsAnswered
    InferredOnce
PROPERTIES
    ImplementsLeasedWork
CHECK_DEADLOCK FALSE
