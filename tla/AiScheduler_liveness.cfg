SPECIFICATION FairSpec
CONSTANTS
    evidence = evidence
    g1 = g1
    lane = lane
    cliLane = cliLane
    Payloads = {evidence}
    NoPayload = NoPayload
    MaxRuns = 2
    Tokens <- MCTokens
    NoToken = 0
    Groups = {g1}
    Lanes = {lane, cliLane}
    LaneOf <- TwoLanes
    Eligible = {}
    MaxAttempts = 2
    MaxRequests <- AnalystOnly
    MaxBare = 0
    MaxFaults = 1
    MaxCrashes = 1
PROPERTIES
    SpoolDrains
    JobSettles
