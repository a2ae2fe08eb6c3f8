SPECIFICATION FairSpec
CONSTANTS
    Alerts = {1, 2, 3}
    Oversized = {}
    Rejected = {2}
    Dropped = {3}
    Suppressible = {1}
    Runs = {poll}
    DrainLimit = 2
    BatchItems = 1
    MaxFaults = 1
INVARIANTS
    ReplayOnlyAfterFault
    PostCommitOnce
PROPERTIES
    OutboxDrains
