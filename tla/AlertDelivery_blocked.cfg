SPECIFICATION FairSpec
CONSTANTS
    Alerts = {1, 2}
    Oversized = {2}
    Rejected = {}
    Dropped = {}
    Suppressible = {}
    Runs = {poll}
    DrainLimit = 2
    BatchItems = 2
    MaxFaults = 0
PROPERTIES
    HealthyNotBlocked
