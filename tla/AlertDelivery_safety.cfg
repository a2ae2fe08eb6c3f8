SPECIFICATION Spec
CONSTANTS
    Alerts = {1, 2}
    Oversized = {}
    Rejected = {2}
    Dropped = {}
    Suppressible = {}
    Runs = {poll, manual}
    DrainLimit = 1
    BatchItems = 1
    MaxFaults = 1
SYMMETRY RunSymmetry
INVARIANTS
    TypeOK
    NoAlertLost
    SeenMeansSettled
PROPERTIES
    ImplementsReliableDelivery
