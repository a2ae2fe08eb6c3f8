SPECIFICATION FairSpec
CONSTANTS
    k1 = k1
    k2 = k2
    i1 = i1
    i2 = i2
    Keys <- MCKeys
    Ids <- MCIds
    NoItem = NoItem
    NoKey = NoKey
    OutboxMaxAttempts = 2
    DrainSize = 2
    MaxCrashes = 2
    MaxLostAnswers = 1
    MaxFailedWrites = 1
INVARIANTS
    TypeOK
    OneRowPerKey
    RepeatsNeedMishaps
    AttemptsBounded
PROPERTIES
    NotificationEnds
