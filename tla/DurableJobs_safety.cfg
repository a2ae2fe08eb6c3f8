SPECIFICATION Spec
CONSTANTS
    automatic = automatic
    manual = manual
    Payloads <- MCPayloads
    NoPayload = NoPayload
    Tokens = {t1, t2, t3}
    NoToken = NoToken
    ExternalKeys = {ai}
    DrainKeys = {enrich}
    LegacyKeys = {ai, enrich}
    Requests <- MCRequests
    FollowUps <- MCFollowUps
    MaxCrashes = 1
SYMMETRY TokenSymmetry
INVARIANTS
    TypeOK
    LeaseIntegrity
    LatchMatchesEvidence
    StartedMeansTried
    PendingClaimable
    SnapshotAgrees
    QueuedAuthority
PROPERTIES
    NoStaleSettlement
    ImplementsLeasedWork
