SPECIFICATION QueueSpec
CONSTANTS
    automatic = automatic
    manual = manual
    Payloads <- MCPayloads
    NoPayload = NoPayload
    Tokens = {t1, t2, t3}
    NoToken = NoToken
    ExternalKeys = {ai}
    DrainKeys = {enrich}
    LegacyKeys = {}
    Requests <- MCRequests
    FollowUps <- MCFollowUps
    MaxCrashes = 1
INVARIANTS
    FailedWasTried
