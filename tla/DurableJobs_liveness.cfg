SPECIFICATION FairSpec
CONSTANTS
    automatic = automatic
    manual = manual
    Payloads <- MCPayloads
    NoPayload = NoPayload
    Tokens = {t1, t2}
    NoToken = NoToken
    ExternalKeys = {ai}
    DrainKeys = {enrich}
    LegacyKeys = {ai, enrich}
    Requests <- MCRequests
    FollowUps <- MCFollowUps
    MaxCrashes = 1
INVARIANTS
    CompletedOwesNothing
PROPERTIES
    RequestEventuallyClaimed
    LeaseEventuallyEnds
