SPECIFICATION FairSpec
CONSTANTS
    j1 = j1
    j2 = j2
    c1 = c1
    c2 = c2
    Jobs <- MCJobs
    Contents <- MCContents
    NoContent = NoContent
    Older <- MCOlder
    NoCall = NoCall
    MaxWrites = 2
    MaxMishaps = 2
INVARIANTS
    TypeOK
    CleanRowsAgree
PROPERTIES
    AlarmsAreNewer
    ShadowCatchesUp
