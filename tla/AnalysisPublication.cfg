SPECIFICATION FairSpec
CONSTANTS
    a1 = a1
    a2 = a2
    lesson = lesson
    hint = hint
    Analyses = {a1, a2}
    NoAnalysis = NoAnalysis
    Records = {lesson, hint}
    Shared = {lesson}
    Observed <- MCObserved
    Workers = {w1, w2}
    MaxFaults = 1
    MaxCrashes = 1
INVARIANTS
    TypeOK
    MemoryIsCommitted
    IntentRecoverable
    ReceiptsAreCounted
    ReplayedOnce
PROPERTIES
    IntentPersists
