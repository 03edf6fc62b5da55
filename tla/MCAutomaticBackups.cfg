SPECIFICATION FairSpec
CONSTANTS
    scheduler = scheduler
    page = page
    free = free
    Threads <- TwoThreads
    Scheduler = scheduler
    Free = free
    Retentions <- OneOrTwo
    Default = 2
    MaxBackups = 4
    MaxEdits = 2
    MaxRequests = 2
    MaxRevisions = 1
    MaxLosses = 1
    MaxCrashes = 2
    MaxFaults = 1
INVARIANTS
    NoLitter
    NewestRestorable
    SuccessProtects
PROPERTIES
    LastGoodKept
    EventuallySaved
CHECK_DEADLOCK FALSE
