SPECIFICATION FairSpec
CONSTANTS
    k1 = k1
    k2 = k2
    MaxJobs = 1
    Last = 2
    Repair <- RepairSecond
    Skipped <- NoStages
    Keys <- OneKey
    MaxCrashes = 1
    Upgrades = FALSE
    MaxBusy = 1
INVARIANTS
    CallsWithinPermits
    AtMostOneLateRequest
    UnfinishedHasConversation
PROPERTIES
    NoSilentResend
    CancellationCompletes
