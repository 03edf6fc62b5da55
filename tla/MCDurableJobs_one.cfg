SPECIFICATION Spec
CONSTANTS
    k1 = k1
    k2 = k2
    MaxJobs = 1
    Last = 3
    Repair <- RepairSecond
    Skipped <- SkipThird
    Keys <- TwoKeys
    MaxCrashes = 1
    Upgrades = TRUE
    MaxBusy = 0
INVARIANTS
    TypeOK
    ResumeOnce
    PublishedComplete
PROPERTIES
    CheckpointsKept
    ImplementsCallBudget
