SPECIFICATION FairSpec
CONSTANTS
    k1 = k1
    k2 = k2
    MaxJobs = 2
    Last = 1
    Repair <- NoStages
    Skipped <- NoStages
    Keys <- NoKeys
    MaxCrashes = 1
    Upgrades = FALSE
    MaxBusy = 0
PROPERTIES
    ReplacementConfirmed
    JobsSettle
