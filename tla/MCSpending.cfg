SPECIFICATION FairSpec
CONSTANTS
    executor = executor
    request = request
    novel = novel
    all = all
    Callers <- TwoCallers
    Projects = {novel}
    Project <- ProjectOf
    Everything = all
    Amounts <- TwoAmounts
    Limits <- LimitValues
    MaxEntries = 2
    MaxRevisions = 1
    MaxCrashes = 1
    MaxFaults = 1
INVARIANTS
    LimitKept
    DeliveredCounted
PROPERTIES
    ReconciledFinal
    Answerable
CHECK_DEADLOCK FALSE
