SPECIFICATION Spec
CONSTANTS
    Texts <- SmallTexts
    Blank = 0
    MaxRevision = 4
    MaxSummaries = 2
    MaxEdits = 2
    MaxJobs = 1
    MaxActs = 3
INVARIANTS
    LedgerFollows
    CompletedStands
PROPERTIES
    NoLostText
    EditsKept
CHECK_DEADLOCK FALSE
