SPECIFICATION FairSpec
CONSTANTS
    Chunks = {1, 2}
    Maps = 1
    Facts = {1, 2}
    Quotes <- TwoQuotes
    Groups = {1}
    GroupOf <- OneGroup
    Providers = {1, 2}
    MaxEdits = 1
    MaxActs = 2
    MaxFaults = 1
INVARIANTS
    CallsByConsent
    AnalyzedIsComplete
PROPERTIES
    UnitsSettle
CHECK_DEADLOCK FALSE
