SPECIFICATION FairSpec
CONSTANTS
    Chunks = {1}
    Maps = 0
    Facts = {1}
    Quotes <- OneQuote
    Groups = {1}
    GroupOf <- OneGroup
    Providers = {1}
    MaxEdits = 0
    MaxActs = 3
    MaxFaults = 0
PROPERTY
    AnalysisRests
CHECK_DEADLOCK FALSE
