SPECIFICATION Spec
CONSTANTS
    Nodes <- TwoNodes
    Data <- DataValues
    StateInputs <- AuthorsStates
    MaxStates = 3
    Generated = {1}
    Imported = {2, 3}
    Chapter <- FirstChapter
    Cites = {}
    Offered <- StatesOffered
    Legacy = {}
    Payloads <- StatePayloads
    Records = {}
    MaxRecords = 0
    MaxRevision = 3
    MaxActs = 2
INVARIANTS
    PromotedOnce
    AnsweredOnce
PROPERTIES
    ImportsAgree
CHECK_DEADLOCK FALSE
