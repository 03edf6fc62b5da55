SPECIFICATION Spec
CONSTANTS
    Nodes <- TwoNodes
    Data <- DataValues
    StateInputs = {}
    MaxStates = 0
    Generated = {}
    Imported = {2, 3}
    Chapter <- FirstChapter
    Cites = {3}
    Offered <- RecordsOffered
    Legacy = {2}
    Payloads <- RecordPayloads
    Records <- AuthorsRecords
    MaxRecords = 3
    MaxRevision = 3
    MaxActs = 2
INVARIANTS
    AsShown
PROPERTIES
    NoSilentTwin
CHECK_DEADLOCK FALSE
