CONSTANTS
    MaxSigs = 7
    HistoryLen = 2
    MaxAircraft = 2
    MaxCalls = 3
    Peers <- MCPeers
    LoraHeard <- MCLoraHeard
    Starts <- MCStarts

SPECIFICATION Spec

INVARIANTS
    TableSurvivesSaving
    ClassifierFollowsTable
    HeardAsSent
    EntriesAreTrue

PROPERTY OnlyIntactFramesCount

CHECK_DEADLOCK FALSE
