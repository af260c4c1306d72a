CONSTANTS
    MaxSigs = 7
    HistoryLen = 2
    MaxAircraft = 2
    MaxCalls = 0
    Peers <- MCPeers
    LoraHeard <- MCLoraHeard
    Starts <- MCStarts

SPECIFICATION Spec

INVARIANT CardTableInUse

CHECK_DEADLOCK FALSE
