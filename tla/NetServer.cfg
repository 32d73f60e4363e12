SPECIFICATION FairSpec
CONSTANTS
    Clients = {c1, c2}
    Paths <- MCPaths
    Buffered = FALSE
    MaxLocks = 2
    MaxOps = 3
    MaxSize = 4
    LockCalls <- MCLocks
    ReadCalls <- MCReads
    WriteCalls <- MCWrites
INVARIANTS TypeOK LocksCounted RemoteExclusion OffsetInStep
PROPERTIES WritesExclusive HandlerEnds
CHECK_DEADLOCK FALSE
