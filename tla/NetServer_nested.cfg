SPECIFICATION Spec
CONSTANTS
    Clients = {c1, c2}
    Paths <- NestedPaths
    Buffered = FALSE
    MaxLocks = 5
    MaxOps = 2
    MaxSize = 0
    LockCalls <- WlockOnly
    ReadCalls = {}
    WriteCalls = {}
INVARIANT RemoteExclusion
CHECK_DEADLOCK FALSE
