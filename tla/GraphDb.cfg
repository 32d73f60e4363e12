CONSTANTS
    Nodes <- MCNodes
    NodeProps <- MCNodeProps
    EdgeProps <- MCEdgeProps
    Handles = {h1}
    UsedEdges <- MCUsedEdges
    BatchEdges <- MCBatchEdges
    MaxEdges = 2
    MaxFaults = 1
    MaxDrifted = 0
SPECIFICATION Spec
INVARIANTS TypeOK IndexInStep
PROPERTIES GraphKept
CHECK_DEADLOCK FALSE
