CONSTANTS
    Nodes <- MCNodes
    NodeProps <- MCTwoProps
    EdgeProps <- MCTwoProps
    Handles = {h1}
    UsedEdges <- MCUsedEdges
    BatchEdges <- MCBatchEdges
    MaxEdges = 1
    MaxFaults = 0
    MaxDrifted = 0
SPECIFICATION Spec
PROPERTIES MergesKept
CHECK_DEADLOCK FALSE
