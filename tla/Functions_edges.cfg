CONSTANTS
    Rank <- MCRank
    Digits <- MCDigits
    Today = 2
    Vals <- MCVals
    Recs <- MCRecs
    Partners <- MCPartners
    Vertices <- MCVertices
    Edges <- MCEdges
    MaxDepth = 2
    MaxRows = 3
    MaxEntries = 4
SPECIFICATION Spec
INVARIANT EdgeScores
CHECK_DEADLOCK FALSE
