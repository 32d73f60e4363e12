------------------------------ MODULE MCGraphDb ------------------------------
EXTENDS GraphDb

MCNodes == 1..3
MCUsedEdges == {<<1, ">", 2>>, <<1, "-", 2>>, <<3, ">", 1>>}
MCBatchEdges == {<<1, ">", 2>>, <<3, ">", 1>>}

MCNodeProps == {[a |-> 1]}
MCEdgeProps == {[a |-> 1], [b |-> 1]}

\* Properties that two handles merge into the same record.
MCTwoProps == {[a |-> 1], [b |-> 1]}
==============================================================================
