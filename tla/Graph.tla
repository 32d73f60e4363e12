------------------------------- MODULE Graph -------------------------------
(***************************************************************************)
(* What GraphDb promises its callers: a set of nodes and a set of edges,   *)
(* each with properties, where an edge brings its endpoints with it and a  *)
(* node takes its edges with it.  Nothing derived is visible here.         *)
(***************************************************************************)
EXTENDS Integers, Functions, TLC

CONSTANTS Nodes, Props

VARIABLES nodes,  \* node -> properties, defined on the nodes that exist
          edges   \* <<source, type, target>> -> properties

gvars == <<nodes, edges>>

EdgeKeys == {e \in Nodes \X {">", "-"} \X Nodes :
                 e[1] # e[3] /\ (e[2] = "-" => e[1] < e[3])}

Ends(e) == {e[1], e[3]}

NoProps == << >>

\* Properties are functions from names to values: the new value of a name
\* replaces the old one, names that are not given keep theirs.
Merge(old, new) == new @@ old

Set(f, k, v) == [x \in DOMAIN f \cup {k} |-> IF x = k THEN v ELSE f[x]]

\* f with every missing element of S defined, without properties.
Fill(f, S) == [x \in DOMAIN f \cup S |-> IF x \in DOMAIN f THEN f[x] ELSE NoProps]

Upsert(f, k, p) == Set(f, k, IF k \in DOMAIN f THEN Merge(f[k], p) ELSE p)

AddNode(n, p) == nodes' = Upsert(nodes, n, p) /\ UNCHANGED edges

AddEdge(e, p) == nodes' = Fill(nodes, Ends(e)) /\ edges' = Upsert(edges, e, p)

AddEdges(e, f, p) ==
    /\ nodes' = Fill(nodes, Ends(e) \cup Ends(f))
    /\ edges' = Upsert(Upsert(edges, e, p), f, p)

RemoveNode(n) ==
    /\ nodes' = Restrict(nodes, DOMAIN nodes \ {n})
    /\ edges' = Restrict(edges, {e \in DOMAIN edges : n \notin Ends(e)})

RemoveEdge(e) == edges' = Restrict(edges, DOMAIN edges \ {e}) /\ UNCHANGED nodes

Init == nodes = << >> /\ edges = << >>

Next ==
    \/ \E n \in Nodes : RemoveNode(n) \/ \E p \in Props : AddNode(n, p)
    \/ \E e \in EdgeKeys : RemoveEdge(e) \/ \E p \in Props : AddEdge(e, p)
    \/ \E e, f \in EdgeKeys, p \in Props : AddEdges(e, f, p)

Spec == Init /\ [][Next]_gvars
=============================================================================
