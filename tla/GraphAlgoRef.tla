---------------------------- MODULE GraphAlgoRef ----------------------------
(***************************************************************************)
(* Reference definitions for the algorithms of GraphAlgo, in terms of the  *)
(* set of edges alone, and what each algorithm has to agree with.  Graphs  *)
(* are built from a set E of edge keys; the lists of a graph are in        *)
(* ascending or in descending order, since no result may depend on the     *)
(* order in which edges were added.                                        *)
(***************************************************************************)
EXTENDS GraphAlgo

VertexEdges == {e \in Vertices \X {">", "-"} \X Vertices :
                    e[1] # e[3] /\ (e[2] = "-" => e[1] < e[3])}

EntriesOf(E, n) ==
    {<<e[2], e[3]>> : e \in {f \in E : f[1] = n}} \cup
    {<<IF e[2] = ">" THEN "<" ELSE "-", e[1]>> : e \in {f \in E : f[3] = n}}

\* Three ways to weigh the edges: alike, lighter the longer, with zeroes.
Weigh(i, e) == CASE i = 1 -> 1
                 [] i = 2 -> 1 + ((e[1] * e[3]) % 3)
                 [] i = 3 -> (e[1] + 2 * e[3]) % 3

Weighed(g, i) == [g EXCEPT !.wt = [e \in DOMAIN @ |-> Weigh(i, e)]]

\* Every possible entry of a list, ascending; nodes are 1..N.
EntrySeq == [i \in 1..(3 * Cardinality(Vertices)) |-> <<<<"-", ">", "<">>[1 + (i % 3)], 1 + ((i - 1) \div 3)>>]

\* The graph with edges E, lists ascending or descending.
GraphOf(E, desc) ==
    LET turn(s) == IF desc THEN Reverse(s) ELSE s
    IN  [order |-> turn([i \in 1..Cardinality(Vertices) |-> i]),
         adj |-> [n \in Vertices |-> turn(SelectSeq(EntrySeq, LAMBDA x : x \in EntriesOf(E, n)))],
         wt |-> [e \in E |-> Weigh(2, e)]]

\* The pairs of nodes that one edge of E joins in a direction.
Arcs(E, dir) ==
    LET fwd == {<<e[1], e[3]>> : e \in {f \in E : f[2] = ">" /\ dir # "in"}}
        bwd == {<<e[3], e[1]>> : e \in {f \in E : f[2] = ">" /\ dir # "out"}}
        und == {<<e[1], e[3]>> : e \in {f \in E : f[2] = "-"}}
    IN  fwd \cup bwd \cup und \cup {<<p[2], p[1]>> : p \in und}

\* Every sequence of different nodes.
SimplePaths == UNION {{s \in [1..k -> Vertices] : IsInjective(s)} : k \in 1..Cardinality(Vertices)}

PathsIn(A, s, t) ==
    {p \in SimplePaths : /\ p[1] = s /\ p[Len(p)] = t
                         /\ \A i \in 1..(Len(p) - 1) : <<p[i], p[i + 1]>> \in A}

Shortest(P) == {p \in P : \A q \in P : Len(p) <= Len(q)}

\* Hop distances from s: the nodes first met after k steps.
Balls(A, s) ==
    LET ball[k \in 0..Cardinality(Vertices)] ==
            IF k = 0 THEN {s} ELSE ball[k - 1] \cup {v \in Vertices : \E u \in ball[k - 1] : <<u, v>> \in A}
    IN  ball
Reached(A, s) == Balls(A, s)[Cardinality(Vertices)]
HopDist(A, s) ==
    LET ball == Balls(A, s)
    IN  [v \in Reached(A, s) |-> CHOOSE k \in DOMAIN ball : v \in ball[k] /\ (k > 0 => v \notin ball[k - 1])]

\* The lightest edge from u to v in a direction, and the weight of a path.
ArcWeight(g, u, v, dir) == Min({g.wt[e] : e \in {f \in AllEdges(g) : <<u, v>> \in Arcs({f}, dir)}})
PathWeight(g, p, dir) ==
    FoldLeft(LAMBDA w, i : w + ArcWeight(g, p[i], p[i + 1], dir), 0, [i \in 1..(Len(p) - 1) |-> i])
Lightest(g, P, dir) == {p \in P : \A q \in P : PathWeight(g, p, dir) <= PathWeight(g, q, dir)}

\* A cycle: different nodes and different edges, each edge walked forward.
HasCycle(E) ==
    \E p \in SimplePaths :
        /\ Len(p) >= 2
        /\ \A i \in 1..(Len(p) - 1) : <<p[i], p[i + 1]>> \in Arcs(E, "out")
        /\ \E e \in E : /\ <<p[Len(p)], p[1]>> \in Arcs({e}, "out")
                        /\ Len(p) = 2 => <<p[1], p[2]>> \in Arcs(E \ {e}, "out")

Directions == {"out", "in", "both"}

----------------------------------------------------------------------------
\* What the adjacency gives is what the edges say: neighbours, degrees and
\* their weights, successors and predecessors with the record of their edge,
\* and the edges of subgraph and ego_graph.
ReadsAgree(g) ==
    LET E == AllEdges(g) IN
    \A n \in Vertices :
        LET out == {e \in E : e[1] = n /\ e[2] = ">"}
            in == {e \in E : e[3] = n /\ e[2] = ">"}
            und == {e \in E : e[2] = "-" /\ n \in {e[1], e[3]}}
            other(e) == IF e[1] = n THEN e[3] ELSE e[1]
        IN  /\ Neighbors(g, n) = {other(e) : e \in out \cup in \cup und}
            /\ Successors(g, n) = {<<other(e), e>> : e \in out \cup und}
            /\ Predecessors(g, n) = {<<other(e), e>> : e \in in \cup und}
            /\ \A p \in {<<">", out>>, <<"<", in>>, <<"-", und>>} :
                  /\ Degree(g, n, p[1]) = Cardinality(p[2])
                  /\ WeightedDegree(g, n, p[1]) = MapThenSumSet(LAMBDA e : g.wt[e], p[2])
            /\ \A m \in Vertices :
                  /\ Jaccard(g, n, m)[1] <= Jaccard(g, n, m)[2]
                  /\ m \in CommonNeighbors(g, n, n) <=> {<<n, m>>, <<m, n>>} \cap Arcs(E, "out") # {}
            /\ \A k \in 0..2, dir \in Directions :
                  LET ego == EgoGraph(g, n, k, dir)
                  IN  /\ ego.nodes = Balls(Arcs(E, dir), n)[k]
                      /\ ego.edges = {e \in E : {e[1], e[3]} \subseteq ego.nodes}

\* Traversals reach what can be reached, with or without an edge filter, and
\* each node once; hops are counted right; a shortest path is one, and all of
\* them are found.
TraversalsAgree(g) ==
    LET E == AllEdges(g) IN
    \A dir \in Directions, F \in {E, {e \in E : g.wt[e] < 3}}, n \in Vertices :
        LET A == Arcs(F, dir)
            path == DfsTraverse(g, n, dir, F)
            dist == HopDist(A, n)
        IN  /\ Range(path) = Reached(A, n) /\ IsInjective(path)
            /\ \A i \in 2..Len(path) : \E j \in 1..(i - 1) : <<path[j], path[i]>> \in A
            /\ F = E => /\ \A k \in 1..2 : KHopNeighbors(g, n, k, dir) =
                              [m \in {v \in DOMAIN dist \ {n} : dist[v] <= k} |-> dist[m]]
                        /\ dir = "out" => Descendants(g, n) = Reached(A, n) \ {n}
                        /\ dir = "in" => Ancestors(g, n) = Reached(A, n) \ {n}
            /\ \A t \in Vertices :
                  LET best == Shortest(PathsIn(A, n, t))
                      p == BfsShortestPath(g, n, t, dir, F)
                  IN  /\ IF best = {} THEN p = << >> ELSE p \in best
                      /\ Range(AllShortestPaths(g, n, t, dir, F)) = best

\* With weights that are not negative dijkstra_shortest_path finds a lightest
\* path and its weight; with weights above zero all_shortest_paths finds all
\* of them.  (An undirected edge of weight 0 off the source sends the latter
\* round in circles.)
WeightedPathsAgree(g) ==
    \A i \in 1..3 :
        LET E == AllEdges(g)
            w == Weighed(g, i)
        IN
        \A s, t \in Vertices :
            LET best == Lightest(w, PathsIn(Arcs(E, "out"), s, t), "out")
                found == DijkstraShortestPath(w, s, t)
            IN  /\ IF best = {} THEN found = <<-1, << >>>>
                   ELSE found[2] \in best /\ found[1] = PathWeight(w, found[2], "out")
                /\ i < 3 => \A dir \in Directions :
                      Range(AllLightestPaths(w, s, t, dir)) = Lightest(w, PathsIn(Arcs(E, dir), s, t), dir)

\* is_cyclic says whether there is a cycle, and find_cycle walks one: each
\* edge exists, starts where the one before ends, and no edge is used twice.
CyclesAgree(g) ==
    LET E == AllEdges(g)
        c == FindCycle(g, g.order)
        key(w) == EdgeKey(w[1], w[3], w[2] = ">")
    IN  /\ IsCyclic(g) <=> HasCycle(E)
        /\ \A i \in DOMAIN c : key(c[i]) \in E /\ c[i][3] = c[(i % Len(c)) + 1][1]
        /\ \A i, j \in DOMAIN c : key(c[i]) = key(c[j]) => i = j

\* topological_sort lists every node once, each directed edge forward, or
\* raises because there is a cycle.  (That it raises on every cycle is
\* CyclesRaise below, which the code breaks.)
TopologicalAgrees(g) ==
    LET E == AllEdges(g)
        r == TopologicalSort(g)
        pos(n) == CHOOSE i \in DOMAIN r.order : r.order[i] = n
    IN  IF r.raised THEN HasCycle(E)
        ELSE /\ Range(r.order) = Vertices /\ IsInjective(r.order)
             /\ \A e \in E : e[2] = ">" => pos(e[1]) < pos(e[3])

\* topological_sort raises whenever there is a cycle.
CyclesRaise(g) == HasCycle(AllEdges(g)) => TopologicalSort(g).raised

\* Components are the classes of nodes that reach each other, along edges of
\* any direction or forward only; no node is in two of them.
ComponentsAgree(g) ==
    LET E == AllEdges(g)
        classes(A) == {{v \in Vertices : v \in Reached(A, n) /\ n \in Reached(A, v)} : n \in Vertices}
        weak == ConnectedComponents(g)
        strong == StronglyConnectedComponents(g)
    IN  /\ Range(weak) = classes(Arcs(E, "both")) /\ IsInjective(weak)
        /\ Range(strong) = classes(Arcs(E, "out")) /\ IsInjective(strong)

\* edge_betweenness_centrality counts, for an undirected edge, the shortest paths
\* that cross it one way and those that cross it the other way.  (With no other
\* edge between the two nodes.)
EdgesScored(g) ==
    LET pb == PairBetweenness(g)
    IN  \A e \in AllEdges(g) :
            (e[2] = "-" /\ \A f \in AllEdges(g) \ {e} : {f[1], f[3]} # {e[1], e[3]})
                => \A p \in {<<e[1], e[3]>>, <<e[3], e[1]>>} : EdgeBetweenness(g)[e] >= pb.score[p]

\* The scores are what their definitions say: the fraction of shortest paths
\* through a node or across a pair, the distances behind closeness, the
\* fraction of linked pairs of neighbours.  A directed edge has the score of
\* the ordered pairs of nodes whose shortest paths cross it, an undirected one
\* where all are undirected that of the unordered pairs (EdgesScored says what
\* becomes of it elsewhere); normalised, no score is above one.
CentralityAgrees(g) ==
    LET E == AllEdges(g)
        z == Weighed(g, 3)
        A == Arcs(E, "out")
        shortest == UNION {Shortest(PathsIn(A, p[1], p[2])) : p \in {q \in Vertices \X Vertices : q[1] # q[2]}}
        ways(r) == Cardinality({q \in shortest : Head(q) = Head(r) /\ Last(q) = Last(r)})
        routes == {[path |-> r, share |-> Scale \div ways(r),
                    edges |-> {PairEdge(g, r[i], r[i + 1]) : i \in 1..(Len(r) - 1)}] : r \in shortest}
        shares(S) == MapThenSumSet(LAMBDA r : r.share, S)
        crossing(e) == shares({r \in routes : e \in r.edges})
        bc == Betweenness(g)
        eb == EdgeBetweenness(g)
        N == Len(g.order)
        tri(n) == {p \in Neighbors(g, n) \X Neighbors(g, n) :
                        p[1] # p[2] /\ {<<p[1], p[2]>>, <<p[2], p[1]>>} \cap A # {}}
    IN  /\ \A n \in Vertices :
              /\ bc[n] = shares({r \in routes : \E i \in 2..(Len(r.path) - 1) : r.path[i] = n})
              /\ \A dir \in Directions :
                    /\ ClosenessDist(g, n, dir, FALSE) = HopDist(Arcs(E, dir), n)
                    /\ LET d == ClosenessDist(z, n, dir, TRUE)
                       IN  /\ DOMAIN d = Reached(Arcs(E, dir), n)
                           /\ \A m \in DOMAIN d : \A q \in PathsIn(Arcs(E, dir), n, m) : d[m] <= PathWeight(z, q, dir)
                    /\ Closeness(g, n, dir, FALSE)[1] <= Closeness(g, n, dir, FALSE)[2]
              /\ LET c == Clustering(g, n)
                 IN  /\ 0 <= c[1] /\ c[1] <= c[2]
                     /\ (\A e \in E : e[2] = "-") /\ Cardinality(Neighbors(g, n)) > 1 => c[1] = Cardinality(tri(n))
        /\ DOMAIN eb \subseteq E
        /\ \A e \in E : e[2] = ">" => e \in DOMAIN eb /\ eb[e] = crossing(e)
        /\ (\A e \in E : e[2] = "-") => \A e \in E : e \in DOMAIN eb /\ 2 * eb[e] = crossing(e)
        /\ \A e \in DOMAIN eb : EdgeFactor(g) * eb[e] <= Scale * N * (N - 1)
        /\ LET t == Transitivity(g)
           IN  t[1] <= t[2] /\ (t # <<0, 1>> => t[1] = MapThenSumSet(LAMBDA n : Cardinality(tri(n)), Vertices))
=============================================================================
