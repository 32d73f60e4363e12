----------------------------- MODULE GraphAlgo -----------------------------
(***************************************************************************)
(* The reads and the algorithms of GraphDb (jdb_graph.py), as functions of *)
(* a graph whose derived records are in step: what GraphDb.tla shows.  A   *)
(* graph is [order, adj, wt]: the nodes in the order of the key table, the *)
(* adjacency list of each node, and the weight of each edge.  Reference    *)
(* definitions work on the set of edges, DOMAIN wt, and never on adj.      *)
(* For TLC only: the algorithms are recursive.                             *)
(***************************************************************************)
EXTENDS Integers, Sequences, FiniteSets, FiniteSetsExt, SequencesExt

CONSTANT Vertices \* the node identifiers graphs are built from

\* _generate_edge_key.
EdgeKey(u, v, directed) ==
    IF directed THEN <<u, ">", v>> ELSE IF u > v THEN <<v, "-", u>> ELSE <<u, "-", v>>

\* The edge behind entry x in the adjacency of n.
EdgeOf(n, x) == IF x[1] = "<" THEN EdgeKey(x[2], n, TRUE) ELSE EdgeKey(n, x[2], x[1] = ">")

\* direction='out', 'in' or 'both': whether a traversal takes entry x.
Follows(dir, x) == ~(dir = "out" /\ x[1] = "<") /\ ~(dir = "in" /\ x[1] = ">")

\* ... and its edge_filter lets the edge through; F is the set of edges that pass.
Crosses(g, n, x, dir, F) == Follows(dir, x) /\ EdgeOf(n, x) \in F

AllEdges(g) == DOMAIN g.wt
NodeSet(g) == Range(g.order)

\* The entries of n a traversal takes, in list order.
Taken(g, n, dir, F) == SelectSeq(g.adj[n], LAMBDA x : Crosses(g, n, x, dir, F))

\* A partial function with one more pair.
Put(f, k, v) == (k :> v) @@ f

RECURSIVE PathTo(_, _)
\* The path that previous_nodes gives; the source has 0 as its previous node.
PathTo(prev, n) == IF prev[n] = 0 THEN <<n>> ELSE Append(PathTo(prev, prev[n]), n)

----------------------------------------------------------------------------
\* Reads.

Neighbors(g, n) == {x[2] : x \in Range(g.adj[n])}
CommonNeighbors(g, u, v) == Neighbors(g, u) \cap Neighbors(g, v)
\* jaccard_coefficient as <<numerator, denominator>>.
Jaccard(g, u, v) ==
    LET union == Neighbors(g, u) \cup Neighbors(g, v)
    IN  IF union = {} THEN <<0, 1>> ELSE <<Cardinality(CommonNeighbors(g, u, v)), Cardinality(union)>>
Successors(g, n) == {<<x[2], EdgeOf(n, x)>> : x \in {y \in Range(g.adj[n]) : y[1] # "<"}}
Predecessors(g, n) == {<<x[2], EdgeOf(n, x)>> : x \in {y \in Range(g.adj[n]) : y[1] # ">"}}
Degree(g, n, d) == Len(SelectSeq(g.adj[n], LAMBDA x : x[1] = d))
WeightedDegree(g, n, d) ==
    FoldLeft(LAMBDA w, x : w + g.wt[EdgeOf(n, x)], 0, SelectSeq(g.adj[n], LAMBDA x : x[1] = d))

\* subgraph and the second half of ego_graph: the edges found in the
\* adjacencies of the nodes S; entries for incoming edges are skipped.
SubgraphEdges(g, S) ==
    {EdgeOf(n, x) : <<n, x>> \in {p \in S \X (UNION {Range(g.adj[n]) : n \in S}) :
        p[2] \in Range(g.adj[p[1]]) /\ p[2][1] # "<" /\ p[2][2] \in S}}

----------------------------------------------------------------------------
\* Traversals.

RECURSIVE BfsLoop(_, _, _, _, _, _)
\* bfs_shortest_path.
BfsLoop(g, dir, F, target, queue, prev) ==
    IF queue = << >> THEN << >>
    ELSE LET cur == Head(queue)
             visit(s, x) == IF x[2] \in DOMAIN s.prev THEN s
                            ELSE [queue |-> Append(s.queue, x[2]), prev |-> Put(s.prev, x[2], cur)]
             next == FoldLeft(visit, [queue |-> Tail(queue), prev |-> prev], Taken(g, cur, dir, F))
         IN  IF cur = target THEN PathTo(prev, cur)
             ELSE BfsLoop(g, dir, F, target, next.queue, next.prev)
BfsShortestPath(g, source, target, dir, F) ==
    BfsLoop(g, dir, F, target, <<source>>, [n \in {source} |-> 0])

\* heapq on (distance, node) pairs.
HeapMin(heap) == CHOOSE p \in heap : \A q \in heap : p[1] < q[1] \/ (p[1] = q[1] /\ p[2] <= q[2])

\* Faulty variant of Relax: a node keeps the first distance it was given.
RelaxOnce(g, cur, d0, dir, s) ==
    LET step(t, x) ==
            LET d == d0 + g.wt[EdgeOf(cur, x)]
            IN  IF x[2] \in DOMAIN t.dist THEN t
                ELSE [heap |-> t.heap \cup {<<d, x[2]>>}, dist |-> Put(t.dist, x[2], d),
                      prev |-> Put(t.prev, x[2], cur)]
    IN  FoldLeft(step, s, Taken(g, cur, dir, AllEdges(g)))

\* One relaxation of the neighbours of cur, at distance d0.
Relax(g, cur, d0, dir, s) ==
    LET step(t, x) ==
            LET d == d0 + g.wt[EdgeOf(cur, x)]
            IN  IF x[2] \in DOMAIN t.dist /\ d >= t.dist[x[2]] THEN t
                ELSE [heap |-> t.heap \cup {<<d, x[2]>>}, dist |-> Put(t.dist, x[2], d),
                      prev |-> Put(t.prev, x[2], cur)]
    IN  FoldLeft(step, s, Taken(g, cur, dir, AllEdges(g)))

RECURSIVE DijkstraLoop(_, _, _)
\* dijkstra_shortest_path; <<-1, << >>>> stands for (inf, []).
DijkstraLoop(g, target, s) ==
    IF s.heap = {} THEN <<-1, << >>>>
    ELSE LET top == HeapMin(s.heap)
             rest == [s EXCEPT !.heap = @ \ {top}]
         IN  IF top[2] = target THEN <<top[1], PathTo(s.prev, target)>>
             ELSE IF top[1] > s.dist[top[2]] THEN DijkstraLoop(g, target, rest)
             ELSE DijkstraLoop(g, target, Relax(g, top[2], top[1], "out", rest))
FromSource(source) ==
    [heap |-> {<<0, source>>}, dist |-> [n \in {source} |-> 0], prev |-> [n \in {source} |-> 0]]
DijkstraShortestPath(g, source, target) == DijkstraLoop(g, target, FromSource(source))

RECURSIVE Settle(_, _, _, _)
\* The Dijkstra of closeness_centrality and all_shortest_paths, which settles
\* each node once: the distances of all nodes reached.
Settle(g, dir, s, visited) ==
    IF s.heap = {} THEN s.dist
    ELSE LET top == HeapMin(s.heap)
             rest == [s EXCEPT !.heap = @ \ {top}]
         IN  IF top[2] \in visited THEN Settle(g, dir, rest, visited)
             ELSE Settle(g, dir, Relax(g, top[2], top[1], dir, rest), visited \cup {top[2]})

RECURSIVE Dfs(_, _, _, _, _)
\* dfs_traverse.
Dfs(g, dir, F, n, visited) ==
    IF n \in visited THEN [path |-> << >>, visited |-> visited]
    ELSE LET step(s, x) == LET r == Dfs(g, dir, F, x[2], s.visited)
                           IN  [path |-> s.path \o r.path, visited |-> r.visited]
         IN  FoldLeft(step, [path |-> <<n>>, visited |-> visited \cup {n}], Taken(g, n, dir, F))
DfsTraverse(g, source, dir, F) == Dfs(g, dir, F, source, {}).path

RECURSIVE HopLoop(_, _, _, _, _, _)
\* k_hop_neighbors: found maps each node met so far to its depth.
HopLoop(g, dir, k, depth, frontier, found) ==
    LET entries == FlattenSeq([i \in DOMAIN frontier |-> Taken(g, frontier[i], dir, AllEdges(g))])
        visit(s, x) == IF x[2] \in DOMAIN s.found THEN s
                       ELSE [found |-> Put(s.found, x[2], depth), nxt |-> Append(s.nxt, x[2])]
        r == FoldLeft(visit, [found |-> found, nxt |-> << >>], entries)
    IN  IF depth > k THEN found
        ELSE IF r.nxt = << >> THEN r.found
        ELSE HopLoop(g, dir, k, depth + 1, r.nxt, r.found)
KHopNeighbors(g, n, k, dir) ==
    LET found == HopLoop(g, dir, k, 1, <<n>>, [m \in {n} |-> 0])
    IN  [m \in DOMAIN found \ {n} |-> found[m]]

\* descendants and ancestors run the same loop until nothing new is found.
Descendants(g, n) == DOMAIN KHopNeighbors(g, n, Cardinality(NodeSet(g)), "out")
Ancestors(g, n) == DOMAIN KHopNeighbors(g, n, Cardinality(NodeSet(g)), "in")

\* ego_graph: the nodes within k hops and the edges between them.
EgoGraph(g, n, k, dir) ==
    LET S == {n} \cup DOMAIN KHopNeighbors(g, n, k, dir)
    IN  [nodes |-> S, edges |-> SubgraphEdges(g, S)]

----------------------------------------------------------------------------
\* Cycles and orders.

RECURSIVE CycleDfs(_, _, _, _, _)
\* The search of find_cycle: path holds the edges walked from the root to n,
\* parent the key of the last one.  A node is marked visited only if its
\* parent edge was not among the edges it left out.
CycleDfs(g, n, visited, path, parent) ==
    LET stack == {n} \cup {path[i][1] : i \in DOMAIN path}
        step(s, x) ==
            LET e == EdgeOf(n, x)
                walked == <<n, x[1], x[2]>>
                first == CHOOSE i \in 1..(Len(path) + 1) :
                            /\ i <= Len(path) => path[i][1] = x[2]
                            /\ \A j \in 1..(i - 1) : path[j][1] # x[2]
            IN  IF s.cycle # << >> THEN s
                ELSE IF e = parent THEN [s EXCEPT !.full = FALSE]
                ELSE IF x[2] \in stack
                     THEN [s EXCEPT !.cycle = Append(SubSeq(path, first, Len(path)), walked)]
                ELSE IF x[2] \in s.visited THEN s
                ELSE LET r == CycleDfs(g, x[2], s.visited, Append(path, walked), e)
                     IN  [s EXCEPT !.cycle = r.cycle, !.visited = r.visited]
        all == FoldLeft(step, [cycle |-> << >>, visited |-> visited, full |-> TRUE],
                        Taken(g, n, "out", AllEdges(g)))
    IN  [cycle |-> all.cycle, visited |-> IF all.full THEN all.visited \cup {n} ELSE all.visited]

\* find_cycle from each of the given roots; << >> stands for the exception.
FindCycle(g, roots) ==
    LET step(s, n) == IF s.cycle # << >> \/ n \in s.visited THEN s
                      ELSE CycleDfs(g, n, s.visited, << >>, << >>)
    IN  FoldLeft(step, [cycle |-> << >>, visited |-> {}], roots).cycle

\* is_cyclic runs the same search and keeps no path.
IsCyclic(g) == FindCycle(g, g.order) # << >>

RECURSIVE TopoDfs(_, _, _, _)
\* The search of topological_sort; rec is its recursion stack, and cyc says
\* that a cycle was met.
TopoDfs(g, n, s0, parent) ==
    LET step(s, x) ==
            LET e == EdgeOf(n, x)
            IN  IF s.cyc \/ (x[1] = "-" /\ e = parent) THEN s
                ELSE IF x[2] \notin s.visited THEN TopoDfs(g, x[2], s, e)
                ELSE [s EXCEPT !.cyc = x[2] \in s.rec]
        all == FoldLeft(step, [s0 EXCEPT !.visited = @ \cup {n}, !.rec = @ \cup {n}],
                        Taken(g, n, "out", AllEdges(g)))
    IN  IF all.cyc THEN all ELSE [all EXCEPT !.rec = @ \ {n}, !.stack = Append(@, n)]

\* topological_sort: the order, or raised.
TopologicalSort(g) ==
    LET step(s, n) == IF s.cyc \/ n \in s.visited THEN s ELSE TopoDfs(g, n, s, << >>)
        all == FoldLeft(step, [visited |-> {}, rec |-> {}, stack |-> << >>, cyc |-> FALSE], g.order)
    IN  [raised |-> all.cyc, order |-> Reverse(all.stack)]

----------------------------------------------------------------------------
\* Components.

\* Faulty variant of ConnectedComponents: edges are followed forward only.
ConnectedForward(g) ==
    LET step(cs, n) == IF n \in UNION Range(cs) THEN cs
                       ELSE Append(cs, {n} \cup DOMAIN KHopNeighbors(g, n, Len(g.order), "out"))
    IN  FoldLeft(step, << >>, g.order)

\* connected_components: the traversal of one root, over entries of any
\* direction, and the roots in turn.
ConnectedComponents(g) ==
    LET step(cs, n) == IF n \in UNION Range(cs) THEN cs
                       ELSE Append(cs, {n} \cup DOMAIN KHopNeighbors(g, n, Len(g.order), "both"))
    IN  FoldLeft(step, << >>, g.order)

\* The neighbours along outgoing and undirected edges, each of them once.
OutList(g, n) ==
    FoldLeft(LAMBDA s, x : IF x[2] \in Range(s) THEN s ELSE Append(s, x[2]), << >>,
             Taken(g, n, "out", AllEdges(g)))

RECURSIVE SccLoop(_, _)
\* One turn of the loop over the work list of strongly_connected_components.
\* idx and low are defined on the nodes met; pi counts from 0.
SccLoop(g, s0) ==
    IF s0.work = << >> THEN s0
    ELSE
    LET n == Last(s0.work)[1]
        pi == Last(s0.work)[2]
        i == Cardinality(DOMAIN s0.idx)
        s == IF pi > 0 THEN s0
             ELSE [s0 EXCEPT !.idx = Put(@, n, i), !.low = Put(@, n, i), !.stack = Append(@, n)]
        out == OutList(g, n)
        fresh == {j \in (pi + 1)..Len(out) : out[j] \notin DOMAIN s.idx}
        stop == IF fresh = {} THEN Len(out) + 1 ELSE Min(fresh)
        back == {s.idx[out[j]] : j \in {k \in (pi + 1)..(stop - 1) : out[k] \in Range(s.stack)}}
        seen == [s EXCEPT !.low[n] = Min({@} \cup back)]
        pos == CHOOSE j \in DOMAIN s.stack : s.stack[j] = n
        done == IF seen.low[n] # s.idx[n] THEN seen
                ELSE [seen EXCEPT !.comps = Append(@, Range(SubSeq(s.stack, pos, Len(s.stack)))),
                                  !.stack = SubSeq(@, 1, pos - 1)]
        rest == Front(s0.work)
    IN  IF fresh # {} THEN SccLoop(g, [seen EXCEPT !.work = Append(Append(rest, <<n, stop>>), <<out[stop], 0>>)])
        ELSE IF rest = << >> THEN SccLoop(g, [done EXCEPT !.work = rest])
        ELSE SccLoop(g, [done EXCEPT !.work = rest, !.low[Last(rest)[1]] = Min({@, seen.low[n]})])

StronglyConnectedComponents(g) ==
    LET step(s, n) == IF n \in DOMAIN s.idx THEN s ELSE SccLoop(g, [s EXCEPT !.work = <<<<n, 0>>>>])
    IN  FoldLeft(step, [idx |-> << >>, low |-> << >>, stack |-> << >>, comps |-> << >>, work |-> << >>],
                 g.order).comps

----------------------------------------------------------------------------
\* All shortest paths.

RECURSIVE AspLoop(_, _, _, _, _)
\* The unweighted search of all_shortest_paths: distances and predecessors.
AspLoop(g, dir, F, target, s) ==
    IF s.queue = << >> THEN s
    ELSE LET cur == Head(s.queue)
             visit(t, x) ==
                 LET m == x[2] IN
                 IF m \notin DOMAIN t.dist
                 THEN [dist |-> Put(t.dist, m, t.dist[cur] + 1), preds |-> Put(t.preds, m, <<cur>>),
                       found |-> IF m = target THEN t.dist[cur] + 1 ELSE t.found,
                       queue |-> IF m = target THEN t.queue ELSE Append(t.queue, m)]
                 ELSE IF t.dist[m] = t.dist[cur] + 1 THEN [t EXCEPT !.preds[m] = Append(@, cur)]
                 ELSE t
             rest == [s EXCEPT !.queue = Tail(@)]
         IN  IF s.found # -1 /\ s.dist[cur] >= s.found THEN AspLoop(g, dir, F, target, rest)
             ELSE AspLoop(g, dir, F, target, FoldLeft(visit, rest, Taken(g, cur, dir, F)))

RECURSIVE BuildPaths(_, _, _)
BuildPaths(preds, source, n) ==
    IF n = source THEN <<<<source>>>>
    ELSE FlattenSeq([i \in DOMAIN preds[n] |->
            LET ps == BuildPaths(preds, source, preds[n][i])
            IN  [j \in DOMAIN ps |-> Append(ps[j], n)]])

\* all_shortest_paths without weight.
AllShortestPaths(g, source, target, dir, F) ==
    LET s == AspLoop(g, dir, F, target,
                     [dist |-> [n \in {source} |-> 0], preds |-> [n \in {source} |-> << >>],
                      found |-> -1, queue |-> <<source>>])
    IN  IF source = target THEN <<<<source>>>>
        ELSE IF target \notin DOMAIN s.dist THEN << >>
        ELSE BuildPaths(s.preds, source, target)

\* all_shortest_paths with weight: the predecessors are the nodes whose
\* distance and edge add up.
AllLightestPaths(g, source, target, dir) ==
    LET dist == Settle(g, dir, FromSource(source), {})
        tight(u, n) == SelectSeq(Taken(g, u, dir, AllEdges(g)),
                                 LAMBDA x : x[2] = n /\ dist[u] + g.wt[EdgeOf(u, x)] = dist[n])
        from == SelectSeq(g.order, LAMBDA u : u \in DOMAIN dist)
        preds == [n \in DOMAIN dist |->
                    FlattenSeq([i \in DOMAIN from |-> [j \in DOMAIN tight(from[i], n) |-> from[i]]])]
    IN  IF source = target THEN <<<<source>>>>
        ELSE IF target \notin DOMAIN dist THEN << >>
        ELSE BuildPaths(preds, source, target)

----------------------------------------------------------------------------
\* Centrality.  Scores are integers, scaled by Scale, or <<numerator,
\* denominator>>; Scale divides out every fraction on up to four nodes.
Scale == 12

RECURSIVE BrandesLoop(_, _)
\* The search of betweenness_centrality from one source.
BrandesLoop(g, s) ==
    IF s.queue = << >> THEN s
    ELSE LET v == Head(s.queue)
             visit(t, w) ==
                 LET met == IF w \in DOMAIN t.dist THEN t
                            ELSE [t EXCEPT !.dist = Put(@, w, t.dist[v] + 1), !.queue = Append(@, w)]
                 IN  IF met.dist[w] # met.dist[v] + 1 THEN met
                     ELSE [met EXCEPT !.sigma[w] = @ + met.sigma[v], !.preds[w] = Append(@, v)]
         IN  BrandesLoop(g, FoldLeft(visit, [s EXCEPT !.queue = Tail(@), !.stack = Append(@, v)],
                                     OutList(g, v)))

\* The accumulation of one source: delta for each node, and what it adds to
\* cb_pair (of edge_betweenness_centrality), the score of each pair that a
\* shortest path crosses, and to the pairs in the order of that dict.
Brandes(g, source, cb) ==
    LET zero == [n \in NodeSet(g) |-> 0]
        b == BrandesLoop(g, [queue |-> <<source>>, stack |-> << >>, dist |-> [n \in {source} |-> 0],
                             sigma |-> [zero EXCEPT ![source] = 1],
                             preds |-> [n \in NodeSet(g) |-> << >>]])
        give(acc, w) ==
            FoldLeft(LAMBDA t, v :
                        LET c == (b.sigma[v] * (Scale + t.delta[w])) \div b.sigma[w]
                            p == <<v, w>>
                        IN  [delta |-> [t.delta EXCEPT ![v] = @ + c],
                             score |-> [t.score EXCEPT ![p] = @ + c],
                             order |-> IF p \in Range(t.order) THEN t.order ELSE Append(t.order, p)],
                     acc, b.preds[w])
    IN  FoldLeft(give, [delta |-> zero, score |-> cb.score, order |-> cb.order], Reverse(b.stack))

NoPairs(g) == [score |-> [p \in NodeSet(g) \X NodeSet(g) |-> 0], order |-> << >>]

\* betweenness_centrality before it is normalised.
Betweenness(g) ==
    FoldLeft(LAMBDA cb, s : LET d == Brandes(g, s, NoPairs(g)).delta
                            IN  [n \in NodeSet(g) |-> IF n = s THEN cb[n] ELSE cb[n] + d[n]],
             [n \in NodeSet(g) |-> 0], g.order)

\* cb_pair: the scores of the pairs, and the pairs in the order of the dict.
PairBetweenness(g) == FoldLeft(LAMBDA cb, s : Brandes(g, s, cb), NoPairs(g), g.order)

\* pair_to_edge: the directed edge from v to w, or else the undirected one.
PairEdge(g, v, w) ==
    LET e == EdgeKey(v, w, TRUE) IN IF e \in AllEdges(g) THEN e ELSE EdgeKey(v, w, FALSE)

\* edge_betweenness_centrality: of two pairs that stand for the same edge the
\* later one gives the edge its score.
EdgeBetweenness(g) ==
    LET pb == PairBetweenness(g)
    IN  FoldLeft(LAMBDA eb, p : Put(eb, PairEdge(g, p[1], p[2]), pb.score[p]), << >>, pb.order)

\* What normalized multiplies a score by, over the number of ordered pairs of
\* nodes: all_directed is false once some pair stands for an undirected edge.
EdgeFactor(g) ==
    IF \A n \in NodeSet(g) : \A m \in Range(OutList(g, n)) : PairEdge(g, n, m)[2] = ">" THEN 1 ELSE 2

\* The distances behind closeness_centrality, with and without weights.
ClosenessDist(g, n, dir, weighted) ==
    IF weighted THEN Settle(g, dir, FromSource(n), {})
    ELSE Put(KHopNeighbors(g, n, Len(g.order), dir), n, 0)

\* closeness_centrality, with wf_improved.
Closeness(g, n, dir, weighted) ==
    LET dist == ClosenessDist(g, n, dir, weighted)
        total == MapThenSumSet(LAMBDA m : dist[m], DOMAIN dist)
        reached == Cardinality(DOMAIN dist) - 1
        N == Len(g.order)
    IN  IF total <= 0 \/ N <= 1 THEN <<0, 1>> ELSE <<reached * reached, total * (N - 1)>>

\* _compute_clustering without weights.
OutSet(g, n) == {x[2] : x \in {y \in Range(g.adj[n]) : y[1] # "<"}}
InSet(g, n) == {x[2] : x \in {y \in Range(g.adj[n]) : y[1] # ">"}}
Bit(b) == IF b THEN 1 ELSE 0

Clustering(g, n) ==
    LET directed == \E m \in NodeSet(g) : \E x \in Range(g.adj[m]) : x[1] # "-"
        o == OutSet(g, n)
        i == InSet(g, n)
        k == Cardinality(o)
        links == MapThenSumSet(LAMBDA m : Cardinality(OutSet(g, m) \cap o), o)
        deg == Cardinality(o) + Cardinality(i)
        denom == 2 * (deg * (deg - 1) - 2 * Cardinality(o \cap i))
        w(m) == Bit(m \in o) + Bit(m \in i)
        between(j, m) == Bit(m \in OutSet(g, j)) + Bit(m \in InSet(g, j))
        pairs == {p \in (o \cup i) \X (o \cup i) : p[1] # p[2]}
    IN  IF ~directed
        THEN IF k < 2 THEN <<0, 1>> ELSE <<links, k * (k - 1)>>
        ELSE IF denom <= 0 THEN <<0, 1>>
        ELSE <<MapThenSumSet(LAMBDA p : w(p[1]) * w(p[2]) * between(p[1], p[2]), pairs), denom>>

\* transitivity.
Transitivity(g) ==
    LET big == {n \in NodeSet(g) : Cardinality(Neighbors(g, n)) >= 2}
        links(n) == MapThenSumSet(LAMBDA m : Cardinality(Neighbors(g, m) \cap Neighbors(g, n)), Neighbors(g, n))
        pairs(n) == Cardinality(Neighbors(g, n)) * (Cardinality(Neighbors(g, n)) - 1)
    IN  IF big = {} THEN <<0, 1>> ELSE <<MapThenSumSet(links, big), MapThenSumSet(pairs, big)>>
=============================================================================
