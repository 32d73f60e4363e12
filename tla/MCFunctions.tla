---------------------------- MODULE MCFunctions ----------------------------
(***************************************************************************)
(* The pure functions, each tried on inputs that grow step by step: graphs *)
(* edge by edge, conditions command by command, lists of rows and          *)
(* databases entry by entry, and key rows through one version after        *)
(* another.                                                                *)
(***************************************************************************)
EXTENDS QueryRef, GraphAlgoRef

CONSTANTS Edges,      \* the edges a graph may have
          MaxDepth,   \* commands around the atom of a condition
          MaxRows,    \* rows to sort and to group
          MaxEntries  \* entries of a database to page through

K == INSTANCE Codec WITH MIN_SEC <- 2, MIN_OF_DAY <- 2, SubDayBits <- 2, SubDeltaBits <- 1, ExpDeltaBits <- 1,
                         TtlBits <- 2, MinBits <- 1, TtlMinBits <- 2, SizeBits <- 2

VARIABLE input

-----------------------------------------------------------------------------
(* Inputs *)

MCVertices == 1..4
MCEdges == {<<1, ">", 2>>, <<1, "-", 2>>, <<1, "-", 3>>, <<2, "-", 3>>,
            <<2, ">", 4>>, <<3, ">", 4>>, <<4, ">", 1>>}

MCRank == [c \in {"0", "1", "2", "False", "True", "a", "b"} |->
             CASE c = "0" -> 0 [] c = "1" -> 1 [] c = "2" -> 2 [] c = "False" -> 3 [] c = "True" -> 4
               [] c = "a" -> 5 [] c = "b" -> 6]
MCDigits == [c \in {"0", "1", "2"} |-> MCRank[c]]

One1 == Number(1)
Two == Number(2)
True == <<"bool", 1>>
MCVals == {None, One1, Two, True, Str("a"), Str("1"), List(<<>>), List(<<One1, Two>>), List(<<Two, Str("a")>>),
           List(<<List(<<One1>>), Two>>), Dict(<<>>), Dict([f \in {"a"} |-> One1]),
           Dict([f \in {"a", "b"} |-> IF f = "a" THEN Two ELSE List(<<One1, Two>>)]),
           Dict([f \in {"a"} |-> Dict([g \in {"a", "b"} |-> IF g = "a" THEN One1 ELSE Str("a")])]),
           Dict([f \in {"b"} |-> List(<<Dict([g \in {"a"} |-> Two]), None>>)])}
MCRecs == {[key |-> Str("a"), cdate |-> 1, mdate |-> 2], [key |-> Str("1"), cdate |-> 2, mdate |-> 2]}

Pair(x, y) == List(<<x, y>>)
Atoms == {One(cmd, v) : cmd \in {"$le", "$eq", "$ne"}, v \in {One1, Str("a")}}
  \cup {One("$ge", Pair(One1, Two)), One("$lt", Two), One("$between", Pair(Str("1"), Str("a"))),
        One("$near", Pair(One1, One1)), One("$mod", Pair(Two, Number(0))),
        One("$in", Pair(One1, Str("a"))), One("$nin", Pair(Two, Str("b"))), One("$anyin", Pair(Two, Str("a"))),
        One("$has", One1), One("$nhas", Str("a")), One("$size", Two), One("$type", Str("int")), One("$exists", List(<<Str("a")>>)),
        One("$sort", Pair(One1, Two)), One("_id", Str("a")), One("_date", <<"date", 2>>), One("_date", Number(1)),
        One("index", <<"path", <<<<"index", 0>>>>, One1>>),
        One("ops", <<"path", <<Op("$len"), <<"op", TRUE, "$gt">>>>, One1>>),
        One("ops", <<"path", <<Op("$sum"), <<"op", TRUE, "$abs">>>>, Number(3)>>)}

MCPartners == {One("$gt", One1), OnPath(<<Field("a")>>, One1)}

\* What is put around a condition; Further around one that has something.
Further(c) == {CondNot(c), Negated(c), One("$any", Rule(c)), One("$all", Rule(c)), OnPath(<<Field("a")>>, Rule(c))}
Around(c) == {One("$none", Rule(c)), One("$nand", <<"rules", <<Rule(c)>>>>), One("$nor", <<"rules", <<Rule(c), Rule(One("$eq", Two))>>>>),
              CondAnd(c, One("$ge", One1)), CondOr(c, One("$size", Two)), CondAnd(OnPath(<<Field("b")>>, Two), c),
              c \o OnPath(<<Field("b"), <<"index", 0>>>>, One1),
              OnPath(<<Field("b"), <<"index", 0>>>>, Rule(c)),
              OnPath(<<<<"any">>>>, Rule(c)), One("$unique", Rule(c)), One("$first", Rule(c)), One("$max", Rule(c))}

RowVals == {Dict([f \in {"a", "b", "c"} |-> CASE f = "a" -> One1 [] f = "b" -> Str("b") [] f = "c" -> Two]),
            Dict([f \in {"a", "b"} |-> IF f = "a" THEN True ELSE List(<<One1, Two>>)]),
            Dict([f \in {"a", "c"} |-> IF f = "a" THEN Str("a") ELSE True]),
            Dict([f \in {"a", "b"} |-> IF f = "a" THEN Two ELSE Str("a")]),
            Dict([f \in {"c"} |-> None]),
            Two}
RowKeys == <<"b", "1", "a", "2">>
NewRow(n, v, d) == [key |-> Str(RowKeys[n]), val |-> v, cdate |-> d, mdate |-> d + (n % 2), mod |-> n]

Hit(k) == [key |-> k, hit |-> TRUE, group |-> FALSE, db |-> <<>>]
Miss(k) == [Hit(k) EXCEPT !.hit = FALSE]
Group(k, db) == [Hit(k) EXCEPT !.group = TRUE, !.db = db]
Inner == <<Hit(1), Miss(2), Hit(3)>>
Entries(n) == {Hit(n), Miss(n), Group(n, Inner), Group(n, <<Hit(1), Group(2, Inner)>>)}

KeyRows == {K!WriteKey(key, file, rsize, 1, cday, stamp, K!ConvTtl(secs), flags, 7) :
              key \in {<<"a">>, <<"a", "b">>}, file \in {0, K!GroupFile}, rsize \in {0, 3}, cday \in {-1, 0, 1},
              stamp \in {-1, 3, 6}, secs \in {0, 1, 3, 4, 40}, flags \in {0, K!KF_HIDDEN}}
Formats == {"J", "M", "S", "L", "U"}

-----------------------------------------------------------------------------
Init ==
  \/ \E desc \in BOOLEAN : input = [kind |-> "graph", g |-> GraphOf({}, desc), desc |-> desc]
  \/ input = [kind |-> "rule", cond |-> <<>>, depth |-> 0]
  \/ input = [kind |-> "rows", rows |-> <<>>]
  \/ input = [kind |-> "db", db |-> <<>>]
  \/ \E row \in KeyRows : input = [kind |-> "key", row |-> row]

AddEdge ==
  /\ input.kind = "graph"
  /\ \E e \in Edges \ AllEdges(input.g) :
        input' = [input EXCEPT !.g = GraphOf(AllEdges(@) \cup {e}, input.desc)]
ChooseAtom ==
  /\ input.kind = "rule" /\ input.cond = <<>>
  /\ \E c \in Atoms : input' = [input EXCEPT !.cond = c]
AddCommand ==
  /\ input.kind = "rule" /\ input.cond # <<>> /\ input.depth < MaxDepth
  /\ \E c \in Further(input.cond) \cup (IF input.depth = 0 THEN Around(input.cond) ELSE {}) : input' = [input EXCEPT !.cond = c, !.depth = @ + 1]
AddRow ==
  /\ input.kind = "rows" /\ Len(input.rows) < MaxRows
  /\ \E v \in RowVals, d \in 1..2 : input' = [input EXCEPT !.rows = Append(@, NewRow(Len(@) + 1, v, d))]
AddEntry ==
  /\ input.kind = "db" /\ Len(input.db) < MaxEntries
  /\ \E e \in Entries(Len(input.db) + 1) : input' = [input EXCEPT !.db = Append(@, e)]
\* A row is written in one format and version and read back.
Reread ==
  /\ input.kind = "key"
  /\ \E f \in Formats, v \in 0..2 : input' = [input EXCEPT !.row = K!LoadsRow(f, v, K!Dumps(f, v, @))]

Next == AddEdge \/ ChooseAtom \/ AddCommand \/ AddRow \/ AddEntry \/ Reread
Spec == Init /\ [][Next]_input

-----------------------------------------------------------------------------
(* What each of these means is said in GraphAlgoRef and QueryRef. *)

\* Neighbours, degrees, subgraphs and ego graphs, traversals breadth first and
\* depth first, k hops, and shortest paths with and without weights agree with
\* the walks along the edges.
GraphPaths ==
  input.kind = "graph" =>
    ReadsAgree(input.g) /\ TraversalsAgree(input.g) /\ WeightedPathsAgree(input.g)

\* is_cyclic, find_cycle, topological_sort, the two kinds of components, and
\* betweenness of nodes and of edges, closeness, clustering and transitivity agree
\* with the relation that the edges are.
GraphStructure ==
  input.kind = "graph" =>
    /\ CyclesAgree(input.g) /\ TopologicalAgrees(input.g)
    /\ ComponentsAgree(input.g) /\ CentralityAgrees(input.g)

\* topological_sort raises JValueError if the graph contains a cycle: when the
\* cycle mixes directed and undirected edges the code may return an order.
OrderRaises ==
  input.kind = "graph" => CyclesRaise(input.g)

\* Betweenness of an edge is the sum over all node pairs of the fraction of
\* shortest paths that cross it: beside directed edges the code forgets one of
\* the two ways an undirected edge is crossed.
EdgeScores ==
  input.kind = "graph" => EdgesScored(input.g)

\* Conditions built with &, | and ~, negated commands, $any and $all, dotted paths
\* and wildcards, and the rules of keys and dates mean what logic says.
\* (Stated of the input each step makes, like QueryResults.)
QueryMatching ==
  [][input'.kind = "rule" =>
       LET c == input'.cond
       IN  BuilderAgrees(c) /\ NegationAgrees(c) /\ QuantifiersAgree(c) /\ PathsAgree(c) /\ SubjectsAgree(c)]_input

\* sorted_by_rules, grouped_by_rules, and limit and skip of find_iter neither lose
\* nor repeat a record and keep the order they promise.
QueryResults ==
  [][/\ input'.kind = "rows" => SortAgrees(input'.rows) /\ GroupAgrees(input'.rows)
     /\ input'.kind = "db" => PageAgrees(input'.db)]_input

\* Every row format reads the row the other formats read, in every version,
\* and a row that was written and read once, whatever the format and version,
\* stays as it is when it is written again.
RowFormats ==
  input.kind = "key" =>
    \A v \in 0..2 :
      LET read(f, row) == K!LoadsRow(f, v, K!Dumps(f, v, row))
          once == read("J", input.row)
      IN \A f \in Formats : read(f, input.row) = once /\ \A w \in 0..2 : K!LoadsRow(f, w, K!Dumps(f, w, once)) = once
=============================================================================
