--------------------------- MODULE GraphDbProofs ---------------------------
(***************************************************************************)
(* Proofs about GraphDb, for any nodes, edges, properties and handles:     *)
(* the adjacency records and the counters stay in step with the edges.     *)
(***************************************************************************)
EXTENDS GraphDb, FiniteSetTheorems, TLAPS

-----------------------------------------------------------------------------
(* Edges and entries *)

LEMMA EdgeParts ==
  ASSUME NEW e \in EdgeKeys
  PROVE  /\ e[1] \in Nodes /\ e[2] \in {">", "-"} /\ e[3] \in Nodes
         /\ e = <<e[1], e[2], e[3]>> /\ e[1] # e[3]
         /\ e[2] = "-" => e[1] < e[3]
         /\ e[1] \in Nat /\ e[3] \in Nat
<1>1. Nodes \subseteq Nat
  BY GraphAssumption
<1>2. /\ e \in Nodes \X {">", "-"} \X Nodes
      /\ e[1] # e[3] /\ (e[2] = "-" => e[1] < e[3])
  BY DEF EdgeKeys
<1>3. PICK a \in Nodes, t \in {">", "-"}, b \in Nodes : e = <<a, t, b>>
  BY <1>2
<1>4. e[1] = a /\ e[2] = t /\ e[3] = b
  BY <1>3
<1> QED BY <1>1, <1>2, <1>3, <1>4

LEMMA EntryParts ==
  ASSUME NEW x \in Entries
  PROVE  /\ x[1] \in {">", "<", "-"} /\ x[2] \in Nodes /\ x = <<x[1], x[2]>>
         /\ x[2] \in Nat
<1>1. Nodes \subseteq Nat
  BY GraphAssumption
<1>2. PICK t \in {">", "<", "-"}, b \in Nodes : x = <<t, b>>
  BY DEF Entries
<1>3. x[1] = t /\ x[2] = b
  BY <1>2
<1> QED BY <1>1, <1>2, <1>3

\* The entries of an edge are the ones that stand for it.
LEMMA EdgeOfIs ==
  ASSUME NEW n \in Nodes, NEW x \in Entries, NEW e \in EdgeKeys
  PROVE  EdgeOf(n, x) = e <=> (n = e[1] /\ x = SourceEntry(e)) \/ (n = e[3] /\ x = TargetEntry(e))
<1>1. n \in Nat
  BY GraphAssumption
<1>2. CASE x[1] = ">"
  BY <1>1, <1>2, EdgeParts, EntryParts DEF EdgeOf, GenerateEdgeKey, SourceEntry, TargetEntry
<1>3. CASE x[1] = "<"
  BY <1>1, <1>3, EdgeParts, EntryParts DEF EdgeOf, GenerateEdgeKey, SourceEntry, TargetEntry
<1>4. CASE x[1] = "-"
  BY <1>1, <1>4, EdgeParts, EntryParts DEF EdgeOf, GenerateEdgeKey, SourceEntry, TargetEntry
<1> QED BY <1>2, <1>3, <1>4, EntryParts

\* Both entries of an edge are entries, and an entry names the other end.
LEMMA EntriesOf ==
  ASSUME NEW e \in EdgeKeys
  PROVE  /\ SourceEntry(e) \in Entries /\ TargetEntry(e) \in Entries
         /\ SourceEntry(e)[2] = e[3] /\ TargetEntry(e)[2] = e[1]
BY EdgeParts DEF Entries, SourceEntry, TargetEntry

-----------------------------------------------------------------------------
(* The records *)

IsFunc(f) == f = [x \in DOMAIN f |-> f[x]]

DbType(d) ==
  /\ d = [nodes |-> d.nodes, edges |-> d.edges, adj |-> d.adj, cnt |-> d.cnt]
  /\ DOMAIN d.nodes \subseteq Nodes /\ IsFiniteSet(DOMAIN d.nodes) /\ IsFunc(d.nodes)
  /\ DOMAIN d.edges \subseteq EdgeKeys /\ IsFiniteSet(DOMAIN d.edges) /\ IsFunc(d.edges)
  /\ DOMAIN d.adj \subseteq Nodes /\ \A n \in DOMAIN d.adj : d.adj[n] \subseteq Entries
  /\ d.cnt \in [N : Nat, E : Nat, D : Nat]

LEMMA SetParts ==
  ASSUME NEW d, DbType(d), NEW x
  PROVE  /\ [d EXCEPT !.nodes = x] = [nodes |-> x, edges |-> d.edges, adj |-> d.adj, cnt |-> d.cnt]
         /\ [d EXCEPT !.edges = x] = [nodes |-> d.nodes, edges |-> x, adj |-> d.adj, cnt |-> d.cnt]
         /\ [d EXCEPT !.adj = x] = [nodes |-> d.nodes, edges |-> d.edges, adj |-> x, cnt |-> d.cnt]
         /\ [d EXCEPT !.cnt = x] = [nodes |-> d.nodes, edges |-> d.edges, adj |-> d.adj, cnt |-> x]
<1>1. d = [nodes |-> d.nodes, edges |-> d.edges, adj |-> d.adj, cnt |-> d.cnt]
  BY DEF DbType
<1> QED BY <1>1

LEMMA SetCounts ==
  ASSUME NEW d, DbType(d), NEW i
  PROVE  /\ [d EXCEPT !.cnt.N = i] = [d EXCEPT !.cnt = [N |-> i, E |-> d.cnt.E, D |-> d.cnt.D]]
         /\ [d EXCEPT !.cnt.E = i] = [d EXCEPT !.cnt = [N |-> d.cnt.N, E |-> i, D |-> d.cnt.D]]
         /\ [d EXCEPT !.cnt.D = i] = [d EXCEPT !.cnt = [N |-> d.cnt.N, E |-> d.cnt.E, D |-> i]]
<1>1. d.cnt \in [N : Nat, E : Nat, D : Nat]
  BY DEF DbType
<1>2. /\ [d.cnt EXCEPT !.N = i] = [N |-> i, E |-> d.cnt.E, D |-> d.cnt.D]
      /\ [d.cnt EXCEPT !.E = i] = [N |-> d.cnt.N, E |-> i, D |-> d.cnt.D]
      /\ [d.cnt EXCEPT !.D = i] = [N |-> d.cnt.N, E |-> d.cnt.E, D |-> i]
  BY <1>1
<1> QED BY <1>2

LEMMA SetDomain ==
  ASSUME NEW f, NEW k, NEW v
  PROVE  /\ DOMAIN Set(f, k, v) = DOMAIN f \cup {k}
         /\ IsFunc(Set(f, k, v))
         /\ Set(f, k, v)[k] = v
         /\ \A x \in DOMAIN f : x # k => Set(f, k, v)[x] = f[x]
BY DEF Set, IsFunc

LEMMA WithoutDomain ==
  ASSUME NEW f, NEW S
  PROVE  /\ DOMAIN Without(f, S) = DOMAIN f \ S
         /\ IsFunc(Without(f, S))
         /\ \A x \in DOMAIN f \ S : Without(f, S)[x] = f[x]
BY DEF Without, Restrict, IsFunc

\* The single writes the calls are made of.
PutNode(d, n, v) == [d EXCEPT !.nodes = Set(@, n, v)]
PutEdge(d, e, v) == [d EXCEPT !.edges = Set(@, e, v)]
PutEntries(d, n, S) == [d EXCEPT !.adj = Set(@, n, S)]
CountN(d, i) == [d EXCEPT !.cnt.N = i]
CountE(d, i) == [d EXCEPT !.cnt.E = i]
CountD(d, i) == [d EXCEPT !.cnt.D = i]

\* What each write changes, and that it keeps the types.
LEMMA NodesWritten ==
  ASSUME NEW d, DbType(d), NEW n \in Nodes, NEW v
  PROVE  LET r == PutNode(d, n, v)
         IN  /\ DbType(r)
             /\ r.nodes = Set(d.nodes, n, v) /\ r.edges = d.edges /\ r.adj = d.adj /\ r.cnt = d.cnt
<1> DEFINE r == PutNode(d, n, v)
<1>1. r = [nodes |-> Set(d.nodes, n, v), edges |-> d.edges, adj |-> d.adj, cnt |-> d.cnt]
  BY SetParts DEF PutNode, PutEdge
<1> HIDE DEF r
<1>2. /\ r.nodes = Set(d.nodes, n, v) /\ r.edges = d.edges /\ r.adj = d.adj /\ r.cnt = d.cnt
      /\ r = [nodes |-> r.nodes, edges |-> r.edges, adj |-> r.adj, cnt |-> r.cnt]
  BY <1>1
<1>3. DOMAIN r.nodes = DOMAIN d.nodes \cup {n} /\ IsFunc(r.nodes)
  BY <1>2 DEF Set, IsFunc
<1>4. IsFiniteSet(DOMAIN r.nodes) /\ DOMAIN r.nodes \subseteq Nodes
  BY <1>3, FS_AddElement DEF DbType
<1>5. DbType(r)
  BY <1>2, <1>3, <1>4 DEF DbType
<1> QED BY <1>2, <1>5 DEF r

LEMMA EdgesWritten ==
  ASSUME NEW d, DbType(d), NEW e \in EdgeKeys, NEW v
  PROVE  LET r == PutEdge(d, e, v)
         IN  /\ DbType(r)
             /\ r.nodes = d.nodes /\ r.edges = Set(d.edges, e, v) /\ r.adj = d.adj /\ r.cnt = d.cnt
<1> DEFINE r == PutEdge(d, e, v)
<1>1. r = [nodes |-> d.nodes, edges |-> Set(d.edges, e, v), adj |-> d.adj, cnt |-> d.cnt]
  BY SetParts DEF PutNode, PutEdge
<1> HIDE DEF r
<1>2. /\ r.nodes = d.nodes /\ r.edges = Set(d.edges, e, v) /\ r.adj = d.adj /\ r.cnt = d.cnt
      /\ r = [nodes |-> r.nodes, edges |-> r.edges, adj |-> r.adj, cnt |-> r.cnt]
  BY <1>1
<1>3. DOMAIN r.edges = DOMAIN d.edges \cup {e} /\ IsFunc(r.edges)
  BY <1>2 DEF Set, IsFunc
<1>4. IsFiniteSet(DOMAIN r.edges) /\ DOMAIN r.edges \subseteq EdgeKeys
  BY <1>3, FS_AddElement DEF DbType
<1>5. DbType(r)
  BY <1>2, <1>3, <1>4 DEF DbType
<1> QED BY <1>2, <1>5 DEF r

LEMMA CountsWritten ==
  ASSUME NEW d, DbType(d), NEW i \in Nat
  PROVE  /\ LET r == CountN(d, i)
            IN  /\ DbType(r) /\ r.nodes = d.nodes /\ r.edges = d.edges /\ r.adj = d.adj
                /\ r.cnt = [N |-> i, E |-> d.cnt.E, D |-> d.cnt.D]
         /\ LET r == CountE(d, i)
            IN  /\ DbType(r) /\ r.nodes = d.nodes /\ r.edges = d.edges /\ r.adj = d.adj
                /\ r.cnt = [N |-> d.cnt.N, E |-> i, D |-> d.cnt.D]
         /\ LET r == CountD(d, i)
            IN  /\ DbType(r) /\ r.nodes = d.nodes /\ r.edges = d.edges /\ r.adj = d.adj
                /\ r.cnt = [N |-> d.cnt.N, E |-> d.cnt.E, D |-> i]
<1>1. d.cnt.N \in Nat /\ d.cnt.E \in Nat /\ d.cnt.D \in Nat
  BY DEF DbType
<1>2. ASSUME NEW c \in [N : Nat, E : Nat, D : Nat], NEW r,
             r = [nodes |-> d.nodes, edges |-> d.edges, adj |-> d.adj, cnt |-> c]
      PROVE  /\ DbType(r) /\ r.nodes = d.nodes /\ r.edges = d.edges /\ r.adj = d.adj
             /\ r.cnt = c
  BY <1>2 DEF DbType
<1>3. /\ [N |-> i, E |-> d.cnt.E, D |-> d.cnt.D] \in [N : Nat, E : Nat, D : Nat]
      /\ [N |-> d.cnt.N, E |-> i, D |-> d.cnt.D] \in [N : Nat, E : Nat, D : Nat]
      /\ [N |-> d.cnt.N, E |-> d.cnt.E, D |-> i] \in [N : Nat, E : Nat, D : Nat]
  BY <1>1
<1>4. CountN(d, i) = [nodes |-> d.nodes, edges |-> d.edges, adj |-> d.adj,
                      cnt |-> [N |-> i, E |-> d.cnt.E, D |-> d.cnt.D]]
  <2>1. CountN(d, i) = [d EXCEPT !.cnt = [N |-> i, E |-> d.cnt.E, D |-> d.cnt.D]]
    BY SetCounts DEF CountN
  <2> QED BY <2>1, SetParts
<1>5. CountE(d, i) = [nodes |-> d.nodes, edges |-> d.edges, adj |-> d.adj,
                      cnt |-> [N |-> d.cnt.N, E |-> i, D |-> d.cnt.D]]
  <2>1. CountE(d, i) = [d EXCEPT !.cnt = [N |-> d.cnt.N, E |-> i, D |-> d.cnt.D]]
    BY SetCounts DEF CountE
  <2> QED BY <2>1, SetParts
<1>6. CountD(d, i) = [nodes |-> d.nodes, edges |-> d.edges, adj |-> d.adj,
                      cnt |-> [N |-> d.cnt.N, E |-> d.cnt.E, D |-> i]]
  <2>1. CountD(d, i) = [d EXCEPT !.cnt = [N |-> d.cnt.N, E |-> d.cnt.E, D |-> i]]
    BY SetCounts DEF CountD
  <2> QED BY <2>1, SetParts
<1> QED BY <1>2, <1>3, <1>4, <1>5, <1>6

\* The adjacency of a node as f_get_adj reads it after a write.
LEMMA AdjWritten ==
  ASSUME NEW d, DbType(d), NEW n \in Nodes, NEW S \in SUBSET Entries
  PROVE  LET r == PutEntries(d, n, S)
         IN  /\ DbType(r)
             /\ r.nodes = d.nodes /\ r.edges = d.edges /\ r.cnt = d.cnt
             /\ \A m : GetAdj(r, m) = IF m = n THEN S ELSE GetAdj(d, m)
<1> DEFINE r == PutEntries(d, n, S)
<1>1. r = [nodes |-> d.nodes, edges |-> d.edges, adj |-> Set(d.adj, n, S), cnt |-> d.cnt]
  BY SetParts DEF PutEntries
<1> HIDE DEF r
<1>2. /\ r.nodes = d.nodes /\ r.edges = d.edges /\ r.adj = Set(d.adj, n, S) /\ r.cnt = d.cnt
      /\ r = [nodes |-> r.nodes, edges |-> r.edges, adj |-> r.adj, cnt |-> r.cnt]
  BY <1>1
<1>3. /\ DOMAIN r.adj = DOMAIN d.adj \cup {n} /\ r.adj[n] = S
      /\ \A x \in DOMAIN d.adj : x # n => r.adj[x] = d.adj[x]
  BY <1>2 DEF Set
<1>4. DbType(r)
  BY <1>2, <1>3 DEF DbType
<1>5. ASSUME NEW m PROVE GetAdj(r, m) = IF m = n THEN S ELSE GetAdj(d, m)
  BY <1>3 DEF GetAdj
<1> QED BY <1>2, <1>4, <1>5 DEF r

LEMMA AdjType ==
  ASSUME NEW d, DbType(d), NEW n
  PROVE  GetAdj(d, n) \subseteq Entries
BY DEF DbType, GetAdj

LEMMA EntryWritten ==
  ASSUME NEW d, DbType(d), NEW n \in Nodes, NEW x \in Entries
  PROVE  /\ LET r == WithEntry(d, n, x)
            IN  /\ DbType(r) /\ r.nodes = d.nodes /\ r.edges = d.edges /\ r.cnt = d.cnt
                /\ \A m : GetAdj(r, m) = IF m = n THEN GetAdj(d, m) \cup {x} ELSE GetAdj(d, m)
         /\ LET r == WithoutEntry(d, n, x)
            IN  /\ DbType(r) /\ r.nodes = d.nodes /\ r.edges = d.edges /\ r.cnt = d.cnt
                /\ \A m : GetAdj(r, m) = IF m = n THEN GetAdj(d, m) \ {x} ELSE GetAdj(d, m)
<1>1. GetAdj(d, n) \cup {x} \in SUBSET Entries /\ GetAdj(d, n) \ {x} \in SUBSET Entries
  BY AdjType
<1>2. CASE x \in GetAdj(d, n)
  <2>1. WithEntry(d, n, x) = d
    BY <1>2 DEF WithEntry
  <2>2. n \in DOMAIN d.adj /\ GetAdj(d, n) = d.adj[n]
    BY <1>2 DEF GetAdj
  <2>3. WithoutEntry(d, n, x) = [d EXCEPT !.adj[n] = @ \ {x}]
    BY <1>2 DEF WithoutEntry
  <2> DEFINE r == WithoutEntry(d, n, x)
  <2>4. r = [nodes |-> d.nodes, edges |-> d.edges,
             adj |-> [d.adj EXCEPT ![n] = GetAdj(d, n) \ {x}], cnt |-> d.cnt]
    <3>1. [d EXCEPT !.adj[n] = @ \ {x}] = [d EXCEPT !.adj = [d.adj EXCEPT ![n] = d.adj[n] \ {x}]]
      OBVIOUS
    <3> QED BY <3>1, <2>2, <2>3, SetParts
  <2> HIDE DEF r
  <2>5. /\ r.nodes = d.nodes /\ r.edges = d.edges /\ r.cnt = d.cnt
        /\ r = [nodes |-> r.nodes, edges |-> r.edges, adj |-> r.adj, cnt |-> r.cnt]
        /\ DOMAIN r.adj = DOMAIN d.adj /\ r.adj[n] = GetAdj(d, n) \ {x}
        /\ \A m \in DOMAIN d.adj : m # n => r.adj[m] = d.adj[m]
    BY <2>4, <2>2
  <2>6. DbType(r)
    BY <2>5, <1>1 DEF DbType
  <2>7. ASSUME NEW m PROVE GetAdj(r, m) = IF m = n THEN GetAdj(d, m) \ {x} ELSE GetAdj(d, m)
    BY <2>5, <2>2 DEF GetAdj
  <2>8. \A m : GetAdj(d, m) = IF m = n THEN GetAdj(d, m) \cup {x} ELSE GetAdj(d, m)
    BY <1>2
  <2> QED BY <2>1, <2>5, <2>6, <2>7, <2>8 DEF r
<1>3. CASE x \notin GetAdj(d, n)
  <2>1. WithoutEntry(d, n, x) = d
    BY <1>3 DEF WithoutEntry
  <2>2. WithEntry(d, n, x) = PutEntries(d, n, GetAdj(d, n) \cup {x})
    BY <1>3 DEF WithEntry, PutEntries
  <2>3. LET r == WithEntry(d, n, x)
        IN  /\ DbType(r) /\ r.nodes = d.nodes /\ r.edges = d.edges /\ r.cnt = d.cnt
            /\ \A m : GetAdj(r, m) = IF m = n THEN GetAdj(d, n) \cup {x} ELSE GetAdj(d, m)
    BY <1>1, <2>2, AdjWritten
  <2>4. \A m : GetAdj(d, m) = IF m = n THEN GetAdj(d, m) \ {x} ELSE GetAdj(d, m)
    BY <1>3
  <2> QED BY <2>1, <2>3, <2>4
<1> QED BY <1>2, <1>3

\* f_get_adj reads S at n and what it read before elsewhere.
AdjAt(r, d, n, S) == \A m : GetAdj(r, m) = IF m = n THEN S ELSE GetAdj(d, m)

LEMMA EntryPut ==
  ASSUME NEW d, DbType(d), NEW n \in Nodes, NEW x \in Entries
  PROVE  /\ DbType(WithEntry(d, n, x)) /\ AdjAt(WithEntry(d, n, x), d, n, GetAdj(d, n) \cup {x})
         /\ WithEntry(d, n, x).nodes = d.nodes /\ WithEntry(d, n, x).edges = d.edges
         /\ WithEntry(d, n, x).cnt = d.cnt
<1> DEFINE r == WithEntry(d, n, x)
<1>1. /\ DbType(r) /\ r.nodes = d.nodes /\ r.edges = d.edges /\ r.cnt = d.cnt
      /\ \A m : GetAdj(r, m) = IF m = n THEN GetAdj(d, m) \cup {x} ELSE GetAdj(d, m)
  BY EntryWritten
<1> HIDE DEF r
<1>2. AdjAt(r, d, n, GetAdj(d, n) \cup {x})
  BY <1>1 DEF AdjAt
<1> QED BY <1>1, <1>2 DEF r

LEMMA EntryTaken ==
  ASSUME NEW d, DbType(d), NEW n \in Nodes, NEW x \in Entries
  PROVE  /\ DbType(WithoutEntry(d, n, x)) /\ AdjAt(WithoutEntry(d, n, x), d, n, GetAdj(d, n) \ {x})
         /\ WithoutEntry(d, n, x).nodes = d.nodes /\ WithoutEntry(d, n, x).edges = d.edges
         /\ WithoutEntry(d, n, x).cnt = d.cnt
<1> DEFINE r == WithoutEntry(d, n, x)
<1>1. /\ DbType(r) /\ r.nodes = d.nodes /\ r.edges = d.edges /\ r.cnt = d.cnt
      /\ \A m : GetAdj(r, m) = IF m = n THEN GetAdj(d, m) \ {x} ELSE GetAdj(d, m)
  BY EntryWritten
<1> HIDE DEF r
<1>2. AdjAt(r, d, n, GetAdj(d, n) \ {x})
  BY <1>1 DEF AdjAt
<1> QED BY <1>1, <1>2 DEF r

LEMMA CountNWritten ==
  ASSUME NEW d, DbType(d), NEW i \in Nat
  PROVE  /\ DbType(CountN(d, i)) /\ CountN(d, i).nodes = d.nodes
         /\ CountN(d, i).edges = d.edges /\ CountN(d, i).adj = d.adj
         /\ CountN(d, i).cnt = [N |-> i, E |-> d.cnt.E, D |-> d.cnt.D]
BY CountsWritten

LEMMA CountEWritten ==
  ASSUME NEW d, DbType(d), NEW i \in Nat
  PROVE  /\ DbType(CountE(d, i)) /\ CountE(d, i).nodes = d.nodes
         /\ CountE(d, i).edges = d.edges /\ CountE(d, i).adj = d.adj
         /\ CountE(d, i).cnt = [N |-> d.cnt.N, E |-> i, D |-> d.cnt.D]
BY CountsWritten

LEMMA CountDWritten ==
  ASSUME NEW d, DbType(d), NEW i \in Nat
  PROVE  /\ DbType(CountD(d, i)) /\ CountD(d, i).nodes = d.nodes
         /\ CountD(d, i).edges = d.edges /\ CountD(d, i).adj = d.adj
         /\ CountD(d, i).cnt = [N |-> d.cnt.N, E |-> d.cnt.E, D |-> i]
BY CountsWritten

LEMMA NodeWritten ==
  ASSUME NEW d, DbType(d), NEW n \in Nodes
  PROVE  LET r == WithNode(d, n)
         IN  /\ DbType(r) /\ r.edges = d.edges /\ r.adj = d.adj /\ r.cnt = d.cnt
             /\ DOMAIN r.nodes = DOMAIN d.nodes \cup {n}
             /\ \A m \in DOMAIN d.nodes : r.nodes[m] = d.nodes[m]
             /\ n \notin DOMAIN d.nodes => r.nodes[n] = NoProps
<1>1. CASE HasNode(d, n)
  BY <1>1 DEF WithNode, HasNode
<1>2. CASE ~HasNode(d, n)
  <2>1. WithNode(d, n) = PutNode(d, n, NoProps) /\ n \notin DOMAIN d.nodes
    BY <1>2 DEF WithNode, HasNode, PutNode
  <2>2. /\ DbType(PutNode(d, n, NoProps)) /\ PutNode(d, n, NoProps).nodes = Set(d.nodes, n, NoProps)
        /\ PutNode(d, n, NoProps).edges = d.edges /\ PutNode(d, n, NoProps).adj = d.adj
        /\ PutNode(d, n, NoProps).cnt = d.cnt
    BY NodesWritten
  <2>3. /\ DOMAIN Set(d.nodes, n, NoProps) = DOMAIN d.nodes \cup {n}
        /\ Set(d.nodes, n, NoProps)[n] = NoProps
        /\ \A m \in DOMAIN d.nodes : Set(d.nodes, n, NoProps)[m] = d.nodes[m]
    BY <2>1 DEF Set
  <2> QED BY <2>1, <2>2, <2>3
<1> QED BY <1>1, <1>2

-----------------------------------------------------------------------------
(* In step *)

Aligned(d) ==
  \A n \in Nodes, x \in Entries : x \in GetAdj(d, n) <=> EdgeOf(n, x) \in DOMAIN d.edges

EndsExist(d) == \A e \in DOMAIN d.edges : e[1] \in DOMAIN d.nodes /\ e[3] \in DOMAIN d.nodes

InStep(d) == DbType(d) /\ Aligned(d) /\ CountersRight(d) /\ EndsExist(d)

\* What verify_index expects in an adjacency are the entries that stand for
\* an edge.
LEMMA ExpectedIs ==
  ASSUME NEW d, DbType(d), NEW n \in Nodes
  PROVE  \A x : x \in Expected(d, n) <=> x \in Entries /\ EdgeOf(n, x) \in DOMAIN d.edges
<1>1. DOMAIN d.edges \subseteq EdgeKeys
  BY DEF DbType
<1>2. ASSUME NEW x, x \in Expected(d, n)
      PROVE  x \in Entries /\ EdgeOf(n, x) \in DOMAIN d.edges
  <2>1. PICK e \in DOMAIN d.edges : \/ e[1] = n /\ x = SourceEntry(e)
                                    \/ e[3] = n /\ x = TargetEntry(e)
    BY <1>2 DEF Expected
  <2>2. e \in EdgeKeys
    BY <1>1
  <2>3. x \in Entries
    BY <2>1, <2>2, EntriesOf
  <2> QED BY <2>1, <2>2, <2>3, EdgeOfIs
<1>3. ASSUME NEW x \in Entries, EdgeOf(n, x) \in DOMAIN d.edges
      PROVE  x \in Expected(d, n)
  <2>1. PICK e \in DOMAIN d.edges : EdgeOf(n, x) = e
    BY <1>3
  <2>2. (n = e[1] /\ x = SourceEntry(e)) \/ (n = e[3] /\ x = TargetEntry(e))
    BY <1>1, <2>1, EdgeOfIs
  <2> QED BY <2>2 DEF Expected
<1> QED BY <1>2, <1>3

LEMMA InStepVerifies ==
  ASSUME NEW d, InStep(d)
  PROVE  VerifyIndex(d) /\ \A e \in DOMAIN d.edges : HasNode(d, e[1]) /\ HasNode(d, e[3])
<1>1. DbType(d) /\ Aligned(d) /\ CountersRight(d) /\ EndsExist(d)
  BY DEF InStep
<1>2. ASSUME NEW n \in Nodes PROVE Expected(d, n) = GetAdj(d, n)
  BY <1>1, ExpectedIs, AdjType DEF Aligned
<1>3. Missing(d) = {} /\ Orphan(d) = {}
  BY <1>2 DEF Missing, Orphan
<1> QED BY <1>1, <1>3 DEF VerifyIndex, EndsExist, HasNode

-----------------------------------------------------------------------------
(* Counting *)

DirectedIn(E) == {e \in E : e[2] = ">"}

LEMMA CountersAre ==
  ASSUME NEW d
  PROVE  CountersRight(d) <=> /\ d.cnt.N = Cardinality(DOMAIN d.nodes)
                              /\ d.cnt.E = Cardinality(DOMAIN d.edges)
                              /\ d.cnt.D = Cardinality(DirectedIn(DOMAIN d.edges))
BY DEF CountersRight, DirectedIn

LEMMA OneMoreEdge ==
  ASSUME NEW E, IsFiniteSet(E), NEW e, e \notin E
  PROVE  /\ Cardinality(E \cup {e}) = Cardinality(E) + 1
         /\ Cardinality(DirectedIn(E \cup {e})) = Cardinality(DirectedIn(E)) + (IF e[2] = ">" THEN 1 ELSE 0)
         /\ Cardinality(E) \in Nat /\ Cardinality(DirectedIn(E)) \in Nat
<1>1. IsFiniteSet(DirectedIn(E))
  BY FS_Subset DEF DirectedIn
<1>2. Cardinality(E) \in Nat /\ Cardinality(DirectedIn(E)) \in Nat
  BY <1>1, FS_CardinalityType
<1>3. CASE e[2] = ">"
  <2>1. DirectedIn(E \cup {e}) = DirectedIn(E) \cup {e} /\ e \notin DirectedIn(E)
    BY <1>3 DEF DirectedIn
  <2> QED BY <1>1, <1>2, <1>3, <2>1, FS_AddElement
<1>4. CASE e[2] # ">"
  <2>1. DirectedIn(E \cup {e}) = DirectedIn(E)
    BY <1>4 DEF DirectedIn
  <2> QED BY <1>2, <1>4, <2>1, FS_AddElement
<1> QED BY <1>3, <1>4

LEMMA FewerEdges ==
  ASSUME NEW E, IsFiniteSet(E), NEW F, F \subseteq E
  PROVE  /\ Cardinality(E \ F) = Cardinality(E) - Cardinality(F)
         /\ Cardinality(DirectedIn(E \ F)) = Cardinality(DirectedIn(E)) - Cardinality(DirectedIn(F))
         /\ Cardinality(E \ F) \in Nat /\ Cardinality(DirectedIn(E \ F)) \in Nat
<1>1. IsFiniteSet(DirectedIn(E)) /\ IsFiniteSet(E \ F)
  BY FS_Subset DEF DirectedIn
<1>2. IsFiniteSet(DirectedIn(E \ F))
  BY <1>1, FS_Subset DEF DirectedIn
<1>3. /\ DirectedIn(E \ F) = DirectedIn(E) \ DirectedIn(F)
      /\ E \cap F = F /\ DirectedIn(E) \cap DirectedIn(F) = DirectedIn(F)
  BY DEF DirectedIn
<1>4. Cardinality(E \ F) = Cardinality(E) - Cardinality(E \cap F)
  BY FS_Difference
<1>5. Cardinality(DirectedIn(E) \ DirectedIn(F))
      = Cardinality(DirectedIn(E)) - Cardinality(DirectedIn(E) \cap DirectedIn(F))
  BY <1>1, FS_Difference
<1>6. Cardinality(E \ F) \in Nat /\ Cardinality(DirectedIn(E \ F)) \in Nat
  BY <1>1, <1>2, FS_CardinalityType
<1> QED BY <1>3, <1>4, <1>5, <1>6

LEMMA NotBelow0Is ==
  ASSUME NEW i \in Int
  PROVE  NotBelow0(i) \in Nat /\ (i \in Nat => NotBelow0(i) = i)
BY DEF NotBelow0

-----------------------------------------------------------------------------
(* add_node, add_edge, remove_edge *)

\* What a call that has tested goes on with.
CallType(c) ==
  /\ c.op = "add_node" => c.node \in Nodes /\ c.props \in NodeProps
  /\ c.op = "add_edge" => c.edge \in EdgeKeys /\ c.props \in EdgeProps
  /\ c.op = "remove_edge" => c.edge \in EdgeKeys
  /\ c.op = "remove_node" =>
       c.node \in Nodes /\ \A m \in DOMAIN c.view.adj : c.view.adj[m] \subseteq Entries

NodeAfter(d, c) == Last1(AddNodeSteps(d, c.node, c.was, Value(c)))

SameTest(was, has) == (was /\ has) \/ (~was /\ ~has)

LEMMA NodeAdded ==
  ASSUME NEW d, DbType(d), NEW c, c.node \in Nodes
  PROVE  LET r == NodeAfter(d, c)
         IN  /\ DbType(r) /\ r.nodes = Set(d.nodes, c.node, Value(c)) /\ r.edges = d.edges
             /\ \A d0 \in Before(AddNodeSteps(d, c.node, c.was, Value(c))) : DbType(d0)
             /\ InStep(d) /\ SameTest(c.was, HasNode(d, c.node)) => InStep(r)
<1> DEFINE val == Value(c)
           d1 == PutNode(d, c.node, val)
           d2 == CountN(d1, NotBelow0(d1.cnt.N) + 1)
           new == ~HasNode(d, c.node) \/ d.nodes[c.node] # val
           r == NodeAfter(d, c)
<1>1. AddNodeSteps(d, c.node, c.was, val) = IF c.was \/ ~new THEN <<d1>> ELSE <<d1, d2>>
  BY DEF AddNodeSteps, PutNode, CountN
<1>2. r = IF c.was \/ ~new THEN d1 ELSE d2
  <2>1. Last1(<<d1>>) = d1 /\ Last1(<<d1, d2>>) = d2
    BY DEF Last1
  <2> QED BY <1>1, <2>1 DEF NodeAfter
<1>3. /\ DbType(d1) /\ d1.nodes = Set(d.nodes, c.node, val) /\ d1.edges = d.edges
      /\ d1.adj = d.adj /\ d1.cnt = d.cnt
  BY NodesWritten
<1> HIDE DEF d1
<1>4. d.cnt \in [N : Nat, E : Nat, D : Nat]
  BY DEF DbType
<1>5. d1.cnt.N \in Nat /\ NotBelow0(d1.cnt.N) + 1 = d1.cnt.N + 1 /\ d1.cnt.N + 1 \in Nat
  BY <1>3, <1>4, NotBelow0Is
<1>6. /\ DbType(d2) /\ d2.nodes = d1.nodes /\ d2.edges = d1.edges /\ d2.adj = d1.adj
      /\ d2.cnt = [N |-> d1.cnt.N + 1, E |-> d1.cnt.E, D |-> d1.cnt.D]
  BY <1>3, <1>5, CountNWritten
<1> HIDE DEF d2, r
<1>7. DbType(r) /\ r.nodes = Set(d.nodes, c.node, val) /\ r.edges = d.edges /\ r.adj = d.adj
  BY <1>2, <1>3, <1>6
<1>8. DOMAIN r.nodes = DOMAIN d.nodes \cup {c.node}
  BY <1>7 DEF Set
<1>9. ASSUME InStep(d), SameTest(c.was, HasNode(d, c.node))
      PROVE  InStep(r)
  <2>1. Aligned(d) /\ CountersRight(d) /\ EndsExist(d) /\ IsFiniteSet(DOMAIN d.nodes)
    BY <1>9 DEF InStep, DbType
  <2>2. Aligned(r)
    BY <1>7, <2>1 DEF Aligned, GetAdj
  <2>3. EndsExist(r)
    BY <1>7, <1>8, <2>1 DEF EndsExist
  <2>4. CASE c.was
    <3>1. c.node \in DOMAIN d.nodes /\ r = d1
      BY <1>2, <1>9, <2>4 DEF SameTest, HasNode
    <3>2. DOMAIN r.nodes = DOMAIN d.nodes /\ r.cnt = d.cnt
      BY <1>3, <1>8, <3>1
    <3>3. CountersRight(r)
      BY <1>7, <2>1, <3>2, CountersAre
    <3> QED BY <1>7, <2>2, <2>3, <3>3 DEF InStep
  <2>5. CASE ~c.was
    <3>1. c.node \notin DOMAIN d.nodes /\ r = d2
      BY <1>2, <1>9, <2>5 DEF SameTest, HasNode
    <3>2. Cardinality(DOMAIN r.nodes) = Cardinality(DOMAIN d.nodes) + 1
      BY <1>8, <2>1, <3>1, FS_AddElement
    <3>3. CountersRight(r)
      BY <1>3, <1>6, <1>7, <2>1, <3>1, <3>2, CountersAre
    <3> QED BY <1>7, <2>2, <2>3, <3>3 DEF InStep
  <2> QED BY <2>4, <2>5
<1>10. ASSUME NEW d0 \in Before(AddNodeSteps(d, c.node, c.was, val)) PROVE DbType(d0)
  <2>1. PICK i \in 1 .. (Len(AddNodeSteps(d, c.node, c.was, val)) - 1) :
          d0 = AddNodeSteps(d, c.node, c.was, val)[i]
    BY DEF Before
  <2>2. d0 = d1
    BY <1>1, <2>1
  <2> QED BY <1>3, <2>2
<1> QED BY <1>7, <1>9, <1>10 DEF r

\* The nodes with both ends of e among them.
BothEnds(f, e) == [x \in DOMAIN f \cup {e[1], e[3]} |-> IF x \in DOMAIN f THEN f[x] ELSE NoProps]

\* Every write of f_add_edge keeps the types, and all of them together put
\* a new edge in step.
LEMMA EdgeAdded ==
  ASSUME NEW d, DbType(d), NEW e \in EdgeKeys, NEW p
  PROVE  LET S == AddEdgeSteps(d, e, p)
             r == Last1(S)
         IN  /\ Len(S) \in Nat /\ \A i \in 1 .. Len(S) : DbType(S[i])
             /\ DbType(r) /\ r.nodes = BothEnds(d.nodes, e) /\ r.edges = Set(d.edges, e, p)
             /\ InStep(d) /\ e \notin DOMAIN d.edges => InStep(r)
<1> DEFINE d1 == WithNode(d, e[1])
           d2 == WithNode(d1, e[3])
           d3 == WithEntry(d2, e[1], SourceEntry(e))
           d4 == WithEntry(d3, e[3], TargetEntry(e))
           added == DOMAIN d2.nodes \ DOMAIN d.nodes
           d5 == CountN(d4, NotBelow0(d4.cnt.N + Cardinality(added)))
           d6 == PutEdge(d5, e, p)
           d7 == CountE(d6, NotBelow0(d6.cnt.E) + 1)
           d8 == IF e[2] = ">" THEN CountD(d7, NotBelow0(d7.cnt.D) + 1) ELSE d7
           S == AddEdgeSteps(d, e, p)
           r == Last1(S)
<1>1. S = IF HasEdge(d, e) /\ d.edges[e] = p THEN <<d1, d2, d3, d4, d5, d6>>
          ELSE <<d1, d2, d3, d4, d5, d6, d7, d8>>
  BY DEF AddEdgeSteps, CountN, CountE, CountD, PutEdge
<1> HIDE DEF S
<1>2. /\ e[1] \in Nodes /\ e[3] \in Nodes
      /\ SourceEntry(e) \in Entries /\ TargetEntry(e) \in Entries
  BY EdgeParts, EntriesOf
<1>3. /\ DbType(d1) /\ d1.edges = d.edges /\ d1.adj = d.adj /\ d1.cnt = d.cnt
      /\ DOMAIN d1.nodes = DOMAIN d.nodes \cup {e[1]}
      /\ \A m \in DOMAIN d.nodes : d1.nodes[m] = d.nodes[m]
      /\ e[1] \notin DOMAIN d.nodes => d1.nodes[e[1]] = NoProps
  BY <1>2, NodeWritten
<1> HIDE DEF d1
<1>4. /\ DbType(d2) /\ d2.edges = d.edges /\ d2.adj = d.adj /\ d2.cnt = d.cnt
      /\ DOMAIN d2.nodes = DOMAIN d.nodes \cup {e[1], e[3]}
      /\ \A m \in DOMAIN d1.nodes : d2.nodes[m] = d1.nodes[m]
      /\ e[3] \notin DOMAIN d1.nodes => d2.nodes[e[3]] = NoProps
  BY <1>2, <1>3, NodeWritten
<1>5. d2.nodes = BothEnds(d.nodes, e)
  <2>1. IsFunc(d2.nodes)
    BY <1>4 DEF DbType
  <2>2. DOMAIN BothEnds(d.nodes, e) = DOMAIN d2.nodes /\ IsFunc(BothEnds(d.nodes, e))
    BY <1>4 DEF BothEnds, IsFunc
  <2>3. ASSUME NEW x \in DOMAIN d2.nodes
        PROVE  d2.nodes[x] = BothEnds(d.nodes, e)[x]
    BY <1>3, <1>4 DEF BothEnds
  <2> QED BY <2>1, <2>2, <2>3 DEF IsFunc
<1> HIDE DEF d2
<1>6. /\ DbType(d3) /\ d3.nodes = d2.nodes /\ d3.edges = d.edges /\ d3.cnt = d.cnt
      /\ AdjAt(d3, d2, e[1], GetAdj(d2, e[1]) \cup {SourceEntry(e)})
  BY <1>2, <1>4, EntryPut
<1> HIDE DEF d3
<1>7. /\ DbType(d4) /\ d4.nodes = d2.nodes /\ d4.edges = d.edges /\ d4.cnt = d.cnt
      /\ AdjAt(d4, d3, e[3], GetAdj(d3, e[3]) \cup {TargetEntry(e)})
  BY <1>2, <1>6, EntryPut
<1> HIDE DEF d4
<1>8. /\ IsFiniteSet(DOMAIN d.nodes) /\ IsFiniteSet(DOMAIN d2.nodes)
      /\ IsFiniteSet(added) /\ Cardinality(added) \in Nat
      /\ Cardinality(DOMAIN d.nodes) \in Nat
      /\ Cardinality(DOMAIN d2.nodes) = Cardinality(DOMAIN d.nodes) + Cardinality(added)
  <2>1. IsFiniteSet(DOMAIN d.nodes) /\ IsFiniteSet(DOMAIN d2.nodes)
    BY <1>4 DEF DbType
  <2>2. DOMAIN d2.nodes \cap DOMAIN d.nodes = DOMAIN d.nodes
    BY <1>4
  <2>3. /\ IsFiniteSet(added)
        /\ Cardinality(added) = Cardinality(DOMAIN d2.nodes) - Cardinality(DOMAIN d.nodes)
    BY <2>1, <2>2, FS_Difference
  <2> QED BY <2>1, <2>3, FS_CardinalityType
<1> HIDE DEF added
<1>9. /\ d.cnt \in [N : Nat, E : Nat, D : Nat]
      /\ d4.cnt.N \in Nat /\ d4.cnt.N + Cardinality(added) \in Nat
      /\ NotBelow0(d4.cnt.N + Cardinality(added)) = d.cnt.N + Cardinality(added)
  <2>1. d.cnt \in [N : Nat, E : Nat, D : Nat]
    BY DEF DbType
  <2>2. d4.cnt.N \in Nat /\ d4.cnt.N = d.cnt.N
    BY <1>7, <2>1
  <2>3. d4.cnt.N + Cardinality(added) \in Nat
    BY <1>8, <2>2
  <2> QED BY <2>1, <2>2, <2>3, NotBelow0Is
<1>10. /\ DbType(d5) /\ d5.nodes = d2.nodes /\ d5.edges = d.edges /\ d5.adj = d4.adj
       /\ d5.cnt = [N |-> d.cnt.N + Cardinality(added), E |-> d.cnt.E, D |-> d.cnt.D]
  BY <1>7, <1>9, CountNWritten
<1> HIDE DEF d5
<1>11. /\ DbType(d6) /\ d6.nodes = d2.nodes /\ d6.edges = Set(d.edges, e, p) /\ d6.adj = d4.adj
       /\ d6.cnt = [N |-> d.cnt.N + Cardinality(added), E |-> d.cnt.E, D |-> d.cnt.D]
  BY <1>10, EdgesWritten
<1> HIDE DEF d6
<1>12. NotBelow0(d6.cnt.E) + 1 = d.cnt.E + 1 /\ d.cnt.E + 1 \in Nat
  BY <1>9, <1>11, NotBelow0Is
<1>13. /\ DbType(d7) /\ d7.nodes = d2.nodes /\ d7.edges = Set(d.edges, e, p) /\ d7.adj = d4.adj
       /\ d7.cnt = [N |-> d.cnt.N + Cardinality(added), E |-> d.cnt.E + 1, D |-> d.cnt.D]
  BY <1>11, <1>12, CountEWritten
<1> HIDE DEF d7
<1>14. NotBelow0(d7.cnt.D) + 1 = d.cnt.D + 1 /\ d.cnt.D + 1 \in Nat
  BY <1>9, <1>13, NotBelow0Is
<1>15. /\ DbType(d8) /\ d8.nodes = d2.nodes /\ d8.edges = Set(d.edges, e, p) /\ d8.adj = d4.adj
       /\ d8.cnt = [N |-> d.cnt.N + Cardinality(added), E |-> d.cnt.E + 1,
                    D |-> d.cnt.D + (IF e[2] = ">" THEN 1 ELSE 0)]
  <2>1. CASE e[2] = ">"
    BY <1>13, <1>14, <2>1, CountDWritten
  <2>2. CASE e[2] # ">"
    BY <1>9, <1>13, <2>2
  <2> QED BY <2>1, <2>2
<1> HIDE DEF d8
<1>16. /\ Len(S) \in Nat /\ \A i \in 1 .. Len(S) : DbType(S[i])
       /\ r = IF HasEdge(d, e) /\ d.edges[e] = p THEN d6 ELSE d8
  <2>1. CASE HasEdge(d, e) /\ d.edges[e] = p
    <3>1. S = <<d1, d2, d3, d4, d5, d6>>
      BY <1>1, <2>1
    <3>2. Len(S) = 6 /\ \A i \in 1 .. 6 : DbType(S[i])
      BY <3>1, <1>3, <1>4, <1>6, <1>7, <1>10, <1>11
    <3> QED BY <2>1, <3>1, <3>2 DEF Last1
  <2>2. CASE ~(HasEdge(d, e) /\ d.edges[e] = p)
    <3>1. S = <<d1, d2, d3, d4, d5, d6, d7, d8>>
      BY <1>1, <2>2
    <3>2. Len(S) = 8 /\ \A i \in 1 .. 8 : DbType(S[i])
      BY <3>1, <1>3, <1>4, <1>6, <1>7, <1>10, <1>11, <1>13, <1>15
    <3> QED BY <2>2, <3>1, <3>2 DEF Last1
  <2> QED BY <2>1, <2>2
<1> HIDE DEF r
<1>17. DbType(r) /\ r.nodes = BothEnds(d.nodes, e) /\ r.edges = Set(d.edges, e, p)
  BY <1>5, <1>11, <1>15, <1>16
<1>18. ASSUME InStep(d), e \notin DOMAIN d.edges
       PROVE  InStep(r)
  <2>1. /\ Aligned(d) /\ CountersRight(d) /\ EndsExist(d)
        /\ IsFiniteSet(DOMAIN d.edges) /\ DOMAIN d.edges \subseteq EdgeKeys
    BY <1>18 DEF InStep, DbType
  <2>2. r = d8
    BY <1>16, <1>18 DEF HasEdge
  <2>3. DOMAIN r.edges = DOMAIN d.edges \cup {e}
    BY <1>17 DEF Set
  <2>4. Aligned(r)
    <3>1. ASSUME NEW n \in Nodes, NEW x \in Entries
          PROVE  x \in GetAdj(r, n) <=> EdgeOf(n, x) \in DOMAIN r.edges
      <4>1. GetAdj(r, n) = GetAdj(d4, n) /\ GetAdj(d2, n) = GetAdj(d, n)
        BY <1>4, <1>15, <2>2 DEF GetAdj
      <4>2. x \in GetAdj(r, n) <=> \/ x \in GetAdj(d, n)
                                   \/ n = e[1] /\ x = SourceEntry(e)
                                   \/ n = e[3] /\ x = TargetEntry(e)
        BY <1>6, <1>7, <4>1 DEF AdjAt
      <4>3. x \in GetAdj(r, n) <=> x \in GetAdj(d, n) \/ EdgeOf(n, x) = e
        BY <4>2, EdgeOfIs
      <4>4. x \in GetAdj(d, n) <=> EdgeOf(n, x) \in DOMAIN d.edges
        BY <2>1 DEF Aligned
      <4> QED BY <2>3, <4>3, <4>4
    <3> QED BY <3>1 DEF Aligned
  <2>5. EndsExist(r)
    <3>1. DOMAIN r.nodes = DOMAIN d.nodes \cup {e[1], e[3]}
      BY <1>17 DEF BothEnds
    <3> QED BY <2>1, <2>3, <3>1 DEF EndsExist
  <2>6. CountersRight(r)
    <3>1. /\ d.cnt.N = Cardinality(DOMAIN d.nodes)
          /\ d.cnt.E = Cardinality(DOMAIN d.edges)
          /\ d.cnt.D = Cardinality(DirectedIn(DOMAIN d.edges))
      BY <2>1, CountersAre
    <3>2. r.cnt.N = Cardinality(DOMAIN r.nodes)
      BY <1>8, <1>15, <2>2, <3>1
    <3>3. /\ Cardinality(DOMAIN r.edges) = d.cnt.E + 1
          /\ Cardinality(DirectedIn(DOMAIN r.edges)) = d.cnt.D + (IF e[2] = ">" THEN 1 ELSE 0)
      BY <1>18, <2>1, <2>3, <3>1, OneMoreEdge
    <3>4. /\ r.cnt.E = Cardinality(DOMAIN r.edges)
          /\ r.cnt.D = Cardinality(DirectedIn(DOMAIN r.edges))
      BY <1>15, <2>2, <3>3
    <3> QED BY <3>2, <3>4, CountersAre
  <2> QED BY <1>17, <2>4, <2>5, <2>6 DEF InStep
<1> QED BY <1>16, <1>17, <1>18 DEF r, S

\* An edge that exists is written again: only its properties change.
LEMMA EdgeRewritten ==
  ASSUME NEW d, InStep(d), NEW e \in DOMAIN d.edges, NEW p
  PROVE  InStep(PutEdge(d, e, p))
<1> DEFINE r == PutEdge(d, e, p)
<1>1. /\ DbType(d) /\ Aligned(d) /\ CountersRight(d) /\ EndsExist(d) /\ e \in EdgeKeys
  BY DEF InStep, DbType
<1>2. /\ DbType(r) /\ r.nodes = d.nodes /\ r.edges = Set(d.edges, e, p)
      /\ r.adj = d.adj /\ r.cnt = d.cnt
  BY <1>1, EdgesWritten
<1> HIDE DEF r
<1>3. DOMAIN r.edges = DOMAIN d.edges
  BY <1>2 DEF Set
<1>4. Aligned(r)
  BY <1>1, <1>2, <1>3 DEF Aligned, GetAdj
<1>5. CountersRight(r)
  BY <1>1, <1>2, <1>3, CountersAre
<1>6. EndsExist(r)
  BY <1>1, <1>2, <1>3 DEF EndsExist
<1> QED BY <1>2, <1>4, <1>5, <1>6 DEF InStep, r

LEMMA KeysDeleted ==
  ASSUME NEW d, DbType(d), NEW N, NEW A, NEW E
  PROVE  LET r == DeleteKeys(d, N, A, E)
         IN  /\ DbType(r) /\ r.cnt = d.cnt
             /\ r.nodes = Without(d.nodes, N) /\ r.edges = Without(d.edges, E)
             /\ \A m : GetAdj(r, m) = IF m \in A THEN {} ELSE GetAdj(d, m)
<1> DEFINE r == DeleteKeys(d, N, A, E)
<1>1. r = [nodes |-> Without(d.nodes, N), edges |-> Without(d.edges, E),
           adj |-> Without(d.adj, A), cnt |-> d.cnt]
  <2>1. d = [nodes |-> d.nodes, edges |-> d.edges, adj |-> d.adj, cnt |-> d.cnt]
    BY DEF DbType
  <2>2. r = [d EXCEPT !.nodes = Without(d.nodes, N), !.adj = Without(d.adj, A),
                      !.edges = Without(d.edges, E)]
    BY DEF DeleteKeys
  <2> HIDE DEF r
  <2> QED BY <2>1, <2>2
<1> HIDE DEF r
<1>2. /\ r.nodes = Without(d.nodes, N) /\ r.edges = Without(d.edges, E)
      /\ r.adj = Without(d.adj, A) /\ r.cnt = d.cnt
      /\ r = [nodes |-> r.nodes, edges |-> r.edges, adj |-> r.adj, cnt |-> r.cnt]
  BY <1>1
<1>3. /\ DOMAIN r.nodes = DOMAIN d.nodes \ N /\ IsFunc(r.nodes)
      /\ DOMAIN r.edges = DOMAIN d.edges \ E /\ IsFunc(r.edges)
      /\ DOMAIN r.adj = DOMAIN d.adj \ A
      /\ \A m \in DOMAIN d.adj \ A : r.adj[m] = d.adj[m]
  BY <1>2 DEF Without, Restrict, IsFunc
<1>4. IsFiniteSet(DOMAIN r.nodes) /\ IsFiniteSet(DOMAIN r.edges)
  <2>1. IsFiniteSet(DOMAIN d.nodes) /\ IsFiniteSet(DOMAIN d.edges)
    BY DEF DbType
  <2> QED BY <1>3, <2>1, FS_Subset
<1>5. DbType(r)
  BY <1>2, <1>3, <1>4 DEF DbType
<1>6. ASSUME NEW m PROVE GetAdj(r, m) = IF m \in A THEN {} ELSE GetAdj(d, m)
  BY <1>3 DEF GetAdj
<1> QED BY <1>2, <1>5, <1>6 DEF r

TakeEdge(d, e) == [d EXCEPT !.edges = Without(@, {e})]

LEMMA EdgeTaken ==
  ASSUME NEW d, DbType(d), NEW e
  PROVE  LET r == TakeEdge(d, e)
         IN  /\ DbType(r) /\ r.nodes = d.nodes /\ r.edges = Without(d.edges, {e})
             /\ r.adj = d.adj /\ r.cnt = d.cnt
<1> DEFINE r == TakeEdge(d, e)
<1>1. r = [nodes |-> d.nodes, edges |-> Without(d.edges, {e}), adj |-> d.adj, cnt |-> d.cnt]
  BY SetParts DEF TakeEdge
<1> HIDE DEF r
<1>2. /\ r.nodes = d.nodes /\ r.edges = Without(d.edges, {e}) /\ r.adj = d.adj /\ r.cnt = d.cnt
      /\ r = [nodes |-> r.nodes, edges |-> r.edges, adj |-> r.adj, cnt |-> r.cnt]
  BY <1>1
<1>3. DOMAIN r.edges = DOMAIN d.edges \ {e} /\ IsFunc(r.edges)
  BY <1>2 DEF Without, Restrict, IsFunc
<1>4. IsFiniteSet(DOMAIN r.edges)
  <2>1. IsFiniteSet(DOMAIN d.edges)
    BY DEF DbType
  <2> QED BY <1>3, <2>1, FS_Subset
<1>5. DbType(r)
  BY <1>2, <1>3, <1>4 DEF DbType
<1> QED BY <1>2, <1>5 DEF r

\* Every write of f_remove_edge keeps the types, and all of them together
\* leave what is in step in step.
LEMMA EdgeRemoved ==
  ASSUME NEW d, DbType(d), NEW e \in EdgeKeys
  PROVE  LET S == RemoveEdgeSteps(d, e)
             r == Last1(S)
         IN  /\ Len(S) \in Nat /\ \A i \in 1 .. Len(S) : DbType(S[i])
             /\ DbType(r) /\ r.nodes = d.nodes /\ r.edges = Without(d.edges, {e})
             /\ InStep(d) /\ e \in DOMAIN d.edges => InStep(r)
<1> DEFINE d1 == TakeEdge(d, e)
           d2 == CountE(d1, NotBelow0(d1.cnt.E - 1))
           d3 == IF e[2] = ">" THEN CountD(d2, NotBelow0(d2.cnt.D - 1)) ELSE d2
           d4 == WithoutEntry(d3, e[1], SourceEntry(e))
           d5 == WithoutEntry(d4, e[3], TargetEntry(e))
           S == RemoveEdgeSteps(d, e)
           r == Last1(S)
<1>1. S = <<d1, d2, d3, d4, d5>>
  BY DEF RemoveEdgeSteps, CountE, CountD, TakeEdge
<1> HIDE DEF S
<1>2. /\ e[1] \in Nodes /\ e[3] \in Nodes
      /\ SourceEntry(e) \in Entries /\ TargetEntry(e) \in Entries
  BY EdgeParts, EntriesOf
<1>3. d.cnt \in [N : Nat, E : Nat, D : Nat]
  BY DEF DbType
<1>4. /\ DbType(d1) /\ d1.nodes = d.nodes /\ d1.edges = Without(d.edges, {e})
      /\ d1.adj = d.adj /\ d1.cnt = d.cnt
  BY EdgeTaken
<1> HIDE DEF d1
<1>5. NotBelow0(d1.cnt.E - 1) = NotBelow0(d.cnt.E - 1) /\ NotBelow0(d.cnt.E - 1) \in Nat
  BY <1>3, <1>4, NotBelow0Is
<1>6. /\ DbType(d2) /\ d2.nodes = d.nodes /\ d2.edges = Without(d.edges, {e}) /\ d2.adj = d.adj
      /\ d2.cnt = [N |-> d.cnt.N, E |-> NotBelow0(d.cnt.E - 1), D |-> d.cnt.D]
  BY <1>4, <1>5, CountEWritten
<1> HIDE DEF d2
<1>7. NotBelow0(d2.cnt.D - 1) = NotBelow0(d.cnt.D - 1) /\ NotBelow0(d.cnt.D - 1) \in Nat
  BY <1>3, <1>6, NotBelow0Is
<1>8. /\ DbType(d3) /\ d3.nodes = d.nodes /\ d3.edges = Without(d.edges, {e}) /\ d3.adj = d.adj
      /\ d3.cnt = [N |-> d.cnt.N, E |-> NotBelow0(d.cnt.E - 1),
                   D |-> IF e[2] = ">" THEN NotBelow0(d.cnt.D - 1) ELSE d.cnt.D]
  <2>1. CASE e[2] = ">"
    BY <1>6, <1>7, <2>1, CountDWritten
  <2>2. CASE e[2] # ">"
    BY <1>6, <2>2
  <2> QED BY <2>1, <2>2
<1> HIDE DEF d3
<1>9. /\ DbType(d4) /\ d4.nodes = d.nodes /\ d4.edges = Without(d.edges, {e}) /\ d4.cnt = d3.cnt
      /\ AdjAt(d4, d3, e[1], GetAdj(d3, e[1]) \ {SourceEntry(e)})
  BY <1>2, <1>8, EntryTaken
<1> HIDE DEF d4
<1>10. /\ DbType(d5) /\ d5.nodes = d.nodes /\ d5.edges = Without(d.edges, {e}) /\ d5.cnt = d3.cnt
       /\ AdjAt(d5, d4, e[3], GetAdj(d4, e[3]) \ {TargetEntry(e)})
  BY <1>2, <1>9, EntryTaken
<1> HIDE DEF d5
<1>11. Len(S) \in Nat /\ (\A i \in 1 .. Len(S) : DbType(S[i])) /\ r = d5
  <2>1. Len(S) = 5 /\ \A i \in 1 .. 5 : DbType(S[i])
    BY <1>1, <1>4, <1>6, <1>8, <1>9, <1>10
  <2> QED BY <1>1, <2>1 DEF Last1
<1> HIDE DEF r
<1>12. ASSUME InStep(d), e \in DOMAIN d.edges
       PROVE  InStep(r)
  <2>1. /\ Aligned(d) /\ CountersRight(d) /\ EndsExist(d)
        /\ IsFiniteSet(DOMAIN d.edges) /\ DOMAIN d.edges \subseteq EdgeKeys
    BY <1>12 DEF InStep, DbType
  <2>2. DOMAIN r.edges = DOMAIN d.edges \ {e}
    BY <1>10, <1>11 DEF Without, Restrict
  <2>3. Aligned(r)
    <3>1. ASSUME NEW n \in Nodes, NEW x \in Entries
          PROVE  x \in GetAdj(r, n) <=> EdgeOf(n, x) \in DOMAIN r.edges
      <4>1. GetAdj(d3, n) = GetAdj(d, n)
        BY <1>8 DEF GetAdj
      <4>2. x \in GetAdj(r, n) <=> /\ x \in GetAdj(d, n)
                                   /\ ~(n = e[1] /\ x = SourceEntry(e))
                                   /\ ~(n = e[3] /\ x = TargetEntry(e))
        BY <1>9, <1>10, <1>11, <4>1 DEF AdjAt
      <4>3. x \in GetAdj(r, n) <=> x \in GetAdj(d, n) /\ EdgeOf(n, x) # e
        BY <4>2, EdgeOfIs
      <4>4. x \in GetAdj(d, n) <=> EdgeOf(n, x) \in DOMAIN d.edges
        BY <2>1 DEF Aligned
      <4> QED BY <2>2, <4>3, <4>4
    <3> QED BY <3>1 DEF Aligned
  <2>4. EndsExist(r)
    BY <1>10, <1>11, <2>1, <2>2 DEF EndsExist
  <2>5. CountersRight(r)
    <3>1. /\ d.cnt.N = Cardinality(DOMAIN d.nodes)
          /\ d.cnt.E = Cardinality(DOMAIN d.edges)
          /\ d.cnt.D = Cardinality(DirectedIn(DOMAIN d.edges))
      BY <2>1, CountersAre
    <3> DEFINE E == DOMAIN r.edges
    <3>2. IsFiniteSet(E) /\ e \notin E /\ DOMAIN d.edges = E \cup {e}
      BY <1>12, <2>1, <2>2, FS_RemoveElement
    <3> HIDE DEF E
    <3>3. /\ d.cnt.E = Cardinality(E) + 1 /\ Cardinality(E) \in Nat
          /\ d.cnt.D = Cardinality(DirectedIn(E)) + (IF e[2] = ">" THEN 1 ELSE 0)
          /\ Cardinality(DirectedIn(E)) \in Nat
      <4>1. /\ Cardinality(E \cup {e}) = Cardinality(E) + 1
            /\ Cardinality(DirectedIn(E \cup {e})) = Cardinality(DirectedIn(E)) + (IF e[2] = ">" THEN 1 ELSE 0)
            /\ Cardinality(E) \in Nat /\ Cardinality(DirectedIn(E)) \in Nat
        BY <3>2, OneMoreEdge
      <4> QED BY <3>1, <3>2, <4>1
    <3>4. NotBelow0(d.cnt.E - 1) = Cardinality(E)
      BY <3>3, NotBelow0Is
    <3>5. (IF e[2] = ">" THEN NotBelow0(d.cnt.D - 1) ELSE d.cnt.D) = Cardinality(DirectedIn(E))
      BY <3>3, NotBelow0Is
    <3>6. r.cnt = [N |-> d.cnt.N, E |-> Cardinality(E), D |-> Cardinality(DirectedIn(E))]
      BY <1>8, <1>10, <1>11, <3>4, <3>5
    <3>7. r.cnt.N = Cardinality(DOMAIN r.nodes)
      BY <1>10, <1>11, <3>1, <3>6
    <3> QED BY <3>6, <3>7, CountersAre DEF E
  <2> QED BY <1>10, <1>11, <2>3, <2>4, <2>5 DEF InStep
<1> QED BY <1>10, <1>11, <1>12 DEF r, S

-----------------------------------------------------------------------------
(* remove_node *)

LEMMA AdjPut ==
  ASSUME NEW d, DbType(d), NEW f, NEW S \in SUBSET Nodes,
         \A m \in S : f[m] \subseteq Entries
  PROVE  LET r == PutAdj(d, f, S)
         IN  /\ DbType(r) /\ r.nodes = d.nodes /\ r.edges = d.edges /\ r.cnt = d.cnt
             /\ DOMAIN r.adj = DOMAIN d.adj \cup S
             /\ \A m : GetAdj(r, m) = IF m \in S THEN f[m] ELSE GetAdj(d, m)
<1> DEFINE r == PutAdj(d, f, S)
           A == [m \in DOMAIN d.adj \cup S |-> IF m \in S THEN f[m] ELSE d.adj[m]]
<1>1. r = [nodes |-> d.nodes, edges |-> d.edges, adj |-> A, cnt |-> d.cnt]
  <2>1. r = [d EXCEPT !.adj = A]
    BY DEF PutAdj
  <2> HIDE DEF A, r
  <2> QED BY <2>1, SetParts
<1> HIDE DEF r
<1>2. /\ r.nodes = d.nodes /\ r.edges = d.edges /\ r.adj = A /\ r.cnt = d.cnt
      /\ r = [nodes |-> r.nodes, edges |-> r.edges, adj |-> r.adj, cnt |-> r.cnt]
  BY <1>1
<1>3. /\ DOMAIN r.adj = DOMAIN d.adj \cup S
      /\ \A m \in DOMAIN r.adj : r.adj[m] = IF m \in S THEN f[m] ELSE d.adj[m]
  BY <1>2
<1> HIDE DEF A
<1>4. DbType(r)
  BY <1>2, <1>3 DEF DbType
<1>5. ASSUME NEW m PROVE GetAdj(r, m) = IF m \in S THEN f[m] ELSE GetAdj(d, m)
  BY <1>3 DEF GetAdj
<1> QED BY <1>2, <1>3, <1>4, <1>5 DEF r

\* The loop has handled entries of the adjacency it read.
LEMMA EarlyAreEntries ==
  ASSUME NEW n, NEW view, NEW early \in EarlyEntries(n, view)
  PROVE  early \subseteq GetAdj(view, n)
<1> DEFINE X == GetAdj(view, n)
           writes == {x \in X : /\ x[2] \in DOMAIN view.adj
                                /\ Cleaned(view.adj, x[2], n) \notin {{}, view.adj[x[2]]}}
<1>1. EarlyEntries(n, view) =
        IF writes = {} THEN {X} ELSE {S \cup {x} : S \in SUBSET (X \ writes), x \in writes}
  BY DEF EarlyEntries
<1>2. writes \subseteq X
  OBVIOUS
<1> HIDE DEF writes, X
<1>3. CASE writes = {}
  BY <1>1, <1>3 DEF X
<1>4. CASE writes # {}
  <2>1. PICK S \in SUBSET (X \ writes), x \in writes : early = S \cup {x}
    BY <1>1, <1>4
  <2> QED BY <1>2, <2>1 DEF X
<1> QED BY <1>3, <1>4

PlanType(plan) ==
  /\ DOMAIN plan.put \in SUBSET Nodes
  /\ \A m \in DOMAIN plan.put : plan.put[m] \subseteq Entries

ViewType(view) == \A m \in DOMAIN view.adj : view.adj[m] \subseteq Entries

LEMMA PlanTyped ==
  ASSUME NEW d, DbType(d), NEW n \in Nodes, NEW view, ViewType(view), NEW early
  PROVE  PlanType(RemoveNodePlan(d, n, view, early))
<1> DEFINE X == GetAdj(view, n)
           seen(m) == IF m \in {x[2] : x \in early} THEN view.adj ELSE d.adj
           had == {m \in {x[2] : x \in X} : m \in DOMAIN seen(m)}
           put == {m \in had : Cleaned(seen(m), m, n) \notin {{}, seen(m)[m]}}
           plan == RemoveNodePlan(d, n, view, early)
<1>1. plan.put = [m \in put |-> Cleaned(seen(m), m, n)]
  BY DEF RemoveNodePlan
<1> HIDE DEF plan
<1>2. X \subseteq Entries
  BY DEF ViewType, GetAdj
<1>3. ASSUME NEW m \in had
      PROVE  m \in Nodes /\ Cleaned(seen(m), m, n) \subseteq Entries
  <2>1. PICK x \in X : m = x[2]
    OBVIOUS
  <2>2. m \in Nodes
    BY <1>2, <2>1, EntryParts
  <2>3. m \in DOMAIN seen(m)
    OBVIOUS
  <2>4. seen(m)[m] \subseteq Entries
    BY <2>3 DEF ViewType, DbType
  <2> HIDE DEF seen
  <2>5. Cleaned(seen(m), m, n) \subseteq seen(m)[m]
    BY DEF Cleaned
  <2> QED BY <2>2, <2>4, <2>5
<1>4. put \subseteq had
  OBVIOUS
<1> HIDE DEF put, had, seen
<1>5. DOMAIN plan.put = put /\ \A m \in put : plan.put[m] = Cleaned(seen(m), m, n)
  BY <1>1
<1> QED BY <1>3, <1>4, <1>5 DEF PlanType, plan

Around(d, n) == {e \in DOMAIN d.edges : e[1] = n \/ e[3] = n}

\* What is decided from a view that is still right when the lock is held:
\* the edges of n, and for every node the adjacency without n.
PlanRight(d, n, plan) ==
  /\ plan.nodes = {n} \cap DOMAIN d.nodes
  /\ plan.edges = Around(d, n)
  /\ plan.adj \subseteq DOMAIN d.adj
  /\ n \in DOMAIN d.adj => n \in plan.adj
  /\ DOMAIN plan.put \subseteq DOMAIN d.adj
  /\ \A m \in DOMAIN d.adj : m # n =>
       IF m \in plan.adj THEN Cleaned(d.adj, m, n) = {}
       ELSE IF m \in DOMAIN plan.put THEN plan.put[m] = Cleaned(d.adj, m, n)
       ELSE Cleaned(d.adj, m, n) = d.adj[m]

\* An entry and the entry of the same edge at its other end.
LEMMA OtherEnd ==
  ASSUME NEW d, InStep(d), NEW n \in Nodes, NEW m \in Nodes, NEW y \in GetAdj(d, m), y[2] = n
  PROVE  \E x \in GetAdj(d, n) : x[2] = m
<1>1. DbType(d) /\ Aligned(d) /\ DOMAIN d.edges \subseteq EdgeKeys
  BY DEF InStep, DbType
<1>2. y \in Entries
  BY <1>1, AdjType
<1>3. PICK e \in EdgeKeys : e = EdgeOf(m, y) /\ e \in DOMAIN d.edges
  BY <1>1, <1>2 DEF Aligned
<1>4. (m = e[1] /\ y = SourceEntry(e)) \/ (m = e[3] /\ y = TargetEntry(e))
  BY <1>2, <1>3, EdgeOfIs
<1>5. /\ SourceEntry(e) \in Entries /\ TargetEntry(e) \in Entries
      /\ SourceEntry(e)[2] = e[3] /\ TargetEntry(e)[2] = e[1]
  BY EntriesOf
<1>6. CASE m = e[1] /\ y = SourceEntry(e)
  <2>1. n = e[3]
    BY <1>5, <1>6
  <2>2. EdgeOf(n, TargetEntry(e)) = e
    BY <1>5, <2>1, EdgeOfIs
  <2>3. TargetEntry(e) \in GetAdj(d, n)
    BY <1>1, <1>3, <1>5, <2>2 DEF Aligned
  <2> QED BY <1>5, <1>6, <2>3
<1>7. CASE m = e[3] /\ y = TargetEntry(e)
  <2>1. n = e[1]
    BY <1>5, <1>7
  <2>2. EdgeOf(n, SourceEntry(e)) = e
    BY <1>5, <2>1, EdgeOfIs
  <2>3. SourceEntry(e) \in GetAdj(d, n)
    BY <1>1, <1>3, <1>5, <2>2 DEF Aligned
  <2> QED BY <1>5, <1>7, <2>3
<1> QED BY <1>4, <1>6, <1>7

LEMMA PlanIsRight ==
  ASSUME NEW d, InStep(d), NEW n \in Nodes,
         NEW early \in EarlyEntries(n, NodeView(d, n))
  PROVE  PlanRight(d, n, RemoveNodePlan(d, n, NodeView(d, n), early))
<1> DEFINE view == NodeView(d, n)
           around == {n} \cup {x[2] : x \in GetAdj(d, n)}
           X == GetAdj(d, n)
           names == {x[2] : x \in X}
           seen(m) == IF m \in {x[2] : x \in early} THEN view.adj ELSE d.adj
           had == {m \in names : m \in DOMAIN seen(m)}
           put == {m \in had : Cleaned(seen(m), m, n) \notin {{}, seen(m)[m]}}
           plan == RemoveNodePlan(d, n, view, early)
<1>1. DbType(d) /\ Aligned(d) /\ EndsExist(d) /\ DOMAIN d.edges \subseteq EdgeKeys
  BY DEF InStep, DbType
<1>2. /\ view.nodes = {n} \cap DOMAIN d.nodes
      /\ view.adj = Restrict(d.adj, around \cap DOMAIN d.adj)
      /\ view.edges = {EdgeOf(n, x) : x \in X} \cap DOMAIN d.edges
  BY DEF NodeView
<1>3. /\ DOMAIN view.adj = around \cap DOMAIN d.adj
      /\ \A m \in around \cap DOMAIN d.adj : view.adj[m] = d.adj[m]
  BY <1>2 DEF Restrict
<1>4. GetAdj(view, n) = X
  BY <1>3 DEF GetAdj
<1>5. early \subseteq X
  BY <1>4, EarlyAreEntries
<1>6. /\ plan.put = [m \in put |-> Cleaned(seen(m), m, n)]
      /\ plan.nodes = view.nodes
      /\ plan.adj = ({n} \cap DOMAIN view.adj) \cup {m \in had : Cleaned(seen(m), m, n) = {}}
      /\ plan.edges = ({EdgeOf(n, x) : x \in early} \cap view.edges) \cup
                      ({EdgeOf(n, x) : x \in X \ early} \cap DOMAIN d.edges)
  BY <1>4 DEF RemoveNodePlan
<1> HIDE DEF view, plan
<1>7. ASSUME NEW m \in names
      PROVE  /\ m \in DOMAIN seen(m) <=> m \in DOMAIN d.adj
             /\ m \in DOMAIN d.adj => /\ seen(m)[m] = d.adj[m]
                                      /\ Cleaned(seen(m), m, n) = Cleaned(d.adj, m, n)
  <2>1. m \in around
    OBVIOUS
  <2> HIDE DEF around, names, X
  <2>2. m \in DOMAIN view.adj <=> m \in DOMAIN d.adj
    BY <1>3, <2>1
  <2>3. m \in DOMAIN d.adj => view.adj[m] = d.adj[m]
    BY <1>3, <2>1
  <2>4. m \in DOMAIN seen(m) <=> m \in DOMAIN d.adj
    BY <2>2
  <2>5. m \in DOMAIN d.adj => seen(m)[m] = d.adj[m]
    BY <2>3
  <2> HIDE DEF seen
  <2> QED BY <2>4, <2>5 DEF Cleaned
<1>8. had = names \cap DOMAIN d.adj
  BY <1>7
<1>9. /\ DOMAIN plan.put = put /\ put \subseteq had
      /\ \A m \in put : plan.put[m] = Cleaned(d.adj, m, n)
  <2>1. put \subseteq had /\ had \subseteq names
    OBVIOUS
  <2> HIDE DEF put, had, seen, names
  <2> QED BY <1>6, <1>7, <1>8, <2>1
<1>10. ASSUME NEW m \in had
       PROVE  \/ Cleaned(d.adj, m, n) = {} \/ Cleaned(d.adj, m, n) = d.adj[m] \/ m \in put
  BY <1>7, <1>8
<1>11. plan.adj = ({n} \cap DOMAIN d.adj) \cup {m \in had : Cleaned(d.adj, m, n) = {}}
  <2>1. n \in around
    OBVIOUS
  <2>2. \A m \in had : Cleaned(seen(m), m, n) = Cleaned(d.adj, m, n)
    BY <1>7, <1>8
  <2> HIDE DEF had, seen, around
  <2> QED BY <1>3, <1>6, <2>1, <2>2
<1>12. plan.edges = Around(d, n)
  <2>1. plan.edges = {EdgeOf(n, x) : x \in X} \cap DOMAIN d.edges
    BY <1>2, <1>5, <1>6
  <2>2. ASSUME NEW e \in DOMAIN d.edges
        PROVE  (\E x \in X : EdgeOf(n, x) = e) <=> (e[1] = n \/ e[3] = n)
    <3>1. e \in EdgeKeys
      BY <1>1
    <3>2. X \subseteq Entries
      BY <1>1, AdjType
    <3>3. SourceEntry(e) \in Entries /\ TargetEntry(e) \in Entries
      BY <3>1, EntriesOf
    <3>4. e[1] = n => EdgeOf(n, SourceEntry(e)) = e
      BY <3>1, <3>3, EdgeOfIs
    <3>5. e[3] = n => EdgeOf(n, TargetEntry(e)) = e
      BY <3>1, <3>3, EdgeOfIs
    <3>6. (e[1] = n => SourceEntry(e) \in X) /\ (e[3] = n => TargetEntry(e) \in X)
      BY <1>1, <3>3, <3>4, <3>5 DEF Aligned
    <3>7. \A x \in X : EdgeOf(n, x) = e => e[1] = n \/ e[3] = n
      BY <3>1, <3>2, EdgeOfIs
    <3> QED BY <3>4, <3>5, <3>6, <3>7
  <2> QED BY <2>1, <2>2 DEF Around
<1>13. ASSUME NEW m \in DOMAIN d.adj, m \notin names
       PROVE  Cleaned(d.adj, m, n) = d.adj[m]
  <2>1. m \in Nodes /\ GetAdj(d, m) = d.adj[m]
    BY <1>1 DEF DbType, GetAdj
  <2>2. ASSUME NEW y \in d.adj[m], y[2] = n PROVE FALSE
    BY <1>13, <2>1, <2>2, OtherEnd
  <2> QED BY <2>2 DEF Cleaned
<1>14. ASSUME NEW m \in DOMAIN d.adj, m # n
       PROVE  IF m \in plan.adj THEN Cleaned(d.adj, m, n) = {}
              ELSE IF m \in DOMAIN plan.put THEN plan.put[m] = Cleaned(d.adj, m, n)
              ELSE Cleaned(d.adj, m, n) = d.adj[m]
  <2> HIDE DEF put, names, had
  <2> QED BY <1>8, <1>9, <1>10, <1>11, <1>13, <1>14
<1>15. plan.adj \subseteq DOMAIN d.adj /\ DOMAIN plan.put \subseteq DOMAIN d.adj
  BY <1>8, <1>9, <1>11
<1> QED BY <1>2, <1>6, <1>11, <1>12, <1>14, <1>15 DEF PlanRight, plan, view

\* The keys are there: the end of f_remove_node.
LEMMA NodeRemoved ==
  ASSUME NEW d, DbType(d), NEW plan, PlanType(plan),
         AllThere(PutAdj(d, plan.put, DOMAIN plan.put), plan)
  PROVE  LET d1 == PutAdj(d, plan.put, DOMAIN plan.put)
             d2 == DeleteKeys(d1, plan.nodes, plan.adj, plan.edges)
             r == RemoveNodeDone(d, plan)
         IN  /\ DbType(r) /\ r.nodes = d2.nodes /\ r.edges = d2.edges /\ r.adj = d2.adj
             /\ r.cnt = [N |-> NotBelow0(d.cnt.N - Cardinality(plan.nodes)),
                         E |-> NotBelow0(d.cnt.E - Cardinality(plan.edges)),
                         D |-> NotBelow0(d.cnt.D - Cardinality(DirectedIn(plan.edges)))]
<1> DEFINE d1 == PutAdj(d, plan.put, DOMAIN plan.put)
           d2 == DeleteKeys(d1, plan.nodes, plan.adj, plan.edges)
           r == RemoveNodeDone(d, plan)
           c == [N |-> NotBelow0(d2.cnt.N - Cardinality(plan.nodes)),
                 E |-> NotBelow0(d2.cnt.E - Cardinality(plan.edges)),
                 D |-> NotBelow0(d2.cnt.D - Cardinality(DirectedIn(plan.edges)))]
<1>1. r = [d2 EXCEPT !.cnt = c]
  BY DEF RemoveNodeDone, DirectedIn
<1>2. /\ DbType(d1) /\ d1.nodes = d.nodes /\ d1.edges = d.edges /\ d1.cnt = d.cnt
  BY AdjPut DEF PlanType
<1>3. plan.nodes \subseteq DOMAIN d.nodes /\ plan.edges \subseteq DOMAIN d.edges
  BY <1>2 DEF AllThere
<1> HIDE DEF d1
<1>4. DbType(d2) /\ d2.cnt = d.cnt
  BY <1>2, KeysDeleted
<1> HIDE DEF d2, r
<1>5. /\ Cardinality(plan.nodes) \in Nat /\ Cardinality(plan.edges) \in Nat
      /\ Cardinality(DirectedIn(plan.edges)) \in Nat
  <2>1. IsFiniteSet(DOMAIN d.nodes) /\ IsFiniteSet(DOMAIN d.edges)
    BY DEF DbType
  <2>2. IsFiniteSet(plan.nodes) /\ IsFiniteSet(plan.edges)
    BY <1>3, <2>1, FS_Subset
  <2>3. IsFiniteSet(DirectedIn(plan.edges))
    BY <2>2, FS_Subset DEF DirectedIn
  <2> QED BY <2>2, <2>3, FS_CardinalityType
<1>6. d.cnt \in [N : Nat, E : Nat, D : Nat]
  BY DEF DbType
<1>7. c \in [N : Nat, E : Nat, D : Nat]
  <2>1. /\ d2.cnt.N - Cardinality(plan.nodes) \in Int
        /\ d2.cnt.E - Cardinality(plan.edges) \in Int
        /\ d2.cnt.D - Cardinality(DirectedIn(plan.edges)) \in Int
    BY <1>4, <1>5, <1>6
  <2>2. /\ NotBelow0(d2.cnt.N - Cardinality(plan.nodes)) \in Nat
        /\ NotBelow0(d2.cnt.E - Cardinality(plan.edges)) \in Nat
        /\ NotBelow0(d2.cnt.D - Cardinality(DirectedIn(plan.edges))) \in Nat
    BY <2>1, NotBelow0Is
  <2> QED BY <2>2
<1>8. c = [N |-> NotBelow0(d.cnt.N - Cardinality(plan.nodes)),
           E |-> NotBelow0(d.cnt.E - Cardinality(plan.edges)),
           D |-> NotBelow0(d.cnt.D - Cardinality(DirectedIn(plan.edges)))]
  BY <1>4
<1> HIDE DEF c
<1>9. r = [nodes |-> d2.nodes, edges |-> d2.edges, adj |-> d2.adj, cnt |-> c]
  BY <1>1, <1>4, SetParts
<1>10. /\ r.nodes = d2.nodes /\ r.edges = d2.edges /\ r.adj = d2.adj /\ r.cnt = c
       /\ r = [nodes |-> r.nodes, edges |-> r.edges, adj |-> r.adj, cnt |-> r.cnt]
  BY <1>9
<1>11. DbType(r)
  BY <1>4, <1>7, <1>10 DEF DbType
<1> QED BY <1>8, <1>10, <1>11 DEF r, d1, d2

\* remove_node takes out the node and exactly its edges.
LEMMA NodeRemovedRight ==
  ASSUME NEW d, InStep(d), NEW n \in Nodes, NEW plan, PlanType(plan), PlanRight(d, n, plan)
  PROVE  LET r == RemoveNodeDone(d, plan)
         IN  /\ AllThere(PutAdj(d, plan.put, DOMAIN plan.put), plan)
             /\ InStep(r)
             /\ r.nodes = Without(d.nodes, {n}) /\ r.edges = Without(d.edges, Around(d, n))
<1> DEFINE d1 == PutAdj(d, plan.put, DOMAIN plan.put)
           d2 == DeleteKeys(d1, plan.nodes, plan.adj, plan.edges)
           r == RemoveNodeDone(d, plan)
<1>1. /\ DbType(d) /\ Aligned(d) /\ CountersRight(d) /\ EndsExist(d)
      /\ IsFiniteSet(DOMAIN d.nodes) /\ IsFiniteSet(DOMAIN d.edges)
      /\ DOMAIN d.edges \subseteq EdgeKeys /\ d.cnt \in [N : Nat, E : Nat, D : Nat]
  BY DEF InStep, DbType
<1>2. /\ DbType(d1) /\ d1.nodes = d.nodes /\ d1.edges = d.edges /\ d1.cnt = d.cnt
      /\ DOMAIN d1.adj = DOMAIN d.adj \cup DOMAIN plan.put
      /\ \A m : GetAdj(d1, m) = IF m \in DOMAIN plan.put THEN plan.put[m] ELSE GetAdj(d, m)
  BY <1>1, AdjPut DEF PlanType
<1>3. Around(d, n) \subseteq DOMAIN d.edges
  BY DEF Around
<1>4. AllThere(d1, plan)
  BY <1>2, <1>3 DEF AllThere, PlanRight
<1>5. /\ DbType(r) /\ r.nodes = d2.nodes /\ r.edges = d2.edges /\ r.adj = d2.adj
      /\ r.cnt = [N |-> NotBelow0(d.cnt.N - Cardinality(plan.nodes)),
                  E |-> NotBelow0(d.cnt.E - Cardinality(plan.edges)),
                  D |-> NotBelow0(d.cnt.D - Cardinality(DirectedIn(plan.edges)))]
  BY <1>1, <1>4, NodeRemoved
<1> HIDE DEF d1
<1>6. /\ d2.nodes = Without(d1.nodes, plan.nodes) /\ d2.edges = Without(d1.edges, plan.edges)
      /\ \A m : GetAdj(d2, m) = IF m \in plan.adj THEN {} ELSE GetAdj(d1, m)
  BY <1>2, KeysDeleted
<1> HIDE DEF d2, r
<1>7. plan.nodes = {n} \cap DOMAIN d.nodes /\ plan.edges = Around(d, n)
  BY DEF PlanRight
<1>8. /\ r.nodes = Without(d.nodes, plan.nodes) /\ r.edges = Without(d.edges, Around(d, n))
      /\ DOMAIN r.nodes = DOMAIN d.nodes \ {n}
      /\ DOMAIN r.edges = DOMAIN d.edges \ Around(d, n)
  BY <1>2, <1>5, <1>6, <1>7 DEF Without, Restrict
<1>9. r.nodes = Without(d.nodes, {n})
  <2>1. DOMAIN d.nodes \ plan.nodes = DOMAIN d.nodes \ {n}
    BY <1>7
  <2> QED BY <1>8, <2>1 DEF Without
<1>10. ASSUME NEW m \in Nodes
       PROVE  GetAdj(r, m) = IF m = n THEN {} ELSE {y \in GetAdj(d, m) : y[2] # n}
  <2>1. GetAdj(r, m) = GetAdj(d2, m)
    BY <1>5 DEF GetAdj
  <2>2. m \notin DOMAIN d.adj => GetAdj(d, m) = {} /\ m \notin DOMAIN plan.put
    BY DEF GetAdj, PlanRight
  <2>3. CASE m \notin DOMAIN d.adj
    BY <1>2, <1>6, <2>1, <2>2, <2>3
  <2>4. CASE m \in DOMAIN d.adj /\ m = n
    BY <1>6, <2>1, <2>4 DEF PlanRight
  <2>5. CASE m \in DOMAIN d.adj /\ m # n
    <3>1. GetAdj(d, m) = d.adj[m] /\ Cleaned(d.adj, m, n) = {y \in GetAdj(d, m) : y[2] # n}
      BY <2>5 DEF GetAdj, Cleaned
    <3>2. IF m \in plan.adj THEN Cleaned(d.adj, m, n) = {}
          ELSE IF m \in DOMAIN plan.put THEN plan.put[m] = Cleaned(d.adj, m, n)
          ELSE Cleaned(d.adj, m, n) = d.adj[m]
      BY <2>5 DEF PlanRight
    <3> QED BY <1>2, <1>6, <2>1, <2>5, <3>1, <3>2
  <2> QED BY <2>3, <2>4, <2>5
<1>11. Aligned(r)
  <2>1. ASSUME NEW m \in Nodes, NEW x \in Entries
        PROVE  x \in GetAdj(r, m) <=> EdgeOf(m, x) \in DOMAIN r.edges
    <3>1. x \in GetAdj(d, m) <=> EdgeOf(m, x) \in DOMAIN d.edges
      BY <1>1 DEF Aligned
    <3>2. ASSUME NEW e \in DOMAIN d.edges, e = EdgeOf(m, x)
          PROVE  e \in Around(d, n) <=> m = n \/ x[2] = n
      <4>1. e \in EdgeKeys
        BY <1>1
      <4>2. (m = e[1] /\ x = SourceEntry(e)) \/ (m = e[3] /\ x = TargetEntry(e))
        BY <3>2, <4>1, EdgeOfIs
      <4>3. SourceEntry(e)[2] = e[3] /\ TargetEntry(e)[2] = e[1]
        BY <4>1, EntriesOf
      <4> QED BY <4>2, <4>3 DEF Around
    <3> QED BY <1>8, <1>10, <3>1, <3>2
  <2> QED BY <2>1 DEF Aligned
<1>12. EndsExist(r)
  BY <1>1, <1>8 DEF EndsExist, Around
<1>13. CountersRight(r)
  <2>1. /\ d.cnt.N = Cardinality(DOMAIN d.nodes)
        /\ d.cnt.E = Cardinality(DOMAIN d.edges)
        /\ d.cnt.D = Cardinality(DirectedIn(DOMAIN d.edges))
    BY <1>1, CountersAre
  <2>2. Cardinality(DOMAIN r.nodes) = d.cnt.N - Cardinality(plan.nodes) /\ Cardinality(DOMAIN r.nodes) \in Nat
    <3>1. /\ IsFiniteSet(DOMAIN d.nodes \ {n})
          /\ Cardinality(DOMAIN d.nodes \ {n}) = Cardinality(DOMAIN d.nodes) - Cardinality(DOMAIN d.nodes \cap {n})
      BY <1>1, FS_Difference
    <3>2. Cardinality(DOMAIN d.nodes \ {n}) \in Nat
      BY <3>1, FS_CardinalityType
    <3>3. DOMAIN d.nodes \cap {n} = plan.nodes
      BY <1>7
    <3> QED BY <1>8, <2>1, <3>1, <3>2, <3>3
  <2>3. /\ Cardinality(DOMAIN r.edges) = d.cnt.E - Cardinality(plan.edges)
        /\ Cardinality(DirectedIn(DOMAIN r.edges)) = d.cnt.D - Cardinality(DirectedIn(plan.edges))
        /\ Cardinality(DOMAIN r.edges) \in Nat /\ Cardinality(DirectedIn(DOMAIN r.edges)) \in Nat
    <3> DEFINE E == DOMAIN d.edges
               F == Around(d, n)
    <3>1. IsFiniteSet(E) /\ F \subseteq E
      BY <1>1, <1>3
    <3> HIDE DEF E, F
    <3>2. /\ Cardinality(E \ F) = Cardinality(E) - Cardinality(F)
          /\ Cardinality(DirectedIn(E \ F)) = Cardinality(DirectedIn(E)) - Cardinality(DirectedIn(F))
          /\ Cardinality(E \ F) \in Nat /\ Cardinality(DirectedIn(E \ F)) \in Nat
      BY <3>1, FewerEdges
    <3> QED BY <1>7, <1>8, <2>1, <3>2 DEF E, F
  <2>4. /\ NotBelow0(d.cnt.N - Cardinality(plan.nodes)) = Cardinality(DOMAIN r.nodes)
        /\ NotBelow0(d.cnt.E - Cardinality(plan.edges)) = Cardinality(DOMAIN r.edges)
        /\ NotBelow0(d.cnt.D - Cardinality(DirectedIn(plan.edges))) = Cardinality(DirectedIn(DOMAIN r.edges))
    BY <2>2, <2>3, NotBelow0Is
  <2> QED BY <1>5, <2>4, CountersAre
<1> QED BY <1>4, <1>5, <1>8, <1>9, <1>11, <1>12, <1>13 DEF InStep, r, d1

-----------------------------------------------------------------------------
(* reindex *)

Kept(d) == {e \in DOMAIN d.edges : HasNode(d, e[1]) /\ HasNode(d, e[3])}

LEMMA ReindexRight ==
  ASSUME NEW d, DbType(d)
  PROVE  LET r == Reindexed(d)
         IN  InStep(r) /\ r.nodes = d.nodes /\ r.edges = Restrict(d.edges, Kept(d))
<1> DEFINE kept == Kept(d)
           ends == UNION {{e[1], e[3]} : e \in kept}
           at(n) == {SourceEntry(e) : e \in {f \in kept : f[1] = n}} \cup
                    {TargetEntry(e) : e \in {f \in kept : f[3] = n}}
           A == [n \in ends |-> at(n)]
           c == [N |-> Cardinality(DOMAIN d.nodes), E |-> Cardinality(kept),
                 D |-> Cardinality(DirectedIn(kept))]
           r == Reindexed(d)
<1>1. r = [nodes |-> d.nodes, edges |-> Restrict(d.edges, kept), adj |-> A, cnt |-> c]
  BY DEF Reindexed, Kept, DirectedIn
<1> HIDE DEF r
<1>2. /\ r.nodes = d.nodes /\ r.edges = Restrict(d.edges, kept) /\ r.adj = A /\ r.cnt = c
      /\ r = [nodes |-> r.nodes, edges |-> r.edges, adj |-> r.adj, cnt |-> r.cnt]
  BY <1>1
<1>3. /\ kept \subseteq DOMAIN d.edges /\ DOMAIN d.edges \subseteq EdgeKeys
      /\ IsFiniteSet(DOMAIN d.edges) /\ IsFiniteSet(DOMAIN d.nodes)
  BY DEF DbType, Kept
<1>4. DOMAIN r.edges = kept /\ IsFunc(r.edges)
  BY <1>2 DEF Restrict, IsFunc
<1>5. IsFiniteSet(kept) /\ IsFiniteSet(DirectedIn(kept))
  BY <1>3, FS_Subset DEF DirectedIn
<1>6. c \in [N : Nat, E : Nat, D : Nat]
  <2>1. /\ Cardinality(DOMAIN d.nodes) \in Nat /\ Cardinality(kept) \in Nat
        /\ Cardinality(DirectedIn(kept)) \in Nat
    BY <1>3, <1>5, FS_CardinalityType
  <2> HIDE DEF kept
  <2> QED BY <2>1
<1>7. \A n : at(n) = Expected(r, n)
  BY <1>4 DEF Expected
<1>8. ASSUME NEW n \in ends PROVE n \in Nodes /\ at(n) \subseteq Entries
  <2>1. PICK e \in kept : n = e[1] \/ n = e[3]
    OBVIOUS
  <2>2. \A f \in kept : f \in EdgeKeys
    BY <1>3
  <2>3. n \in Nodes
    BY <2>1, <2>2, EdgeParts
  <2>4. \A f \in kept : SourceEntry(f) \in Entries /\ TargetEntry(f) \in Entries
    BY <2>2, EntriesOf
  <2> QED BY <2>3, <2>4
<1>9. DOMAIN r.adj = ends /\ \A n \in ends : r.adj[n] = at(n)
  BY <1>2
<1>10. DbType(r)
  <2> HIDE DEF kept, ends, at, A, c
  <2>1. DOMAIN r.edges \subseteq EdgeKeys
    BY <1>3, <1>4
  <2> QED BY <1>2, <1>4, <1>5, <1>6, <1>8, <1>9, <2>1 DEF DbType
<1>11. ASSUME NEW n \in Nodes PROVE GetAdj(r, n) = Expected(r, n)
  <2>1. CASE n \in ends
    BY <1>7, <1>9, <2>1 DEF GetAdj
  <2>2. CASE n \notin ends
    <3>1. at(n) = {}
      BY <2>2
    <3> QED BY <1>7, <1>9, <2>2, <3>1 DEF GetAdj
  <2> QED BY <2>1, <2>2
<1>12. Aligned(r)
  BY <1>10, <1>11, ExpectedIs DEF Aligned
<1>13. EndsExist(r)
  BY <1>2, <1>4 DEF EndsExist, Kept, HasNode
<1>14. CountersRight(r)
  <2> HIDE DEF kept
  <2>1. /\ r.cnt.N = Cardinality(DOMAIN d.nodes) /\ r.cnt.E = Cardinality(kept)
        /\ r.cnt.D = Cardinality(DirectedIn(kept))
    BY <1>2
  <2> QED BY <1>2, <1>4, <2>1, CountersAre
<1> QED BY <1>2, <1>10, <1>12, <1>13, <1>14 DEF InStep, r

-----------------------------------------------------------------------------
(* The invariant *)

Good == DbType(db) /\ drift \in Nat /\ (drift = 0 => InStep(db))

PendType == pend = [h \in Handles |-> pend[h]] /\ \A h \in Handles : CallType(pend[h])

DbInv == Good /\ PendType /\ faults \in 0 .. MaxFaults

\* A call has the types it needs, and read what is there.
LEMMA CallsTyped ==
  ASSUME DbType(db), NEW c \in Calls
  PROVE  CallType(c) /\ ~Overwrites(c)
<1>1. CASE c \in AddNodeCalls
  <2>1. PICK n \in Nodes, p \in NodeProps :
          c = [op |-> "add_node", node |-> n, props |-> p, was |-> HasNode(db, n),
               old |-> IF HasNode(db, n) THEN db.nodes[n] ELSE NoProps]
    BY <1>1 DEF AddNodeCalls
  <2>2. /\ c.op = "add_node" /\ c.node = n /\ c.props = p
        /\ c.was = HasNode(db, n)
        /\ c.old = IF HasNode(db, n) THEN db.nodes[n] ELSE NoProps
    BY <2>1
  <2>3. CallType(c)
    BY <2>2 DEF CallType
  <2>4. ~Overwrites(c)
    BY <2>2 DEF Overwrites
  <2> QED BY <2>3, <2>4
<1>2. CASE c \in AddEdgeCalls
  <2>1. PICK e \in UsedEdges, p \in EdgeProps :
          c = [op |-> "add_edge", edge |-> e, props |-> p, was |-> HasEdge(db, e),
               old |-> IF HasEdge(db, e) THEN db.edges[e] ELSE NoProps]
    BY <1>2 DEF AddEdgeCalls
  <2>2. /\ c.op = "add_edge" /\ c.edge = e /\ c.props = p
        /\ c.was = HasEdge(db, e)
        /\ c.old = IF HasEdge(db, e) THEN db.edges[e] ELSE NoProps
    BY <2>1
  <2>3. e \in EdgeKeys
    BY GraphAssumption
  <2>4. CallType(c)
    BY <2>2, <2>3 DEF CallType
  <2>5. ~Overwrites(c)
    BY <2>2 DEF Overwrites
  <2> QED BY <2>4, <2>5
<1>3. CASE c \in RemoveEdgeCalls
  <2>1. PICK e \in DOMAIN db.edges : c = [op |-> "remove_edge", edge |-> e]
    BY <1>3 DEF RemoveEdgeCalls
  <2>2. e \in EdgeKeys /\ c.op = "remove_edge" /\ c.edge = e
    BY <2>1 DEF DbType
  <2> QED BY <2>2 DEF CallType, Overwrites
<1>4. CASE c \in RemoveNodeCalls
  <2>1. PICK n \in DOMAIN db.nodes \cup DOMAIN db.adj :
          c = [op |-> "remove_node", node |-> n, view |-> NodeView(db, n)]
    BY <1>4 DEF RemoveNodeCalls
  <2>2. n \in Nodes /\ c.op = "remove_node" /\ c.node = n /\ c.view = NodeView(db, n)
    BY <2>1 DEF DbType
  <2> DEFINE S == ({n} \cup {x[2] : x \in GetAdj(db, n)}) \cap DOMAIN db.adj
  <2>3. S \subseteq DOMAIN db.adj /\ c.view.adj = Restrict(db.adj, S)
    <3>1. NodeView(db, n).adj = Restrict(db.adj, S)
      BY Zenon DEF NodeView
    <3> QED BY <2>2, <3>1
  <2> HIDE DEF S
  <2>4. \A m \in DOMAIN c.view.adj : c.view.adj[m] \subseteq Entries
    BY <2>3 DEF Restrict, DbType
  <2> QED BY <2>2, <2>4 DEF CallType, Overwrites
<1> QED BY <1>1, <1>2, <1>3, <1>4 DEF Calls

\* What the call c does to the graph: a step of Graph, or it writes over the
\* properties another handle has changed.
GraphStep(c) ==
  drift = 0 /\ drift' = 0 => G!Next \/ UNCHANGED G!gvars \/ Overwrites(c)

LEMMA AddNodeKeeps ==
  ASSUME Good, NEW c, CallType(c), AddNode(c)
  PROVE  Good' /\ GraphStep(c)
<1>1. /\ c.op = "add_node" /\ c.node \in Nodes /\ c.props \in NodeProps
      /\ DbType(db) /\ drift \in Nat /\ (drift = 0 => InStep(db))
      /\ db' = NodeAfter(db, c)
      /\ drift' = Drifted(c.was # HasNode(db, c.node))
  BY DEF Good, CallType, AddNode, NodeAfter
<1>2. /\ DbType(db') /\ db'.nodes = Set(db.nodes, c.node, Value(c)) /\ db'.edges = db.edges
      /\ InStep(db) /\ SameTest(c.was, HasNode(db, c.node)) => InStep(db')
  BY <1>1, NodeAdded
<1>3. drift' \in Nat
  BY <1>1 DEF Drifted
<1>4. ASSUME drift' = 0
      PROVE  drift = 0 /\ SameTest(c.was, HasNode(db, c.node))
  BY <1>1, <1>4 DEF Drifted, SameTest
<1>5. Good'
  BY <1>1, <1>2, <1>3, <1>4 DEF Good
<1>6. ASSUME drift' = 0 PROVE G!Next \/ Overwrites(c)
  <2>1. CASE c.node \notin DOMAIN db.nodes
    <3>1. Value(c) = c.props
      BY <1>4, <1>6, <2>1 DEF SameTest, HasNode, Value
    <3>2. db.nodes' = G!Upsert(db.nodes, c.node, c.props)
      BY <1>2, <2>1, <3>1 DEF G!Upsert, G!Set, Set
    <3>3. G!AddNode(c.node, c.props)
      BY <1>2, <3>2 DEF G!AddNode
    <3> QED BY <1>1, <3>3 DEF G!Next
  <2>2. CASE c.node \in DOMAIN db.nodes
    <3>1. c.was /\ Value(c) = Merge(c.old, c.props)
      BY <1>4, <1>6, <2>2 DEF SameTest, HasNode, Value
    <3>2. CASE db.nodes[c.node] = c.old
      <4>1. G!Merge(db.nodes[c.node], c.props) = Value(c)
        BY <3>1, <3>2 DEF G!Merge, Merge
      <4>2. db.nodes' = G!Upsert(db.nodes, c.node, c.props)
        BY <1>2, <2>2, <4>1 DEF G!Upsert, G!Set, Set
      <4>3. G!AddNode(c.node, c.props)
        BY <1>2, <4>2 DEF G!AddNode
      <4> QED BY <1>1, <4>3 DEF G!Next
    <3>3. CASE db.nodes[c.node] # c.old
      <4>1. AddNodeSteps(db, c.node, c.was, Value(c)) = <<PutNode(db, c.node, Value(c))>>
        BY <3>1 DEF AddNodeSteps, PutNode
      <4>2. db' = PutNode(db, c.node, Value(c))
        BY <1>1, <4>1 DEF NodeAfter, Last1
      <4> QED BY <1>1, <2>2, <3>1, <3>3, <4>2 DEF Overwrites, HasNode, PutNode
    <3> QED BY <3>2, <3>3
  <2> QED BY <2>1, <2>2
<1> QED BY <1>5, <1>6 DEF GraphStep

LEMMA AddEdgeKeeps ==
  ASSUME Good, NEW c, CallType(c), AddEdge(c)
  PROVE  Good' /\ GraphStep(c)
<1>1. /\ c.op = "add_edge" /\ c.edge \in EdgeKeys /\ c.props \in EdgeProps
      /\ DbType(db) /\ drift \in Nat /\ (drift = 0 => InStep(db))
      /\ db' = IF c.was THEN PutEdge(db, c.edge, Value(c))
               ELSE Last1(AddEdgeSteps(db, c.edge, Value(c)))
      /\ drift' = Drifted(c.was # HasEdge(db, c.edge))
  BY DEF Good, CallType, AddEdge, PutEdge
<1>2. drift' \in Nat
  BY <1>1 DEF Drifted
<1>3. ASSUME drift' = 0
      PROVE  drift = 0 /\ SameTest(c.was, HasEdge(db, c.edge))
  BY <1>1, <1>3 DEF Drifted, SameTest
<1>4. CASE c.was
  <2>1. db' = PutEdge(db, c.edge, Value(c)) /\ Value(c) = Merge(c.old, c.props)
    BY <1>1, <1>4 DEF Value
  <2>2. DbType(db') /\ db'.nodes = db.nodes /\ db'.edges = Set(db.edges, c.edge, Value(c))
    BY <1>1, <2>1, EdgesWritten
  <2>3. ASSUME drift' = 0 PROVE InStep(db') /\ (G!Next \/ Overwrites(c))
    <3>1. InStep(db) /\ c.edge \in DOMAIN db.edges
      BY <1>1, <1>3, <1>4, <2>3 DEF SameTest, HasEdge
    <3>2. InStep(db')
      BY <2>1, <3>1, EdgeRewritten
    <3>3. CASE db.edges[c.edge] # c.old
      <4>1. db' = [db EXCEPT !.edges = Set(@, c.edge, Merge(c.old, c.props))]
        BY <2>1 DEF PutEdge
      <4> QED BY <1>1, <1>4, <3>1, <3>2, <3>3, <4>1 DEF Overwrites, HasEdge
    <3>4. CASE db.edges[c.edge] = c.old
      <4>1. /\ c.edge[1] \in DOMAIN db.nodes /\ c.edge[3] \in DOMAIN db.nodes
            /\ IsFunc(db.nodes)
        BY <3>1 DEF InStep, DbType, EndsExist
      <4>2. db.nodes' = G!Fill(db.nodes, G!Ends(c.edge))
        <5>1. G!Fill(db.nodes, G!Ends(c.edge)) = [x \in DOMAIN db.nodes |-> db.nodes[x]]
          BY <4>1 DEF G!Fill, G!Ends
        <5> QED BY <2>2, <4>1, <5>1 DEF IsFunc
      <4>3. db.edges' = G!Upsert(db.edges, c.edge, c.props)
        <5>1. G!Merge(db.edges[c.edge], c.props) = Value(c)
          BY <2>1, <3>4 DEF G!Merge, Merge
        <5> QED BY <2>2, <3>1, <5>1 DEF G!Upsert, G!Set, Set
      <4>4. G!AddEdge(c.edge, c.props)
        BY <4>2, <4>3 DEF G!AddEdge
      <4> QED BY <1>1, <3>2, <4>4 DEF G!Next, G!EdgeKeys, EdgeKeys
    <3> QED BY <3>3, <3>4
  <2> QED BY <1>2, <2>2, <2>3 DEF Good, GraphStep
<1>5. CASE ~c.was
  <2>1. db' = Last1(AddEdgeSteps(db, c.edge, c.props))
    BY <1>1, <1>5 DEF Value
  <2>2. /\ DbType(db') /\ db'.nodes = BothEnds(db.nodes, c.edge)
        /\ db'.edges = Set(db.edges, c.edge, c.props)
        /\ InStep(db) /\ c.edge \notin DOMAIN db.edges => InStep(db')
    BY <1>1, <2>1, EdgeAdded
  <2>3. ASSUME drift' = 0 PROVE InStep(db') /\ G!Next
    <3>1. InStep(db) /\ c.edge \notin DOMAIN db.edges
      BY <1>1, <1>3, <1>5, <2>3 DEF SameTest, HasEdge
    <3>2. db.nodes' = G!Fill(db.nodes, G!Ends(c.edge))
      BY <2>2 DEF G!Fill, G!Ends, BothEnds, NoProps, G!NoProps
    <3>3. db.edges' = G!Upsert(db.edges, c.edge, c.props)
      BY <2>2, <3>1 DEF G!Upsert, G!Set, Set
    <3>4. G!AddEdge(c.edge, c.props)
      BY <3>2, <3>3 DEF G!AddEdge
    <3> QED BY <1>1, <2>2, <3>1, <3>4 DEF G!Next, G!EdgeKeys, EdgeKeys
  <2> QED BY <1>2, <2>2, <2>3 DEF Good, GraphStep
<1> QED BY <1>4, <1>5

LEMMA RemoveEdgeKeeps ==
  ASSUME Good, NEW c, CallType(c), RemoveEdge(c)
  PROVE  Good' /\ GraphStep(c)
<1>1. /\ c.edge \in EdgeKeys
      /\ DbType(db) /\ drift \in Nat /\ (drift = 0 => InStep(db))
      /\ db' = IF HasEdge(db, c.edge) THEN Last1(RemoveEdgeSteps(db, c.edge)) ELSE db
      /\ drift' = Drifted(FALSE)
  BY DEF Good, CallType, RemoveEdge
<1>2. drift' \in Nat /\ (drift' = 0 => drift = 0)
  BY <1>1 DEF Drifted
<1>3. CASE HasEdge(db, c.edge)
  <2>1. db' = Last1(RemoveEdgeSteps(db, c.edge)) /\ c.edge \in DOMAIN db.edges
    BY <1>1, <1>3 DEF HasEdge
  <2>2. /\ DbType(db') /\ db'.nodes = db.nodes /\ db'.edges = Without(db.edges, {c.edge})
        /\ InStep(db) => InStep(db')
    BY <1>1, <2>1, EdgeRemoved
  <2>3. G!RemoveEdge(c.edge)
    BY <2>2 DEF G!RemoveEdge, Without, Restrict, G!Restrict
  <2>4. G!Next
    BY <1>1, <2>3 DEF G!Next, G!EdgeKeys, EdgeKeys
  <2> QED BY <1>1, <1>2, <2>2, <2>4 DEF Good, GraphStep
<1>4. CASE ~HasEdge(db, c.edge)
  <2>1. db' = db
    BY <1>1, <1>4
  <2> QED BY <1>1, <1>2, <2>1 DEF Good, GraphStep, G!gvars
<1> QED BY <1>3, <1>4

LEMMA RemoveNodeKeeps ==
  ASSUME Good, NEW c, CallType(c), RemoveNode(c)
  PROVE  Good' /\ GraphStep(c)
<1>1. /\ c.node \in Nodes /\ ViewType(c.view)
      /\ DbType(db) /\ drift \in Nat /\ (drift = 0 => InStep(db))
      /\ drift' = Drifted(c.view # NodeView(db, c.node))
  BY DEF Good, CallType, RemoveNode, ViewType
<1>2. PICK early \in EarlyEntries(c.node, c.view) :
        LET plan == RemoveNodePlan(db, c.node, c.view, early)
            d1 == PutAdj(db, plan.put, DOMAIN plan.put)
        IN  IF AllThere(d1, plan) THEN db' = RemoveNodeDone(db, plan)
            ELSE \E N \in SUBSET (plan.nodes \cap DOMAIN d1.nodes),
                    A \in SUBSET (plan.adj \cap DOMAIN d1.adj),
                    E \in SUBSET (plan.edges \cap DOMAIN d1.edges) :
                     db' = DeleteKeys(d1, N, A, E)
  BY DEF RemoveNode
<1> DEFINE plan == RemoveNodePlan(db, c.node, c.view, early)
           d1 == PutAdj(db, plan.put, DOMAIN plan.put)
<1>3. drift' \in Nat /\ (drift' = 0 => drift = 0 /\ c.view = NodeView(db, c.node))
  BY <1>1 DEF Drifted
<1>4. PlanType(plan)
  BY <1>1, PlanTyped
<1>5. DbType(d1)
  BY <1>1, <1>4, AdjPut DEF PlanType
<1>6. DbType(db')
  <2>1. CASE AllThere(d1, plan)
    <3>1. db' = RemoveNodeDone(db, plan)
      BY <1>2, <2>1
    <3> HIDE DEF plan
    <3> QED BY <1>1, <1>4, <2>1, <3>1, NodeRemoved
  <2>2. CASE ~AllThere(d1, plan)
    <3>1. PICK N, A, E : db' = DeleteKeys(d1, N, A, E)
      BY <1>2, <2>2
    <3> HIDE DEF d1
    <3> QED BY <1>5, <3>1, KeysDeleted
  <2> QED BY <2>1, <2>2
<1>7. ASSUME drift' = 0 PROVE InStep(db') /\ G!Next
  <2>1. InStep(db) /\ c.view = NodeView(db, c.node)
    BY <1>1, <1>3, <1>7
  <2>2. PlanRight(db, c.node, plan)
    BY <1>1, <2>1, PlanIsRight
  <2>3. AllThere(d1, plan) => db' = RemoveNodeDone(db, plan)
    BY <1>2
  <2> HIDE DEF plan
  <2>4. AllThere(d1, plan)
    BY <1>1, <1>4, <2>1, <2>2, NodeRemovedRight
  <2>5. /\ InStep(RemoveNodeDone(db, plan))
        /\ RemoveNodeDone(db, plan).nodes = Without(db.nodes, {c.node})
        /\ RemoveNodeDone(db, plan).edges = Without(db.edges, Around(db, c.node))
    BY <1>1, <1>4, <2>1, <2>2, NodeRemovedRight
  <2>6. db' = RemoveNodeDone(db, plan)
    BY <2>3, <2>4
  <2>7. db.nodes' = Without(db.nodes, {c.node}) /\ db.edges' = Without(db.edges, Around(db, c.node))
    BY <2>5, <2>6
  <2>8. DOMAIN db.edges \ Around(db, c.node) = {e \in DOMAIN db.edges : c.node \notin G!Ends(e)}
    BY DEF Around, G!Ends
  <2>9. G!RemoveNode(c.node)
    BY <2>7, <2>8 DEF G!RemoveNode, Without, Restrict, G!Restrict
  <2> QED BY <1>1, <2>5, <2>6, <2>9 DEF G!Next
<1> QED BY <1>3, <1>6, <1>7 DEF Good, GraphStep

LEMMA WriteKeeps ==
  ASSUME Good, NEW c, CallType(c), Write(c)
  PROVE  Good' /\ GraphStep(c)
BY AddNodeKeeps, AddEdgeKeeps, RemoveEdgeKeeps, RemoveNodeKeeps DEF Write

\* One edge of a batch: its writes keep the types, and all of them do to the
\* graph what add_edge does.
LEMMA AddedRight ==
  ASSUME NEW d, DbType(d), NEW e \in EdgeKeys, NEW p
  PROVE  /\ DbType(Added(d, e, p))
         /\ \A d0 \in Before(AddingSteps(d, e, p)) : DbType(d0)
         /\ InStep(d) => /\ InStep(Added(d, e, p))
                         /\ Added(d, e, p).nodes = BothEnds(d.nodes, e)
                         /\ Added(d, e, p).edges = G!Upsert(d.edges, e, p)
<1> DEFINE r == Added(d, e, p)
<1>1. CASE HasEdge(d, e)
  <2>1. /\ AddingSteps(d, e, p) = <<PutEdge(d, e, Merge(d.edges[e], p))>>
        /\ e \in DOMAIN d.edges
    BY <1>1 DEF AddingSteps, HasEdge, PutEdge
  <2>2. r = PutEdge(d, e, Merge(d.edges[e], p)) /\ Before(AddingSteps(d, e, p)) = {}
    BY <2>1 DEF Added, Last1, Before
  <2> HIDE DEF r
  <2>3. /\ DbType(r) /\ r.nodes = d.nodes
        /\ r.edges = Set(d.edges, e, Merge(d.edges[e], p))
    BY <2>2, EdgesWritten
  <2>4. r.edges = G!Upsert(d.edges, e, p)
    BY <2>1, <2>3 DEF G!Upsert, G!Set, Set, G!Merge, Merge
  <2>5. ASSUME InStep(d) PROVE InStep(r) /\ r.nodes = BothEnds(d.nodes, e)
    <3>1. /\ e[1] \in DOMAIN d.nodes /\ e[3] \in DOMAIN d.nodes /\ IsFunc(d.nodes)
      BY <2>1, <2>5 DEF InStep, DbType, EndsExist
    <3>2. BothEnds(d.nodes, e) = [x \in DOMAIN d.nodes |-> d.nodes[x]]
      BY <3>1 DEF BothEnds
    <3>3. InStep(r)
      BY <2>1, <2>2, <2>5, EdgeRewritten
    <3> QED BY <2>3, <3>1, <3>2, <3>3 DEF IsFunc
  <2> QED BY <2>2, <2>3, <2>4, <2>5 DEF r
<1>2. CASE ~HasEdge(d, e)
  <2> DEFINE S == AddEdgeSteps(d, e, p)
  <2>1. AddingSteps(d, e, p) = S /\ r = Last1(S) /\ e \notin DOMAIN d.edges
    BY <1>2 DEF AddingSteps, Added, HasEdge
  <2>2. /\ Len(S) \in Nat /\ \A i \in 1 .. Len(S) : DbType(S[i])
        /\ DbType(Last1(S)) /\ Last1(S).nodes = BothEnds(d.nodes, e)
        /\ Last1(S).edges = Set(d.edges, e, p)
        /\ InStep(d) /\ e \notin DOMAIN d.edges => InStep(Last1(S))
    BY EdgeAdded
  <2> HIDE DEF S, r
  <2>3. \A d0 \in Before(S) : DbType(d0)
    BY <2>2 DEF Before
  <2>4. Set(d.edges, e, p) = G!Upsert(d.edges, e, p)
    BY <2>1 DEF Set, G!Set, G!Upsert
  <2> QED BY <2>1, <2>2, <2>3, <2>4 DEF r
<1> QED BY <1>1, <1>2

LEMMA AddEdgesKeeps ==
  ASSUME Good, NEW e \in BatchEdges, NEW f \in BatchEdges, NEW p \in EdgeProps, AddEdges(e, f, p)
  PROVE  Good' /\ IsGraph
<1>1. /\ DbType(db) /\ drift \in Nat /\ (drift = 0 => InStep(db))
      /\ e \in EdgeKeys /\ f \in EdgeKeys
  BY GraphAssumption DEF Good
<1>2. db' = Added(Added(db, e, p), f, p) /\ drift' = Drifted(FALSE)
  BY DEF AddEdges
<1>3. drift' \in Nat /\ (drift' = 0 => drift = 0)
  BY <1>1, <1>2 DEF Drifted
<1>4. /\ DbType(Added(db, e, p))
      /\ InStep(db) => /\ InStep(Added(db, e, p))
                       /\ Added(db, e, p).nodes = BothEnds(db.nodes, e)
                       /\ Added(db, e, p).edges = G!Upsert(db.edges, e, p)
  BY <1>1, AddedRight
<1>5. /\ DbType(db')
      /\ InStep(db) => /\ InStep(db')
                       /\ db'.nodes = BothEnds(BothEnds(db.nodes, e), f)
                       /\ db'.edges = G!Upsert(G!Upsert(db.edges, e, p), f, p)
  BY <1>1, <1>2, <1>4, AddedRight
<1>6. ASSUME drift' = 0 PROVE G!Next
  <2>1. /\ db'.nodes = BothEnds(BothEnds(db.nodes, e), f)
        /\ db'.edges = G!Upsert(G!Upsert(db.edges, e, p), f, p)
    BY <1>1, <1>3, <1>5, <1>6
  <2>2. BothEnds(BothEnds(db.nodes, e), f) = G!Fill(db.nodes, G!Ends(e) \cup G!Ends(f))
    BY DEF BothEnds, G!Fill, G!Ends, NoProps, G!NoProps
  <2>3. G!AddEdges(e, f, p)
    BY <2>1, <2>2 DEF G!AddEdges
  <2>4. e \in G!EdgeKeys /\ f \in G!EdgeKeys /\ p \in NodeProps \cup EdgeProps
    BY <1>1 DEF G!EdgeKeys, EdgeKeys
  <2> QED BY <2>3, <2>4 DEF G!Next
<1> QED BY <1>1, <1>3, <1>5, <1>6 DEF Good, IsGraph

LEMMA AddEdgesInterruptedKeeps ==
  ASSUME Good, NEW e \in BatchEdges, NEW f \in BatchEdges, NEW p \in EdgeProps,
         AddEdgesInterrupted(e, f, p)
  PROVE  Good' /\ drift' # 0
<1>1. DbType(db) /\ drift \in Nat /\ e \in EdgeKeys /\ f \in EdgeKeys
  BY GraphAssumption DEF Good
<1>2. drift' \in Nat /\ drift' # 0
  BY <1>1 DEF AddEdgesInterrupted, Cut, Drifted
<1>3. DbType(Added(db, e, p)) /\ \A d0 \in Before(AddingSteps(db, e, p)) : DbType(d0)
  BY <1>1, AddedRight
<1>4. \A d0 \in Before(AddingSteps(Added(db, e, p), f, p)) : DbType(d0)
  BY <1>1, <1>3, AddedRight
<1>5. DbType(db')
  BY <1>3, <1>4 DEF AddEdgesInterrupted
<1> QED BY <1>2, <1>5 DEF Good

LEMMA ReindexKeeps ==
  ASSUME Good, Reindex
  PROVE  Good' /\ IsGraph /\ ReindexKeepsGraph
<1>1. DbType(db) /\ drift \in Nat /\ (drift = 0 => InStep(db))
  BY DEF Good
<1>2. db' = Reindexed(db) /\ drift' = 0
  BY DEF Reindex
<1>3. InStep(db') /\ db'.nodes = db.nodes /\ db'.edges = Restrict(db.edges, Kept(db))
  BY <1>1, <1>2, ReindexRight
<1>4. Good'
  BY <1>2, <1>3 DEF Good, InStep
<1>5. ASSUME drift = 0 PROVE UNCHANGED G!gvars
  <2>1. EndsExist(db) /\ IsFunc(db.edges)
    BY <1>1, <1>5 DEF InStep, DbType
  <2>2. Kept(db) = DOMAIN db.edges
    BY <2>1 DEF Kept, EndsExist, HasNode
  <2>3. db'.edges = db.edges
    BY <1>3, <2>1, <2>2 DEF IsFunc, Restrict
  <2> QED BY <1>3, <2>3 DEF G!gvars
<1> QED BY <1>3, <1>4, <1>5 DEF IsGraph, ReindexKeepsGraph, Kept

LEMMA RawDeleteKeeps ==
  ASSUME Good, RawDelete
  PROVE  Good' /\ drift' # 0
<1>1. DbType(db) /\ drift \in Nat
  BY DEF Good
<1>2. drift' \in Nat /\ drift' # 0
  BY <1>1 DEF RawDelete, Drifted
<1>3. PICK N, A, E : db' = DeleteKeys(db, N, A, E)
  BY DEF RawDelete
<1>4. DbType(db')
  BY <1>1, <1>3, KeysDeleted
<1> QED BY <1>2, <1>4 DEF Good

LEMMA InterruptedKeeps ==
  ASSUME Good, PendType, NEW h \in Handles, Interrupted(h)
  PROVE  Good' /\ drift' # 0
<1> DEFINE c == pend[h]
<1>1. DbType(db) /\ drift \in Nat /\ CallType(c)
  BY DEF Good, PendType
<1>2. drift' \in Nat /\ drift' # 0
  BY <1>1 DEF Interrupted, Cut, Drifted
<1>3. ASSUME c.op = "add_edge", db' \in Before(AddEdgeSteps(db, c.edge, Value(c)))
      PROVE  DbType(db')
  <2>1. c.edge \in EdgeKeys
    BY <1>1, <1>3 DEF CallType
  <2> DEFINE S == AddEdgeSteps(db, c.edge, Value(c))
  <2>2. Len(S) \in Nat /\ \A i \in 1 .. Len(S) : DbType(S[i])
    BY <1>1, <2>1, EdgeAdded
  <2>3. PICK i \in 1 .. (Len(S) - 1) : db' = S[i]
    BY <1>3 DEF Before
  <2> HIDE DEF S
  <2> QED BY <2>2, <2>3
<1>4. ASSUME c.op = "remove_edge", db' \in Before(RemoveEdgeSteps(db, c.edge))
      PROVE  DbType(db')
  <2>1. c.edge \in EdgeKeys
    BY <1>1, <1>4 DEF CallType
  <2> DEFINE S == RemoveEdgeSteps(db, c.edge)
  <2>2. Len(S) \in Nat /\ \A i \in 1 .. Len(S) : DbType(S[i])
    BY <1>1, <2>1, EdgeRemoved
  <2>3. PICK i \in 1 .. (Len(S) - 1) : db' = S[i]
    BY <1>4 DEF Before
  <2> HIDE DEF S
  <2> QED BY <2>2, <2>3
<1>5. ASSUME c.op = "remove_node",
             \E early \in EarlyEntries(c.node, c.view) :
                db' \in RemoveNodePartly(db, RemoveNodePlan(db, c.node, c.view, early))
      PROVE  DbType(db')
  <2>1. c.node \in Nodes /\ ViewType(c.view)
    BY <1>1, <1>5 DEF CallType, ViewType
  <2>2. PICK early : db' \in RemoveNodePartly(db, RemoveNodePlan(db, c.node, c.view, early))
    BY <1>5
  <2> DEFINE plan == RemoveNodePlan(db, c.node, c.view, early)
  <2>3. PlanType(plan)
    BY <1>1, <2>1, PlanTyped
  <2> HIDE DEF plan
  <2>4. ASSUME NEW S \in SUBSET DOMAIN plan.put PROVE DbType(PutAdj(db, plan.put, S))
    <3>1. S \in SUBSET Nodes /\ \A m \in S : plan.put[m] \subseteq Entries
      BY <2>3 DEF PlanType
    <3> QED BY <1>1, <3>1, AdjPut
  <2>5. \/ \E S \in SUBSET DOMAIN plan.put : db' = PutAdj(db, plan.put, S)
        \/ \E N, A, E : db' = DeleteKeys(PutAdj(db, plan.put, DOMAIN plan.put), N, A, E)
    BY <2>2 DEF RemoveNodePartly, plan
  <2>6. ASSUME NEW N, NEW A, NEW E
        PROVE  DbType(DeleteKeys(PutAdj(db, plan.put, DOMAIN plan.put), N, A, E))
    BY <2>4, KeysDeleted
  <2> QED BY <2>4, <2>5, <2>6
<1>6. ASSUME c.op = "add_node", db' \in Before(AddNodeSteps(db, c.node, c.was, Value(c)))
      PROVE  DbType(db')
  <2>1. c.node \in Nodes
    BY <1>1, <1>6 DEF CallType
  <2> QED BY <1>1, <1>6, <2>1, NodeAdded
<1>7. DbType(db')
  BY <1>3, <1>4, <1>5, <1>6 DEF Interrupted
<1> QED BY <1>2, <1>7 DEF Good

LEMMA PendKept ==
  ASSUME PendType, NEW h \in Handles, NEW c, CallType(c), pend' = [pend EXCEPT ![h] = c]
  PROVE  PendType'
<1>1. pend' = [g \in Handles |-> IF g = h THEN c ELSE pend[g]]
  BY DEF PendType
<1> QED BY <1>1 DEF PendType

\* Every step keeps the invariant, and shows the graph a step of Graph.
LEMMA StepKeeps ==
  ASSUME DbInv, [Next]_vars
  PROVE  DbInv' /\ IsGraph /\ ReindexKeepsGraph
<1>1. Good /\ PendType /\ faults \in 0 .. MaxFaults /\ drift \in Nat /\ DbType(db) /\ MaxFaults \in Nat
  BY GraphAssumption DEF DbInv, Good
<1>2. CallType(NoCall)
  BY DEF CallType, NoCall
<1>3. ASSUME drift' = drift \/ drift' # 0
      PROVE  ReindexKeepsGraph
  BY <1>1, <1>3 DEF ReindexKeepsGraph
<1>4. ASSUME NEW c, Write(c) PROVE drift' = drift \/ drift' # 0
  BY <1>1, <1>4 DEF Write, AddNode, AddEdge, RemoveEdge, RemoveNode, Drifted
<1>5. ASSUME NEW h \in Handles, Wait(h) PROVE DbInv' /\ IsGraph /\ ReindexKeepsGraph
  <2>1. PICK c \in Calls : pend' = [pend EXCEPT ![h] = c]
    BY <1>5 DEF Wait
  <2>2. PendType'
    BY <1>1, <2>1, CallsTyped, PendKept
  <2>3. db' = db /\ faults' = faults /\ drift' = drift
    BY <1>5 DEF Wait
  <2>4. Good' /\ IsGraph
    BY <1>1, <2>3 DEF Good, IsGraph, G!gvars
  <2> QED BY <1>1, <1>3, <2>2, <2>3, <2>4 DEF DbInv
<1>6. ASSUME NEW h \in Handles, Promoted(h) PROVE DbInv' /\ IsGraph /\ ReindexKeepsGraph
  <2>1. /\ Write(pend[h]) /\ CallType(pend[h]) /\ faults' = faults
        /\ pend' = [pend EXCEPT ![h] = NoCall]
    BY <1>1, <1>6 DEF Promoted, PendType
  <2>2. PendType'
    BY <1>1, <1>2, <2>1, PendKept
  <2>3. Good' /\ GraphStep(pend[h])
    BY <1>1, <2>1, WriteKeeps
  <2>4. pend'[h] = NoCall /\ pend[h].op # "none"
    BY <1>1, <2>1 DEF PendType, Write, AddNode, AddEdge, RemoveEdge, RemoveNode
  <2>5. pend'[h] # pend[h]
    BY <2>4 DEF NoCall
  <2>6. IsGraph
    BY <2>3, <2>5 DEF GraphStep, IsGraph
  <2> QED BY <1>1, <1>3, <1>4, <2>1, <2>2, <2>3, <2>6 DEF DbInv
<1>7. ASSUME NEW h \in Handles, Interrupted(h) PROVE DbInv' /\ IsGraph /\ ReindexKeepsGraph
  <2>1. Good' /\ drift' # 0
    BY <1>1, <1>7, InterruptedKeeps
  <2>2. faults' \in 0 .. MaxFaults /\ pend' = [pend EXCEPT ![h] = NoCall]
    BY <1>1, <1>7 DEF Interrupted, Cut
  <2>3. PendType'
    BY <1>1, <1>2, <2>2, PendKept
  <2> QED BY <1>3, <2>1, <2>2, <2>3 DEF DbInv, IsGraph
<1>8. ASSUME Call PROVE DbInv' /\ IsGraph /\ ReindexKeepsGraph
  <2>1. PICK c \in Calls : Write(c)
    BY <1>8 DEF Call
  <2>2. Good' /\ GraphStep(c) /\ ~Overwrites(c)
    BY <1>1, <2>1, CallsTyped, WriteKeeps
  <2>3. pend' = pend /\ faults' = faults
    BY <1>8 DEF Call
  <2>4. IsGraph
    BY <2>2 DEF GraphStep, IsGraph
  <2> QED BY <1>1, <1>3, <1>4, <2>1, <2>2, <2>3, <2>4 DEF DbInv, PendType
<1>9. ASSUME NEW e \in BatchEdges, NEW f \in BatchEdges, NEW p \in EdgeProps, AddEdges(e, f, p)
      PROVE  DbInv' /\ IsGraph /\ ReindexKeepsGraph
  <2>1. Good' /\ IsGraph
    BY <1>1, <1>9, AddEdgesKeeps
  <2>2. pend' = pend /\ faults' = faults /\ (drift' = drift \/ drift' # 0)
    BY <1>1, <1>9 DEF AddEdges, Drifted
  <2> QED BY <1>1, <1>3, <2>1, <2>2 DEF DbInv, PendType
<1>10. ASSUME Reindex PROVE DbInv' /\ IsGraph /\ ReindexKeepsGraph
  <2>1. Good' /\ IsGraph /\ ReindexKeepsGraph
    BY <1>1, <1>10, ReindexKeeps
  <2>2. pend' = pend /\ faults' = faults
    BY <1>10 DEF Reindex
  <2> QED BY <1>1, <2>1, <2>2 DEF DbInv, PendType
<1>11. ASSUME RawDelete PROVE DbInv' /\ IsGraph /\ ReindexKeepsGraph
  <2>1. Good' /\ drift' # 0
    BY <1>1, <1>11, RawDeleteKeeps
  <2>2. pend' = pend /\ faults' \in 0 .. MaxFaults
    BY <1>1, <1>11 DEF RawDelete
  <2> QED BY <1>1, <1>3, <2>1, <2>2 DEF DbInv, PendType, IsGraph
<1>12. ASSUME NEW e \in BatchEdges, NEW f \in BatchEdges, NEW p \in EdgeProps,
              AddEdgesInterrupted(e, f, p)
       PROVE  DbInv' /\ IsGraph /\ ReindexKeepsGraph
  <2>1. Good' /\ drift' # 0
    BY <1>1, <1>12, AddEdgesInterruptedKeeps
  <2>2. pend' = pend /\ faults' \in 0 .. MaxFaults
    BY <1>1, <1>12 DEF AddEdgesInterrupted, Cut
  <2> QED BY <1>1, <1>3, <2>1, <2>2 DEF DbInv, PendType, IsGraph
<1>13. CASE UNCHANGED vars
  <2>1. db' = db /\ pend' = pend /\ faults' = faults /\ drift' = drift
    BY <1>13 DEF vars
  <2> QED BY <1>1, <1>3, <2>1 DEF DbInv, Good, PendType, IsGraph, G!gvars
<1> QED BY <1>5, <1>6, <1>7, <1>8, <1>9, <1>10, <1>11, <1>12, <1>13 DEF Next

LEMMA InitGood == Init => DbInv
<1> SUFFICES ASSUME Init PROVE DbInv
  OBVIOUS
<1>1. /\ db = [nodes |-> << >>, edges |-> << >>, adj |-> << >>, cnt |-> [N |-> 0, E |-> 0, D |-> 0]]
      /\ pend = [h \in Handles |-> NoCall] /\ faults = 0 /\ drift = 0
  BY DEF Init
<1>2. /\ db.nodes = << >> /\ db.edges = << >> /\ db.adj = << >>
      /\ db.cnt = [N |-> 0, E |-> 0, D |-> 0]
      /\ db = [nodes |-> db.nodes, edges |-> db.edges, adj |-> db.adj, cnt |-> db.cnt]
  BY <1>1
<1>3. DOMAIN << >> = {} /\ IsFunc(<< >>)
  BY DEF IsFunc
<1>4. IsFiniteSet({}) /\ Cardinality({}) = 0
  BY FS_EmptySet
<1>5. /\ DOMAIN db.nodes = {} /\ DOMAIN db.edges = {} /\ DOMAIN db.adj = {}
      /\ IsFunc(db.nodes) /\ IsFunc(db.edges)
  BY <1>2, <1>3
<1>6. DbType(db)
  BY <1>2, <1>4, <1>5 DEF DbType
<1>7. Aligned(db) /\ EndsExist(db)
  BY <1>5 DEF Aligned, EndsExist, GetAdj
<1>8. DirectedIn({}) = {}
  BY DEF DirectedIn
<1>9. CountersRight(db)
  <2>1. db.cnt.N = 0 /\ db.cnt.E = 0 /\ db.cnt.D = 0
    BY <1>2
  <2>2. /\ Cardinality(DOMAIN db.nodes) = 0 /\ Cardinality(DOMAIN db.edges) = 0
        /\ Cardinality(DirectedIn(DOMAIN db.edges)) = 0
    BY <1>4, <1>5, <1>8
  <2> QED BY <2>1, <2>2, CountersAre
<1>10. PendType
  BY <1>1 DEF PendType, CallType, NoCall
<1>11. faults \in 0 .. MaxFaults /\ drift \in Nat
  BY <1>1, GraphAssumption
<1> QED BY <1>6, <1>7, <1>9, <1>10, <1>11 DEF DbInv, Good, InStep

LEMMA DbInvariant == Spec => []DbInv
<1>1. DbInv /\ [Next]_vars => DbInv'
  BY StepKeeps
<1> QED BY <1>1, InitGood, PTL DEF Spec

-----------------------------------------------------------------------------
(* Theorems *)

\* TypeOK: whatever calls wait for the write lock, fail their test, are cut
\* short between two writes or meet keys deleted past the graph, records and
\* adjacencies name nodes, and no counter goes below 0 (f_remove_edge and
\* f_remove_node hold them at 0).
THEOREM TypesKept == Spec => []TypeOK
<1>1. DbInv => TypeOK
  BY DEF DbInv, Good, DbType, TypeOK
<1> QED BY <1>1, DbInvariant, PTL

\* IndexInStep: "keep in sync as a side effect of every write" (class GraphDb):
\* as long as no call found its test outdated, none was cut short and no key
\* was deleted past the graph, verify_index finds no missing or orphan entry
\* and the right counters, and every edge has both its nodes.
THEOREM IndexRight == Spec => []IndexInStep
<1>1. DbInv => IndexInStep
  BY InStepVerifies DEF DbInv, Good, IndexInStep
<1> QED BY <1>1, DbInvariant, PTL

\* GraphKept: while the index is in step every call does to nodes and edges
\* what the same call does to a plain graph, although f_remove_node finds the
\* edges of a node through its adjacency alone, and the only loss is that of the
\* properties another handle merged into a record while a call waited; and reindex gives back the
\* nodes, and the edges between nodes, after any drift.
THEOREM GraphIsKept == Spec => GraphKept
<1>1. DbInv /\ [Next]_vars => [IsGraph /\ ReindexKeepsGraph]_vars
  BY StepKeeps
<1> QED BY <1>1, DbInvariant, PTL DEF Spec, GraphKept
=============================================================================
