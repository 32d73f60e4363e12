------------------------------ MODULE GraphDb ------------------------------
(***************************************************************************)
(* GraphDb (jdb_graph.py): a graph kept in the record store.  Each node    *)
(* is a record N:n:, each edge a record E:u:>:v: or E:u:-:v:.  Two things  *)
(* are derived and kept beside them: the adjacency record X:n: of a node   *)
(* and the counters N_NODES, N_EDGES and N_DIRECTED.  Traversals and       *)
(* counts read only what is derived, so the derived records must stay in   *)
(* step with the edges.                                                    *)
(*                                                                         *)
(* add_node, add_edge, remove_node and remove_edge open a read session,    *)
(* look at the key table, and promote the session to a write session at    *)
(* their first write: what a handle looked at before the promotion (its    *)
(* view) may have changed when it writes.  add_nodes, add_edges and        *)
(* reindex open a write session at once.                                   *)
(***************************************************************************)
EXTENDS Integers, Sequences, FiniteSets, Functions, TLC

CONSTANTS Nodes,      \* node identifiers, ordered as their names are
          NodeProps,  \* properties a node is added with: functions from
          EdgeProps,  \* names to values; and an edge
          Handles,    \* the handles whose promotion may have to wait
          UsedEdges,  \* the edges add_edge is called with
          BatchEdges, \* the edges add_edges is called with
          MaxEdges,   \* bound on the number of edge records
          MaxFaults,  \* bound on raw deletes and interrupted operations
          MaxDrifted  \* bound on the calls made while out of step

EdgeKeys == {e \in Nodes \X {">", "-"} \X Nodes :
                 e[1] # e[3] /\ (e[2] = "-" => e[1] < e[3])}

ASSUME GraphAssumption ==
    /\ Nodes \subseteq Nat
    /\ \A p \in NodeProps \cup EdgeProps : p = [x \in DOMAIN p |-> p[x]]
    /\ UsedEdges \cup BatchEdges \subseteq EdgeKeys
    /\ MaxEdges \in Nat /\ MaxFaults \in Nat /\ MaxDrifted \in Nat

VARIABLES
    db,     \* the records: [nodes, edges, adj, cnt]; the first three are
            \* functions defined on the records that exist
    pend,   \* the call of each handle that waits for its promotion
    faults, \* number of faults so far
    drift   \* history: 0 while nothing has put the derived records out of
            \* step, then 1 and one more for each call since

vars == <<db, pend, faults, drift>>

Entries == {">", "<", "-"} \X Nodes

\* _generate_edge_key: the endpoints of an undirected edge are sorted.
GenerateEdgeKey(u, v, directed) ==
    IF directed THEN <<u, ">", v>>
    ELSE IF u > v THEN <<v, "-", u>> ELSE <<u, "-", v>>

\* The entry of edge e in the adjacency of its source and of its target.
SourceEntry(e) == <<e[2], e[3]>>
TargetEntry(e) == <<IF e[2] = ">" THEN "<" ELSE "-", e[1]>>

\* The edge an entry x in the adjacency of n stands for.
EdgeOf(n, x) == IF x[1] = "<" THEN GenerateEdgeKey(x[2], n, TRUE)
                ELSE GenerateEdgeKey(n, x[2], x[1] = ">")

Set(f, k, v) == [x \in DOMAIN f \cup {k} |-> IF x = k THEN v ELSE f[x]]
Without(f, S) == Restrict(f, DOMAIN f \ S)

NoProps == << >>

\* Faulty variant of Merge: the new properties replace the old ones.
MergeReplacing(old, new) == IF new = NoProps THEN old ELSE new

\* {**old, **new}
Merge(old, new) == new @@ old

NotBelow0(i) == IF i < 0 THEN 0 ELSE i

\* f_get_adj: a missing record reads as the empty list.  An entry is never
\* appended twice and the order matters to no operation of this module.
GetAdj(d, n) == IF n \in DOMAIN d.adj THEN d.adj[n] ELSE {}

HasNode(d, n) == n \in DOMAIN d.nodes
HasEdge(d, e) == e \in DOMAIN d.edges

----------------------------------------------------------------------------
\* The writes of each operation, as the records after each of them: the last
\* element is the result of the whole operation, an earlier one is what an
\* exception between two writes leaves behind.

\* What add_node and add_edge write: the given properties or, if the test found
\* a record, these merged with the ones that were read beside the test.
Value(c) == IF c.was THEN Merge(c.old, c.props) ELSE c.props

\* f_add_node after its test: `was` is what the test found, val what is
\* written.  The counter is advanced only if the write changed something.
AddNodeSteps(d, n, was, val) ==
    LET new == ~HasNode(d, n) \/ d.nodes[n] # val
        d1 == [d EXCEPT !.nodes = Set(@, n, val)]
    IN  IF was \/ ~new THEN <<d1>> ELSE <<d1, [d1 EXCEPT !.cnt.N = NotBelow0(@) + 1]>>

WithNode(d, n) == IF HasNode(d, n) THEN d ELSE [d EXCEPT !.nodes = Set(@, n, NoProps)]

WithEntry(d, n, x) ==
    IF x \in GetAdj(d, n) THEN d ELSE [d EXCEPT !.adj = Set(@, n, GetAdj(d, n) \cup {x})]

\* f_add_edge of an edge that was not in the key table: everything after the
\* test is done under the write lock.
AddEdgeSteps(d, e, p) ==
    LET d1 == WithNode(d, e[1])
        d2 == WithNode(d1, e[3])
        d3 == WithEntry(d2, e[1], SourceEntry(e))
        d4 == WithEntry(d3, e[3], TargetEntry(e))
        d5 == [d4 EXCEPT !.cnt.N = NotBelow0(@ + Cardinality(DOMAIN d2.nodes \ DOMAIN d.nodes))]
        d6 == [d5 EXCEPT !.edges = Set(@, e, p)]
        d7 == [d6 EXCEPT !.cnt.E = NotBelow0(@) + 1]
        d8 == IF e[2] = ">" THEN [d7 EXCEPT !.cnt.D = NotBelow0(@) + 1] ELSE d7
    IN  IF HasEdge(d, e) /\ d.edges[e] = p THEN <<d1, d2, d3, d4, d5, d6>>
        ELSE <<d1, d2, d3, d4, d5, d6, d7, d8>>

\* f_add_edge under the write lock from its start, as in add_edges.
AddingSteps(d, e, p) ==
    IF HasEdge(d, e) THEN <<[d EXCEPT !.edges = Set(@, e, Merge(d.edges[e], p))]>>
    ELSE AddEdgeSteps(d, e, p)

WithoutEntry(d, n, x) ==
    IF x \in GetAdj(d, n) THEN [d EXCEPT !.adj[n] = @ \ {x}] ELSE d

\* Faulty variant of RemoveEdgeSteps: the target keeps its entry.
RemoveEdgeStepsOneEnd(d, e) ==
    LET d1 == [d EXCEPT !.edges = Without(@, {e})]
        d2 == [d1 EXCEPT !.cnt.E = NotBelow0(@ - 1)]
        d3 == IF e[2] = ">" THEN [d2 EXCEPT !.cnt.D = NotBelow0(@ - 1)] ELSE d2
    IN  <<d1, d2, d3, WithoutEntry(d3, e[1], SourceEntry(e))>>

\* f_remove_edge after its test; an adjacency that becomes empty is kept.
RemoveEdgeSteps(d, e) ==
    LET d1 == [d EXCEPT !.edges = Without(@, {e})]
        d2 == [d1 EXCEPT !.cnt.E = NotBelow0(@ - 1)]
        d3 == IF e[2] = ">" THEN [d2 EXCEPT !.cnt.D = NotBelow0(@ - 1)] ELSE d2
        d4 == WithoutEntry(d3, e[1], SourceEntry(e))
        d5 == WithoutEntry(d4, e[3], TargetEntry(e))
    IN  <<d1, d2, d3, d4, d5>>

\* What f_remove_node reads under the read lock: the node, its adjacency and
\* the adjacency and edge record behind each entry.
NodeView(d, n) ==
    LET around == {n} \cup {x[2] : x \in GetAdj(d, n)}
    IN  [nodes |-> {n} \cap DOMAIN d.nodes,
         adj |-> Restrict(d.adj, around \cap DOMAIN d.adj),
         edges |-> {EdgeOf(n, x) : x \in GetAdj(d, n)} \cap DOMAIN d.edges]

\* The adjacency of m without its entries for n.
Cleaned(adj, m, n) == {y \in adj[m] : y[2] # n}

\* The entries of n's adjacency that the loop handles before the promotion:
\* the first neighbour whose adjacency is written again promotes the
\* session, and only neighbours that need no write can come before it.
EarlyEntries(n, view) ==
    LET X == GetAdj(view, n)
        writes == {x \in X : /\ x[2] \in DOMAIN view.adj
                              /\ Cleaned(view.adj, x[2], n) \notin {{}, view.adj[x[2]]}}
    IN  IF writes = {} THEN {X} ELSE {S \cup {x} : S \in SUBSET (X \ writes), x \in writes}

\* What f_remove_node has decided after its loop: the adjacencies it writes
\* and the keys it deletes (matched_keys).
RemoveNodePlan(d, n, view, early) ==
    LET X == GetAdj(view, n)
        seen(m) == IF m \in {x[2] : x \in early} THEN view.adj ELSE d.adj
        had == {m \in {x[2] : x \in X} : m \in DOMAIN seen(m)}
        put == {m \in had : Cleaned(seen(m), m, n) \notin {{}, seen(m)[m]}}
    IN  [put |-> [m \in put |-> Cleaned(seen(m), m, n)],
         nodes |-> view.nodes,
         adj |-> ({n} \cap DOMAIN view.adj) \cup {m \in had : Cleaned(seen(m), m, n) = {}},
         edges |-> ({EdgeOf(n, x) : x \in early} \cap view.edges) \cup
                   ({EdgeOf(n, x) : x \in X \ early} \cap DOMAIN d.edges)]

PutAdj(d, f, S) ==
    [d EXCEPT !.adj = [m \in DOMAIN @ \cup S |-> IF m \in S THEN f[m] ELSE @[m]]]

DeleteKeys(d, N, A, E) ==
    [d EXCEPT !.nodes = Without(@, N), !.adj = Without(@, A), !.edges = Without(@, E)]

\* f_delete raises on a key that is gone.
AllThere(d, plan) ==
    /\ plan.nodes \subseteq DOMAIN d.nodes /\ plan.adj \subseteq DOMAIN d.adj
    /\ plan.edges \subseteq DOMAIN d.edges

\* Faulty variant of RemoveNodeDone: every deleted key that is not a node
\* counts as an edge, and the counters are not held at 0.
RemoveNodeDoneMiscounted(d, plan) ==
    LET d1 == PutAdj(d, plan.put, DOMAIN plan.put)
        d2 == DeleteKeys(d1, plan.nodes, plan.adj, plan.edges)
    IN  [d2 EXCEPT !.cnt.N = @ - Cardinality(plan.nodes),
                   !.cnt.E = @ - Cardinality(plan.edges) - Cardinality(plan.adj)]

RemoveNodeDone(d, plan) ==
    LET d1 == PutAdj(d, plan.put, DOMAIN plan.put)
        d2 == DeleteKeys(d1, plan.nodes, plan.adj, plan.edges)
        directed == {e \in plan.edges : e[2] = ">"}
    IN  [d2 EXCEPT !.cnt = [N |-> NotBelow0(@.N - Cardinality(plan.nodes)),
                            E |-> NotBelow0(@.E - Cardinality(plan.edges)),
                            D |-> NotBelow0(@.D - Cardinality(directed))]]

\* What an exception in the middle leaves: some adjacencies written, or all
\* of them and some of the keys deleted; the counters come last.
RemoveNodePartly(d, plan) ==
    {PutAdj(d, plan.put, S) : S \in SUBSET DOMAIN plan.put} \cup
    {DeleteKeys(PutAdj(d, plan.put, DOMAIN plan.put), N, A, E) :
        N \in SUBSET plan.nodes, A \in SUBSET plan.adj, E \in SUBSET plan.edges}

\* reindex: drop every adjacency and every edge without both endpoints,
\* and derive the adjacencies and the counters again.
Reindexed(d) ==
    LET kept == {e \in DOMAIN d.edges : HasNode(d, e[1]) /\ HasNode(d, e[3])}
        ends == UNION {{e[1], e[3]} : e \in kept}
    IN  [nodes |-> d.nodes,
         edges |-> Restrict(d.edges, kept),
         adj |-> [n \in ends |-> {SourceEntry(e) : e \in {f \in kept : f[1] = n}} \cup
                                 {TargetEntry(e) : e \in {f \in kept : f[3] = n}}],
         cnt |-> [N |-> Cardinality(DOMAIN d.nodes), E |-> Cardinality(kept),
                  D |-> Cardinality({e \in kept : e[2] = ">"})]]

----------------------------------------------------------------------------
\* verify_index.

Expected(d, n) ==
    {SourceEntry(e) : e \in {f \in DOMAIN d.edges : f[1] = n}} \cup
    {TargetEntry(e) : e \in {f \in DOMAIN d.edges : f[3] = n}}

Missing(d) == {n \in Nodes : Expected(d, n) \ GetAdj(d, n) # {}}
Orphan(d) == {n \in Nodes : GetAdj(d, n) \ Expected(d, n) # {}}

CountersRight(d) ==
    /\ d.cnt.N = Cardinality(DOMAIN d.nodes)
    /\ d.cnt.E = Cardinality(DOMAIN d.edges)
    /\ d.cnt.D = Cardinality({e \in DOMAIN d.edges : e[2] = ">"})

VerifyIndex(d) == Missing(d) = {} /\ Orphan(d) = {} /\ CountersRight(d)

----------------------------------------------------------------------------
NoCall == [op |-> "none"]

Init ==
    /\ db = [nodes |-> << >>, edges |-> << >>, adj |-> << >>, cnt |-> [N |-> 0, E |-> 0, D |-> 0]]
    /\ pend = [h \in Handles |-> NoCall]
    /\ faults = 0
    /\ drift = 0

Last1(s) == s[Len(s)]

Drifted(now) == IF drift > 0 THEN drift + 1 ELSE IF now THEN 1 ELSE 0

\* The calls that go on to write, with what their test under the read lock
\* found: the others return without a change.
AddNodeCalls ==
    LET call(n, p) == [op |-> "add_node", node |-> n, props |-> p, was |-> HasNode(db, n),
                       old |-> IF HasNode(db, n) THEN db.nodes[n] ELSE NoProps]
    IN  {c \in {call(n, p) : n \in Nodes, p \in NodeProps} : c.was => Value(c) # c.old}

AddEdgeCalls ==
    LET call(e, p) == [op |-> "add_edge", edge |-> e, props |-> p, was |-> HasEdge(db, e),
                       old |-> IF HasEdge(db, e) THEN db.edges[e] ELSE NoProps]
    IN  {c \in {call(e, p) : e \in UsedEdges, p \in EdgeProps} :
            IF c.was THEN Value(c) # c.old ELSE Cardinality(DOMAIN db.edges) < MaxEdges}

RemoveEdgeCalls == {[op |-> "remove_edge", edge |-> e] : e \in DOMAIN db.edges}

RemoveNodeCalls ==
    {[op |-> "remove_node", node |-> n, view |-> NodeView(db, n)] :
        n \in DOMAIN db.nodes \cup DOMAIN db.adj}

Calls == AddNodeCalls \cup AddEdgeCalls \cup RemoveEdgeCalls \cup RemoveNodeCalls

\* The rest of a call c, under the write lock.
AddNode(c) ==
    /\ c.op = "add_node"
    /\ db' = Last1(AddNodeSteps(db, c.node, c.was, Value(c)))
    /\ drift' = Drifted(c.was # HasNode(db, c.node))

AddEdge(c) ==
    /\ c.op = "add_edge"
    /\ db' = IF c.was THEN [db EXCEPT !.edges = Set(@, c.edge, Value(c))]
             ELSE Last1(AddEdgeSteps(db, c.edge, Value(c)))
    /\ drift' = Drifted(c.was # HasEdge(db, c.edge))

RemoveEdge(c) ==
    /\ c.op = "remove_edge"
    /\ db' = IF HasEdge(db, c.edge) THEN Last1(RemoveEdgeSteps(db, c.edge)) ELSE db
    /\ drift' = Drifted(FALSE)

RemoveNode(c) ==
    /\ c.op = "remove_node"
    /\ \E early \in EarlyEntries(c.node, c.view) :
          LET plan == RemoveNodePlan(db, c.node, c.view, early)
              d1 == PutAdj(db, plan.put, DOMAIN plan.put)
          IN  IF AllThere(d1, plan) THEN db' = RemoveNodeDone(db, plan)
              ELSE \E N \in SUBSET (plan.nodes \cap DOMAIN d1.nodes),
                      A \in SUBSET (plan.adj \cap DOMAIN d1.adj),
                      E \in SUBSET (plan.edges \cap DOMAIN d1.edges) :
                       db' = DeleteKeys(d1, N, A, E)
    /\ drift' = Drifted(c.view # NodeView(db, c.node))

Write(c) == AddNode(c) \/ AddEdge(c) \/ RemoveEdge(c) \/ RemoveNode(c)

\* A call that has to wait for its promotion ...
Wait(h) ==
    /\ pend[h] = NoCall
    /\ drift <= MaxDrifted
    /\ \E c \in Calls : pend' = [pend EXCEPT ![h] = c]
    /\ UNCHANGED <<db, faults, drift>>

\* ... is promoted after others have written,
Promoted(h) ==
    /\ Write(pend[h])
    /\ pend' = [pend EXCEPT ![h] = NoCall]
    /\ UNCHANGED faults

\* and a call of any other handle that is promoted at once.
Call ==
    /\ drift <= MaxDrifted
    /\ \E c \in Calls : Write(c)
    /\ UNCHANGED <<pend, faults>>

\* One edge of a batch, all its writes.
Added(d, e, p) == Last1(AddingSteps(d, e, p))

\* add_edges opens a write session: nothing can change between test and write.
AddEdges(e, f, p) ==
    /\ Cardinality(DOMAIN db.edges) < MaxEdges
    /\ drift <= MaxDrifted
    /\ db' = Added(Added(db, e, p), f, p)
    /\ drift' = Drifted(FALSE)
    /\ UNCHANGED <<pend, faults>>

Reindex ==
    /\ db' = Reindexed(db)
    /\ drift' = 0
    /\ UNCHANGED <<pend, faults>>

\* A key deleted with the store's own delete, past the graph.
RawDelete ==
    /\ faults < MaxFaults
    /\ \/ \E n \in DOMAIN db.nodes : db' = DeleteKeys(db, {n}, {}, {})
       \/ \E n \in DOMAIN db.adj : db' = DeleteKeys(db, {}, {n}, {})
       \/ \E e \in DOMAIN db.edges : db' = DeleteKeys(db, {}, {}, {e})
    /\ faults' = faults + 1
    /\ drift' = Drifted(TRUE)
    /\ UNCHANGED pend

\* An exception before the last write: the session ends, what is written stays.
Before(s) == {s[i] : i \in 1..(Len(s) - 1)}

Cut == faults < MaxFaults /\ faults' = faults + 1 /\ drift' = Drifted(TRUE)

Interrupted(h) ==
    LET c == pend[h] IN
    /\ Cut
    /\ \/ c.op = "add_node" /\ db' \in Before(AddNodeSteps(db, c.node, c.was, Value(c)))
       \/ c.op = "add_edge" /\ ~c.was /\ db' \in Before(AddEdgeSteps(db, c.edge, Value(c)))
       \/ c.op = "remove_edge" /\ HasEdge(db, c.edge) /\ db' \in Before(RemoveEdgeSteps(db, c.edge))
       \/ /\ c.op = "remove_node"
          /\ \E early \in EarlyEntries(c.node, c.view) :
                LET plan == RemoveNodePlan(db, c.node, c.view, early)
                IN  AllThere(db, plan) /\ db' \in RemoveNodePartly(db, plan)
    /\ pend' = [pend EXCEPT ![h] = NoCall]

\* The same in the first or in the second edge of a batch, or between them.
AddEdgesInterrupted(e, f, p) ==
    /\ Cut
    /\ Cardinality(DOMAIN db.edges) < MaxEdges
    /\ db' \in Before(AddingSteps(db, e, p)) \cup {Added(db, e, p)}
               \cup Before(AddingSteps(Added(db, e, p), f, p))
    /\ UNCHANGED pend

Next ==
    \/ \E h \in Handles : Wait(h) \/ Promoted(h) \/ Interrupted(h)
    \/ Call
    \/ \E e, f \in BatchEdges, p \in EdgeProps : AddEdges(e, f, p) \/ AddEdgesInterrupted(e, f, p)
    \/ Reindex
    \/ RawDelete

Spec == Init /\ [][Next]_vars

----------------------------------------------------------------------------
\* Type invariant: edges and adjacency name nodes, counters are not negative.
TypeOK ==
    /\ DOMAIN db.nodes \subseteq Nodes /\ DOMAIN db.edges \subseteq EdgeKeys
    /\ DOMAIN db.adj \subseteq Nodes /\ \A n \in DOMAIN db.adj : db.adj[n] \subseteq Entries
    /\ db.cnt \in [N : Nat, E : Nat, D : Nat]
    /\ faults \in 0..MaxFaults /\ drift \in Nat

\* "keep in sync as a side effect of every write" (class GraphDb): as long as
\* no call found its test outdated, no key was deleted past the graph and no
\* call was cut short since the last reindex, verify_index reports nothing
\* and every edge has both its nodes.
IndexInStep ==
    drift = 0 => VerifyIndex(db) /\ \A e \in DOMAIN db.edges : HasNode(db, e[1]) /\ HasNode(db, e[3])

G == INSTANCE Graph WITH Props <- NodeProps \cup EdgeProps,
                        nodes <- db.nodes, edges <- db.edges

\* A promoted call writes over the properties that another handle gave the same
\* record while it waited, and changes nothing else.
Overwrites(c) ==
    \/ /\ c.op = "add_node" /\ c.was /\ HasNode(db, c.node) /\ db.nodes[c.node] # c.old
       /\ db' = [db EXCEPT !.nodes = Set(@, c.node, Merge(c.old, c.props))]
    \/ /\ c.op = "add_edge" /\ c.was /\ HasEdge(db, c.edge) /\ db.edges[c.edge] # c.old
       /\ db' = [db EXCEPT !.edges = Set(@, c.edge, Merge(c.old, c.props))]

\* While the index is in step the calls do to nodes and edges what a plain
\* graph does: remove_node, which finds the edges of a node only through the
\* adjacency, removes exactly its edges, and reindex changes nothing.  Only the
\* properties of a record that another handle changed meanwhile may be lost.
IsGraph ==
    drift = 0 /\ drift' = 0 =>
        G!Next \/ UNCHANGED G!gvars \/ \E h \in Handles : pend'[h] # pend[h] /\ Overwrites(pend[h])

\* reindex repairs any drift without losing a node or an edge between nodes.
ReindexKeepsGraph ==
    drift > 0 /\ drift' = 0 =>
        /\ db'.nodes = db.nodes
        /\ db'.edges = Restrict(db.edges, {e \in DOMAIN db.edges : HasNode(db, e[1]) /\ HasNode(db, e[3])})

\* No call loses or invents a node or an edge: it is a step of Graph while the
\* index is in step, but for the properties two handles merge at the same time,
\* and reindex gives the graph back after anything else.
GraphKept == [][IsGraph /\ ReindexKeepsGraph]_vars

\* "If the node already exists, properties are merged over the stored properties"
\* (f_add_node), and the same of f_add_edge: whatever was stored when the call
\* writes, the names it was not given keep their values.
MergesStored(h) ==
    LET c == pend[h] IN
    /\ c.op = "add_node" /\ c.was /\ HasNode(db, c.node)
          => db'.nodes[c.node] = Merge(db.nodes[c.node], c.props)
    /\ c.op = "add_edge" /\ c.was /\ HasEdge(db, c.edge)
          => db'.edges[c.edge] = Merge(db.edges[c.edge], c.props)

MergesKept == [][\A h \in Handles : Promoted(h) => MergesStored(h)]_vars
=============================================================================
