---------------------------- MODULE KeySyncProofs ----------------------------
(***************************************************************************)
(* Proofs about KeySync: in a read or write session the table of a handle  *)
(* and the rows it has in memory say what is in the KEY file, for any      *)
(* number of handles, keys, rows and changes.  Sessions opened for writing *)
(* inside read sessions ("nested") and recycle are excluded: both let a    *)
(* handle go on with a table that is out of date.  The last section is     *)
(* about one handle alone, which may do both: its table stays right.       *)
(***************************************************************************)
EXTENDS KeySync, TLAPS

\* recycle cuts the file off, so that a size that was seen before may return
\* with other contents; an upgraded read session does not read the file again.
PlainOps == Ops \cap {"recycle", "nested"} = {}

-----------------------------------------------------------------------------
(* The inductive invariant *)

Seens == Counters \cup {NewIo.seen}
Tables == [Keys -> [row : 0 .. MaxRows, ro : BOOLEAN]]
IoType == [mem : Counters, seen : Seens, size : Nat, table : Tables, rows : [RowIds -> Rows]]

\* In the rows F the first n have keys, no two the same.
Records(n, F) ==
  /\ \A r \in 0 .. n - 1 : F[r].key \in Keys
  /\ \A r, s \in 0 .. n - 1 : F[r].key = F[s].key => r = s

\* An entry without a record has no row number below the number of rows, so that
\* a record added later is not taken for it.
Entries(table, n) == \A k \in Keys : table[k].row < n \/ table[k].row = NoRow

\* The table and the first n of the rows F say the same.
Agree(table, n, F) ==
  /\ \A k \in Keys : table[k].row < n => F[table[k].row].key = k
  /\ \A r \in 0 .. n - 1 : F[r].key \in Keys /\ table[F[r].key].row = r

\* The rows in memory are those of the file.
Remembers(x, F) == \A r \in RowIds : x.rows[r] # EmptyRow => x.rows[r] = F[r]

\* The memory of a handle whose table is up to date
UpToDate(x, F) ==
  /\ x.mem.recs <= x.mem.lines
  /\ Entries(x.table, x.mem.recs)
  /\ Agree(x.table, x.mem.recs, F)
  /\ \A r \in RowIds : x.rows[r] # EmptyRow => r < x.mem.recs
  /\ Remembers(x, F)

\* If deletions were all that happened since the handle saw the counters p, the
\* records that it knows changed places: whatever row a record of the table left
\* holds the record that took its place, and the deleted record is behind.
Permuted(x, p, m, F) ==
  /\ m.recs = p.recs - (m.remv - p.remv)
  /\ \A r \in 0 .. p.recs - 1 : F[r].key \in Keys
  /\ \A r, s \in 0 .. p.recs - 1 : F[r].key = F[s].key => r = s
  /\ \A k, l \in Keys : x.table[k].row = x.table[l].row /\ x.table[k].row < p.recs => k = l
  /\ \A k \in Keys : x.table[k].row < p.recs => \E r \in 0 .. p.recs - 1 : F[r].key = k
  /\ \A q \in 0 .. m.recs - 1 :
       x.table[F[q].key].row = q \/ \E g \in m.recs .. p.recs - 1 : x.table[F[g].key].row = q

\* What a handle still knows of rows F whose counters are m by now, when the last
\* counters it saw are p = x.seen: nothing if records changed places, and else
\* the rows that no deletion reached.
Knows(x, m, F) ==
  LET p == x.seen
      kept == p.recs - (m.remv - p.remv)
  IN
  /\ p \in Counters /\ p.recs <= p.lines
  /\ p.swap <= m.swap /\ p.remv <= m.remv /\ p.lines <= m.lines
  /\ m.remv - p.remv <= m.sync - p.sync
  /\ p.sync = m.sync => p = m /\ Remembers(x, F)
  /\ \A r \in RowIds : x.rows[r] # EmptyRow => r < p.recs
  /\ Entries(x.table, p.recs)
  /\ m.swap = p.swap => kept <= m.recs /\ Agree(x.table, kept, F)
  /\ m.sync - p.sync = m.remv - p.remv => Permuted(x, p, m, F)

\* A handle without a session: its counters are those that it saw last.
Behind(x, m, F) == x.mem = x.seen /\ Knows(x, m, F)

\* The counters as they would be in the header if the open session ended now
Latest == IF \E h \in Handles : st[h] = "write"
            THEN io[CHOOSE h \in Handles : st[h] = "write"].mem ELSE file.head

Bounded(m) == m.sync <= changes /\ m.swap <= changes /\ m.remv <= changes

InvTypes ==
  /\ TypeOK
  /\ io \in [Handles -> IoType]
  /\ Bounded(file.head) /\ \A h \in Handles : Bounded(io[h].mem)

\* One writer or any number of readers
InvSessions ==
  /\ \A h \in Handles : st[h] # "upgrading"
  /\ \A h \in Handles : st[h] = "write" =>
       touched[h] /\ \A g \in Others(h) : st[g] \notin {"read", "write"}

\* The size of the file tells whether the header is the one that was seen: each
\* session with a change leaves a file that is larger than any handle knows.
SizeKnown(h) ==
  LET x == io[h] IN
  /\ x.size <= file.size
  /\ st[h] \in {"read", "write"} => x.size > 0
  /\ st[h] = "read" => x.mem = file.head /\ x.size = file.size
  /\ st[h] = "write" =>
       /\ x.seen = file.head
       /\ file.head.sync <= x.mem.sync
       /\ x.mem.sync = file.head.sync => x.mem = file.head
       /\ \A g \in Others(h) : io[g].size <= x.size
  /\ x.size = file.size /\ st[h] # "write" => x.mem = file.head

InvSizes == file.size > 0 /\ \A h \in Handles : SizeKnown(h)

\* The writer is up to date and the others, but for handles that were never
\* used, are behind it.
TableKnown(h) ==
  \/ st[h] = "write" /\ UpToDate(io[h], file.rows)
  \/ st[h] = "closed" /\ io[h] = NewIo
  \/ st[h] # "write" /\ io[h].size > 0 /\ Behind(io[h], Latest, file.rows)

InvTables ==
  /\ Records(Latest.recs, file.rows) /\ Latest.recs <= Latest.lines
  /\ \A h \in Handles : TableKnown(h)

Inv == InvTypes /\ InvSessions /\ InvSizes /\ InvTables

-----------------------------------------------------------------------------
(* Counters and types *)

LEMMA Remainder ==
  ASSUME NEW a \in Nat, NEW w \in Nat, a < w
  PROVE  a % w = a
OBVIOUS

LEMMA NoWrap ==
  ASSUME NEW a \in Nat, changes \in Nat, a <= changes, changes < MaxSync
  PROVE  (a + 1) % Wrap = a + 1 /\ (a + 0) % Wrap = a
<1>1. Wrap \in Nat /\ a + 1 < Wrap /\ a + 1 \in Nat /\ a + 0 = a /\ a < Wrap
  BY SyncBounds
<1>2. (a + 1) % Wrap = a + 1
  BY <1>1, Remainder
<1>3. (a + 0) % Wrap = a
  BY <1>1, Remainder
<1> QED BY <1>2, <1>3

LEMMA Basics ==
  ASSUME TypeOK
  PROVE  /\ MaxRows \in Nat /\ RowIds \subseteq Nat
         /\ file.rows \in [RowIds -> Rows] /\ file.head \in Counters /\ file.size \in Nat
         /\ file.head.recs <= file.head.lines
BY SyncBounds DEF TypeOK, RowIds

LEMMA EmptyIsRow == EmptyRow \in Rows /\ NoRows \in [RowIds -> Rows]
BY DEF EmptyRow, Rows, NoRows

LEMMA NoTableRow ==
  NoTable \in Tables /\ \A k \in Keys : NoTable[k].row = NoRow
<1>1. NoEntry \in [row : 0 .. MaxRows, ro : BOOLEAN]
  BY SyncBounds DEF NoEntry, NoRow
<1>2. NoEntry.row = NoRow
  BY DEF NoEntry
<1>3. NoTable \in Tables
  BY <1>1 DEF NoTable, Tables
<1>4. ASSUME NEW k \in Keys PROVE NoTable[k] = NoEntry
  BY DEF NoTable
<1> QED BY <1>2, <1>3, <1>4

-----------------------------------------------------------------------------
(* Knowledge of a file that others change *)

\* A change that moves no record and removes none: add, update, undelete and a
\* change of flags.
LEMMA KnowsGrown ==
  ASSUME NEW x \in IoType, NEW m \in Counters, NEW F, NEW n \in Counters, NEW G,
         Knows(x, m, F),
         n.sync = m.sync + 1, n.swap = m.swap, n.remv = m.remv, n.recs >= m.recs,
         n.lines >= m.lines, \A r \in 0 .. m.recs - 1 : G[r].key = F[r].key
  PROVE  Knows(x, n, G)
<1> DEFINE p == x.seen
           kept == p.recs - (m.remv - p.remv)
<1>1. /\ p \in Counters /\ p.recs <= p.lines /\ p.sync \in Nat /\ p.swap \in Nat /\ p.remv \in Nat
      /\ p.recs \in Nat /\ p.lines \in Nat
      /\ p.swap <= m.swap /\ p.remv <= m.remv /\ p.lines <= m.lines
      /\ m.remv - p.remv <= m.sync - p.sync
  BY DEF Knows, Counters
<1>2. /\ m.sync \in Nat /\ m.swap \in Nat /\ m.remv \in Nat /\ m.recs \in Nat /\ m.lines \in Nat
      /\ n.sync \in Nat /\ n.swap \in Nat /\ n.remv \in Nat /\ n.recs \in Nat /\ n.lines \in Nat
  BY DEF Counters
<1>3. p.sync # n.sync /\ n.sync - p.sync # n.remv - p.remv
  BY <1>1, <1>2
<1>4. ASSUME n.swap = p.swap
      PROVE  kept <= n.recs /\ Agree(x.table, kept, G)
  <2>1. kept <= m.recs /\ Agree(x.table, kept, F) /\ kept \in Int
    BY <1>1, <1>2, <1>4 DEF Knows
  <2>2. x.table \in [Keys -> [row : 0 .. MaxRows, ro : BOOLEAN]]
    BY DEF IoType, Tables
  <2>3. \A r \in 0 .. kept - 1 : r \in 0 .. m.recs - 1
    BY <1>2, <2>1
  <2>4. \A k \in Keys : x.table[k].row \in Nat
    BY <2>2
  <2> HIDE DEF kept
  <2>5. \A k \in Keys : x.table[k].row < kept => G[x.table[k].row].key = k
    BY <2>1, <2>3, <2>4 DEF Agree
  <2>6. \A r \in 0 .. kept - 1 : G[r].key \in Keys /\ x.table[G[r].key].row = r
    BY <2>1, <2>3 DEF Agree
  <2> QED BY <1>2, <2>1, <2>5, <2>6 DEF Agree
<1> QED BY <1>1, <1>2, <1>3, <1>4 DEF Knows

\* Faced with a deletion, m and F being the counters and rows before and n and G
\* after it: the last record is in the row of the deleted one, and the deleted
\* one in the last row.
Deletes(m, F, n, G, row) ==
  LET last == m.recs - 1 IN
  /\ row \in 0 .. last
  /\ n.recs = last /\ n.lines = m.lines /\ n.sync = m.sync + 1 /\ n.remv = m.remv + 1
  /\ n.swap = m.swap + (IF row < last THEN 1 ELSE 0)
  /\ G[last].key = F[row].key
  /\ row < last => G[row].key = F[last].key
  /\ \A r \in RowIds : r \notin {row, last} => G[r].key = F[r].key

\* What is behind was deleted, and a deletion puts one more record there.
LEMMA PermutedDeletes ==
  ASSUME NEW x \in IoType, NEW m \in Counters, NEW F, NEW n \in Counters, NEW G, NEW row,
         x.seen \in Counters, x.seen.remv <= m.remv,
         Permuted(x, x.seen, m, F), Deletes(m, F, n, G, row)
  PROVE  Permuted(x, x.seen, n, G)
<1> DEFINE p == x.seen
           last == m.recs - 1
           From(r) == IF r = row THEN last ELSE IF r = last THEN row ELSE r
<1>1. /\ p.recs \in Nat /\ m.recs \in Nat /\ n.recs \in Nat /\ p.recs <= MaxRows
      /\ m.remv \in Nat /\ n.remv \in Nat /\ p.remv \in Nat /\ MaxRows \in Nat
  BY SyncBounds DEF Counters
<1>2. /\ row \in 0 .. last /\ last \in Nat /\ n.recs = last /\ n.remv = m.remv + 1
      /\ m.recs = p.recs - (m.remv - p.remv) /\ m.recs <= p.recs /\ last < p.recs
  BY <1>1 DEF Deletes, Permuted
<1>3. n.recs = p.recs - (n.remv - p.remv)
  BY <1>1, <1>2
<1>4. ASSUME NEW r \in 0 .. p.recs - 1
      PROVE  From(r) \in 0 .. p.recs - 1 /\ G[r].key = F[From(r)].key /\ From(From(r)) = r
  <2>1. r \in RowIds
    BY <1>1 DEF RowIds
  <2>2. G[r].key = F[From(r)].key
    BY <1>2, <2>1 DEF Deletes
  <2> QED BY <1>1, <1>2, <2>2
<1>5. /\ \A r \in 0 .. p.recs - 1 : F[r].key \in Keys
      /\ \A r, s \in 0 .. p.recs - 1 : F[r].key = F[s].key => r = s
      /\ \A k, l \in Keys : x.table[k].row = x.table[l].row /\ x.table[k].row < p.recs => k = l
      /\ \A k \in Keys : x.table[k].row < p.recs => \E r \in 0 .. p.recs - 1 : F[r].key = k
      /\ \A q \in 0 .. m.recs - 1 :
           x.table[F[q].key].row = q \/ \E g \in m.recs .. p.recs - 1 : x.table[F[g].key].row = q
  BY DEF Permuted
<1>6. \A r \in 0 .. p.recs - 1 : G[r].key \in Keys
  BY <1>4, <1>5
<1>7. ASSUME NEW r \in 0 .. p.recs - 1, NEW s \in 0 .. p.recs - 1, G[r].key = G[s].key
      PROVE  r = s
  <2>1. F[From(r)].key = F[From(s)].key /\ From(r) \in 0 .. p.recs - 1 /\ From(s) \in 0 .. p.recs - 1
        /\ From(From(r)) = r /\ From(From(s)) = s
    BY <1>4, <1>7
  <2> HIDE DEF From
  <2> QED BY <1>5, <2>1
<1>8. ASSUME NEW k \in Keys, x.table[k].row < p.recs
      PROVE  \E r \in 0 .. p.recs - 1 : G[r].key = k
  <2>1. PICK r \in 0 .. p.recs - 1 : F[r].key = k
    BY <1>5, <1>8
  <2> QED BY <1>4, <2>1
<1>9. ASSUME NEW q \in 0 .. n.recs - 1
      PROVE  x.table[G[q].key].row = q \/ \E g \in n.recs .. p.recs - 1 : x.table[G[g].key].row = q
  <2>1. q \in 0 .. m.recs - 1 /\ q \in 0 .. p.recs - 1 /\ last \in n.recs .. p.recs - 1
        /\ last \in 0 .. p.recs - 1 /\ q # last
    BY <1>1, <1>2
  <2>2. ASSUME NEW g \in m.recs .. p.recs - 1
        PROVE  g \in n.recs .. p.recs - 1 /\ G[g].key = F[g].key
    <3>1. g \in 0 .. p.recs - 1 /\ g # last /\ g # row
      BY <1>1, <1>2
    <3>2. From(g) = g
      BY <3>1
    <3>3. G[g].key = F[g].key
      BY <1>4, <3>1, <3>2
    <3> HIDE DEF From
    <3> QED BY <1>1, <1>2, <3>3
  <2>3. CASE \E g \in m.recs .. p.recs - 1 : x.table[F[g].key].row = q
    BY <2>2, <2>3
  <2>4. CASE x.table[F[q].key].row = q
    <3>1. CASE q = row
      <4>1. G[last].key = F[row].key
        BY DEF Deletes
      <4> QED BY <2>1, <2>4, <3>1, <4>1
    <3>2. CASE q # row
      <4>1. G[q].key = F[q].key
        BY <1>4, <2>1, <3>2
      <4> QED BY <2>4, <4>1
    <3> QED BY <3>1, <3>2
  <2> QED BY <1>5, <2>1, <2>3, <2>4
<1> HIDE DEF last, From
<1> QED BY <1>3, <1>5, <1>6, <1>7, <1>8, <1>9 DEF Permuted

LEMMA KnowsDeleted ==
  ASSUME NEW x \in IoType, NEW m \in Counters, NEW F, NEW n \in Counters, NEW G, NEW row,
         Knows(x, m, F), Deletes(m, F, n, G, row)
  PROVE  Knows(x, n, G)
<1> DEFINE p == x.seen
           kept == p.recs - (m.remv - p.remv)
           less == p.recs - (n.remv - p.remv)
<1>1. /\ p \in Counters /\ p.recs <= p.lines /\ p.sync \in Nat /\ p.swap \in Nat /\ p.remv \in Nat
      /\ p.recs \in Nat /\ p.lines \in Nat
      /\ p.swap <= m.swap /\ p.remv <= m.remv /\ p.lines <= m.lines
      /\ m.remv - p.remv <= m.sync - p.sync
  BY DEF Knows, Counters
<1>2. /\ m.sync \in Nat /\ m.swap \in Nat /\ m.remv \in Nat /\ m.recs \in Nat /\ m.lines \in Nat
      /\ n.sync \in Nat /\ n.swap \in Nat /\ n.remv \in Nat /\ n.recs \in Nat /\ n.lines \in Nat
      /\ m.recs <= MaxRows
  BY DEF Counters
<1>3. /\ row \in 0 .. m.recs - 1 /\ n.recs = m.recs - 1 /\ n.lines = m.lines
      /\ n.sync = m.sync + 1 /\ n.remv = m.remv + 1
      /\ n.swap = m.swap + (IF row < m.recs - 1 THEN 1 ELSE 0)
  BY DEF Deletes
<1>4. /\ p.sync # n.sync /\ p.swap <= n.swap /\ p.remv <= n.remv /\ p.lines <= n.lines
      /\ n.remv - p.remv <= n.sync - p.sync
  BY <1>1, <1>2, <1>3
<1>5. ASSUME n.swap = p.swap
      PROVE  less <= n.recs /\ Agree(x.table, less, G)
  <2>1. row = m.recs - 1 /\ m.swap = p.swap
    BY <1>1, <1>2, <1>3, <1>5
  <2>2. kept <= m.recs /\ Agree(x.table, kept, F)
    BY <2>1 DEF Knows
  <2>3. less = kept - 1 /\ less <= n.recs /\ kept \in Int /\ less \in Int
    BY <1>1, <1>2, <1>3, <2>2
  <2>4. ASSUME NEW r \in 0 .. less - 1 PROVE r \in 0 .. kept - 1 /\ G[r].key = F[r].key
    <3>1. r \in RowIds /\ r # row
      BY <1>2, <1>3, <2>1, <2>3, SyncBounds DEF RowIds
    <3>2. G[r].key = F[r].key
      BY <2>1, <3>1 DEF Deletes
    <3> QED BY <2>3, <3>2
  <2>5. \A k \in Keys : x.table[k].row \in Nat
    BY DEF IoType, Tables
  <2> HIDE DEF kept, less
  <2>6. ASSUME NEW k \in Keys, x.table[k].row < less PROVE G[x.table[k].row].key = k
    <3>1. x.table[k].row \in 0 .. less - 1 /\ x.table[k].row < kept
      BY <2>3, <2>5, <2>6
    <3> QED BY <2>2, <2>4, <3>1 DEF Agree
  <2>7. \A r \in 0 .. less - 1 : G[r].key \in Keys /\ x.table[G[r].key].row = r
    BY <2>2, <2>4 DEF Agree
  <2> QED BY <2>3, <2>6, <2>7 DEF Agree
<1>6. ASSUME n.sync - p.sync = n.remv - p.remv PROVE Permuted(x, p, n, G)
  <2>1. Permuted(x, p, m, F)
    BY <1>1, <1>2, <1>3, <1>6 DEF Knows
  <2> QED BY <1>1, <2>1, PermutedDeletes
<1>7. (\A r \in RowIds : x.rows[r] # EmptyRow => r < p.recs) /\ Entries(x.table, p.recs)
  BY DEF Knows
<1> QED BY <1>1, <1>4, <1>5, <1>6, <1>7 DEF Knows

\* A record that gets another key leaves no knowledge.
LEMMA KnowsRenamed ==
  ASSUME NEW x, NEW m \in Counters, NEW F, NEW n \in Counters, NEW G,
         Knows(x, m, F),
         n.sync = m.sync + 1, n.swap = m.swap + 1, n.remv = m.remv, n.lines = m.lines
  PROVE  Knows(x, n, G)
<1> DEFINE p == x.seen
<1>1. /\ p \in Counters /\ p.recs <= p.lines /\ p.sync \in Nat /\ p.swap \in Nat /\ p.remv \in Nat
      /\ p.recs \in Nat /\ p.lines \in Nat
      /\ p.swap <= m.swap /\ p.remv <= m.remv /\ p.lines <= m.lines
      /\ m.remv - p.remv <= m.sync - p.sync
  BY DEF Knows, Counters
<1>2. /\ m.sync \in Nat /\ m.swap \in Nat /\ m.remv \in Nat /\ m.lines \in Nat
      /\ n.sync \in Nat /\ n.swap \in Nat /\ n.remv \in Nat /\ n.lines \in Nat
  BY DEF Counters
<1>3. p.sync # n.sync /\ n.sync - p.sync # n.remv - p.remv /\ p.swap # n.swap
  BY <1>1, <1>2
<1> QED BY <1>1, <1>2, <1>3 DEF Knows

-----------------------------------------------------------------------------
(* Loading the keys *)

\* Forgetting the rows that were read leaves the other knowledge.
LEMMA KnowsSame ==
  ASSUME NEW x, NEW y, NEW m, NEW F, Knows(x, m, F),
         y.seen = x.seen, y.table = x.table, y.rows = x.rows \/ y.rows = NoRows
  PROVE  Knows(y, m, F)
<1>1. ASSUME NEW r \in RowIds, y.rows[r] # EmptyRow PROVE y.rows[r] = x.rows[r]
  BY <1>1 DEF NoRows
<1>2. /\ Remembers(x, F) => Remembers(y, F)
      /\ \A r \in RowIds : y.rows[r] # EmptyRow => x.rows[r] # EmptyRow
  BY <1>1 DEF Remembers
<1>3. \A p : Permuted(x, p, m, F) => Permuted(y, p, m, F)
  BY DEF Permuted
<1> QED BY <1>2, <1>3 DEF Knows

\* A table that agrees with the first rows agrees with all of them once the
\* others were read again.
LEMMA RereadRight ==
  ASSUME NEW t \in Tables, NEW lo \in Nat, NEW n \in 0 .. MaxRows, lo <= n,
         file.rows \in [RowIds -> Rows], Records(n, file.rows),
         Entries(t, lo), Agree(t, lo, file.rows)
  PROVE  /\ Reread(t, lo, n) \in Tables
         /\ Entries(Reread(t, lo, n), n)
         /\ Agree(Reread(t, lo, n), n, file.rows)
<1> DEFINE T == Reread(t, lo, n)
           found(k) == {r \in lo .. n - 1 : file.rows[r].key = k}
           top(k) == CHOOSE s \in found(k) : \A q \in found(k) : q <= s
<1>1. MaxRows \in Nat /\ n \in Nat /\ n <= MaxRows
  BY SyncBounds
<1>2. ASSUME NEW k \in Keys, NEW r \in lo .. n - 1, file.rows[r].key = k
      PROVE  T[k] = [row |-> r, ro |-> file.rows[r].ro]
  <2>1. \A s \in found(k) : s = r
    BY <1>1, <1>2 DEF Records
  <2>2. r \in found(k) /\ \A q \in found(k) : q <= r
    BY <1>2, <2>1
  <2>3. top(k) \in found(k)
    BY <2>2
  <2>4. top(k) = r
    BY <2>1, <2>3
  <2>5. found(k) # {}
    BY <2>2
  <2>6. T[k] = [row |-> top(k), ro |-> file.rows[top(k)].ro]
    BY <2>5 DEF Reread
  <2> QED BY <2>4, <2>6
<1>3. ASSUME NEW k \in Keys, \A r \in lo .. n - 1 : file.rows[r].key # k
      PROVE  T[k] = t[k]
  <2>1. found(k) = {}
    BY <1>3
  <2> QED BY <2>1 DEF Reread
<1>4. ASSUME NEW r \in lo .. n - 1 PROVE r \in 0 .. n - 1 /\ file.rows[r].ro \in BOOLEAN
  <2>1. r \in RowIds /\ r \in 0 .. n - 1
    BY <1>1 DEF RowIds
  <2>2. file.rows[r] \in Rows
    BY <2>1
  <2> QED BY <2>1, <2>2 DEF Rows
<1>5. ASSUME NEW k \in Keys PROVE T[k] \in [row : 0 .. MaxRows, ro : BOOLEAN]
  <2>1. CASE \A r \in lo .. n - 1 : file.rows[r].key # k
    BY <1>3, <2>1 DEF Tables
  <2>2. CASE \E r \in lo .. n - 1 : file.rows[r].key = k
    <3>1. PICK r \in lo .. n - 1 : file.rows[r].key = k
      BY <2>2
    <3>2. T[k] = [row |-> r, ro |-> file.rows[r].ro]
      BY <1>2, <3>1
    <3>3. r \in 0 .. MaxRows /\ file.rows[r].ro \in BOOLEAN
      BY <1>1, <1>4
    <3> HIDE DEF T
    <3> QED BY <3>2, <3>3
  <2> QED BY <2>1, <2>2
<1>6. T \in Tables
  <2>1. T = [k \in Keys |-> T[k]]
    BY DEF Reread
  <2> HIDE DEF T
  <2> QED BY <1>5, <2>1 DEF Tables
<1> HIDE DEF T, found, top
<1>7. ASSUME NEW k \in Keys
      PROVE  /\ T[k].row < n \/ T[k].row = NoRow
             /\ T[k].row < n => file.rows[T[k].row].key = k
  <2>1. CASE \A r \in lo .. n - 1 : file.rows[r].key # k
    <3>1. T[k] = t[k]
      BY <1>3, <2>1
    <3>2. t[k].row \in 0 .. MaxRows
      BY DEF Tables
    <3>3. t[k].row < lo \/ t[k].row = NoRow
      BY DEF Entries
    <3> QED BY <1>1, <3>1, <3>2, <3>3 DEF Agree, NoRow
  <2>2. CASE \E r \in lo .. n - 1 : file.rows[r].key = k
    <3>1. PICK r \in lo .. n - 1 : file.rows[r].key = k
      BY <2>2
    <3>2. T[k] = [row |-> r, ro |-> file.rows[r].ro]
      BY <1>2, <3>1
    <3>3. T[k].row = r
      BY <3>2
    <3> QED BY <1>1, <3>1, <3>3
  <2> QED BY <2>1, <2>2
<1>8. ASSUME NEW r \in 0 .. n - 1 PROVE file.rows[r].key \in Keys /\ T[file.rows[r].key].row = r
  <2>1. file.rows[r].key \in Keys
    BY DEF Records
  <2>2. CASE r \in lo .. n - 1
    <3>1. T[file.rows[r].key] = [row |-> r, ro |-> file.rows[r].ro]
      BY <1>2, <2>1, <2>2
    <3> QED BY <2>1, <3>1
  <2>3. CASE r \notin lo .. n - 1
    <3>1. r \in 0 .. lo - 1
      BY <1>1, <2>3
    <3>2. \A s \in lo .. n - 1 : file.rows[s].key # file.rows[r].key
      BY <1>4, <2>3 DEF Records
    <3>3. T[file.rows[r].key] = t[file.rows[r].key]
      BY <1>3, <2>1, <3>2
    <3> QED BY <2>1, <3>1, <3>3 DEF Agree
  <2> QED BY <2>2, <2>3
<1> QED BY <1>6, <1>7, <1>8 DEF Entries, Agree, T

\* All rows are read.
LEMMA RereadAll ==
  ASSUME NEW n \in 0 .. MaxRows, file.rows \in [RowIds -> Rows], Records(n, file.rows)
  PROVE  /\ Reread(NoTable, 0, n) \in Tables
         /\ Entries(Reread(NoTable, 0, n), n)
         /\ Agree(Reread(NoTable, 0, n), n, file.rows)
<1>1. NoTable \in Tables /\ Entries(NoTable, 0)
  BY NoTableRow DEF Entries
<1>2. Agree(NoTable, 0, file.rows)
  <2>1. \A k \in Keys : ~(NoTable[k].row < 0)
    BY NoTableRow, SyncBounds DEF NoRow
  <2>2. 0 .. 0 - 1 = {}
    OBVIOUS
  <2> QED BY <2>1, <2>2 DEF Agree
<1>3. n \in Nat /\ 0 <= n
  BY SyncBounds
<1> QED BY <1>1, <1>2, <1>3, RereadRight

LEMMA PrunedRight ==
  ASSUME NEW t \in Tables, NEW n \in Int, NEW lo \in 0 .. MaxRows, lo <= n \/ lo = 0, NEW F,
         Agree(t, n, F)
  PROVE  Pruned(t, lo) \in Tables /\ Entries(Pruned(t, lo), lo) /\ Agree(Pruned(t, lo), lo, F)
<1>1. NoEntry \in [row : 0 .. MaxRows, ro : BOOLEAN] /\ NoEntry.row = NoRow
  BY SyncBounds DEF NoEntry, NoRow
<1>2. Pruned(t, lo) \in Tables
  BY <1>1 DEF Pruned, Tables
<1>3. \A k \in Keys : Pruned(t, lo)[k] = (IF t[k].row < lo THEN t[k] ELSE NoEntry)
  BY DEF Pruned
<1>4. \A k \in Keys : t[k].row \in Nat
  BY SyncBounds DEF Tables
<1>5. Entries(Pruned(t, lo), lo)
  BY <1>1, <1>3 DEF Entries
<1>6. ASSUME NEW k \in Keys, Pruned(t, lo)[k].row < lo PROVE F[Pruned(t, lo)[k].row].key = k
  <2>1. CASE t[k].row < lo
    BY <1>3, <1>4, <2>1 DEF Agree
  <2>2. CASE ~(t[k].row < lo)
    <3>1. Pruned(t, lo)[k].row = MaxRows
      BY <1>1, <1>3, <2>2 DEF NoRow
    <3> QED BY <1>6, <3>1, SyncBounds
  <2> QED BY <2>1, <2>2
<1>7. ASSUME NEW r \in 0 .. lo - 1 PROVE F[r].key \in Keys /\ Pruned(t, lo)[F[r].key].row = r
  <2>1. r \in 0 .. n - 1
    OBVIOUS
  <2> QED BY <1>3, <2>1 DEF Agree
<1> QED BY <1>2, <1>5, <1>6, <1>7 DEF Agree

\* After nothing but deletions the table is put right from the deleted rows.
LEMMA MovedRight ==
  ASSUME NEW x \in IoType, NEW p \in Counters, NEW m \in Counters,
         file.rows \in [RowIds -> Rows],
         Permuted(x, p, m, file.rows), m.recs <= p.recs, Entries(x.table, p.recs)
  PROVE  LET M == Moved(x.table, m.recs, m.recs .. p.recs - 1) IN
         M \in Tables /\ Entries(M, m.recs) /\ Agree(M, m.recs, file.rows)
<1> DEFINE F == file.rows
           t == x.table
           gone == m.recs .. p.recs - 1
           M == Moved(t, m.recs, gone)
           into(k) == {r \in gone : LET old == t[F[r].key].row IN old < m.recs /\ F[old].key = k}
           some(k) == CHOOSE s \in into(k) : TRUE
<1>1. /\ m.recs \in Nat /\ p.recs \in Nat /\ m.recs <= p.recs /\ p.recs <= MaxRows /\ MaxRows \in Nat
      /\ t \in Tables
  BY SyncBounds DEF Counters, IoType
<1>2. /\ \A r \in 0 .. p.recs - 1 : F[r].key \in Keys
      /\ \A r, s \in 0 .. p.recs - 1 : F[r].key = F[s].key => r = s
      /\ \A k \in Keys : t[k].row < p.recs => \E r \in 0 .. p.recs - 1 : F[r].key = k
      /\ \A q \in 0 .. m.recs - 1 :
           t[F[q].key].row = q \/ \E g \in gone : t[F[g].key].row = q
  BY DEF Permuted
<1>3. ASSUME NEW r \in gone PROVE r \in 0 .. p.recs - 1 /\ F[r].key \in Keys /\ F[r].ro \in BOOLEAN
  <2>1. r \in 0 .. p.recs - 1 /\ r \in RowIds
    BY <1>1, SMTT(30) DEF RowIds
  <2>2. F[r] \in Rows
    BY <2>1
  <2> QED BY <1>2, <2>1, <2>2 DEF Rows
<1>4. ASSUME NEW k \in Keys, NEW g \in gone, F[g].key = k PROVE M[k] = NoEntry
  BY <1>4, Zenon DEF Moved
<1>5. ASSUME NEW k \in Keys, \A g \in gone : F[g].key # k, into(k) = {} PROVE M[k] = t[k]
  BY <1>5, Zenon DEF Moved
<1>6. ASSUME NEW k \in Keys, \A g \in gone : F[g].key # k, into(k) # {}
      PROVE  \E g \in gone : LET old == t[F[g].key].row IN
               old < m.recs /\ F[old].key = k /\ M[k] = [row |-> old, ro |-> F[g].ro]
  <2>1. some(k) \in into(k)
    BY <1>6, Zenon
  <2>2. M[k] = [row |-> t[F[some(k)].key].row, ro |-> F[some(k)].ro]
    BY <1>6, Zenon DEF Moved
  <2> HIDE DEF some, M
  <2> QED BY <2>1, <2>2, Zenon
<1>7. M = [k \in Keys |-> M[k]]
  BY Zenon DEF Moved
<1>8. NoEntry \in [row : 0 .. MaxRows, ro : BOOLEAN] /\ NoEntry.row = MaxRows
  BY SyncBounds DEF NoEntry, NoRow
<1> HIDE DEF M
<1>9. ASSUME NEW k \in Keys PROVE M[k] \in [row : 0 .. MaxRows, ro : BOOLEAN]
  <2>1. \A l \in Keys : t[l] \in [row : 0 .. MaxRows, ro : BOOLEAN]
    BY <1>1 DEF Tables
  <2>2. CASE \E g \in gone : F[g].key = k
    BY <1>4, <1>8, <2>2, SMTT(30)
  <2>3. CASE (\A g \in gone : F[g].key # k) /\ into(k) = {}
    BY <1>5, <2>1, <2>3
  <2>4. CASE (\A g \in gone : F[g].key # k) /\ into(k) # {}
    <3>1. PICK g \in gone : M[k] = [row |-> t[F[g].key].row, ro |-> F[g].ro]
      BY <1>6, <2>4
    <3>2. t[F[g].key].row \in 0 .. MaxRows /\ F[g].ro \in BOOLEAN
      BY <1>3, <2>1
    <3> QED BY <3>1, <3>2, SMTT(30)
  <2> QED BY <2>2, <2>3, <2>4
<1>10. M \in Tables
  BY <1>7, <1>9 DEF Tables
<1>11. ASSUME NEW q \in 0 .. m.recs - 1 PROVE F[q].key \in Keys /\ M[F[q].key].row = q
  <2> DEFINE k == F[q].key
  <2>1. q \in 0 .. p.recs - 1 /\ q \notin gone /\ k \in Keys
    BY <1>1, <1>2
  <2>2. \A g \in gone : F[g].key # k
    BY <1>2, <1>3, <2>1
  <2>3. CASE into(k) = {}
    <3>1. M[k] = t[k]
      BY <1>5, <2>1, <2>2, <2>3, SMTT(30)
    <3>2. ASSUME NEW g \in gone, t[F[g].key].row = q PROVE FALSE
      <4>1. g \in into(k)
        BY <1>1, <3>2
      <4> QED BY <2>3, <4>1, Zenon
    <3> QED BY <1>2, <2>1, <3>1, <3>2, SMTT(30)
  <2>4. CASE into(k) # {}
    <3>1. PICK g \in gone : t[F[g].key].row < m.recs /\ F[t[F[g].key].row].key = k
                            /\ M[k] = [row |-> t[F[g].key].row, ro |-> F[g].ro]
      BY <1>6, <2>1, <2>2, <2>4, Zenon
    <3>2. t[F[g].key].row \in Nat
      BY <1>1, <1>3 DEF Tables
    <3>3. t[F[g].key].row \in 0 .. p.recs - 1
      BY <1>1, <3>1, <3>2
    <3>4. t[F[g].key].row = q
      BY <1>2, <2>1, <3>1, <3>3, Zenon
    <3> HIDE DEF k
    <3> QED BY <2>1, <3>1, <3>4, SMTT(30) DEF k
  <2> QED BY <2>1, <2>3, <2>4
<1>12. ASSUME NEW k \in Keys
       PROVE  /\ M[k].row < m.recs \/ M[k].row = NoRow
              /\ M[k].row < m.recs => F[M[k].row].key = k
  <2>1. CASE \E g \in gone : F[g].key = k
    BY <1>1, <1>4, <1>8, <2>1 DEF NoRow
  <2>2. CASE (\A g \in gone : F[g].key # k) /\ into(k) = {}
    <3>1. M[k] = t[k] /\ t[k].row \in 0 .. MaxRows
      BY <1>1, <1>5, <2>2 DEF Tables
    <3>2. CASE t[k].row = NoRow
      BY <1>1, <3>1, <3>2 DEF NoRow
    <3>3. CASE t[k].row < p.recs
      <4>1. PICK r \in 0 .. p.recs - 1 : F[r].key = k
        BY <1>2, <3>3
      <4>2. r \in 0 .. m.recs - 1
        BY <1>1, <2>2, <4>1
      <4>3. M[k].row = r
        BY <1>11, <4>1, <4>2
      <4> QED BY <1>1, <4>1, <4>2, <4>3
    <3> QED BY <3>2, <3>3, SMTT(30) DEF Entries
  <2>3. CASE (\A g \in gone : F[g].key # k) /\ into(k) # {}
    <3>1. PICK g \in gone : t[F[g].key].row < m.recs /\ F[t[F[g].key].row].key = k
                            /\ M[k] = [row |-> t[F[g].key].row, ro |-> F[g].ro]
      BY <1>6, <2>3
    <3>2. M[k].row = t[F[g].key].row
      BY <3>1
    <3> QED BY <3>1, <3>2, SMTT(30)
  <2> QED BY <2>1, <2>2, <2>3
<1> QED BY <1>10, <1>11, <1>12 DEF Entries, Agree, M

\* What load_keys leaves, in parts
LEMMA LoadKeysParts ==
  ASSUME NEW y
  PROVE  LET h == y.mem
             p == y.seen
             swap == Diff(h.swap, p.swap)
             remv == Diff(h.remv, p.remv)
             sync == Diff(h.sync, p.sync)
             all == h.lines = 0 \/ p.lines = 0 \/ h.lines - p.lines < 0
             first == FirstChanged(y, h.recs, remv)
             z == LoadKeys(y)
         IN  /\ z = [mem |-> h, seen |-> h, size |-> file.size, table |-> z.table, rows |-> z.rows]
             /\ z.rows = IF all \/ sync # 0 THEN NoRows ELSE y.rows
             /\ all => z.table = Reread(NoTable, 0, h.recs)
             /\ ~all /\ swap = 0 =>
                  z.table = IF h.recs - p.recs = 0 /\ remv = 0
                              THEN IF h.recs = 0 THEN NoTable ELSE y.table
                              ELSE Reread(Pruned(y.table, first), first, h.recs)
             /\ ~all /\ swap # 0 =>
                  z.table = IF sync = remv /\ remv = -(h.recs - p.recs) /\ h.lines - p.lines = 0
                              THEN IF h.recs = 0 THEN NoTable
                                   ELSE Moved(y.table, h.recs, h.recs .. Smaller(h.lines, h.recs + remv) - 1)
                              ELSE Reread(NoTable, 0, h.recs)
BY DEF LoadKeys

\* load_keys brings any table up to date, whatever was done since the handle
\* saw the header.
LEMMA LoadsRight ==
  ASSUME NEW y \in IoType, TypeOK, y.mem = file.head, file.head.recs <= file.head.lines,
         Records(file.head.recs, file.rows),
         y.seen = NewIo.seen \/ Knows(y, file.head, file.rows)
  PROVE  LET z == LoadKeys(y) IN
         /\ z \in IoType /\ z.mem = file.head /\ z.seen = file.head /\ z.size = file.size
         /\ UpToDate(z, file.rows)
<1> DEFINE h == file.head
           p == y.seen
           swap == Diff(h.swap, p.swap)
           remv == Diff(h.remv, p.remv)
           sync == Diff(h.sync, p.sync)
           all == h.lines = 0 \/ p.lines = 0 \/ h.lines - p.lines < 0
           first == FirstChanged(y, h.recs, remv)
           z == LoadKeys(y)
           only == sync = remv /\ remv = -(h.recs - p.recs) /\ h.lines - p.lines = 0
<1>1. /\ h \in Counters /\ h.sync \in Nat /\ h.swap \in Nat /\ h.remv \in Nat /\ h.recs \in 0 .. MaxRows
      /\ h.lines \in 0 .. MaxRows /\ h.recs <= h.lines /\ MaxRows \in Nat
      /\ file.rows \in [RowIds -> Rows] /\ file.size \in Nat
  BY Basics DEF Counters
<1>2. /\ z = [mem |-> h, seen |-> h, size |-> file.size, table |-> z.table, rows |-> z.rows]
      /\ z.rows = IF all \/ sync # 0 THEN NoRows ELSE y.rows
      /\ all => z.table = Reread(NoTable, 0, h.recs)
      /\ ~all /\ swap = 0 =>
           z.table = IF h.recs - p.recs = 0 /\ remv = 0
                       THEN IF h.recs = 0 THEN NoTable ELSE y.table
                       ELSE Reread(Pruned(y.table, first), first, h.recs)
      /\ ~all /\ swap # 0 =>
           z.table = IF only
                       THEN IF h.recs = 0 THEN NoTable
                            ELSE Moved(y.table, h.recs, h.recs .. Smaller(h.lines, h.recs + remv) - 1)
                       ELSE Reread(NoTable, 0, h.recs)
  BY LoadKeysParts
<1> HIDE DEF z
<1> DEFINE Right == /\ z.table \in Tables
                    /\ Entries(z.table, h.recs)
                    /\ Agree(z.table, h.recs, file.rows)
<1>3. NoTable \in Tables /\ (h.recs = 0 => Entries(NoTable, h.recs) /\ Agree(NoTable, h.recs, file.rows))
  <2>1. NoTable \in Tables /\ \A k \in Keys : NoTable[k].row = MaxRows /\ NoTable[k].row = NoRow
    BY NoTableRow DEF NoRow
  <2>2. ASSUME h.recs = 0 PROVE Entries(NoTable, h.recs) /\ Agree(NoTable, h.recs, file.rows)
    <3>1. \A k \in Keys : ~(NoTable[k].row < h.recs)
      BY <1>1, <2>1, <2>2
    <3>2. 0 .. h.recs - 1 = {}
      BY <2>2
    <3> QED BY <2>1, <3>1, <3>2 DEF Entries, Agree
  <2> QED BY <2>1, <2>2
<1>4. ASSUME all
      PROVE  /\ z \in IoType /\ z.mem = file.head /\ z.seen = file.head /\ z.size = file.size
             /\ UpToDate(z, file.rows)
  <2>1. Right
    BY <1>1, <1>2, <1>4, RereadAll
  <2>2. z.rows = NoRows
    BY <1>2, <1>4
  <2>3. z \in IoType
    BY <1>1, <1>2, <2>1, <2>2, EmptyIsRow DEF IoType, Seens
  <2>4. \A r \in RowIds : z.rows[r] = EmptyRow
    BY <2>2 DEF NoRows
  <2>5. z.mem = h /\ z.seen = h /\ z.size = file.size
    BY <1>2
  <2>6. UpToDate(z, file.rows)
    BY <1>1, <2>1, <2>4, <2>5 DEF UpToDate, Remembers
  <2> QED BY <2>3, <2>5, <2>6
<1>5. ASSUME ~all
      PROVE  /\ z \in IoType /\ z.mem = file.head /\ z.seen = file.head /\ z.size = file.size
             /\ UpToDate(z, file.rows)
  <2>1. Knows(y, h, file.rows)
    <3>1. NewIo.seen.lines = 0
      BY DEF NewIo
    <3> QED BY <1>5, <3>1
  <2>2. /\ p \in Counters /\ p.sync \in Nat /\ p.swap \in Nat /\ p.remv \in Nat
        /\ p.recs \in 0 .. MaxRows /\ p.lines \in 0 .. MaxRows /\ p.recs <= p.lines
        /\ p.swap <= h.swap /\ p.remv <= h.remv /\ p.lines <= h.lines
        /\ h.remv - p.remv <= h.sync - p.sync
        /\ y.table \in Tables /\ y.rows \in [RowIds -> Rows]
    BY <2>1 DEF Knows, Counters, IoType
  <2>3. swap = h.swap - p.swap /\ remv = h.remv - p.remv /\ sync = h.sync - p.sync
    BY <1>1, <2>2 DEF Diff
  <2> DEFINE kept == p.recs - (h.remv - p.remv)
  <2>4. ASSUME swap = 0 PROVE Right
    <3>1. kept <= h.recs /\ Agree(y.table, kept, file.rows) /\ Entries(y.table, p.recs)
      BY <1>1, <2>1, <2>2, <2>3, <2>4 DEF Knows
    <3>2. CASE h.recs - p.recs = 0 /\ remv = 0
      <4>1. z.table = IF h.recs = 0 THEN NoTable ELSE y.table
        BY <1>2, <1>5, <2>4, <3>2
      <4>2. kept = h.recs /\ p.recs = h.recs
        BY <1>1, <2>2, <2>3, <3>2
      <4> HIDE DEF all, kept
      <4>3. Entries(y.table, h.recs) /\ Agree(y.table, h.recs, file.rows)
        BY <3>1, <4>2
      <4> QED BY <1>3, <2>2, <4>1, <4>3
    <3>3. CASE ~(h.recs - p.recs = 0 /\ remv = 0)
      <4>1. z.table = Reread(Pruned(y.table, first), first, h.recs)
        BY <1>2, <1>5, <2>4, <3>3
      <4>2. first \in 0 .. MaxRows /\ (first <= kept \/ first = 0) /\ first <= h.recs /\ kept \in Int
        BY <1>1, <2>2, <2>3, <3>1 DEF FirstChanged, Larger
      <4> HIDE DEF first, all, kept
      <4>3. /\ Pruned(y.table, first) \in Tables /\ Entries(Pruned(y.table, first), first)
            /\ Agree(Pruned(y.table, first), first, file.rows)
        BY <2>2, <3>1, <4>2, PrunedRight
      <4>4. first \in Nat
        BY <1>1, <4>2
      <4> QED BY <1>1, <4>1, <4>2, <4>3, <4>4, RereadRight
    <3> QED BY <3>2, <3>3
  <2>5. ASSUME swap # 0 PROVE Right
    <3>1. CASE only
      <4>1. /\ sync = remv /\ h.recs = p.recs - (h.remv - p.remv) /\ h.recs <= p.recs
            /\ h.recs + remv = p.recs /\ p.recs <= h.lines
        BY <1>1, <2>2, <2>3, <3>1
      <4>2. Permuted(y, p, h, file.rows) /\ Entries(y.table, p.recs)
        BY <2>1, <2>3, <4>1 DEF Knows
      <4>3. Smaller(h.lines, h.recs + remv) = p.recs
        BY <1>1, <2>2, <4>1 DEF Smaller
      <4>4. z.table = IF h.recs = 0 THEN NoTable ELSE Moved(y.table, h.recs, h.recs .. p.recs - 1)
        BY <1>2, <1>5, <2>5, <3>1, <4>3
      <4> HIDE DEF only, all, remv, sync, swap
      <4>5. LET M == Moved(y.table, h.recs, h.recs .. p.recs - 1) IN
            M \in Tables /\ Entries(M, h.recs) /\ Agree(M, h.recs, file.rows)
        BY <1>1, <2>2, <4>1, <4>2, MovedRight
      <4> QED BY <1>3, <4>4, <4>5
    <3>2. CASE ~only
      <4>1. z.table = Reread(NoTable, 0, h.recs)
        BY <1>2, <1>5, <2>5, <3>2
      <4> QED BY <1>1, <4>1, RereadAll
    <3> QED BY <3>1, <3>2
  <2>6. Right
    BY <2>4, <2>5
  <2>7. z.rows = NoRows \/ (z.rows = y.rows /\ sync = 0)
    BY <1>2, <1>5
  <2>8. z.rows \in [RowIds -> Rows]
    BY <2>2, <2>7, EmptyIsRow
  <2>9. z \in IoType
    BY <1>1, <1>2, <2>6, <2>8 DEF IoType, Seens
  <2>10. (\A r \in RowIds : z.rows[r] # EmptyRow => r < h.recs) /\ Remembers(z, file.rows)
    <3>1. CASE z.rows = NoRows
      <4>1. \A r \in RowIds : z.rows[r] = EmptyRow
        BY <3>1 DEF NoRows
      <4> QED BY <4>1 DEF Remembers
    <3>2. CASE z.rows = y.rows /\ sync = 0
      <4>1. p.sync = h.sync
        BY <1>1, <2>2, <2>3, <3>2
      <4>2. p = h /\ Remembers(y, file.rows) /\ \A r \in RowIds : y.rows[r] # EmptyRow => r < p.recs
        BY <2>1, <4>1 DEF Knows
      <4> QED BY <3>2, <4>2 DEF Remembers
    <3> QED BY <2>7, <3>1, <3>2
  <2>11. z.mem = h /\ z.seen = h /\ z.size = file.size
    BY <1>2
  <2>12. UpToDate(z, file.rows)
    BY <1>1, <2>6, <2>10, <2>11 DEF UpToDate
  <2> QED BY <2>9, <2>11, <2>12
<1> QED BY <1>4, <1>5 DEF z

-----------------------------------------------------------------------------
(* Steps that leave the file as it is *)

OnlyWriter(h) == st[h] = "write" /\ \A g \in Others(h) : st[g] # "write"

LEMMA WriterLatest ==
  ASSUME NEW h \in Handles, OnlyWriter(h)
  PROVE  Latest = io[h].mem
<1> DEFINE w == CHOOSE g \in Handles : st[g] = "write"
<1>1. w \in Handles /\ st[w] = "write"
  BY DEF OnlyWriter
<1>2. w = h
  BY <1>1 DEF Others, OnlyWriter
<1>3. Latest = io[w].mem
  BY DEF Latest, OnlyWriter
<1> QED BY <1>2, <1>3

LEMMA WriterLatestNext ==
  ASSUME NEW h \in Handles, OnlyWriter(h)'
  PROVE  Latest' = io'[h].mem
<1> DEFINE w == CHOOSE g \in Handles : st'[g] = "write"
<1>1. w \in Handles /\ st'[w] = "write"
  BY DEF OnlyWriter
<1>2. w = h
  BY <1>1 DEF Others, OnlyWriter
<1>3. Latest' = io'[w].mem
  BY DEF Latest, OnlyWriter
<1> QED BY <1>2, <1>3

\* A table that agrees with the rows has one row for each key.
LEMMA AgreeRecords ==
  ASSUME NEW t, NEW n, NEW F, Agree(t, n, F)
  PROVE  Records(n, F)
BY DEF Agree, Records

LEMMA UpToDateBehind ==
  ASSUME NEW x \in IoType, NEW F, UpToDate(x, F), x.seen = x.mem
  PROVE  Behind(x, x.mem, F)
<1> DEFINE m == x.mem
<1>1. /\ m \in Counters /\ m.sync \in Nat /\ m.swap \in Nat /\ m.remv \in Nat /\ m.recs \in Nat
      /\ m.lines \in Nat /\ m.recs <= m.lines
  BY SyncBounds DEF IoType, Counters, UpToDate
<1>2. /\ Entries(x.table, m.recs) /\ Agree(x.table, m.recs, F) /\ Remembers(x, F)
      /\ \A r \in RowIds : x.rows[r] # EmptyRow => r < m.recs
  BY DEF UpToDate
<1>3. \A k \in Keys : x.table[k].row \in Nat
  BY SyncBounds DEF IoType, Tables
<1> HIDE DEF m
<1>4. Permuted(x, m, m, F)
  <2>1. m.recs = m.recs - (m.remv - m.remv)
    BY <1>1
  <2>2. \A k \in Keys : x.table[k].row < m.recs => x.table[k].row \in 0 .. m.recs - 1
    BY <1>1, <1>3
  <2>3. \A k \in Keys : x.table[k].row < m.recs => \E r \in 0 .. m.recs - 1 : F[r].key = k
    BY <1>2, <2>2 DEF Agree
  <2>4. \A k, l \in Keys : x.table[k].row = x.table[l].row /\ x.table[k].row < m.recs => k = l
    BY <1>2 DEF Agree
  <2>5. Records(m.recs, F)
    BY <1>2, AgreeRecords
  <2>6. \A q \in 0 .. m.recs - 1 : x.table[F[q].key].row = q
    BY <1>2 DEF Agree
  <2> QED BY <2>1, <2>3, <2>4, <2>5, <2>6 DEF Permuted, Records
<1>5. m.recs - (m.remv - m.remv) = m.recs /\ m.recs <= m.recs /\ m.remv - m.remv <= m.sync - m.sync
  BY <1>1
<1>6. x.seen = m
  BY DEF m
<1>7. Knows(x, m, F)
  BY <1>1, <1>2, <1>4, <1>5, <1>6 DEF Knows
<1> QED BY <1>6, <1>7 DEF Behind, m

\* A handle that saw the latest header knows everything.
LEMMA KnowsAll ==
  ASSUME NEW x \in IoType, NEW F, NEW m, Knows(x, m, F), x.seen = m, x.mem = m
  PROVE  UpToDate(x, F)
<1>1. /\ m \in Counters /\ m.recs \in Nat /\ m.remv \in Nat /\ m.recs <= m.lines
  BY DEF Knows, Counters
<1>2. m.recs - (m.remv - m.remv) = m.recs
  BY <1>1
<1>3. /\ Agree(x.table, m.recs, F) /\ Entries(x.table, m.recs) /\ Remembers(x, F)
      /\ \A r \in RowIds : x.rows[r] # EmptyRow => r < m.recs
  BY <1>2 DEF Knows
<1> QED BY <1>1, <1>3 DEF UpToDate

\* What handle h may have in memory in the state `to` of its session
Fits(h, to, x) ==
  /\ x \in IoType /\ Bounded(x.mem) /\ 0 < x.size /\ x.size <= file.size
  /\ to = "read" => x.mem = file.head /\ x.size = file.size
  /\ to = "write" =>
       /\ x.seen = file.head /\ file.head.sync <= x.mem.sync
       /\ x.mem.sync = file.head.sync => x.mem = file.head
       /\ \A g \in Others(h) : io[g].size <= x.size /\ st[g] # "read"
       /\ UpToDate(x, file.rows)
  /\ to # "write" => Behind(x, file.head, file.rows)
  /\ to # "write" /\ x.size = file.size => x.mem = file.head
  /\ \A g \in Others(h) : st[g] # "write"
  /\ (IF to = "write" THEN x.mem ELSE file.head) = (IF st[h] = "write" THEN io[h].mem ELSE file.head)

LEMMA SessionStep ==
  ASSUME Inv, NEW h \in Handles, NEW to \in {"closed", "read", "promoting", "write"}, NEW x,
         NEW b \in BOOLEAN, to = "write" => b, Fits(h, to, x),
         st' = [st EXCEPT ![h] = to], io' = [io EXCEPT ![h] = x],
         touched' = [touched EXCEPT ![h] = b],
         got' \in [Handles -> [key : Keys \cup {NoKey}, ver : Nat]],
         UNCHANGED <<file, changes>>
  PROVE  Inv'
<1>1. /\ st \in [Handles -> {"closed", "read", "promoting", "upgrading", "write"}]
      /\ touched \in [Handles -> BOOLEAN] /\ io \in [Handles -> IoType]
  BY DEF Inv, InvTypes, TypeOK
<1>2. /\ st'[h] = to /\ io'[h] = x /\ touched'[h] = b
      /\ \A g \in Others(h) : g \in Handles /\ st'[g] = st[g] /\ io'[g] = io[g] /\ touched'[g] = touched[g]
      /\ \A g \in Handles : g = h \/ g \in Others(h)
  BY <1>1 DEF Others
<1>3. x \in IoType /\ Bounded(x.mem)
  BY DEF Fits
<1>4. InvTypes'
  <2>1. io' \in [Handles -> IoType]
    BY <1>1, <1>3
  <2>2. \A g \in Handles : Bounded(io'[g].mem)
    BY <1>2, <1>3 DEF Inv, InvTypes
  <2>3. Bounded(file.head)
    BY DEF Inv, InvTypes
  <2>4. /\ st' \in [Handles -> {"closed", "read", "promoting", "upgrading", "write"}]
        /\ touched' \in [Handles -> BOOLEAN]
    BY <1>1
  <2>5. \A g \in Handles : io'[g] \in IoType
    BY <2>1
  <2>6. TypeOK'
    BY <2>4, <2>5 DEF Inv, InvTypes, TypeOK, IoType, Seens, Tables
  <2> QED BY <2>1, <2>2, <2>3, <2>6 DEF InvTypes, Bounded
<1>5. InvSessions'
  <2>1. \A g \in Handles : st'[g] # "upgrading"
    BY <1>2 DEF Inv, InvSessions
  <2>2. ASSUME NEW g \in Handles, st'[g] = "write"
        PROVE  touched'[g] /\ \A f \in Others(g) : st'[f] \notin {"read", "write"}
    <3>1. CASE g = h
      BY <1>2, <2>2, <3>1 DEF Fits
    <3>2. CASE g # h
      BY <1>2, <2>2, <3>2 DEF Fits
    <3> QED BY <3>1, <3>2
  <2> QED BY <2>1, <2>2 DEF InvSessions, Others
<1>6. InvSizes'
  <2>1. SizeKnown(h)'
    BY <1>2 DEF Fits, SizeKnown
  <2>2. ASSUME NEW g \in Others(h) PROVE SizeKnown(g)'
    <3>1. SizeKnown(g) /\ st[g] # "write"
      BY <1>2 DEF Inv, InvSizes, Fits
    <3> QED BY <1>2, <3>1 DEF SizeKnown
  <2>3. \A g \in Handles : SizeKnown(g)'
    BY <1>2, <2>1, <2>2
  <2> QED BY <2>3 DEF Inv, InvSizes
<1>7. Latest' = Latest
  <2>1. Latest' = IF to = "write" THEN x.mem ELSE file.head
    <3>1. \A g \in Others(h) : st'[g] # "write"
      BY <1>2 DEF Fits
    <3>2. CASE to = "write"
      <4>1. OnlyWriter(h)'
        BY <1>2, <3>1, <3>2 DEF OnlyWriter
      <4> QED BY <1>2, <3>2, <4>1, WriterLatestNext
    <3>3. CASE to # "write"
      <4>1. \A g \in Handles : st'[g] # "write"
        BY <1>2, <3>1, <3>3
      <4> QED BY <3>3, <4>1 DEF Latest
    <3> QED BY <3>2, <3>3
  <2>2. Latest = IF st[h] = "write" THEN io[h].mem ELSE file.head
    <3>1. \A g \in Others(h) : st[g] # "write"
      BY DEF Fits
    <3>2. CASE st[h] = "write"
      <4>1. OnlyWriter(h)
        BY <3>1, <3>2 DEF OnlyWriter
      <4> QED BY <3>2, <4>1, WriterLatest
    <3>3. CASE st[h] # "write"
      <4>1. \A g \in Handles : st[g] # "write"
        BY <1>2, <3>1, <3>3
      <4> QED BY <3>3, <4>1 DEF Latest
    <3> QED BY <3>2, <3>3
  <2> QED BY <2>1, <2>2 DEF Fits
<1>8. InvTables'
  <2>1. TableKnown(h)'
    <3>1. CASE to = "write"
      BY <1>2, <3>1 DEF Fits, TableKnown
    <3>2. CASE to # "write"
      <4>1. Latest' = file.head
        <5>1. \A g \in Handles : st'[g] # "write"
          BY <1>2, <3>2 DEF Fits
        <5> QED BY <5>1 DEF Latest
      <4>2. Behind(x, file.head, file.rows) /\ x.size > 0
        BY <1>3, <3>2 DEF Fits, IoType
      <4> QED BY <1>2, <3>2, <4>1, <4>2 DEF TableKnown
    <3> QED BY <3>1, <3>2
  <2>2. ASSUME NEW g \in Others(h) PROVE TableKnown(g)'
    <3>1. TableKnown(g)
      BY <1>2 DEF Inv, InvTables
    <3> QED BY <1>2, <1>7, <3>1 DEF TableKnown
  <2>3. \A g \in Handles : TableKnown(g)'
    BY <1>2, <2>1, <2>2
  <2> QED BY <1>7, <2>3 DEF Inv, InvTables
<1> QED BY <1>4, <1>5, <1>6, <1>8 DEF Inv

\* The memory of a handle that has the header of the file and its size
Fresh(x) ==
  /\ x \in IoType /\ x.mem = file.head /\ x.seen = file.head /\ x.size = file.size
  /\ UpToDate(x, file.rows)

LEMMA HeaderBounds ==
  ASSUME Inv
  PROVE  /\ file.head \in Counters /\ file.head.sync \in Nat /\ file.head.recs <= file.head.lines
         /\ Bounded(file.head) /\ file.size \in Nat /\ file.size > 0
         /\ io \in [Handles -> IoType]
         /\ \A h \in Handles : io[h].size \in Nat /\ io[h].size <= file.size
  BY Basics DEF Inv, InvTypes, InvSizes, SizeKnown, IoType, Counters

LEMMA FreshFits ==
  ASSUME Inv, NEW h \in Handles, NEW x, Fresh(x), st[h] # "write",
         \A g \in Others(h) : st[g] # "write"
  PROVE  /\ Fits(h, "read", x) /\ Fits(h, "closed", x)
         /\ (\A g \in Others(h) : st[g] # "read") => Fits(h, "write", x)
<1>1. /\ x \in IoType /\ x.mem = file.head /\ x.seen = file.head /\ x.size = file.size
      /\ UpToDate(x, file.rows)
  BY DEF Fresh
<1>2. /\ Bounded(x.mem) /\ 0 < x.size /\ x.size <= file.size /\ file.head.sync <= x.mem.sync
      /\ \A g \in Others(h) : io[g].size <= x.size
  BY <1>1, HeaderBounds DEF Others
<1>3. Behind(x, file.head, file.rows)
  BY <1>1, UpToDateBehind
<1> QED BY <1>1, <1>2, <1>3 DEF Fits

LEMMA ReadHeaderParts ==
  ASSUME NEW x \in IoType, Inv
  PROVE  LET y == ReadHeader(x) IN
         /\ y \in IoType /\ y.mem = file.head /\ y.seen = x.seen /\ y.table = x.table
         /\ y.rows = x.rows /\ y.size = IF x.mem = file.head THEN x.size ELSE 0
<1>1. file.head \in Counters
  BY HeaderBounds
<1>2. 0 \in Nat
  OBVIOUS
<1> QED BY <1>1, <1>2 DEF ReadHeader, IoType

LEMMA CheckedParts ==
  ASSUME NEW x \in IoType
  PROVE  LET y == Checked(x) IN
         /\ y \in IoType /\ y.mem = x.mem /\ y.seen = x.seen /\ y.table = x.table
         /\ y.size = x.size /\ (y.rows = x.rows \/ y.rows = NoRows)
         /\ IsUpdated(x) => y = x
BY EmptyIsRow DEF Checked, IoType

\* Handle h does not write, and nobody else does.
Idle(h) == st[h] # "write" /\ \A g \in Others(h) : st[g] # "write"

LEMMA IdleKnows ==
  ASSUME Inv, NEW h \in Handles, Idle(h)
  PROVE  /\ Records(file.head.recs, file.rows)
         /\ io[h] = NewIo \/ Behind(io[h], file.head, file.rows)
         /\ io[h].size = file.size => io[h].mem = file.head /\ Behind(io[h], file.head, file.rows)
<1>1. Latest = file.head
  <2>1. \A g \in Handles : st[g] # "write"
    BY DEF Idle, Others
  <2> QED BY <2>1 DEF Latest
<1>2. TableKnown(h) /\ SizeKnown(h) /\ Records(Latest.recs, file.rows)
  BY DEF Inv, InvTables, InvSizes
<1>3. io[h] = NewIo \/ Behind(io[h], file.head, file.rows)
  BY <1>1, <1>2 DEF TableKnown, Idle
<1>4. ASSUME io[h].size = file.size
      PROVE  io[h].mem = file.head /\ Behind(io[h], file.head, file.rows)
  <2>1. io[h] # NewIo
    BY <1>4, HeaderBounds DEF NewIo
  <2> QED BY <1>2, <1>3, <1>4, <2>1 DEF SizeKnown, Idle
<1> QED BY <1>1, <1>2, <1>3, <1>4

\* The handle reads the header, and then perhaps the keys.
LEMMA Refreshes ==
  ASSUME Inv, NEW h \in Handles, Idle(h), NEW y \in IoType,
         y.mem = file.head, y.seen = io[h].seen, y.table = io[h].table,
         y.rows = io[h].rows \/ y.rows = NoRows
  PROVE  /\ Fresh(LoadKeys(y))
         /\ io[h].size = file.size /\ y.size = file.size => Fresh(y)
<1>1. TypeOK /\ file.head.recs <= file.head.lines
  BY HeaderBounds DEF Inv, InvTypes
<1>2. io[h] = NewIo \/ Behind(io[h], file.head, file.rows)
  BY IdleKnows
<1>3. y.seen = NewIo.seen \/ Knows(y, file.head, file.rows)
  BY <1>2, KnowsSame DEF Behind
<1>4. Records(file.head.recs, file.rows)
  BY IdleKnows
<1>5. Fresh(LoadKeys(y))
  BY <1>1, <1>3, <1>4, LoadsRight DEF Fresh
<1>6. ASSUME io[h].size = file.size, y.size = file.size PROVE Fresh(y)
  <2>1. io[h].mem = file.head /\ Behind(io[h], file.head, file.rows)
    BY <1>6, IdleKnows
  <2>2. Knows(y, file.head, file.rows) /\ y.seen = file.head
    BY <2>1, KnowsSame DEF Behind
  <2>3. UpToDate(y, file.rows)
    BY <2>2, KnowsAll
  <2> QED BY <1>6, <2>2, <2>3 DEF Fresh
<1> QED BY <1>5, <1>6

LEMMA RefreshedFresh ==
  ASSUME Inv, NEW h \in Handles, Idle(h)
  PROVE  Fresh(Refreshed(io[h]))
<1> DEFINE x == io[h]
           y == ReadHeader(x)
<1>1. x \in IoType
  BY HeaderBounds
<1>2. /\ y \in IoType /\ y.mem = file.head /\ y.seen = x.seen /\ y.table = x.table
      /\ y.rows = x.rows /\ y.size = IF x.mem = file.head THEN x.size ELSE 0
  BY <1>1, ReadHeaderParts
<1>3. Fresh(LoadKeys(y))
  BY <1>2, Refreshes
<1>4. Fresh(LoadKeys(Checked(y)))
  <2>1. /\ Checked(y) \in IoType /\ Checked(y).mem = file.head /\ Checked(y).seen = x.seen
        /\ Checked(y).table = x.table /\ (Checked(y).rows = x.rows \/ Checked(y).rows = NoRows)
    BY <1>2, CheckedParts
  <2> QED BY <2>1, Refreshes
<1>5. x.size = file.size => Fresh(y)
  <2>1. ASSUME x.size = file.size PROVE x.mem = file.head
    BY <2>1, IdleKnows
  <2> QED BY <1>2, <2>1, Refreshes
<1> HIDE DEF y
<1>6. Refreshed(x) = IF file.size # x.size THEN LoadKeys(y)
                     ELSE IF IsUpdated(y) THEN y ELSE LoadKeys(Checked(y))
  BY DEF Refreshed, y
<1> QED BY <1>3, <1>4, <1>5, <1>6

\* A handle in a read session has everything it needs.
LEMMA ReaderFresh ==
  ASSUME Inv, NEW h \in Handles, st[h] = "read"
  PROVE  Idle(h) /\ Fresh(io[h]) /\ Fresh(Ready(h))
<1>1. Idle(h)
  BY DEF Idle, Others, Inv, InvSessions
<1>2. io[h].mem = file.head /\ io[h].size = file.size /\ io[h] \in IoType
  BY HeaderBounds DEF Inv, InvSizes, SizeKnown
<1>3. Behind(io[h], file.head, file.rows)
  BY <1>1, <1>2, IdleKnows
<1>4. Fresh(io[h])
  BY <1>2, <1>3, KnowsAll DEF Fresh, Behind
<1> QED BY <1>1, <1>4, RefreshedFresh DEF Ready

-----------------------------------------------------------------------------
(* Sessions *)

LEMMA GotKept ==
  ASSUME Inv
  PROVE  got \in [Handles -> [key : Keys \cup {NoKey}, ver : Nat]]
BY DEF Inv, InvTypes, TypeOK

LEMMA OpenReadStep ==
  ASSUME Inv, NEW h \in Handles, OpenRead(h)
  PROVE  Inv'
<1> DEFINE x == io[h]
           y == Checked(ReadHeader(Checked(x)))
<1>1. Idle(h) /\ st[h] # "write" /\ (\A g \in Others(h) : st[g] # "write")
  BY DEF OpenRead, MayRead, Idle
<1>2. x \in IoType
  BY HeaderBounds
<1>3. CASE Unchanged(x)
  <2>1. x.size = file.size
    BY <1>3 DEF Unchanged
  <2>2. x.mem = file.head /\ Behind(x, file.head, file.rows)
    BY <1>1, <2>1, IdleKnows
  <2>3. Fresh(x)
    BY <1>2, <2>1, <2>2, KnowsAll DEF Fresh, Behind
  <2>4. Fits(h, "read", x)
    BY <1>1, <2>3, FreshFits
  <2>5. Session(h, "read", x, FALSE) /\ UNCHANGED <<file, got, changes>>
    BY <1>3 DEF OpenRead
  <2> HIDE DEF x
  <2> QED BY <2>4, <2>5, GotKept, SessionStep DEF Session
<1>4. CASE ~Unchanged(x)
  <2>1. /\ y \in IoType /\ y.mem = file.head /\ y.seen = x.seen /\ y.table = x.table
        /\ (y.rows = x.rows \/ y.rows = NoRows)
    <3> DEFINE a == Checked(x)
               b == ReadHeader(a)
    <3>1. a \in IoType /\ a.seen = x.seen /\ a.table = x.table /\ (a.rows = x.rows \/ a.rows = NoRows)
      BY <1>2, CheckedParts
    <3> HIDE DEF a
    <3>2. b \in IoType /\ b.mem = file.head /\ b.seen = x.seen /\ b.table = x.table /\ b.rows = a.rows
      BY <3>1, ReadHeaderParts
    <3> HIDE DEF b
    <3>3. /\ Checked(b) \in IoType /\ Checked(b).mem = file.head /\ Checked(b).seen = x.seen
          /\ Checked(b).table = x.table /\ (Checked(b).rows = b.rows \/ Checked(b).rows = NoRows)
      BY <3>2, CheckedParts
    <3> QED BY <3>1, <3>2, <3>3 DEF a, b
  <2> HIDE DEF y
  <2>2. Fresh(LoadKeys(y))
    BY <1>1, <2>1, Refreshes
  <2>3. Fits(h, "read", LoadKeys(y))
    BY <1>1, <2>2, FreshFits
  <2>4. Session(h, "read", LoadKeys(y), TRUE) /\ UNCHANGED <<file, got, changes>>
    BY <1>4 DEF OpenRead, y
  <2> QED BY <2>3, <2>4, GotKept, SessionStep DEF Session
<1> QED BY <1>3, <1>4

LEMMA OpenWriteStep ==
  ASSUME Inv, NEW h \in Handles, OpenWrite(h)
  PROVE  Inv'
<1> DEFINE x == io[h]
           a == ReadHeader(x)
           y == Checked(a)
           z == IF IsUpdated(y) /\ file.size = x.size THEN y ELSE LoadKeys(y)
<1>1. /\ Idle(h) /\ st[h] # "write" /\ (\A g \in Others(h) : st[g] # "write")
      /\ \A g \in Others(h) : st[g] # "read"
  BY DEF OpenWrite, MayWrite, Idle
<1>2. x \in IoType
  BY HeaderBounds
<1>3. /\ a \in IoType /\ a.mem = file.head /\ a.seen = x.seen /\ a.table = x.table
      /\ a.rows = x.rows /\ a.size = IF x.mem = file.head THEN x.size ELSE 0
  BY <1>2, ReadHeaderParts
<1> HIDE DEF a
<1>4. /\ y \in IoType /\ y.mem = file.head /\ y.seen = x.seen /\ y.table = x.table
      /\ (y.rows = x.rows \/ y.rows = NoRows) /\ y.size = a.size
  BY <1>3, CheckedParts
<1> HIDE DEF y
<1>5. Fresh(z)
  <2>1. Fresh(LoadKeys(y))
    BY <1>1, <1>4, Refreshes
  <2>2. ASSUME file.size = x.size PROVE Fresh(y)
    <3>1. x.mem = file.head
      BY <1>1, <2>2, IdleKnows
    <3>2. y.size = file.size
      BY <1>3, <1>4, <2>2, <3>1
    <3> QED BY <1>1, <1>4, <2>2, <3>2, Refreshes
  <2> QED BY <2>1, <2>2
<1>6. Session(h, "write", z, TRUE) /\ UNCHANGED <<file, got, changes>>
  BY DEF OpenWrite, a, y
<1> HIDE DEF z
<1>7. Fits(h, "write", z)
  BY <1>1, <1>5, FreshFits
<1> QED BY <1>6, <1>7, GotKept, SessionStep DEF Session

LEMMA PromoteStep ==
  ASSUME Inv, NEW h \in Handles, Promote(h)
  PROVE  Inv'
<1> DEFINE x == io[h]
<1>1. st[h] = "read" /\ Idle(h) /\ Fresh(x)
  BY ReaderFresh DEF Promote
<1>2. Fits(h, "closed", x)
  BY <1>1, FreshFits DEF Idle
<1>3. Fits(h, "promoting", x)
  BY <1>2 DEF Fits
<1>4. /\ st' = [st EXCEPT ![h] = "promoting"] /\ UNCHANGED <<file, changes>>
      /\ io' = io /\ touched' = touched /\ got' = got
  BY DEF Promote
<1>5. io' = [io EXCEPT ![h] = x] /\ touched' = [touched EXCEPT ![h] = touched[h]] /\ touched[h] \in BOOLEAN
  BY <1>4 DEF Inv, InvTypes, TypeOK
<1> HIDE DEF x
<1>6. got' \in [Handles -> [key : Keys \cup {NoKey}, ver : Nat]]
  BY <1>4, GotKept
<1> QED BY <1>3, <1>4, <1>5, <1>6, SessionStep

LEMMA PromotedStep ==
  ASSUME Inv, NEW h \in Handles, Promoted(h)
  PROVE  Inv'
<1> DEFINE z == Refreshed(io[h])
<1>1. /\ Idle(h) /\ st[h] # "write" /\ (\A g \in Others(h) : st[g] # "write")
      /\ \A g \in Others(h) : st[g] # "read"
  BY DEF Promoted, MayWrite, Idle
<1>2. Fresh(z)
  BY <1>1, RefreshedFresh
<1>3. Session(h, "write", z, TRUE) /\ UNCHANGED <<file, got, changes>>
  BY DEF Promoted
<1> HIDE DEF z
<1>4. Fits(h, "write", z)
  BY <1>1, <1>2, FreshFits
<1> QED BY <1>3, <1>4, GotKept, SessionStep DEF Session

-----------------------------------------------------------------------------
(* Reads *)

\* What the writer has in memory
LEMMA WriterKnows ==
  ASSUME Inv, NEW h \in Handles, st[h] = "write"
  PROVE  /\ Fits(h, "write", io[h]) /\ touched[h]
         /\ \A g \in Others(h) : g \in Handles /\ st[g] \in {"closed", "promoting"}
         /\ Latest = io[h].mem
<1>1. /\ touched[h] /\ \A g \in Others(h) : st[g] \notin {"read", "write"}
      /\ \A g \in Handles : st[g] # "upgrading"
  BY DEF Inv, InvSessions
<1>2. \A g \in Handles : st[g] \in {"closed", "read", "promoting", "upgrading", "write"}
  BY DEF Inv, InvTypes, TypeOK
<1>3. \A g \in Others(h) : g \in Handles /\ st[g] \in {"closed", "promoting"}
  BY <1>1, <1>2 DEF Others
<1>4. Latest = io[h].mem
  BY <1>3, WriterLatest DEF OnlyWriter
<1>5. SizeKnown(h) /\ UpToDate(io[h], file.rows) /\ Bounded(io[h].mem) /\ io[h] \in IoType
  BY DEF Inv, InvTypes, InvSizes, InvTables, TableKnown
<1>6. io[h].size \in Nat /\ io[h].size > 0
  BY <1>5 DEF IoType, SizeKnown
<1>7. Fits(h, "write", io[h])
  BY <1>3, <1>5, <1>6 DEF SizeKnown, Fits
<1> QED BY <1>1, <1>3, <1>4, <1>7

\* A row that is read is kept as it is in the file.
LEMMA RowKept ==
  ASSUME NEW x \in IoType, TypeOK, UpToDate(x, file.rows), NEW r \in 0 .. x.mem.recs - 1
  PROVE  LET y == [x EXCEPT !.rows[r] = RowRead(x, r)] IN
         /\ y \in IoType /\ UpToDate(y, file.rows)
         /\ y.mem = x.mem /\ y.seen = x.seen /\ y.size = x.size
         /\ RowRead(x, r) = file.rows[r]
<1> DEFINE y == [x EXCEPT !.rows[r] = RowRead(x, r)]
<1>1. r \in RowIds /\ file.rows[r] \in Rows /\ x.rows \in [RowIds -> Rows] /\ r < x.mem.recs
  <2>1. x.mem.recs \in 0 .. MaxRows /\ MaxRows \in Nat
    BY SyncBounds DEF IoType, Counters
  <2>2. r \in RowIds /\ r < x.mem.recs
    BY <2>1 DEF RowIds
  <2> QED BY <2>2, Basics DEF IoType
<1>2. RowRead(x, r) = file.rows[r]
  BY <1>1 DEF RowRead, UpToDate, Remembers
<1>3. y = [x EXCEPT !.rows = [x.rows EXCEPT ![r] = file.rows[r]]]
  BY <1>2
<1> HIDE DEF y
<1>4. /\ y.mem = x.mem /\ y.seen = x.seen /\ y.size = x.size /\ y.table = x.table
      /\ y.rows = [x.rows EXCEPT ![r] = file.rows[r]] /\ y \in IoType
  BY <1>1, <1>3 DEF IoType
<1>5. \A q \in RowIds : y.rows[q] = IF q = r THEN file.rows[r] ELSE x.rows[q]
  BY <1>1, <1>4
<1>6. UpToDate(y, file.rows)
  <2>1. /\ \A q \in RowIds : x.rows[q] # EmptyRow => q < x.mem.recs
        /\ \A q \in RowIds : x.rows[q] # EmptyRow => x.rows[q] = file.rows[q]
    BY DEF UpToDate, Remembers
  <2>2. \A q \in RowIds : y.rows[q] # EmptyRow => q < x.mem.recs /\ y.rows[q] = file.rows[q]
    BY <1>1, <1>5, <2>1
  <2> QED BY <1>4, <2>2 DEF UpToDate, Remembers
<1> QED BY <1>2, <1>4, <1>6 DEF y

LEMMA ReadStep ==
  ASSUME Inv, NEW h \in Handles, st[h] \in {"read", "write"}, NEW k \in Keys, Read(h, k),
         got' \in [Handles -> [key : Keys \cup {NoKey}, ver : Nat]]
  PROVE  Inv'
<1> DEFINE r == io[h].table[k].row
           x == Ready(h)
           y == [x EXCEPT !.rows[r] = RowRead(x, r)]
           z == IF r < x.mem.recs THEN y ELSE x
<1>1. Session(h, st[h], z, TRUE) /\ UNCHANGED <<file, changes>>
  BY DEF Read
<1>2. TypeOK /\ r \in Nat
  <2>1. io[h] \in IoType
    BY HeaderBounds
  <2> QED BY <2>1 DEF Inv, InvTypes, IoType, Tables
<1>3. x \in IoType /\ UpToDate(x, file.rows)
  BY ReaderFresh, WriterKnows DEF Fresh, Fits, Ready
<1> HIDE DEF r
<1>4. z \in IoType /\ UpToDate(z, file.rows) /\ z.mem = x.mem /\ z.seen = x.seen /\ z.size = x.size
  <2>1. CASE r < x.mem.recs
    <3>1. r \in 0 .. x.mem.recs - 1
      BY <1>2, <1>3, <2>1 DEF IoType, Counters
    <3> HIDE DEF x
    <3>2. y \in IoType /\ UpToDate(y, file.rows) /\ y.mem = x.mem /\ y.seen = x.seen /\ y.size = x.size
      BY <1>2, <1>3, <3>1, RowKept
    <3> QED BY <2>1, <3>2
  <2>2. CASE ~(r < x.mem.recs)
    <3> HIDE DEF x
    <3> QED BY <1>3, <2>2
  <2> QED BY <2>1, <2>2
<1> HIDE DEF z
<1>5. CASE st[h] = "read"
  <2>1. Idle(h) /\ Fresh(x)
    BY <1>5, ReaderFresh
  <2> HIDE DEF x
  <2>2. Fresh(z)
    BY <1>4, <2>1 DEF Fresh
  <2>3. Fits(h, "read", z)
    BY <2>1, <2>2, FreshFits DEF Idle
  <2> QED BY <1>1, <1>5, <2>3, SessionStep DEF Session
<1>6. CASE st[h] = "write"
  <2>1. Fits(h, "write", io[h]) /\ x = io[h]
    BY <1>6, WriterKnows DEF Ready
  <2> HIDE DEF x
  <2>2. Fits(h, "write", z)
    BY <1>4, <1>6, <2>1 DEF Fits
  <2> QED BY <1>1, <1>6, <2>2, SessionStep DEF Session
<1> QED BY <1>5, <1>6

-----------------------------------------------------------------------------
(* The end of a session *)

LEMMA UpToDateSame ==
  ASSUME NEW x, NEW y, NEW F, UpToDate(x, F), y.mem = x.mem, y.table = x.table,
         y.rows = x.rows \/ y.rows = NoRows
  PROVE  UpToDate(y, F)
<1>1. ASSUME NEW r \in RowIds, y.rows[r] # EmptyRow PROVE y.rows[r] = x.rows[r]
  BY <1>1 DEF NoRows
<1>2. /\ \A r \in RowIds : x.rows[r] # EmptyRow => r < x.mem.recs
      /\ \A r \in RowIds : x.rows[r] # EmptyRow => x.rows[r] = F[r]
  BY DEF UpToDate, Remembers
<1>3. \A r \in RowIds : y.rows[r] # EmptyRow => r < x.mem.recs /\ y.rows[r] = F[r]
  BY <1>1, <1>2
<1> QED BY <1>3 DEF UpToDate, Remembers

\* The writer writes the header.
LEMMA HeaderStep ==
  ASSUME Inv, NEW h \in Handles, st[h] = "write", NEW z \in IoType, NEW end \in Nat,
         z.mem = io[h].mem, z.seen = z.mem, z.size = end, UpToDate(z, file.rows),
         end >= file.size, end > io[h].size,
         file' = [rows |-> file.rows, head |-> z.mem, size |-> end],
         io' = [io EXCEPT ![h] = z], st' = [st EXCEPT ![h] = "closed"],
         touched' = [touched EXCEPT ![h] = FALSE],
         got' \in [Handles -> [key : Keys \cup {NoKey}, ver : Nat]], changes' = changes
  PROVE  Inv'
<1>1. /\ st \in [Handles -> {"closed", "read", "promoting", "upgrading", "write"}]
      /\ touched \in [Handles -> BOOLEAN] /\ io \in [Handles -> IoType] /\ file.rows \in [RowIds -> Rows]
      /\ file.size \in Nat /\ file.size > 0
  BY HeaderBounds, Basics DEF Inv, InvTypes, TypeOK
<1>2. /\ Fits(h, "write", io[h])
      /\ \A g \in Others(h) : g \in Handles /\ st[g] \in {"closed", "promoting"}
      /\ Latest = io[h].mem
  BY WriterKnows
<1>3. /\ st'[h] = "closed" /\ io'[h] = z /\ touched'[h] = FALSE
      /\ \A g \in Others(h) : st'[g] = st[g] /\ io'[g] = io[g] /\ touched'[g] = touched[g]
      /\ \A g \in Handles : g = h \/ g \in Others(h)
      /\ \A g \in Others(h) : io[g].size <= io[h].size /\ io[g].size \in Nat
  BY <1>1, <1>2 DEF Others, Fits, IoType
<1>4. \A g \in Handles : st'[g] \in {"closed", "promoting"}
  BY <1>2, <1>3
<1>5. /\ file'.rows = file.rows /\ file'.head = z.mem /\ file'.size = end
  OBVIOUS
<1>6. io[h] \in IoType /\ io[h].size \in Nat
  BY <1>1 DEF IoType
<1>7. z.mem \in Counters /\ Bounded(z.mem) /\ z.mem.recs <= z.mem.lines
  BY <1>2 DEF IoType, Fits, UpToDate
<1>8. InvTypes'
  <2>1. io' \in [Handles -> IoType]
    BY <1>1
  <2>2. \A g \in Handles : Bounded(io'[g].mem)
    BY <1>3, <1>7 DEF Inv, InvTypes
  <2>3. /\ st' \in [Handles -> {"closed", "read", "promoting", "upgrading", "write"}]
        /\ touched' \in [Handles -> BOOLEAN]
    BY <1>1
  <2>4. \A g \in Handles : io'[g] \in IoType
    BY <2>1
  <2>5. file' \in [rows : [RowIds -> Rows], head : Counters, size : Nat]
    BY <1>1, <1>7
  <2>6. changes' \in 0 .. MaxSync
    BY DEF Inv, InvTypes, TypeOK
  <2>7. TypeOK'
    BY <1>5, <1>7, <2>3, <2>4, <2>5, <2>6 DEF TypeOK, IoType, Seens, Tables
  <2> QED BY <1>5, <1>7, <2>1, <2>2, <2>7 DEF InvTypes, Bounded
<1>9. InvSessions'
  BY <1>4 DEF InvSessions
<1>10. InvSizes'
  <2>1. SizeKnown(h)'
    BY <1>3, <1>5 DEF SizeKnown
  <2>2. ASSUME NEW g \in Others(h) PROVE SizeKnown(g)'
    <3>1. io[g].size < end
      BY <1>3, <1>6
    <3>2. st'[g] \in {"closed", "promoting"}
      BY <1>2, <1>3
    <3> QED BY <1>3, <1>5, <3>1, <3>2 DEF SizeKnown
  <2>3. \A g \in Handles : SizeKnown(g)'
    BY <1>3, <2>1, <2>2
  <2>4. file'.size > 0
    BY <1>1, <1>5
  <2> QED BY <2>3, <2>4 DEF InvSizes
<1>11. Latest' = z.mem
  <2>1. \A g \in Handles : st'[g] # "write"
    BY <1>4
  <2> QED BY <1>5, <2>1 DEF Latest
<1>12. InvTables'
  <2>1. TableKnown(h)'
    <3>1. Behind(z, z.mem, file.rows)
      BY UpToDateBehind
    <3>2. z.size > 0
      BY <1>1
    <3> QED BY <1>3, <1>5, <1>11, <3>1, <3>2 DEF TableKnown
  <2>2. ASSUME NEW g \in Others(h) PROVE TableKnown(g)'
    <3>1. TableKnown(g)
      BY <1>2 DEF Inv, InvTables
    <3> QED BY <1>2, <1>3, <1>5, <1>11, <3>1 DEF TableKnown
  <2>3. \A g \in Handles : TableKnown(g)'
    BY <1>3, <2>1, <2>2
  <2>4. Records(Latest'.recs, file'.rows) /\ Latest'.recs <= Latest'.lines
    BY <1>2, <1>5, <1>7, <1>11 DEF Inv, InvTables
  <2> QED BY <2>3, <2>4 DEF InvTables
<1> QED BY <1>8, <1>9, <1>10, <1>12 DEF Inv

LEMMA CloseStep ==
  ASSUME Inv, NEW h \in Handles, Close(h)
  PROVE  Inv'
<1> DEFINE x == Checked(io[h])
<1>1. /\ x \in IoType /\ x.mem = io[h].mem /\ x.seen = io[h].seen /\ x.table = io[h].table
      /\ x.size = io[h].size /\ (x.rows = io[h].rows \/ x.rows = NoRows)
      /\ io[h] \in IoType
  BY HeaderBounds, CheckedParts
<1>2. /\ st[h] \in {"read", "write"} /\ st' = [st EXCEPT ![h] = "closed"]
      /\ touched' = [touched EXCEPT ![h] = FALSE] /\ changes' = changes
      /\ got' \in [Handles -> [key : Keys \cup {NoKey}, ver : Nat]]
  <2>1. NoGot \in [key : Keys \cup {NoKey}, ver : Nat]
    BY DEF NoGot
  <2> QED BY <2>1, GotKept DEF Close
<1>3. CASE st[h] = "read"
  <2>1. Idle(h) /\ Fresh(io[h])
    BY <1>3, ReaderFresh
  <2>2. io' = [io EXCEPT ![h] = x] /\ UNCHANGED file
    BY <1>3 DEF Close
  <2> HIDE DEF x
  <2>3. UpToDate(x, file.rows)
    BY <1>1, <2>1, UpToDateSame DEF Fresh
  <2>4. Fresh(x)
    BY <1>1, <2>1, <2>3 DEF Fresh
  <2>5. Fits(h, "closed", x)
    BY <2>1, <2>4, FreshFits DEF Idle
  <2> QED BY <1>2, <2>2, <2>5, SessionStep
<1>4. CASE st[h] = "write"
  <2>1. Fits(h, "write", io[h]) /\ \A g \in Others(h) : st[g] \in {"closed", "promoting"}
    BY <1>4, WriterKnows
  <2>2. /\ UpToDate(io[h], file.rows) /\ io[h].seen = file.head /\ io[h].size > 0
        /\ Bounded(io[h].mem) /\ io[h].size <= file.size
        /\ io[h].mem.sync = file.head.sync => io[h].mem = file.head
    BY <1>1, <2>1 DEF Fits, IoType
  <2>3. UpToDate(x, file.rows)
    BY <1>1, <2>2, UpToDateSame
  <2>4. CASE IsUpdated(io[h])
    <3>1. io[h].mem = file.head
      BY <2>2, <2>4 DEF IsUpdated
    <3>2. io' = [io EXCEPT ![h] = x] /\ UNCHANGED file
      BY <2>4 DEF Close
    <3> HIDE DEF x
    <3>3. Behind(x, file.head, file.rows)
      BY <1>1, <2>2, <2>3, <3>1, UpToDateBehind
    <3>4. Fits(h, "closed", x)
      BY <1>1, <1>4, <2>1, <2>2, <3>1, <3>3 DEF Fits
    <3> QED BY <1>2, <3>2, <3>4, SessionStep
  <2>5. CASE ~IsUpdated(io[h])
    <3> DEFINE end == Grown(x, file.size)
               z == [x EXCEPT !.seen = x.mem, !.size = end]
    <3>1. x.mem # x.seen
      BY <1>1, <2>2, <2>5 DEF IsUpdated
    <3>2. /\ file' = [rows |-> file.rows, head |-> x.mem, size |-> end]
          /\ io' = [io EXCEPT ![h] = z]
      BY <1>4, <2>5, <3>1 DEF Close, WriteHeader
    <3>3. end \in Nat /\ end >= file.size /\ end > io[h].size
      BY <1>1, <2>2, HeaderBounds DEF Grown, IoType
    <3> HIDE DEF x, end
    <3>4. /\ z \in IoType /\ z.mem = io[h].mem /\ z.seen = z.mem /\ z.size = end
          /\ z.table = x.table /\ z.rows = x.rows
      BY <1>1, <3>3 DEF IoType, Seens
    <3> HIDE DEF z
    <3>5. UpToDate(z, file.rows)
      BY <1>1, <2>3, <3>4, UpToDateSame
    <3>6. file' = [rows |-> file.rows, head |-> z.mem, size |-> end]
      BY <1>1, <3>2, <3>4
    <3> QED BY <1>2, <1>4, <3>2, <3>3, <3>4, <3>5, <3>6, HeaderStep
  <2> QED BY <2>4, <2>5
<1> QED BY <1>2, <1>3, <1>4

-----------------------------------------------------------------------------
(* Changes *)

\* What a change of the writer must do for the invariant: y is its memory and G
\* the rows of the file after it.
Advances(h, y, G) ==
  LET m == io[h].mem IN
  /\ y \in IoType /\ G \in [RowIds -> Rows]
  /\ y.seen = io[h].seen /\ y.size = io[h].size
  /\ y.mem.sync = m.sync + 1 /\ y.mem.swap <= m.swap + 1 /\ y.mem.remv <= m.remv + 1
  /\ UpToDate(y, G)
  /\ \A g \in Others(h) : Knows(io[g], m, file.rows) => Knows(io[g], y.mem, G)

\* Whatever a change does to the memory of the writer and the rows, it keeps the
\* types, and the counters stay below the number of changes.
LEMMA ChangeTypes ==
  ASSUME InvTypes, NEW h \in Handles, NEW y, NEW G, NEW lines \in Nat,
         Advances(h, y, G), Change(h, y, G, lines)
  PROVE  InvTypes'
<1>1. /\ st \in [Handles -> {"closed", "read", "promoting", "upgrading", "write"}]
      /\ touched \in [Handles -> BOOLEAN] /\ io \in [Handles -> IoType]
      /\ file \in [rows : [RowIds -> Rows], head : Counters, size : Nat]
      /\ file.size \in Nat /\ changes \in 0 .. MaxSync /\ MaxSync \in Nat
      /\ got \in [Handles -> [key : Keys \cup {NoKey}, ver : Nat]]
      /\ file.head \in Counters /\ file.head.recs <= file.head.lines /\ Bounded(file.head)
      /\ \A g \in Handles : io[g] \in IoType /\ io[g].mem \in Counters /\ Bounded(io[g].mem)
  BY SyncBounds DEF InvTypes, TypeOK, IoType
<1>2. /\ changes < MaxSync /\ changes' = changes + 1
      /\ st' = [st EXCEPT ![h] = "write"] /\ io' = [io EXCEPT ![h] = y]
      /\ touched' = [touched EXCEPT ![h] = TRUE] /\ got' = [got EXCEPT ![h] = NoGot]
  BY DEF Change, Session
<1>3. /\ file'.head = file.head
      /\ file' \in [rows : [RowIds -> Rows], head : Counters, size : Nat]
  <2> DEFINE end == Larger(file.size, HeaderSize + lines * RowSize)
  <2>1. end \in Nat
    <3>1. lines * RowSize \in Nat
      BY SyncBounds
    <3> QED BY <1>1, <3>1 DEF Larger, HeaderSize
  <2>2. file' = [file EXCEPT !.rows = G, !.size = end]
    BY DEF Change
  <2>3. G \in [RowIds -> Rows]
    BY DEF Advances
  <2> HIDE DEF end
  <2> QED BY <1>1, <2>1, <2>2, <2>3
<1>4. /\ y \in IoType /\ y.mem \in Counters /\ y.mem.sync = io[h].mem.sync + 1
      /\ y.mem.swap <= io[h].mem.swap + 1 /\ y.mem.remv <= io[h].mem.remv + 1
  BY DEF Advances, IoType
<1>5. io' \in [Handles -> IoType]
  BY <1>1, <1>2, <1>4
<1>6. y.mem.sync <= changes' /\ y.mem.swap <= changes' /\ y.mem.remv <= changes'
  BY <1>1, <1>2, <1>4 DEF Bounded, Counters
<1>7. ASSUME NEW m \in Counters, Bounded(m)
      PROVE  m.sync <= changes' /\ m.swap <= changes' /\ m.remv <= changes'
  BY <1>1, <1>2, <1>7 DEF Bounded, Counters
<1>8. ASSUME NEW g \in Handles
      PROVE  /\ io'[g].mem.sync <= changes' /\ io'[g].mem.swap <= changes'
             /\ io'[g].mem.remv <= changes'
  <2>1. CASE g = h
    BY <1>1, <1>2, <1>6, <2>1
  <2>2. CASE g # h
    BY <1>1, <1>2, <1>7, <2>2
  <2> QED BY <2>1, <2>2
<1>9. /\ file'.head.sync <= changes' /\ file'.head.swap <= changes'
      /\ file'.head.remv <= changes'
  BY <1>1, <1>3, <1>7
<1>10. /\ st' \in [Handles -> {"closed", "read", "promoting", "upgrading", "write"}]
       /\ touched' \in [Handles -> BOOLEAN]
  BY <1>1, <1>2
<1>11. got' \in [Handles -> [key : Keys \cup {NoKey}, ver : Nat]]
  <2>1. NoGot \in [key : Keys \cup {NoKey}, ver : Nat]
    BY DEF NoGot
  <2> QED BY <1>1, <1>2, <2>1
<1>12. \A g \in Handles : io'[g] \in IoType
  BY <1>5
<1>13. changes' \in 0 .. MaxSync /\ file'.head.recs <= file'.head.lines
  BY <1>1, <1>2, <1>3
<1>14. TypeOK'
  BY <1>3, <1>10, <1>11, <1>12, <1>13 DEF TypeOK, IoType, Seens, Tables
<1> QED BY <1>5, <1>8, <1>9, <1>14 DEF InvTypes, Bounded

LEMMA ChangeStep ==
  ASSUME Inv, NEW h \in Handles, st[h] = "write", NEW y, NEW G, NEW lines \in Nat,
         Advances(h, y, G), Change(h, y, G, lines)
  PROVE  Inv'
<1>1. /\ st \in [Handles -> {"closed", "read", "promoting", "upgrading", "write"}]
      /\ touched \in [Handles -> BOOLEAN] /\ io \in [Handles -> IoType]
      /\ file \in [rows : [RowIds -> Rows], head : Counters, size : Nat]
      /\ file.size \in Nat /\ file.size > 0 /\ changes \in 0 .. MaxSync /\ MaxSync \in Nat
      /\ \A g \in Handles : Bounded(io[g].mem)
  BY HeaderBounds, SyncBounds DEF Inv, InvTypes, TypeOK
<1>2. /\ Fits(h, "write", io[h])
      /\ \A g \in Others(h) : g \in Handles /\ st[g] \in {"closed", "promoting"}
      /\ Latest = io[h].mem
  BY WriterKnows
<1>3. /\ changes < MaxSync /\ changes' = changes + 1
      /\ st' = [st EXCEPT ![h] = "write"] /\ io' = [io EXCEPT ![h] = y]
      /\ touched' = [touched EXCEPT ![h] = TRUE] /\ got' = [got EXCEPT ![h] = NoGot]
  BY DEF Change, Session
<1>4. /\ file'.rows = G /\ file'.head = file.head /\ file'.size \in Nat /\ file'.size >= file.size
      /\ file' \in [rows : [RowIds -> Rows], head : Counters, size : Nat]
  <2> DEFINE end == Larger(file.size, HeaderSize + lines * RowSize)
  <2>1. end \in Nat /\ end >= file.size
    <3>1. lines * RowSize \in Nat
      BY SyncBounds
    <3> QED BY <1>1, <3>1 DEF Larger, HeaderSize
  <2>2. file' = [file EXCEPT !.rows = G, !.size = end]
    BY DEF Change
  <2>3. G \in [RowIds -> Rows]
    BY DEF Advances
  <2> HIDE DEF end
  <2> QED BY <1>1, <2>1, <2>2, <2>3
<1>5. /\ st'[h] = "write" /\ io'[h] = y /\ touched'[h] = TRUE
      /\ \A g \in Others(h) : st'[g] = st[g] /\ io'[g] = io[g] /\ touched'[g] = touched[g]
      /\ \A g \in Handles : g = h \/ g \in Others(h)
      /\ \A g \in Others(h) : io[g].size <= io[h].size /\ io[g].size \in Nat /\ io[g].size <= file.size
  BY <1>1, <1>2, <1>3, HeaderBounds DEF Others, Fits, IoType
<1>6. /\ y \in IoType /\ y.seen = file.head /\ y.size = io[h].size /\ UpToDate(y, G)
      /\ y.mem.sync = io[h].mem.sync + 1 /\ y.mem.swap <= io[h].mem.swap + 1
      /\ y.mem.remv <= io[h].mem.remv + 1 /\ y.mem \in Counters
      /\ io[h].mem \in Counters /\ Bounded(io[h].mem) /\ file.head.sync <= io[h].mem.sync
      /\ io[h].size \in Nat /\ io[h].size > 0 /\ io[h].size <= file.size
  BY <1>1, <1>2 DEF Advances, Fits, IoType
<1>7. InvTypes'
  BY ChangeTypes DEF Inv
<1>8. InvSessions'
  BY <1>2, <1>5 DEF InvSessions, Others
<1>9. InvSizes'
  <2>1. SizeKnown(h)'
    <3>1. y.mem.sync # file.head.sync /\ file.head.sync <= y.mem.sync
      BY <1>6, HeaderBounds DEF Counters
    <3>2. y.size <= file'.size
      BY <1>1, <1>4, <1>6
    <3>3. \A g \in Others(h) : io'[g].size <= y.size
      BY <1>5, <1>6
    <3> QED BY <1>4, <1>5, <1>6, <3>1, <3>2, <3>3 DEF SizeKnown
  <2>2. ASSUME NEW g \in Others(h) PROVE SizeKnown(g)'
    <3>1. SizeKnown(g) /\ st'[g] \in {"closed", "promoting"} /\ st[g] # "write"
      BY <1>2, <1>5 DEF Inv, InvSizes
    <3>2. io[g].size <= file'.size
      BY <1>1, <1>4, <1>5
    <3>3. io[g].size = file'.size => io[g].size = file.size
      BY <1>1, <1>4, <1>5
    <3> QED BY <1>4, <1>5, <3>1, <3>2, <3>3 DEF SizeKnown
  <2>3. \A g \in Handles : SizeKnown(g)'
    BY <1>5, <2>1, <2>2
  <2>4. file'.size > 0
    BY <1>1, <1>4
  <2> QED BY <2>3, <2>4 DEF InvSizes
<1>10. Latest' = y.mem
  <2>1. OnlyWriter(h)'
    BY <1>2, <1>5 DEF OnlyWriter
  <2> QED BY <1>5, <2>1, WriterLatestNext
<1>11. InvTables'
  <2>1. TableKnown(h)'
    BY <1>4, <1>5, <1>6 DEF TableKnown
  <2>2. ASSUME NEW g \in Others(h) PROVE TableKnown(g)'
    <3>1. TableKnown(g) /\ st[g] # "write"
      BY <1>2 DEF Inv, InvTables
    <3>2. Behind(io[g], Latest, file.rows) => Behind(io[g], y.mem, G)
      BY <1>2 DEF Behind, Advances
    <3> QED BY <1>4, <1>5, <1>10, <3>1, <3>2 DEF TableKnown
  <2>3. \A g \in Handles : TableKnown(g)'
    BY <1>5, <2>1, <2>2
  <2>4. Records(y.mem.recs, G) /\ y.mem.recs <= y.mem.lines
    BY <1>6, AgreeRecords DEF UpToDate
  <2> QED BY <1>4, <1>10, <2>3, <2>4 DEF InvTables
<1> QED BY <1>7, <1>8, <1>9, <1>11 DEF Inv

-----------------------------------------------------------------------------
(* Operations *)

\* Handle h is in the middle of a session and its table is up to date.
Writing(h) == InvTypes /\ Ready(h) = io[h] /\ UpToDate(io[h], file.rows)

LEMMA WriterWrites ==
  ASSUME Inv, NEW h \in Handles, st[h] = "write"
  PROVE  Writing(h)
BY WriterKnows DEF Fits, Ready, Writing, Inv

LEMMA WriterTypes ==
  ASSUME NEW h, Writing(h)
  PROVE  InvTypes
BY DEF Writing

\* What an operation starts from: m are the counters of the writer and F the rows.
LEMMA WriterStarts ==
  ASSUME NEW h \in Handles, Writing(h)
  PROVE  LET x == io[h]
             m == x.mem
         IN  /\ Ready(h) = x /\ x \in IoType /\ m \in Counters
             /\ m.recs \in Nat /\ m.lines \in Nat /\ m.recs <= m.lines /\ m.lines <= MaxRows
             /\ MaxRows \in Nat /\ UpToDate(x, file.rows) /\ file.rows \in [RowIds -> Rows]
             /\ x.rows \in [RowIds -> Rows] /\ x.table \in Tables
             /\ \A k \in Keys : x.table[k].row \in Nat
<1> DEFINE x == io[h]
           m == x.mem
<1>1. x \in IoType /\ TypeOK
  BY DEF Writing, InvTypes
<1>2. /\ x \in IoType /\ m \in Counters /\ UpToDate(x, file.rows) /\ m.recs <= m.lines
      /\ Ready(h) = x
  BY <1>1 DEF Writing, IoType, UpToDate
<1>3. m.recs \in Nat /\ m.lines \in Nat /\ m.lines <= MaxRows /\ MaxRows \in Nat
  BY <1>2, SyncBounds DEF Counters
<1>4. file.rows \in [RowIds -> Rows] /\ x.rows \in [RowIds -> Rows] /\ x.table \in Tables
  BY <1>1, <1>2, Basics DEF IoType
<1>5. \A k \in Keys : x.table[k].row \in Nat
  BY <1>4, SyncBounds DEF Tables
<1> QED BY <1>2, <1>3, <1>4, <1>5

\* The counters do not wrap around while the changes are bounded.
LEMMA Counted ==
  ASSUME NEW m \in Counters, Bounded(m), changes \in Nat, changes < MaxSync,
         NEW recs \in 0 .. MaxRows, NEW lines \in 0 .. MaxRows,
         NEW swap \in {0, 1}, NEW remv \in {0, 1}
  PROVE  /\ Count(m, recs, lines, swap, remv) \in Counters
         /\ Count(m, recs, lines, swap, remv).sync = m.sync + 1
         /\ Count(m, recs, lines, swap, remv).swap = m.swap + swap
         /\ Count(m, recs, lines, swap, remv).remv = m.remv + remv
         /\ Count(m, recs, lines, swap, remv).recs = recs
         /\ Count(m, recs, lines, swap, remv).lines = lines
<1>1. /\ m.sync \in Nat /\ m.swap \in Nat /\ m.remv \in Nat
      /\ m.sync <= changes /\ m.swap <= changes /\ m.remv <= changes
  BY DEF Counters, Bounded
<1>2. (m.sync + 1) % Wrap = m.sync + 1
  BY <1>1, NoWrap
<1>3. (m.swap + swap) % Wrap = m.swap + swap
  BY <1>1, NoWrap
<1>4. (m.remv + remv) % Wrap = m.remv + remv
  BY <1>1, NoWrap
<1>5. m.sync + 1 \in Nat /\ m.swap + swap \in Nat /\ m.remv + remv \in Nat
  BY <1>1
<1>6. Count(m, recs, lines, swap, remv) =
        [sync |-> m.sync + 1, swap |-> m.swap + swap, remv |-> m.remv + remv,
         recs |-> recs, lines |-> lines]
  BY <1>2, <1>3, <1>4 DEF Count
<1> QED BY <1>5, <1>6 DEF Counters

LEMMA WriterCounts ==
  ASSUME NEW h \in Handles, Writing(h)
  PROVE  io[h].mem \in Counters /\ Bounded(io[h].mem) /\ changes \in Nat
BY SyncBounds DEF Writing, InvTypes, TypeOK, IoType

\* A record that is read by the writer is what the file has.
LEMMA WriterReads ==
  ASSUME NEW h \in Handles, Writing(h), NEW k \in Keys, Has(io[h], k)
  PROVE  LET x == io[h]
             row == x.table[k].row
         IN  /\ row \in 0 .. x.mem.recs - 1 /\ row \in RowIds /\ row \in 0 .. MaxRows
             /\ RowRead(x, row) = file.rows[row] /\ file.rows[row].key = k
             /\ x.mem.recs \in 0 .. MaxRows /\ x.mem.lines \in 0 .. MaxRows
<1> DEFINE x == io[h]
<1>1. /\ x.mem.recs \in Nat /\ x.mem.lines \in Nat /\ x.mem.recs <= x.mem.lines
      /\ x.mem.lines <= MaxRows /\ MaxRows \in Nat /\ UpToDate(x, file.rows)
      /\ x.table[k].row \in Nat
  BY WriterStarts
<1>2. x.table[k].row < x.mem.recs
  BY DEF Has
<1> HIDE DEF x
<1>3. /\ x.table[k].row \in 0 .. x.mem.recs - 1 /\ x.table[k].row \in RowIds
      /\ x.table[k].row \in 0 .. MaxRows
      /\ x.mem.recs \in 0 .. MaxRows /\ x.mem.lines \in 0 .. MaxRows
  BY <1>1, <1>2 DEF RowIds
<1>4. /\ RowRead(x, x.table[k].row) = file.rows[x.table[k].row]
      /\ file.rows[x.table[k].row].key = k
  BY <1>1, <1>2, <1>3 DEF RowRead, UpToDate, Remembers, Agree
<1> QED BY <1>3, <1>4 DEF x

\* A new record in the first row after the records (add and undelete).
LEMMA AppendsRight ==
  ASSUME NEW x \in IoType, NEW F, UpToDate(x, F), NEW k \in Keys, ~Has(x, k),
         NEW y \in IoType, NEW G,
         x.mem.recs \in Nat, MaxRows \in Nat, x.mem.recs < MaxRows,
         y.mem.recs = x.mem.recs + 1, y.mem.recs <= y.mem.lines,
         \A l \in Keys : y.table[l].row = IF l = k THEN x.mem.recs ELSE x.table[l].row,
         \A r \in RowIds : y.rows[r] = x.rows[r] \/ y.rows[r] = EmptyRow,
         \A r \in 0 .. x.mem.recs - 1 : G[r] = F[r],
         G[x.mem.recs].key = k
  PROVE  UpToDate(y, G)
<1> DEFINE n == x.mem.recs
<1>1. /\ \A l \in Keys : x.table[l].row < n \/ x.table[l].row = MaxRows
      /\ \A l \in Keys : x.table[l].row < n => F[x.table[l].row].key = l
      /\ \A r \in 0 .. n - 1 : F[r].key \in Keys /\ x.table[F[r].key].row = r
      /\ \A r \in RowIds : x.rows[r] # EmptyRow => r < n /\ x.rows[r] = F[r]
      /\ ~(x.table[k].row < n)
  BY DEF UpToDate, Entries, Agree, Remembers, NoRow, Has
<1>2. \A l \in Keys : x.table[l].row \in Nat
  BY DEF IoType, Tables
<1>3. \A l \in Keys : y.table[l].row = IF l = k THEN n ELSE x.table[l].row
  OBVIOUS
<1>4. n \in Nat /\ y.mem.recs = n + 1 /\ n < MaxRows
  OBVIOUS
<1>5. ASSUME NEW l \in Keys
      PROVE  /\ y.table[l].row < n + 1 \/ y.table[l].row = MaxRows
             /\ y.table[l].row < n + 1 => G[y.table[l].row].key = l
  <2>1. CASE l = k
    BY <1>3, <1>4, <2>1
  <2>2. CASE l # k
    <3>1. y.table[l].row = x.table[l].row
      BY <1>3, <2>2
    <3>2. x.table[l].row < n + 1 => x.table[l].row \in 0 .. n - 1
      BY <1>1, <1>2, <1>4
    <3> HIDE DEF n
    <3> QED BY <1>1, <1>2, <1>4, <3>1, <3>2 DEF n
  <2> QED BY <2>1, <2>2
<1>6. ASSUME NEW r \in 0 .. (n + 1) - 1 PROVE G[r].key \in Keys /\ y.table[G[r].key].row = r
  <2>1. CASE r = n
    BY <1>3, <2>1
  <2>2. CASE r # n
    <3>1. r \in 0 .. n - 1
      BY <1>4, <2>2
    <3>2. G[r].key = F[r].key /\ F[r].key \in Keys /\ x.table[F[r].key].row = r
      BY <1>1, <3>1
    <3>3. F[r].key # k
      BY <1>1, <1>4, <3>1, <3>2
    <3> QED BY <1>3, <3>2, <3>3
  <2> QED BY <2>1, <2>2
<1>7. ASSUME NEW r \in RowIds, y.rows[r] # EmptyRow PROVE r < n + 1 /\ y.rows[r] = G[r]
  <2>1. y.rows[r] = x.rows[r] /\ r < n /\ x.rows[r] = F[r] /\ r \in Nat
    BY <1>1, <1>7 DEF RowIds
  <2>2. r \in 0 .. n - 1
    BY <1>4, <2>1
  <2> QED BY <1>4, <2>1, <2>2
<1> HIDE DEF n
<1> QED BY <1>4, <1>5, <1>6, <1>7 DEF UpToDate, Entries, Agree, Remembers, NoRow

\* A record that is written again under its key (update, change of flags).
LEMMA RewritesRight ==
  ASSUME NEW x \in IoType, NEW F, UpToDate(x, F), NEW y \in IoType, NEW G, NEW row,
         x.mem.recs \in Nat, y.mem.recs = x.mem.recs, y.mem.recs <= y.mem.lines,
         \A l \in Keys : y.table[l].row = x.table[l].row,
         \A r \in RowIds \ {row} : y.rows[r] = x.rows[r] \/ y.rows[r] = EmptyRow,
         \A r \in 0 .. x.mem.recs - 1 : r # row => G[r] = F[r],
         row \in 0 .. x.mem.recs - 1, G[row].key = F[row].key, y.rows[row] = G[row]
  PROVE  UpToDate(y, G)
<1> DEFINE n == x.mem.recs
<1>1. /\ \A l \in Keys : x.table[l].row < n \/ x.table[l].row = MaxRows
      /\ \A l \in Keys : x.table[l].row < n => F[x.table[l].row].key = l
      /\ \A r \in 0 .. n - 1 : F[r].key \in Keys /\ x.table[F[r].key].row = r
      /\ \A r \in RowIds : x.rows[r] # EmptyRow => r < n /\ x.rows[r] = F[r]
  BY DEF UpToDate, Entries, Agree, Remembers, NoRow
<1>2. \A l \in Keys : x.table[l].row \in Nat
  BY SyncBounds DEF IoType, Tables
<1>3. \A r \in 0 .. n - 1 : G[r].key = F[r].key
  OBVIOUS
<1>4. \A l \in Keys : x.table[l].row < n => G[x.table[l].row].key = l
  BY <1>1, <1>2, <1>3
<1>5. ASSUME NEW r \in RowIds, y.rows[r] # EmptyRow PROVE r < n /\ y.rows[r] = G[r]
  <2>1. CASE r = row
    BY <2>1
  <2>2. CASE r # row
    <3>1. y.rows[r] = x.rows[r] /\ r < n /\ x.rows[r] = F[r] /\ r \in Nat
      BY <1>1, <1>5, <2>2 DEF RowIds
    <3>2. r \in 0 .. n - 1
      BY <3>1
    <3> QED BY <2>2, <3>1, <3>2
  <2> QED BY <2>1, <2>2
<1> QED BY <1>1, <1>3, <1>4, <1>5 DEF UpToDate, Entries, Agree, Remembers, NoRow

\* Operations that move no record keep what the other handles know.
LEMMA GrownAdvances ==
  ASSUME InvTypes, NEW h \in Handles,
         NEW y \in IoType, NEW G \in [RowIds -> Rows], UpToDate(y, G),
         y.seen = io[h].seen, y.size = io[h].size,
         y.mem.sync = io[h].mem.sync + 1, y.mem.swap = io[h].mem.swap,
         y.mem.remv = io[h].mem.remv, y.mem.recs >= io[h].mem.recs,
         y.mem.lines >= io[h].mem.lines,
         \A r \in 0 .. io[h].mem.recs - 1 : G[r].key = file.rows[r].key
  PROVE  Advances(h, y, G)
<1>1. io[h].mem \in Counters /\ y.mem \in Counters
  BY DEF InvTypes, IoType
<1>2. io[h].mem.swap \in Nat /\ io[h].mem.remv \in Nat
  BY <1>1 DEF Counters
<1>3. ASSUME NEW g \in Others(h), Knows(io[g], io[h].mem, file.rows)
      PROVE  Knows(io[g], y.mem, G)
  <2>1. io[g] \in IoType
    BY DEF InvTypes, Others
  <2> QED BY <1>1, <1>3, <2>1, KnowsGrown
<1> QED BY <1>2, <1>3 DEF Advances

\* What a change does to the memory of the writer: an entry of the table, ...
EntryType == [row : 0 .. MaxRows, ro : BOOLEAN]
WithEntry(x, k, entry) == [x EXCEPT !.table[k] = entry]

LEMMA EntryParts ==
  ASSUME NEW x \in IoType, NEW k \in Keys, NEW entry \in EntryType
  PROVE  /\ WithEntry(x, k, entry) \in IoType
         /\ WithEntry(x, k, entry).mem = x.mem /\ WithEntry(x, k, entry).seen = x.seen
         /\ WithEntry(x, k, entry).size = x.size /\ WithEntry(x, k, entry).rows = x.rows
         /\ \A l \in Keys :
              WithEntry(x, k, entry).table[l].row = IF l = k THEN entry.row ELSE x.table[l].row
<1>1. ASSUME NEW y, y = [x EXCEPT !.table[k] = entry]
      PROVE  /\ y \in IoType /\ y.mem = x.mem /\ y.seen = x.seen /\ y.size = x.size
             /\ y.rows = x.rows /\ y.table = [x.table EXCEPT ![k] = entry]
  BY <1>1 DEF IoType, Tables, EntryType
<1> DEFINE y == WithEntry(x, k, entry)
<1>2. /\ y \in IoType /\ y.mem = x.mem /\ y.seen = x.seen /\ y.size = x.size
      /\ y.rows = x.rows /\ y.table = [x.table EXCEPT ![k] = entry]
  BY <1>1 DEF WithEntry
<1> HIDE DEF y
<1>3. \A l \in Keys : y.table[l].row = IF l = k THEN entry.row ELSE x.table[l].row
  BY <1>2 DEF IoType, Tables
<1> QED BY <1>2, <1>3 DEF y

\* ... the counters and one row, ...
WithRow(x, n, r, a) == [x EXCEPT !.mem = n, !.rows[r] = a]

LEMMA RowParts ==
  ASSUME NEW x \in IoType, NEW n \in Counters, NEW r \in RowIds, NEW a \in Rows
  PROVE  /\ WithRow(x, n, r, a) \in IoType /\ WithRow(x, n, r, a).mem = n
         /\ WithRow(x, n, r, a).seen = x.seen /\ WithRow(x, n, r, a).size = x.size
         /\ WithRow(x, n, r, a).table = x.table
         /\ WithRow(x, n, r, a).rows = [x.rows EXCEPT ![r] = a]
BY DEF IoType, WithRow

\* ... or the counters and two rows.
WithRows(x, n, r, a, s, b) == [x EXCEPT !.mem = n, !.rows[r] = a, !.rows[s] = b]

LEMMA TwoRowsParts ==
  ASSUME NEW x \in IoType, NEW n \in Counters, NEW r \in RowIds, NEW a \in Rows,
         NEW s \in RowIds, NEW b \in Rows
  PROVE  /\ WithRows(x, n, r, a, s, b) \in IoType /\ WithRows(x, n, r, a, s, b).mem = n
         /\ WithRows(x, n, r, a, s, b).seen = x.seen /\ WithRows(x, n, r, a, s, b).size = x.size
         /\ WithRows(x, n, r, a, s, b).table = x.table
         /\ WithRows(x, n, r, a, s, b).rows = [[x.rows EXCEPT ![r] = a] EXCEPT ![s] = b]
BY DEF IoType, WithRows

\* A change is carried out: the table of the writer is right again, and the other
\* handles know what they have to know.
Carried(h) ==
  \E y, G : \E lines \in Nat :
    /\ Advances(h, y, G)
    /\ Change(h, y, G, lines)

LEMMA CarriedBy ==
  ASSUME NEW h, NEW y, NEW G, NEW lines \in Nat, Advances(h, y, G),
         Change(h, y, G, lines)
  PROVE  Carried(h)
BY Zenon DEF Carried

LEMMA AddCarried ==
  ASSUME NEW h \in Handles, Writing(h), NEW k \in Keys, Add(h, k)
  PROVE  Carried(h)
<1> DEFINE x == io[h]
           m == x.mem
           F == file.rows
           row == [key |-> k, ver |-> m.sync, ro |-> FALSE]
<1>1. changes < MaxSync
  BY DEF Add, Change
<1>2. /\ Ready(h) = x /\ x \in IoType /\ m \in Counters
      /\ m.recs \in Nat /\ m.lines \in Nat /\ m.recs <= m.lines /\ m.lines <= MaxRows
      /\ MaxRows \in Nat /\ UpToDate(x, F) /\ F \in [RowIds -> Rows]
      /\ x.rows \in [RowIds -> Rows] /\ x.table \in Tables
  BY WriterStarts
<1>3. PICK r \in Free(m) :
        Change(h, [Set(x, k, m.recs, FALSE) EXCEPT
                     !.mem = Count(m, m.recs + 1, Larger(m.lines, r + 1), 0, 0),
                     !.rows[r] = EmptyRow, !.rows[m.recs] = EmptyRow],
               [[F EXCEPT ![r] = F[m.recs]] EXCEPT ![m.recs] = row],
               Larger(m.lines, r + 1))
  BY <1>2 DEF Add
<1>4. ~Has(x, k)
  BY <1>2 DEF Add
<1> DEFINE lines == Larger(m.lines, r + 1)
           n == Count(m, m.recs + 1, lines, 0, 0)
           G == [[F EXCEPT ![r] = F[m.recs]] EXCEPT ![m.recs] = row]
           y == [Set(x, k, m.recs, FALSE) EXCEPT
                   !.mem = n, !.rows[r] = EmptyRow, !.rows[m.recs] = EmptyRow]
<1>5. /\ r \in Nat /\ r >= m.recs /\ r <= m.lines /\ r < MaxRows /\ r \in RowIds
      /\ m.recs \in RowIds /\ m.recs < MaxRows /\ m.recs + 1 \in 0 .. MaxRows
      /\ m.recs \in 0 .. MaxRows
      /\ lines \in 0 .. MaxRows /\ lines >= m.lines /\ lines >= m.recs + 1 /\ lines \in Nat
  <2>1. m.recs \in Nat /\ m.lines \in Nat /\ m.recs <= m.lines /\ m.lines <= MaxRows /\ MaxRows \in Nat
    BY <1>2
  <2> HIDE DEF m
  <2>2. r \in m.recs .. m.lines /\ r \in RowIds
    BY DEF Free
  <2> QED BY <2>1, <2>2 DEF RowIds, Larger
<1> HIDE DEF lines
<1>6. /\ n \in Counters /\ n.sync = m.sync + 1 /\ n.swap = m.swap /\ n.remv = m.remv
      /\ n.recs = m.recs + 1 /\ n.lines = lines
  <2>1. /\ n \in Counters /\ n.sync = m.sync + 1 /\ n.swap = m.swap + 0 /\ n.remv = m.remv + 0
        /\ n.recs = m.recs + 1 /\ n.lines = lines
    <3>1. m \in Counters /\ Bounded(m) /\ changes \in Nat
      BY WriterCounts
    <3> HIDE DEF m
    <3> QED BY <1>1, <1>5, <3>1, Counted
  <2> QED BY <1>2, <2>1 DEF Counters
<1> HIDE DEF n, x, m, F
<1>7. row \in Rows /\ EmptyRow \in Rows
  BY <1>2, EmptyIsRow DEF Rows, Counters
<1>8. /\ G \in [RowIds -> Rows] /\ G[m.recs] = row
      /\ \A q \in 0 .. m.recs - 1 : G[q] = F[q]
  <2>1. G \in [RowIds -> Rows] /\ G[m.recs] = row
    BY <1>2, <1>5, <1>7
  <2>2. ASSUME NEW q \in 0 .. m.recs - 1 PROVE G[q] = F[q]
    <3>1. q \in RowIds /\ q # m.recs /\ q # r
      BY <1>2, <1>5 DEF RowIds
    <3> QED BY <1>2, <3>1
  <2> QED BY <2>1, <2>2
<1>9. /\ y \in IoType /\ y.mem = n /\ y.seen = x.seen /\ y.size = x.size
      /\ \A l \in Keys : y.table[l].row = IF l = k THEN m.recs ELSE x.table[l].row
      /\ y.rows = [[x.rows EXCEPT ![r] = EmptyRow] EXCEPT ![m.recs] = EmptyRow]
  <2> DEFINE z == Set(x, k, m.recs, FALSE)
  <2>1. /\ z \in IoType /\ z.mem = m /\ z.seen = x.seen /\ z.size = x.size /\ z.rows = x.rows
        /\ \A l \in Keys : z.table[l].row = IF l = k THEN m.recs ELSE x.table[l].row
    <3> DEFINE entry == [row |-> m.recs, ro |-> FALSE]
    <3>1. z = WithEntry(x, k, entry)
      BY DEF Set, WithEntry
    <3>2. entry \in EntryType /\ entry.row = m.recs
      BY <1>5 DEF EntryType
    <3> HIDE DEF entry, z
    <3> QED BY <1>2, <3>1, <3>2, EntryParts DEF m
  <2> HIDE DEF z
  <2>2. y = WithRows(z, n, r, EmptyRow, m.recs, EmptyRow)
    BY DEF z, WithRows
  <2> HIDE DEF y
  <2> QED BY <1>5, <1>6, <1>7, <2>1, <2>2, TwoRowsParts
<1>10. \A q \in RowIds : y.rows[q] = x.rows[q] \/ y.rows[q] = EmptyRow
  BY <1>2, <1>5, <1>9
<1>11. Change(h, y, G, lines)
  BY <1>3 DEF lines, n, x, m, F
<1> HIDE DEF y, G
<1>12. G[m.recs].key = k
  BY <1>8
<1>13. UpToDate(y, G)
  <2>1. y.mem.recs = x.mem.recs + 1 /\ y.mem.recs <= y.mem.lines /\ x.mem.recs < MaxRows
        /\ x.mem.recs \in Nat /\ \A q \in 0 .. x.mem.recs - 1 : G[q] = F[q]
    BY <1>2, <1>5, <1>6, <1>8, <1>9 DEF m
  <2>2. /\ \A l \in Keys : y.table[l].row = IF l = k THEN x.mem.recs ELSE x.table[l].row
        /\ G[x.mem.recs].key = k
    BY <1>9, <1>12 DEF m
  <2> QED BY <1>2, <1>4, <1>9, <1>10, <2>1, <2>2, AppendsRight
<1> USE DEF x, m, F
<1>14. Advances(h, y, G)
  BY <1>2, <1>5, <1>6, <1>8, <1>9, <1>13, WriterTypes, GrownAdvances
<1> QED BY <1>5, <1>11, <1>14, CarriedBy

LEMMA UndeleteCarried ==
  ASSUME NEW h \in Handles, Writing(h), NEW k \in Keys, Undelete(h, k)
  PROVE  Carried(h)
<1> DEFINE x == io[h]
           m == x.mem
           F == file.rows
           Row(r) == [F[r] EXCEPT !.ver = m.sync]
<1>1. changes < MaxSync
  BY Zenon DEF Undelete, Change
<1>2. /\ Ready(h) = x /\ x \in IoType /\ m \in Counters
      /\ m.recs \in Nat /\ m.lines \in Nat /\ m.recs <= m.lines /\ m.lines <= MaxRows
      /\ MaxRows \in Nat /\ UpToDate(x, F) /\ F \in [RowIds -> Rows]
      /\ x.rows \in [RowIds -> Rows] /\ x.table \in Tables
  BY WriterStarts
<1>3. PICK r \in m.recs .. m.lines - 1 :
        /\ F[r].key = k
        /\ Change(h, [Set(x, k, m.recs, Row(r).ro) EXCEPT
                        !.mem = Count(m, m.recs + 1, m.lines, 0, 0),
                        !.rows[m.recs] = EmptyRow],
                  [[F EXCEPT ![r] = F[m.recs]] EXCEPT ![m.recs] = Row(r)],
                  m.lines)
  BY <1>2, Zenon DEF Undelete
<1>4. ~Has(x, k)
  BY <1>2 DEF Undelete
<1> DEFINE row == Row(r)
           n == Count(m, m.recs + 1, m.lines, 0, 0)
           G == [[F EXCEPT ![r] = F[m.recs]] EXCEPT ![m.recs] = row]
           y == [Set(x, k, m.recs, row.ro) EXCEPT !.mem = n, !.rows[m.recs] = EmptyRow]
<1>5. /\ r \in Nat /\ r >= m.recs /\ r < MaxRows /\ r \in RowIds
      /\ m.recs \in RowIds /\ m.recs < MaxRows /\ m.recs + 1 \in 0 .. MaxRows
      /\ m.recs \in 0 .. MaxRows /\ m.recs + 1 <= m.lines /\ m.lines \in 0 .. MaxRows
  <2>1. m.recs \in Nat /\ m.lines \in Nat /\ m.lines <= MaxRows /\ MaxRows \in Nat
    BY <1>2
  <2> HIDE DEF m
  <2> QED BY <2>1 DEF RowIds
<1>6. /\ n \in Counters /\ n.sync = m.sync + 1 /\ n.swap = m.swap /\ n.remv = m.remv
      /\ n.recs = m.recs + 1 /\ n.lines = m.lines
  <2>1. /\ n \in Counters /\ n.sync = m.sync + 1 /\ n.swap = m.swap + 0 /\ n.remv = m.remv + 0
        /\ n.recs = m.recs + 1 /\ n.lines = m.lines
    <3>1. m \in Counters /\ Bounded(m) /\ changes \in Nat
      BY WriterCounts
    <3> HIDE DEF m
    <3> QED BY <1>1, <1>5, <3>1, Counted
  <2> QED BY <1>2, <2>1 DEF Counters
<1>7. row \in Rows /\ row.key = k /\ row.ro \in BOOLEAN /\ EmptyRow \in Rows
  <2>1. F[r] \in Rows /\ m.sync \in Nat
    BY <1>2, <1>5 DEF Counters
  <2> QED BY <1>3, <2>1, EmptyIsRow DEF Rows
<1>8. Change(h, y, G, m.lines)
  <2> HIDE DEF x, m, F
  <2> QED BY <1>3
<1> HIDE DEF n, x, m, F, row
<1>9. /\ G \in [RowIds -> Rows] /\ G[m.recs] = row
      /\ \A q \in 0 .. m.recs - 1 : G[q] = F[q]
  <2>1. G \in [RowIds -> Rows] /\ G[m.recs] = row
    BY <1>2, <1>5, <1>7
  <2>2. ASSUME NEW q \in 0 .. m.recs - 1 PROVE G[q] = F[q]
    <3>1. q \in RowIds /\ q # m.recs /\ q # r
      BY <1>2, <1>5 DEF RowIds
    <3> QED BY <1>2, <3>1
  <2> QED BY <2>1, <2>2
<1>10. /\ y \in IoType /\ y.mem = n /\ y.seen = x.seen /\ y.size = x.size
       /\ \A l \in Keys : y.table[l].row = IF l = k THEN m.recs ELSE x.table[l].row
       /\ y.rows = [x.rows EXCEPT ![m.recs] = EmptyRow]
  <2> DEFINE z == Set(x, k, m.recs, row.ro)
  <2>1. /\ z \in IoType /\ z.seen = x.seen /\ z.size = x.size /\ z.rows = x.rows
        /\ \A l \in Keys : z.table[l].row = IF l = k THEN m.recs ELSE x.table[l].row
    <3> DEFINE entry == [row |-> m.recs, ro |-> row.ro]
    <3>1. z = WithEntry(x, k, entry)
      BY DEF Set, WithEntry
    <3>2. entry \in EntryType /\ entry.row = m.recs
      BY <1>5, <1>7 DEF EntryType
    <3> HIDE DEF entry, z
    <3> QED BY <1>2, <3>1, <3>2, EntryParts
  <2> HIDE DEF z
  <2>2. y = WithRow(z, n, m.recs, EmptyRow)
    BY DEF z, WithRow
  <2> HIDE DEF y
  <2> QED BY <1>5, <1>6, <1>7, <2>1, <2>2, RowParts
<1> HIDE DEF y, G
<1>11. \A q \in RowIds : y.rows[q] = x.rows[q] \/ y.rows[q] = EmptyRow
  BY <1>2, <1>5, <1>10
<1>12. G[m.recs].key = k
  BY <1>7, <1>9
<1>13. UpToDate(y, G)
  <2>1. y.mem.recs = x.mem.recs + 1 /\ y.mem.recs <= y.mem.lines /\ x.mem.recs < MaxRows
        /\ x.mem.recs \in Nat /\ \A q \in 0 .. x.mem.recs - 1 : G[q] = F[q]
    BY <1>2, <1>5, <1>6, <1>9, <1>10 DEF m
  <2>2. /\ \A l \in Keys : y.table[l].row = IF l = k THEN x.mem.recs ELSE x.table[l].row
        /\ G[x.mem.recs].key = k
    BY <1>10, <1>12 DEF m
  <2> QED BY <1>2, <1>4, <1>10, <1>11, <2>1, <2>2, AppendsRight
<1> USE DEF x, m, F
<1>14. Advances(h, y, G)
  BY <1>2, <1>5, <1>6, <1>9, <1>10, <1>13, WriterTypes, GrownAdvances
<1> QED BY <1>2, <1>8, <1>14, CarriedBy

LEMMA UpdateCarried ==
  ASSUME NEW h \in Handles, Writing(h), NEW k \in Keys, Update(h, k)
  PROVE  Carried(h)
<1> DEFINE x == io[h]
           m == x.mem
           F == file.rows
           row == x.table[k].row
           old == RowRead(x, row)
           new == [old EXCEPT !.key = k, !.ver = m.sync]
<1>1. changes < MaxSync
  BY Zenon DEF Update, Change
<1>2. /\ Ready(h) = x /\ x \in IoType /\ m \in Counters
      /\ m.recs \in Nat /\ m.lines \in Nat /\ m.recs <= m.lines /\ m.lines <= MaxRows
      /\ MaxRows \in Nat /\ UpToDate(x, F) /\ F \in [RowIds -> Rows]
      /\ x.rows \in [RowIds -> Rows] /\ x.table \in Tables
  BY WriterStarts
<1>3. PICK r \in Free(m) \cup {row} :
        Change(h, [Set(x, k, row, old.ro) EXCEPT
                     !.mem = Count(m, m.recs, Larger(m.lines, r + 1), 0, 0),
                     !.rows[r] = EmptyRow, !.rows[row] = new],
               [[F EXCEPT ![r] = old] EXCEPT ![row] = new],
               Larger(m.lines, r + 1))
  BY <1>2, Zenon DEF Update
<1>4. /\ row \in 0 .. m.recs - 1 /\ row \in RowIds /\ old = F[row] /\ F[row].key = k
      /\ row \in 0 .. MaxRows
  <2>1. Has(x, k)
    BY <1>2, Zenon DEF Update
  <2> QED BY <2>1, WriterReads
<1> DEFINE lines == Larger(m.lines, r + 1)
           n == Count(m, m.recs, lines, 0, 0)
           G == [[F EXCEPT ![r] = old] EXCEPT ![row] = new]
           y == [Set(x, k, row, old.ro) EXCEPT !.mem = n, !.rows[r] = EmptyRow, !.rows[row] = new]
<1>5. Change(h, y, G, lines)
  BY <1>3
<1> HIDE DEF row, old
<1>6. /\ r \in RowIds /\ (r >= m.recs \/ r = row)
      /\ lines \in 0 .. MaxRows /\ lines >= m.lines /\ lines \in Nat
      /\ m.recs \in 0 .. MaxRows
  BY <1>2, <1>4 DEF Free, RowIds, Larger
<1> HIDE DEF lines
<1>7. /\ n \in Counters /\ n.sync = m.sync + 1 /\ n.swap = m.swap /\ n.remv = m.remv
      /\ n.recs = m.recs /\ n.lines = lines
  <2>1. /\ n \in Counters /\ n.sync = m.sync + 1 /\ n.swap = m.swap + 0 /\ n.remv = m.remv + 0
        /\ n.recs = m.recs /\ n.lines = lines
    <3>1. m \in Counters /\ Bounded(m) /\ changes \in Nat
      BY WriterCounts
    <3> HIDE DEF m
    <3> QED BY <1>1, <1>6, <3>1, Counted
  <2> QED BY <1>2, <2>1 DEF Counters
<1>8. new \in Rows /\ new.key = k /\ old \in Rows /\ old.ro \in BOOLEAN /\ EmptyRow \in Rows
  <2>1. F[row] \in Rows /\ m.sync \in Nat
    BY <1>2, <1>4 DEF Counters
  <2> QED BY <1>4, <2>1, EmptyIsRow DEF Rows
<1> HIDE DEF n, x, m, F, new
<1>9. /\ G \in [RowIds -> Rows] /\ G[row] = new
      /\ \A q \in 0 .. m.recs - 1 : q # row => G[q] = F[q]
  <2>1. G \in [RowIds -> Rows] /\ G[row] = new
    BY <1>2, <1>4, <1>6, <1>8
  <2>2. ASSUME NEW q \in 0 .. m.recs - 1, q # row PROVE G[q] = F[q]
    <3>1. q \in RowIds /\ q # r
      BY <1>2, <1>6, <2>2 DEF RowIds
    <3> QED BY <1>2, <2>2, <3>1
  <2> QED BY <2>1, <2>2
<1>10. /\ y \in IoType /\ y.mem = n /\ y.seen = x.seen /\ y.size = x.size
       /\ \A l \in Keys : y.table[l].row = x.table[l].row
       /\ y.rows = [[x.rows EXCEPT ![r] = EmptyRow] EXCEPT ![row] = new]
  <2> DEFINE z == Set(x, k, row, old.ro)
  <2>1. /\ z \in IoType /\ z.seen = x.seen /\ z.size = x.size /\ z.rows = x.rows
        /\ \A l \in Keys : z.table[l].row = IF l = k THEN row ELSE x.table[l].row
    <3> DEFINE entry == [row |-> row, ro |-> old.ro]
    <3>1. z = WithEntry(x, k, entry)
      BY DEF Set, WithEntry
    <3>2. entry \in EntryType /\ entry.row = row
      BY <1>4, <1>8 DEF EntryType
    <3> HIDE DEF entry, z
    <3> QED BY <1>2, <3>1, <3>2, EntryParts
  <2> HIDE DEF z
  <2>2. y = WithRows(z, n, r, EmptyRow, row, new)
    BY DEF z, WithRows
  <2> HIDE DEF y
  <2>3. /\ y \in IoType /\ y.mem = n /\ y.seen = z.seen /\ y.size = z.size /\ y.table = z.table
        /\ y.rows = [[z.rows EXCEPT ![r] = EmptyRow] EXCEPT ![row] = new]
    <3>1. /\ z \in IoType /\ n \in Counters /\ r \in RowIds /\ EmptyRow \in Rows
          /\ row \in RowIds /\ new \in Rows
      BY <1>4, <1>6, <1>7, <1>8, <2>1, Zenon
    <3> HIDE DEF row
    <3> QED BY <2>2, <3>1, TwoRowsParts
  <2>4. \A l \in Keys : z.table[l].row = x.table[l].row
    <3>1. row = x.table[k].row
      BY Zenon DEF row
    <3> QED BY <2>1, <3>1
  <2>5. /\ \A l \in Keys : y.table[l].row = x.table[l].row
    BY <2>1, <2>3, <2>4, Zenon
  <2>6. y.seen = x.seen /\ y.size = x.size
        /\ y.rows = [[x.rows EXCEPT ![r] = EmptyRow] EXCEPT ![row] = new]
    BY <2>1, <2>3, Zenon
  <2> QED BY <2>3, <2>5, <2>6, Zenon
<1> HIDE DEF y, G
<1>11. /\ y.rows[row] = new
       /\ \A q \in RowIds \ {row} : y.rows[q] = x.rows[q] \/ y.rows[q] = EmptyRow
  BY <1>2, <1>4, <1>6, <1>10
<1>12. G[row].key = F[row].key /\ y.rows[row] = G[row]
  BY <1>4, <1>8, <1>9, <1>11
<1>13. UpToDate(y, G)
  <2>1. y.mem.recs = x.mem.recs /\ y.mem.recs <= y.mem.lines /\ x.mem.recs \in Nat
    BY <1>2, <1>6, <1>7, <1>10 DEF m
  <2>2. /\ row \in 0 .. x.mem.recs - 1
        /\ \A q \in 0 .. x.mem.recs - 1 : q # row => G[q] = F[q]
    BY <1>4, <1>9 DEF m
  <2> QED BY <1>2, <1>10, <1>11, <1>12, <2>1, <2>2, RewritesRight, SMTT(30)
<1>14. \A q \in 0 .. m.recs - 1 : G[q].key = F[q].key
  BY <1>9, <1>12
<1> USE DEF x, m, F
<1>15. Advances(h, y, G)
  BY <1>2, <1>6, <1>7, <1>9, <1>10, <1>13, <1>14, WriterTypes, GrownAdvances
<1> QED BY <1>5, <1>6, <1>15, CarriedBy

LEMMA ProtectCarried ==
  ASSUME NEW h \in Handles, Writing(h), NEW k \in Keys, Protect(h, k)
  PROVE  Carried(h)
<1> DEFINE x == io[h]
           m == x.mem
           F == file.rows
           row == x.table[k].row
           old == RowRead(x, row)
           new == [old EXCEPT !.ro = ~@]
<1>1. changes < MaxSync
  BY Zenon DEF Protect, Change
<1>2. /\ Ready(h) = x /\ x \in IoType /\ m \in Counters
      /\ m.recs \in Nat /\ m.lines \in Nat /\ m.recs <= m.lines /\ m.lines <= MaxRows
      /\ MaxRows \in Nat /\ UpToDate(x, F) /\ F \in [RowIds -> Rows]
      /\ x.rows \in [RowIds -> Rows] /\ x.table \in Tables
  BY WriterStarts
<1> DEFINE z == Set(x, k, row, new.ro)
           n == Count(z.mem, z.mem.recs, z.mem.lines, 0, 0)
           G == [F EXCEPT ![row] = new]
           y == [z EXCEPT !.mem = n, !.rows[row] = new]
<1>3. Change(h, y, G, m.lines)
  BY <1>2, Zenon DEF Protect
<1>4. /\ row \in 0 .. m.recs - 1 /\ row \in RowIds /\ old = F[row] /\ F[row].key = k
      /\ row \in 0 .. MaxRows /\ m.recs \in 0 .. MaxRows /\ m.lines \in 0 .. MaxRows
  <2>1. Has(x, k)
    BY <1>2, Zenon DEF Protect
  <2> QED BY <2>1, WriterReads
<1> HIDE DEF row, old
<1>5. new \in Rows /\ new.key = k /\ new.ro \in BOOLEAN
  <2>1. F[row] \in Rows
    BY <1>2, <1>4
  <2> QED BY <1>4, <2>1 DEF Rows
<1> HIDE DEF new
<1>6. /\ z \in IoType /\ z.mem = m /\ z.seen = x.seen /\ z.size = x.size /\ z.rows = x.rows
      /\ \A l \in Keys : z.table[l].row = x.table[l].row
  <2> DEFINE entry == [row |-> row, ro |-> new.ro]
  <2>1. z = WithEntry(x, k, entry)
    BY DEF Set, WithEntry
  <2>2. entry \in EntryType /\ entry.row = row
    BY <1>4, <1>5 DEF EntryType
  <2> HIDE DEF entry, z, x
  <2>3. /\ z \in IoType /\ z.mem = x.mem /\ z.seen = x.seen /\ z.size = x.size /\ z.rows = x.rows
        /\ \A l \in Keys : z.table[l].row = IF l = k THEN row ELSE x.table[l].row
    BY <1>2, <2>1, <2>2, EntryParts
  <2> QED BY <2>3 DEF row
<1> HIDE DEF z
<1>7. /\ n \in Counters /\ n.sync = m.sync + 1 /\ n.swap = m.swap /\ n.remv = m.remv
      /\ n.recs = m.recs /\ n.lines = m.lines
  <2> DEFINE c == Count(m, m.recs, m.lines, 0, 0)
  <2>1. /\ c \in Counters /\ c.sync = m.sync + 1 /\ c.swap = m.swap + 0 /\ c.remv = m.remv + 0
        /\ c.recs = m.recs /\ c.lines = m.lines
    <3>1. m \in Counters /\ Bounded(m) /\ changes \in Nat
      BY WriterCounts
    <3> HIDE DEF m
    <3> QED BY <1>1, <1>4, <3>1, Counted
  <2>2. n = c
    BY <1>6
  <2> HIDE DEF c, n
  <2> QED BY <1>2, <2>1, <2>2 DEF Counters
<1> HIDE DEF n, x, m, F
<1>8. /\ G \in [RowIds -> Rows] /\ G[row] = new
      /\ \A q \in 0 .. m.recs - 1 : q # row => G[q] = F[q]
  <2>1. G \in [RowIds -> Rows] /\ G[row] = new
    BY <1>2, <1>4, <1>5
  <2>2. ASSUME NEW q \in 0 .. m.recs - 1, q # row PROVE G[q] = F[q]
    <3>1. q \in RowIds
      BY <1>2 DEF RowIds
    <3> QED BY <1>2, <2>2, <3>1
  <2> QED BY <2>1, <2>2
<1>9. /\ y \in IoType /\ y.mem = n /\ y.seen = x.seen /\ y.size = x.size
      /\ y.table = z.table /\ y.rows = [x.rows EXCEPT ![row] = new]
  <2>1. y = WithRow(z, n, row, new)
    BY DEF WithRow
  <2> HIDE DEF y
  <2> QED BY <1>4, <1>5, <1>6, <1>7, <2>1, RowParts
<1> HIDE DEF y, G
<1>10. /\ y.rows[row] = new
       /\ \A q \in RowIds \ {row} : y.rows[q] = x.rows[q] \/ y.rows[q] = EmptyRow
  BY <1>2, <1>4, <1>9
<1>11. G[row].key = F[row].key /\ y.rows[row] = G[row]
  BY <1>4, <1>5, <1>8, <1>10
<1>12. UpToDate(y, G)
  <2>1. y.mem.recs = x.mem.recs /\ y.mem.recs <= y.mem.lines /\ x.mem.recs \in Nat
    BY <1>2, <1>7, <1>9 DEF m
  <2>2. /\ row \in 0 .. x.mem.recs - 1
        /\ \A q \in 0 .. x.mem.recs - 1 : q # row => G[q] = F[q]
    BY <1>4, <1>8 DEF m
  <2>3. \A l \in Keys : y.table[l].row = x.table[l].row
    BY <1>6, <1>9
  <2> QED BY <1>2, <1>9, <1>10, <1>11, <2>1, <2>2, <2>3, RewritesRight, SMTT(30)
<1>13. \A q \in 0 .. m.recs - 1 : G[q].key = F[q].key
  BY <1>8, <1>11
<1> USE DEF x, m, F
<1>14. Advances(h, y, G)
  BY <1>2, <1>7, <1>8, <1>9, <1>12, <1>13, WriterTypes, GrownAdvances
<1> QED BY <1>2, <1>3, <1>14, CarriedBy

\* A record that gets another key.
LEMMA RenamesRight ==
  ASSUME NEW x \in IoType, NEW F, UpToDate(x, F), NEW k \in Keys, Has(x, k), NEW new \in Keys,
         ~Has(x, new), NEW y \in IoType, NEW G, NEW row, row = x.table[k].row,
         x.mem.recs \in Nat, x.mem.recs <= MaxRows, MaxRows \in Nat,
         y.mem.recs = x.mem.recs, y.mem.recs <= y.mem.lines,
         \A l \in Keys : y.table[l].row = IF l = new THEN row
                                          ELSE IF l = k THEN NoRow ELSE x.table[l].row,
         \A r \in RowIds \ {row} : y.rows[r] = x.rows[r],
         \A r \in 0 .. x.mem.recs - 1 : r # row => G[r] = F[r],
         G[row].key = new, y.rows[row] = G[row]
  PROVE  UpToDate(y, G)
<1> DEFINE n == x.mem.recs
<1>1. /\ \A l \in Keys : x.table[l].row < n \/ x.table[l].row = MaxRows
      /\ \A l \in Keys : x.table[l].row < n => F[x.table[l].row].key = l
      /\ \A r \in 0 .. n - 1 : F[r].key \in Keys /\ x.table[F[r].key].row = r
      /\ \A r \in RowIds : x.rows[r] # EmptyRow => r < n /\ x.rows[r] = F[r]
      /\ row < n /\ ~(x.table[new].row < n) /\ n \in Nat /\ n <= MaxRows /\ NoRow = MaxRows
  BY DEF UpToDate, Entries, Agree, Remembers, NoRow, Has
<1>2. \A l \in Keys : x.table[l].row \in Nat
  BY DEF IoType, Tables
<1>3. row \in 0 .. n - 1 /\ F[row].key = k /\ k # new
  BY <1>1, <1>2
<1> HIDE DEF n
<1>4. ASSUME NEW l \in Keys
      PROVE  /\ y.table[l].row < n \/ y.table[l].row = MaxRows
             /\ y.table[l].row < n => G[y.table[l].row].key = l
  <2>1. CASE l = new
    BY <1>1, <2>1
  <2>2. CASE l = k
    BY <1>1, <1>3, <2>2
  <2>3. CASE l # new /\ l # k
    <3>1. y.table[l].row = x.table[l].row
      BY <2>3
    <3>2. ASSUME x.table[l].row < n PROVE G[x.table[l].row].key = l
      <4>1. x.table[l].row \in 0 .. n - 1 /\ F[x.table[l].row].key = l
        BY <1>1, <1>2, <3>2
      <4>2. x.table[l].row # row
        BY <1>3, <2>3, <4>1
      <4> QED BY <4>1, <4>2 DEF n
    <3> QED BY <1>1, <3>1, <3>2
  <2> QED BY <2>1, <2>2, <2>3
<1>5. ASSUME NEW r \in 0 .. n - 1 PROVE G[r].key \in Keys /\ y.table[G[r].key].row = r
  <2>1. CASE r = row
    BY <2>1
  <2>2. CASE r # row
    <3>1. G[r].key = F[r].key /\ F[r].key \in Keys /\ x.table[F[r].key].row = r
      BY <1>1, <2>2 DEF n
    <3>2. F[r].key # k /\ F[r].key # new
      BY <1>1, <2>2, <3>1
    <3> QED BY <3>1, <3>2
  <2> QED BY <2>1, <2>2
<1>6. ASSUME NEW r \in RowIds, y.rows[r] # EmptyRow PROVE r < n /\ y.rows[r] = G[r]
  <2>1. CASE r = row
    BY <1>1, <2>1
  <2>2. CASE r # row
    <3>1. y.rows[r] = x.rows[r] /\ r < n /\ x.rows[r] = F[r] /\ r \in Nat
      BY <1>1, <1>6, <2>2 DEF RowIds
    <3>2. r \in 0 .. n - 1
      BY <1>1, <3>1
    <3> QED BY <2>2, <3>1, <3>2 DEF n
  <2> QED BY <2>1, <2>2
<1>7. y.mem.recs = n
  BY DEF n
<1> QED BY <1>4, <1>5, <1>6, <1>7 DEF UpToDate, Entries, Agree, Remembers, NoRow

LEMMA RenameCarried ==
  ASSUME NEW h \in Handles, Writing(h), NEW k \in Keys, NEW new \in Keys,
         Rename(h, k, new)
  PROVE  Carried(h)
<1> DEFINE x == io[h]
           m == x.mem
           F == file.rows
           row == x.table[k].row
           old == RowRead(x, row)
           moved == [old EXCEPT !.key = new, !.ver = m.sync]
<1>1. changes < MaxSync
  BY DEF Rename, Change
<1>2. /\ Ready(h) = x /\ x \in IoType /\ m \in Counters
      /\ m.recs \in Nat /\ m.lines \in Nat /\ m.recs <= m.lines /\ m.lines <= MaxRows
      /\ MaxRows \in Nat /\ UpToDate(x, F) /\ F \in [RowIds -> Rows]
      /\ x.rows \in [RowIds -> Rows] /\ x.table \in Tables
  BY WriterStarts, SMTT(30)
<1> DEFINE z1 == Set(x, k, NoRow, FALSE)
           z == Set(z1, new, row, old.ro)
           n == Count(z.mem, z.mem.recs, z.mem.lines, 1, 0)
           G == [F EXCEPT ![row] = moved]
           y == [z EXCEPT !.mem = n, !.rows[row] = moved]
<1>3. Change(h, y, G, m.lines) /\ Has(x, k) /\ ~Has(x, new)
  BY <1>2, Zenon DEF Rename
<1>4. /\ row \in 0 .. m.recs - 1 /\ row \in RowIds /\ old = F[row] /\ F[row].key = k
      /\ row \in 0 .. MaxRows /\ m.recs \in 0 .. MaxRows /\ m.lines \in 0 .. MaxRows
  BY <1>3, WriterReads, Zenon
<1> HIDE DEF row, old
<1>5. moved \in Rows /\ moved.key = new /\ old.ro \in BOOLEAN
  <2>1. F[row] \in Rows /\ m.sync \in Nat
    BY <1>2, <1>4 DEF Counters
  <2> QED BY <1>4, <2>1 DEF Rows
<1> HIDE DEF moved
<1>6. /\ z \in IoType /\ z.mem = m /\ z.seen = x.seen /\ z.size = x.size /\ z.rows = x.rows
      /\ \A l \in Keys : z.table[l].row = IF l = new THEN row
                                          ELSE IF l = k THEN NoRow ELSE x.table[l].row
  <2> DEFINE entry == [row |-> NoRow, ro |-> FALSE]
             moves == [row |-> row, ro |-> old.ro]
  <2>1. z1 = WithEntry(x, k, entry)
    BY DEF Set, WithEntry
  <2>2. z = WithEntry(z1, new, moves)
    BY DEF Set, WithEntry
  <2>3. /\ entry \in EntryType /\ entry.row = NoRow
        /\ moves \in EntryType /\ moves.row = row
    BY <1>2, <1>4, <1>5 DEF EntryType, NoRow
  <2> HIDE DEF entry, moves, z, z1, x
  <2>4. /\ z1 \in IoType /\ z1.mem = x.mem /\ z1.seen = x.seen /\ z1.size = x.size
        /\ z1.rows = x.rows
        /\ \A l \in Keys : z1.table[l].row = IF l = k THEN NoRow ELSE x.table[l].row
    <3>1. x \in IoType /\ entry \in EntryType /\ entry.row = NoRow
      BY <1>2, <2>3
    <3> QED BY <2>1, <3>1, EntryParts, SMTT(30)
  <2>5. /\ z \in IoType /\ z.mem = z1.mem /\ z.seen = z1.seen /\ z.size = z1.size
        /\ z.rows = z1.rows
        /\ \A l \in Keys : z.table[l].row = IF l = new THEN row ELSE z1.table[l].row
    <3>1. z1 \in IoType /\ moves \in EntryType /\ moves.row = row
      BY <2>3, <2>4
    <3> QED BY <2>2, <3>1, EntryParts, SMTT(30)
  <2> QED BY <2>4, <2>5
<1> HIDE DEF z
<1>7. /\ n \in Counters /\ n.sync = m.sync + 1 /\ n.swap = m.swap + 1 /\ n.remv = m.remv
      /\ n.recs = m.recs /\ n.lines = m.lines
  <2> DEFINE c == Count(m, m.recs, m.lines, 1, 0)
  <2>1. /\ c \in Counters /\ c.sync = m.sync + 1 /\ c.swap = m.swap + 1 /\ c.remv = m.remv + 0
        /\ c.recs = m.recs /\ c.lines = m.lines
    <3>1. m \in Counters /\ Bounded(m) /\ changes \in Nat
      BY WriterCounts
    <3> HIDE DEF m
    <3> QED BY <1>1, <1>4, <3>1, Counted
  <2>2. n = c
    BY <1>6
  <2> HIDE DEF c, n
  <2> QED BY <1>2, <2>1, <2>2 DEF Counters
<1> HIDE DEF n, x, m, F
<1>8. /\ G \in [RowIds -> Rows] /\ G[row] = moved
      /\ \A q \in 0 .. m.recs - 1 : q # row => G[q] = F[q]
  <2>1. G \in [RowIds -> Rows] /\ G[row] = moved
    BY <1>2, <1>4, <1>5
  <2>2. ASSUME NEW q \in 0 .. m.recs - 1, q # row PROVE G[q] = F[q]
    <3>1. q \in RowIds
      BY <1>2 DEF RowIds
    <3> QED BY <1>2, <2>2, <3>1
  <2> QED BY <2>1, <2>2
<1>9. /\ y \in IoType /\ y.mem = n /\ y.seen = x.seen /\ y.size = x.size
      /\ y.table = z.table /\ y.rows = [x.rows EXCEPT ![row] = moved]
  <2>1. y = WithRow(z, n, row, moved)
    BY DEF WithRow
  <2> HIDE DEF y
  <2> QED BY <1>4, <1>5, <1>6, <1>7, <2>1, RowParts
<1> HIDE DEF y, G
<1>10. y.rows[row] = G[row] /\ \A q \in RowIds \ {row} : y.rows[q] = x.rows[q]
  BY <1>2, <1>4, <1>8, <1>9
<1>11. UpToDate(y, G)
  <2>1. /\ y.mem.recs = x.mem.recs /\ y.mem.recs <= y.mem.lines /\ x.mem.recs \in Nat
        /\ x.mem.recs <= MaxRows
    BY <1>2, <1>4, <1>7, <1>9 DEF m
  <2>2. /\ \A q \in 0 .. x.mem.recs - 1 : q # row => G[q] = F[q]
        /\ G[row].key = new
    BY <1>5, <1>8 DEF m
  <2>3. \A l \in Keys : y.table[l].row = IF l = new THEN row
                                         ELSE IF l = k THEN NoRow ELSE x.table[l].row
    BY <1>6, <1>9
  <2>4. row = x.table[k].row
    BY DEF row
  <2> QED BY <1>2, <1>3, <1>9, <1>10, <2>1, <2>2, <2>3, <2>4, RenamesRight
<1> USE DEF x, m, F
<1>12. y.mem \in Counters /\ m.swap \in Nat /\ m.remv \in Nat
  BY <1>2, <1>7, <1>9 DEF Counters
<1>13. ASSUME NEW g \in Others(h), Knows(io[g], m, F)
       PROVE  Knows(io[g], y.mem, G)
  <2>1. /\ y.mem.sync = m.sync + 1 /\ y.mem.swap = m.swap + 1 /\ y.mem.remv = m.remv
        /\ y.mem.lines = m.lines
    BY <1>7, <1>9
  <2> HIDE DEF m, F, x
  <2> QED BY <1>2, <1>12, <1>13, <2>1, KnowsRenamed
<1>14. Advances(h, y, G)
  BY <1>2, <1>7, <1>8, <1>9, <1>11, <1>12, <1>13 DEF Advances
<1> QED BY <1>2, <1>3, <1>14, CarriedBy

\* A record that is deleted, while the last one takes its row.
LEMMA DeletesRight ==
  ASSUME NEW x \in IoType, NEW F, UpToDate(x, F), NEW k \in Keys, Has(x, k),
         NEW y \in IoType, NEW G, NEW row, row = x.table[k].row, NEW last, last = x.mem.recs - 1,
         x.mem.recs \in Nat, x.mem.recs <= MaxRows, MaxRows \in Nat,
         y.mem.recs = last, y.mem.recs <= y.mem.lines,
         \A l \in Keys : y.table[l].row = IF l = k THEN NoRow
                                          ELSE IF row < last /\ l = F[last].key THEN row
                                          ELSE x.table[l].row,
         \A r \in RowIds \ {row, last} : y.rows[r] = x.rows[r],
         y.rows[row] = EmptyRow, y.rows[last] = EmptyRow,
         \A r \in 0 .. last - 1 : r # row => G[r] = F[r],
         row < last => G[row].key = F[last].key
  PROVE  UpToDate(y, G)
<1> DEFINE n == x.mem.recs
<1>1. /\ \A l \in Keys : x.table[l].row < n \/ x.table[l].row = MaxRows
      /\ \A l \in Keys : x.table[l].row < n => F[x.table[l].row].key = l
      /\ \A r \in 0 .. n - 1 : F[r].key \in Keys /\ x.table[F[r].key].row = r
      /\ \A r \in RowIds : x.rows[r] # EmptyRow => r < n /\ x.rows[r] = F[r]
      /\ row < n /\ n \in Nat /\ n <= MaxRows /\ NoRow = MaxRows /\ last = n - 1
  BY DEF UpToDate, Entries, Agree, Remembers, NoRow, Has
<1>2. \A l \in Keys : x.table[l].row \in Nat
  BY DEF IoType, Tables
<1> HIDE DEF n
<1>3. /\ row \in 0 .. last /\ F[row].key = k /\ last \in Nat /\ last < MaxRows
      /\ last \in 0 .. n - 1 /\ F[last].key \in Keys /\ x.table[F[last].key].row = last
      /\ row < last => F[last].key # k
  <2>1. row \in 0 .. last /\ F[row].key = k /\ last \in Nat /\ last < MaxRows /\ last \in 0 .. n - 1
    BY <1>1, <1>2
  <2>2. F[last].key \in Keys /\ x.table[F[last].key].row = last
    BY <1>1, <2>1
  <2> QED BY <2>1, <2>2
<1>4. ASSUME NEW l \in Keys, l # k, ~(row < last /\ l = F[last].key), x.table[l].row < n
      PROVE  x.table[l].row \in 0 .. last - 1 /\ x.table[l].row # row /\ F[x.table[l].row].key = l
  <2>1. F[x.table[l].row].key = l /\ x.table[l].row \in 0 .. last
    BY <1>1, <1>2, <1>4
  <2>2. x.table[l].row # row
    BY <1>3, <1>4, <2>1
  <2>3. x.table[l].row # last
    BY <1>3, <1>4, <2>1
  <2> QED BY <1>3, <2>1, <2>2, <2>3
<1>5. ASSUME NEW l \in Keys
      PROVE  /\ y.table[l].row < last \/ y.table[l].row = MaxRows
             /\ y.table[l].row < last => G[y.table[l].row].key = l
  <2>1. CASE l = k
    BY <1>1, <1>3, <2>1, SMTT(30)
  <2>2. CASE l # k /\ row < last /\ l = F[last].key
    BY <2>2
  <2>3. CASE l # k /\ ~(row < last /\ l = F[last].key)
    <3>1. y.table[l].row = x.table[l].row
      BY <2>3
    <3>2. CASE x.table[l].row < n
      BY <1>4, <2>3, <3>1, <3>2
    <3>3. CASE x.table[l].row = MaxRows
      BY <1>3, <3>1, <3>3
    <3> QED BY <1>1, <3>2, <3>3
  <2> QED BY <2>1, <2>2, <2>3
<1>6. ASSUME NEW r \in 0 .. last - 1 PROVE G[r].key \in Keys /\ y.table[G[r].key].row = r
  <2>1. CASE r = row
    BY <1>3, <2>1
  <2>2. CASE r # row
    <3>1. r \in 0 .. n - 1 /\ r # last
      BY <1>1
    <3>2. G[r].key = F[r].key /\ F[r].key \in Keys /\ x.table[F[r].key].row = r
      BY <1>1, <2>2, <3>1
    <3>3. F[r].key # k /\ F[r].key # F[last].key
      BY <1>3, <2>2, <3>1, <3>2
    <3> QED BY <3>2, <3>3
  <2> QED BY <2>1, <2>2
<1>7. ASSUME NEW r \in RowIds, y.rows[r] # EmptyRow PROVE r < last /\ y.rows[r] = G[r]
  <2>1. r # row /\ r # last /\ r \in Nat
    BY <1>7 DEF RowIds
  <2>2. y.rows[r] = x.rows[r] /\ r < n /\ x.rows[r] = F[r]
    BY <1>1, <1>7, <2>1
  <2>3. r \in 0 .. last - 1
    BY <1>1, <2>1, <2>2, SMTT(30)
  <2> QED BY <2>1, <2>2, <2>3
<1> QED BY <1>5, <1>6, <1>7 DEF UpToDate, Entries, Agree, Remembers, NoRow

LEMMA DeleteCarried ==
  ASSUME NEW h \in Handles, Writing(h), NEW k \in Keys, Delete(h, k)
  PROVE  Carried(h)
<1> DEFINE x == io[h]
           m == x.mem
           F == file.rows
           row == x.table[k].row
           old == RowRead(x, row)
           last == m.recs - 1
           mover == F[last]
           swap == IF row < last THEN 1 ELSE 0
           gone == [old EXCEPT !.ver = m.sync]
           z1 == IF row < last THEN Set(x, mover.key, row, mover.ro) ELSE x
           z == Set(z1, k, NoRow, FALSE)
           n == Count(m, last, m.lines, swap, 1)
           G == [F EXCEPT ![row] = mover, ![last] = gone]
           y == [z EXCEPT !.mem = n, !.rows[row] = EmptyRow, !.rows[last] = EmptyRow]
<1>1. changes < MaxSync
  BY Zenon DEF Delete, Change
<1>2. /\ Ready(h) = x /\ x \in IoType /\ m \in Counters
      /\ m.recs \in Nat /\ m.lines \in Nat /\ m.recs <= m.lines /\ m.lines <= MaxRows
      /\ MaxRows \in Nat /\ UpToDate(x, F) /\ F \in [RowIds -> Rows]
      /\ x.rows \in [RowIds -> Rows] /\ x.table \in Tables
  BY WriterStarts
<1>3. Change(h, y, G, m.lines) /\ Has(x, k)
  BY <1>2, Zenon DEF Delete
<1>4. /\ row \in 0 .. last /\ row \in RowIds /\ old = F[row] /\ F[row].key = k
      /\ row \in 0 .. MaxRows /\ last \in 0 .. MaxRows /\ last \in RowIds /\ m.lines \in 0 .. MaxRows
      /\ m.recs = last + 1 /\ last \in Nat /\ last <= m.lines
  <2>1. /\ row \in 0 .. m.recs - 1 /\ row \in RowIds /\ row \in 0 .. MaxRows
        /\ old = F[row] /\ F[row].key = k /\ m.recs \in 0 .. MaxRows /\ m.lines \in 0 .. MaxRows
    BY <1>3, WriterReads, Zenon
  <2>2. m.recs <= m.lines /\ MaxRows \in Nat
    BY <1>2
  <2> HIDE DEF row, old, m
  <2> QED BY <2>1, <2>2 DEF RowIds
<1> HIDE DEF row, old
<1>5. /\ gone \in Rows /\ gone.key = k /\ mover \in Rows /\ mover.key \in Keys
      /\ mover.ro \in BOOLEAN /\ EmptyRow \in Rows
  <2>1. F[row] \in Rows /\ m.sync \in Nat /\ mover \in Rows
    BY <1>2, <1>4 DEF Counters
  <2>2. mover.key \in Keys
    BY <1>2, <1>4 DEF UpToDate, Agree
  <2> QED BY <1>4, <2>1, <2>2, EmptyIsRow DEF Rows
<1>6. swap \in {0, 1} /\ swap = IF row < last THEN 1 ELSE 0
  OBVIOUS
<1> HIDE DEF swap, gone, mover
<1>7. /\ n \in Counters /\ n.sync = m.sync + 1 /\ n.swap = m.swap + swap /\ n.remv = m.remv + 1
      /\ n.recs = last /\ n.lines = m.lines
  <2>1. m \in Counters /\ Bounded(m) /\ changes \in Nat
    BY WriterCounts
  <2> HIDE DEF m
  <2> QED BY <1>1, <1>4, <1>6, <2>1, Counted
<1> HIDE DEF n, F, last, m, x
<1>8. /\ G \in [RowIds -> Rows] /\ G[last] = gone
      /\ row < last => G[row] = mover
      /\ \A q \in RowIds : q \notin {row, last} => G[q] = F[q]
  <2>1. G = [[F EXCEPT ![row] = mover] EXCEPT ![last] = gone]
    OBVIOUS
  <2> HIDE DEF G
  <2>2. row < last => row # last
    BY <1>4
  <2> QED BY <1>2, <1>4, <1>5, <2>1, <2>2
<1>9. /\ z \in IoType /\ z.seen = x.seen /\ z.size = x.size /\ z.rows = x.rows
      /\ \A l \in Keys : z.table[l].row = IF l = k THEN NoRow
                                          ELSE IF row < last /\ l = mover.key THEN row
                                          ELSE x.table[l].row
  <2> DEFINE entry == [row |-> NoRow, ro |-> FALSE]
             moves == [row |-> row, ro |-> mover.ro]
  <2>1. row < last => z1 = WithEntry(x, mover.key, moves)
    BY DEF Set, WithEntry
  <2>2. ~(row < last) => z1 = x
    OBVIOUS
  <2>3. z = WithEntry(z1, k, entry)
    BY DEF Set, WithEntry
  <2>4. /\ entry \in EntryType /\ entry.row = NoRow
        /\ moves \in EntryType /\ moves.row = row
    BY <1>2, <1>4, <1>5 DEF EntryType, NoRow
  <2> HIDE DEF entry, moves, z, z1
  <2>5. /\ z1 \in IoType /\ z1.seen = x.seen /\ z1.size = x.size /\ z1.rows = x.rows
        /\ \A l \in Keys : z1.table[l].row = IF row < last /\ l = mover.key THEN row
                                             ELSE x.table[l].row
    <3>1. CASE row < last
      <4>1. x \in IoType /\ moves \in EntryType /\ moves.row = row /\ mover.key \in Keys
        BY <1>2, <1>5, <2>4
      <4>2. z1 = WithEntry(x, mover.key, moves)
        BY <2>1, <3>1
      <4>3. /\ z1 \in IoType /\ z1.seen = x.seen /\ z1.size = x.size /\ z1.rows = x.rows
            /\ \A l \in Keys : z1.table[l].row = IF l = mover.key THEN row ELSE x.table[l].row
        BY <4>1, <4>2, EntryParts, SMTT(30)
      <4> QED BY <3>1, <4>3
    <3>2. CASE ~(row < last)
      BY <1>2, <2>2, <3>2
    <3> QED BY <3>1, <3>2
  <2>6. /\ z \in IoType /\ z.seen = z1.seen /\ z.size = z1.size /\ z.rows = z1.rows
        /\ \A l \in Keys : z.table[l].row = IF l = k THEN NoRow ELSE z1.table[l].row
    <3>1. z1 \in IoType /\ entry \in EntryType /\ entry.row = NoRow
      BY <2>4, <2>5
    <3> QED BY <2>3, <3>1, EntryParts
  <2>7. \A l \in Keys : z.table[l].row = IF l = k THEN NoRow
                                        ELSE IF row < last /\ l = mover.key THEN row
                                        ELSE x.table[l].row
    BY <2>5, <2>6
  <2>8. z \in IoType /\ z.seen = x.seen /\ z.size = x.size /\ z.rows = x.rows
    BY <2>5, <2>6
  <2> QED BY <2>7, <2>8, Zenon
<1> HIDE DEF z
<1>10. /\ y \in IoType /\ y.mem = n /\ y.seen = x.seen /\ y.size = x.size
       /\ y.table = z.table
       /\ y.rows = [[x.rows EXCEPT ![row] = EmptyRow] EXCEPT ![last] = EmptyRow]
  <2>1. y = WithRows(z, n, row, EmptyRow, last, EmptyRow)
    BY DEF WithRows
  <2> HIDE DEF y
  <2> QED BY <1>4, <1>5, <1>7, <1>9, <2>1, TwoRowsParts
<1> HIDE DEF y, G
<1>11. /\ y.rows[row] = EmptyRow /\ y.rows[last] = EmptyRow
       /\ \A q \in RowIds \ {row, last} : y.rows[q] = x.rows[q]
  BY <1>2, <1>4, <1>10
<1>12. UpToDate(y, G)
  <2>1. /\ last = x.mem.recs - 1 /\ y.mem.recs = last /\ y.mem.recs <= y.mem.lines
        /\ x.mem.recs \in Nat /\ x.mem.recs <= MaxRows
    BY <1>2, <1>4, <1>7, <1>10 DEF m, last
  <2>2. /\ \A q \in 0 .. last - 1 : q # row => G[q] = F[q]
        /\ row < last => G[row].key = F[last].key
    <3>1. \A q \in 0 .. last - 1 : q \in RowIds /\ q # last
      BY <1>2, <1>4 DEF RowIds
    <3> QED BY <1>8, <3>1 DEF mover
  <2>3. \A l \in Keys : y.table[l].row = IF l = k THEN NoRow
                                         ELSE IF row < last /\ l = F[last].key THEN row
                                         ELSE x.table[l].row
    BY <1>9, <1>10 DEF mover
  <2>4. row = x.table[k].row
    BY DEF row
  <2>5. x \in IoType /\ UpToDate(x, F) /\ Has(x, k) /\ y \in IoType /\ MaxRows \in Nat
    BY <1>2, <1>3, <1>10
  <2> QED BY <1>11, <2>1, <2>2, <2>3, <2>4, <2>5, DeletesRight
<1>13. Deletes(m, F, y.mem, G, row)
  <2>1. last = m.recs - 1
    BY DEF last
  <2>2. /\ row \in 0 .. last /\ y.mem.recs = last /\ y.mem.lines = m.lines
        /\ y.mem.sync = m.sync + 1 /\ y.mem.remv = m.remv + 1
        /\ y.mem.swap = m.swap + (IF row < last THEN 1 ELSE 0)
    BY <1>4, <1>6, <1>7, <1>10
  <2>3. /\ G[last].key = F[row].key
        /\ row < last => G[row].key = F[last].key
        /\ \A r \in RowIds : r \notin {row, last} => G[r].key = F[r].key
    BY <1>4, <1>5, <1>8 DEF mover
  <2> QED BY <2>1, <2>2, <2>3 DEF Deletes
<1>14. ASSUME NEW g \in Others(h), Knows(io[g], m, F)
       PROVE  Knows(io[g], y.mem, G)
  <2>1. io[g] \in IoType /\ y.mem \in Counters
    BY <1>7, <1>10, WriterTypes DEF InvTypes, Others
  <2> QED BY <1>2, <1>13, <1>14, <2>1, KnowsDeleted
<1>15. /\ y.mem.sync = m.sync + 1 /\ y.mem.swap <= m.swap + 1 /\ y.mem.remv <= m.remv + 1
  BY <1>2, <1>6, <1>7, <1>10 DEF Counters
<1> USE DEF x, m, F
<1>16. Advances(h, y, G)
  BY <1>8, <1>10, <1>12, <1>14, <1>15 DEF Advances
<1> QED BY <1>2, <1>3, <1>16, CarriedBy

LEMMA ChangesCarried ==
  ASSUME NEW h \in Handles, Writing(h), NEW k \in Keys, Change1(h, k)
  PROVE  Carried(h)
BY AddCarried, UpdateCarried, ProtectCarried, DeleteCarried, UndeleteCarried, RenameCarried
   DEF Change1

LEMMA CarriedStep ==
  ASSUME Inv, NEW h \in Handles, st[h] = "write", Carried(h)
  PROVE  Inv'
<1>1. PICK y, G : \E lines \in Nat : Advances(h, y, G) /\ Change(h, y, G, lines)
  BY Zenon DEF Carried
<1> QED BY <1>1, ChangeStep

-----------------------------------------------------------------------------
(* The theorems *)

LEMMA InvInit ==
  ASSUME Init
  PROVE  Inv
<1> DEFINE zero == [sync |-> 0, swap |-> 0, remv |-> 0, recs |-> 0, lines |-> 0]
<1>1. MaxRows \in Nat /\ MaxSync \in Nat
  BY SyncBounds
<1>2. zero \in Counters
  BY <1>1 DEF Counters
<1>3. /\ file = NewFile /\ changes = 0 /\ \A h \in Handles : io[h] = NewIo
      /\ st \in [Handles -> {"closed", "read", "promoting", "upgrading", "write"}]
      /\ touched \in [Handles -> BOOLEAN] /\ \A h \in Handles : st[h] = "closed"
  BY DEF Init
<1>4. /\ NewFile.rows = NoRows /\ NewFile.size = 1 /\ NewFile.head = zero
      /\ NewFile \in [rows : [RowIds -> Rows], head : Counters, size : Nat]
  BY <1>2, EmptyIsRow DEF NewFile, HeaderSize
<1>5. /\ NewIo.mem = zero /\ NewIo.size = 0 /\ NewIo.seen \in Seens
      /\ NewIo.table = NoTable /\ NewIo.rows = NoRows
  BY DEF NewIo, Seens
<1>6. NewIo \in IoType
  <2>1. NewIo.seen \in Seens
    BY <1>5
  <2>2. NewIo = [mem |-> zero, seen |-> NewIo.seen, size |-> 0, table |-> NoTable, rows |-> NoRows]
    BY DEF NewIo
  <2> HIDE DEF zero
  <2> QED BY <1>2, <2>1, <2>2, NoTableRow, EmptyIsRow DEF IoType
<1>7. InvTypes
  <2>1. io \in [Handles -> IoType]
    BY <1>6 DEF Init
  <2>2. zero.recs <= zero.lines /\ zero.sync <= 0 /\ zero.swap <= 0 /\ zero.remv <= 0
    OBVIOUS
  <2>3. got \in [Handles -> [key : Keys \cup {NoKey}, ver : Nat]]
    <3>1. NoGot \in [key : Keys \cup {NoKey}, ver : Nat]
      BY DEF NoGot
    <3> QED BY <3>1 DEF Init
  <2>4. changes \in 0 .. MaxSync
    BY <1>1, <1>3
  <2>5. \A h \in Handles : io[h] \in IoType
    BY <2>1
  <2>6. file.head = zero /\ file \in [rows : [RowIds -> Rows], head : Counters, size : Nat]
    BY <1>3, <1>4
  <2> HIDE DEF zero
  <2>7. TypeOK
    BY <1>3, <2>2, <2>3, <2>4, <2>5, <2>6 DEF TypeOK, IoType, Seens, Tables
  <2> QED BY <1>3, <1>5, <2>1, <2>2, <2>6, <2>7 DEF InvTypes, Bounded
<1>8. InvSessions
  BY <1>3 DEF InvSessions
<1>9. InvSizes
  <2>1. file.size = 1
    BY <1>3, <1>4
  <2>2. ASSUME NEW h \in Handles PROVE SizeKnown(h)
    <3>1. io[h].size = 0 /\ st[h] = "closed"
      BY <1>3, <1>5
    <3> QED BY <2>1, <3>1 DEF SizeKnown
  <2> QED BY <2>1, <2>2 DEF InvSizes
<1>10. InvTables
  <2>1. Latest = zero
    BY <1>3, <1>4 DEF Latest
  <2>2. \A h \in Handles : TableKnown(h)
    BY <1>3 DEF TableKnown
  <2>3. zero.recs = 0 /\ zero.lines = 0
    OBVIOUS
  <2>4. Records(0, file.rows)
    BY DEF Records
  <2> HIDE DEF zero
  <2> QED BY <2>1, <2>2, <2>3, <2>4 DEF InvTables
<1> QED BY <1>7, <1>8, <1>9, <1>10 DEF Inv

LEMMA InvNext ==
  ASSUME PlainOps, Inv, [Next]_vars
  PROVE  Inv'
<1>1. CASE UNCHANGED vars
  <2>1. /\ file' = file /\ io' = io /\ st' = st /\ touched' = touched /\ got' = got
        /\ changes' = changes
    BY <1>1 DEF vars
  <2>2. InvTypes'
    BY <2>1 DEF Inv, InvTypes, TypeOK, Bounded
  <2>3. InvSessions'
    BY <2>1 DEF Inv, InvSessions
  <2>4. InvSizes'
    BY <2>1 DEF Inv, InvSizes, SizeKnown
  <2>5. Latest' = Latest
    BY <2>1 DEF Latest
  <2>6. InvTables'
    BY <2>1, <2>5 DEF Inv, InvTables, TableKnown
  <2> QED BY <2>2, <2>3, <2>4, <2>6 DEF Inv
<1>2. ASSUME NEW h \in Handles, NEW k \in Keys, st[h] = "write", Change1(h, k)
      PROVE  Inv'
  BY <1>2, WriterWrites, ChangesCarried, CarriedStep
<1>3. ASSUME NEW h \in Handles, NEW k \in Keys, st[h] \in {"read", "write"}, Get(h, k)
      PROVE  Inv'
  <2>1. Read(h, k) /\ got' \in [Handles -> [key : Keys \cup {NoKey}, ver : Nat]]
    BY <1>3, GotKept DEF Get
  <2> QED BY <1>3, <2>1, ReadStep
<1>4. ASSUME NEW h \in Handles, NEW k \in Keys, st[h] \in {"read", "write"}, GetOld(h, k)
      PROVE  Inv'
  <2> DEFINE x == Ready(h)
             r == io[h].table[k].row
             ver == RowRead(x, r).ver
  <2>1. Read(h, k) /\ got' = [got EXCEPT ![h] = [key |-> k, ver |-> ver]]
    BY <1>4 DEF GetOld
  <2>2. /\ r \in RowIds
        /\ x \in IoType /\ file.rows \in [RowIds -> Rows]
    <3>1. io[h] \in IoType /\ io[h].mem \in Counters /\ TypeOK
      BY HeaderBounds DEF Inv, InvTypes, IoType
    <3>2. r \in Nat /\ r < MaxRows
      BY <2>1, <3>1, SyncBounds DEF Read, Has, IoType, Tables, Counters
    <3>3. x \in IoType
      BY <1>4, ReaderFresh, WriterKnows DEF Fresh, Fits, Ready
    <3> QED BY <3>1, <3>2, <3>3, Basics, SyncBounds DEF RowIds
  <2> HIDE DEF r, x
  <2>3. RowRead(x, r) \in Rows
    BY <2>2 DEF RowRead, IoType
  <2>4. ver \in Nat
    BY <2>3 DEF Rows
  <2> HIDE DEF ver
  <2>5. got' \in [Handles -> [key : Keys \cup {NoKey}, ver : Nat]]
    BY <2>1, <2>4, GotKept
  <2> QED BY <1>4, <2>1, <2>5, ReadStep
<1>5. ASSUME NEW h \in Handles PROVE ~Upgraded(h)
  BY DEF Upgraded, Inv, InvSessions
<1>6. "nested" \notin Ops /\ "recycle" \notin Ops
  BY DEF PlainOps
<1>7. CASE Next
  <2>1. PICK h \in Handles :
          \/ OpenRead(h) \/ OpenWrite(h) \/ Close(h) \/ Promote(h) \/ Promoted(h)
          \/ st[h] \in {"read", "write"} /\ \E k \in Keys : Get(h, k)
          \/ st[h] \in {"read", "write"} /\ \E k \in Keys : GetOld(h, k)
          \/ st[h] = "write" /\ \E k \in Keys : Change1(h, k)
    BY <1>5, <1>6, <1>7 DEF Next
  <2> QED BY <1>2, <1>3, <1>4, <2>1, OpenReadStep, OpenWriteStep, CloseStep, PromoteStep, PromotedStep
<1> QED BY <1>1, <1>7

LEMMA InvCurrent ==
  ASSUME Inv
  PROVE  TypeOK /\ TableCurrent /\ RowsReadCurrent
<1>1. TypeOK
  BY DEF Inv, InvTypes
<1>2. ASSUME NEW h \in Handles, st[h] \in {"read", "write"}
      PROVE  UpToDate(io[h], file.rows) /\ (st[h] = "read" => io[h].mem = file.head)
  <2>1. CASE st[h] = "read"
    BY <2>1, ReaderFresh DEF Fresh
  <2>2. CASE st[h] = "write"
    BY <2>2, WriterKnows DEF Fits
  <2> QED BY <1>2, <2>1, <2>2
<1>3. TableCurrent
  BY <1>2 DEF TableCurrent, Current, UpToDate, Agree, Has
<1>4. RowsReadCurrent
  BY <1>2 DEF RowsReadCurrent, UpToDate, Remembers
<1> QED BY <1>1, <1>3, <1>4

LEMMA InvAlways ==
  ASSUME PlainOps
  PROVE  Spec => []Inv
<1>1. Init => Inv
  BY InvInit
<1>2. Inv /\ [Next]_vars => Inv'
  BY InvNext
<1> QED BY <1>1, <1>2, PTL DEF Spec

\* Whatever sessions and operations the handles interleave, the header never
\* counts more records than rows and what a handle remembers of it is a header
\* that the file had (JIo.read_header, write_header, load_keys).
THEOREM TypesKept ==
  ASSUME PlainOps
  PROVE  Spec => []TypeOK
<1>1. Inv => TypeOK
  BY InvCurrent
<1> QED BY <1>1, InvAlways, PTL

\* load_keys is right to read only a part of the index again: in every session
\* the handle finds each record in the row where it is, whatever the other
\* handles added, wrote, deleted, undeleted or renamed since its last session.
THEOREM TablesRight ==
  ASSUME PlainOps
  PROVE  Spec => []TableCurrent
<1>1. Inv => TableCurrent
  BY InvCurrent
<1> QED BY <1>1, InvAlways, PTL

\* The rows that read_key answers from memory: is_updated and load_keys forget
\* them whenever another handle may have written one.
THEOREM RowsRight ==
  ASSUME PlainOps
  PROVE  Spec => []RowsReadCurrent
<1>1. Inv => RowsReadCurrent
  BY InvCurrent
<1> QED BY <1>1, InvAlways, PTL
-----------------------------------------------------------------------------
(* One handle alone, with every operation *)

\* A handle that has the file to itself may promote a read session either way
\* and recycle: nobody else changes the file while the lock is given up, and
\* recycle writes the header itself.

\* The handle knows the header and the size of the file.
Settled(h) == io[h].mem = file.head /\ io[h].size = file.size

\* What the handle has in memory in the state `to` of its session: b says that it
\* has the file open.
Alone(to, x, b) ==
  /\ x \in IoType /\ Bounded(x.mem) /\ x.size > 0 /\ file.size > 0
  /\ x.seen = file.head /\ file.head.sync <= x.mem.sync
  /\ UpToDate(x, file.rows)
  /\ to # "write" \/ ~b \/ x.mem.sync = file.head.sync =>
       x.mem = file.head /\ x.size = file.size

NeverUsed(h) == io[h] = NewIo /\ file = NewFile /\ st[h] = "closed"

AloneInv(h) ==
  /\ InvTypes
  /\ NeverUsed(h) \/ Alone(st[h], io[h], touched[h])

\* A handle that is not writing, or has not changed anything, reads the header
\* and finds what it knows.
LEMMA SettledParts ==
  ASSUME NEW x \in IoType, x.mem = file.head, x.seen = file.head, x.size = file.size,
         x.size > 0
  PROVE  /\ IsUpdated(x) /\ Unchanged(x) /\ ReadHeader(x) = x /\ Checked(x) = x
         /\ Refreshed(x) = x
<1>1. IsUpdated(x) /\ Unchanged(x) /\ Checked(x) = x
  BY DEF IsUpdated, Unchanged, Checked
<1>2. ReadHeader(x) = x
  BY DEF ReadHeader, IoType
<1> QED BY <1>1, <1>2 DEF Refreshed

LEMMA AloneKnows ==
  ASSUME NEW h \in Handles, AloneInv(h), ~NeverUsed(h)
  PROVE  /\ Alone(st[h], io[h], touched[h]) /\ Ready(h) = io[h]
         /\ st[h] # "write" => Settled(h)
         /\ Settled(h) => /\ IsUpdated(io[h]) /\ Unchanged(io[h]) /\ ReadHeader(io[h]) = io[h]
                          /\ Checked(io[h]) = io[h] /\ Refreshed(io[h]) = io[h]
<1>1. Alone(st[h], io[h], touched[h])
  BY DEF AloneInv
<1>2. /\ io[h] \in IoType /\ io[h].seen = file.head /\ io[h].size > 0
      /\ st[h] # "write" \/ ~touched[h] => Settled(h)
  BY <1>1 DEF Alone, Settled
<1>3. Settled(h) => /\ IsUpdated(io[h]) /\ Unchanged(io[h]) /\ ReadHeader(io[h]) = io[h]
                    /\ Checked(io[h]) = io[h] /\ Refreshed(io[h]) = io[h]
  BY <1>2, SettledParts DEF Settled
<1>4. Ready(h) = io[h]
  BY <1>2, <1>3 DEF Ready
<1> QED BY <1>1, <1>2, <1>3, <1>4

\* The first session reads a file without rows.
LEMMA FirstLoad ==
  ASSUME NEW h \in Handles, AloneInv(h), NeverUsed(h), NEW b \in BOOLEAN,
         NEW to \in {"read", "write"}
  PROVE  /\ Alone(to, LoadKeys(Checked(ReadHeader(io[h]))), b)
         /\ Alone(to, LoadKeys(Checked(ReadHeader(Checked(io[h])))), b)
         /\ ~IsUpdated(Checked(ReadHeader(io[h]))) \/ file.size # io[h].size
         /\ ~Unchanged(io[h])
<1>1. /\ TypeOK /\ file.head \in Counters /\ file.head.recs = 0 /\ file.head.recs <= file.head.lines
      /\ io[h] \in IoType /\ io[h].mem = file.head /\ io[h].seen = NewIo.seen
      /\ io[h].size = 0 /\ file.size = 1 /\ Bounded(file.head)
  BY DEF AloneInv, InvTypes, TypeOK, NeverUsed, NewIo, NewFile, HeaderSize
<1>2. /\ Records(file.head.recs, file.rows) /\ file.head.sync \in Nat
  BY <1>1 DEF Records, Counters
<1>3. ASSUME NEW y \in IoType, y.mem = file.head, y.seen = NewIo.seen
      PROVE  Alone(to, LoadKeys(y), b)
  <2> DEFINE z == LoadKeys(y)
  <2>1. /\ z \in IoType /\ z.mem = file.head /\ z.seen = file.head /\ z.size = file.size
        /\ UpToDate(z, file.rows)
    BY <1>1, <1>2, <1>3, LoadsRight
  <2> HIDE DEF z
  <2>2. Alone(to, z, b)
    BY <1>1, <1>2, <2>1 DEF Alone
  <2> QED BY <2>2 DEF z
<1>4. ASSUME NEW x \in IoType, x.mem = file.head, x.seen = NewIo.seen
      PROVE  /\ ReadHeader(x) \in IoType /\ ReadHeader(x).mem = file.head
             /\ ReadHeader(x).seen = NewIo.seen
             /\ Checked(x) \in IoType /\ Checked(x).mem = file.head /\ Checked(x).seen = NewIo.seen
  <2>1. ReadHeader(x) = [x EXCEPT !.mem = file.head, !.size = x.size]
    BY <1>4 DEF ReadHeader
  <2>2. /\ ReadHeader(x) \in IoType /\ ReadHeader(x).mem = file.head
        /\ ReadHeader(x).seen = NewIo.seen
    BY <1>1, <1>4, <2>1 DEF IoType
  <2> QED BY <1>4, <2>2, CheckedParts
<1>5. ~Unchanged(io[h]) /\ file.size # io[h].size
  BY <1>1 DEF Unchanged, IsUpdated
<1>6. /\ ReadHeader(io[h]) \in IoType /\ ReadHeader(io[h]).mem = file.head
      /\ ReadHeader(io[h]).seen = NewIo.seen
      /\ Checked(io[h]) \in IoType /\ Checked(io[h]).mem = file.head
      /\ Checked(io[h]).seen = NewIo.seen
  BY <1>1, <1>4
<1>7. Alone(to, LoadKeys(Checked(ReadHeader(io[h]))), b)
  BY <1>3, <1>4, <1>6
<1>8. Alone(to, LoadKeys(Checked(ReadHeader(Checked(io[h])))), b)
  <2>1. /\ ReadHeader(Checked(io[h])) \in IoType /\ ReadHeader(Checked(io[h])).mem = file.head
        /\ ReadHeader(Checked(io[h])).seen = NewIo.seen
    BY <1>4, <1>6
  <2> QED BY <1>3, <1>4, <2>1
<1> QED BY <1>5, <1>7, <1>8

\* A step that leaves the file alone
LEMMA AloneSession ==
  ASSUME NEW h \in Handles, AloneInv(h),
         NEW to \in {"closed", "read", "promoting", "upgrading", "write"}, NEW x,
         NEW b \in BOOLEAN, Alone(to, x, b),
         st' = [st EXCEPT ![h] = to], io' = [io EXCEPT ![h] = x],
         touched' = [touched EXCEPT ![h] = b], UNCHANGED <<file, changes>>,
         got' \in [Handles -> [key : Keys \cup {NoKey}, ver : Nat]]
  PROVE  AloneInv(h)'
<1>1. /\ st \in [Handles -> {"closed", "read", "promoting", "upgrading", "write"}]
      /\ touched \in [Handles -> BOOLEAN] /\ io \in [Handles -> IoType]
      /\ \A g \in Handles : Bounded(io[g].mem)
      /\ file' = file /\ changes' = changes
  BY DEF AloneInv, InvTypes, TypeOK
<1>2. /\ st'[h] = to /\ io'[h] = x /\ touched'[h] = b /\ x \in IoType /\ Bounded(x.mem)
      /\ io' \in [Handles -> IoType]
      /\ \A g \in Handles : g # h => io'[g] = io[g]
      /\ st' \in [Handles -> {"closed", "read", "promoting", "upgrading", "write"}]
      /\ touched' \in [Handles -> BOOLEAN]
  BY <1>1 DEF Alone
<1>3. \A g \in Handles : io'[g].mem.sync <= changes /\ io'[g].mem.swap <= changes
                         /\ io'[g].mem.remv <= changes
  BY <1>1, <1>2 DEF Bounded
<1>4. InvTypes'
  <2>1. \A g \in Handles : io'[g] \in IoType
    BY <1>2
  <2>2. TypeOK'
    BY <1>1, <1>2, <2>1 DEF AloneInv, InvTypes, TypeOK, IoType, Seens, Tables
  <2> QED BY <1>1, <1>2, <1>3, <2>2 DEF AloneInv, InvTypes, Bounded
<1>5. Alone(st[h], io[h], touched[h])'
  BY <1>1, <1>2 DEF Alone, Bounded
<1> QED BY <1>4, <1>5 DEF AloneInv

LEMMA AloneGot ==
  ASSUME NEW h \in Handles, AloneInv(h)
  PROVE  /\ got \in [Handles -> [key : Keys \cup {NoKey}, ver : Nat]]
         /\ io = [io EXCEPT ![h] = io[h]] /\ touched = [touched EXCEPT ![h] = touched[h]]
         /\ touched[h] \in BOOLEAN
  BY DEF AloneInv, InvTypes, TypeOK

\* Opening
LEMMA AloneOpens ==
  ASSUME NEW h \in Handles, AloneInv(h), OpenRead(h) \/ OpenWrite(h)
  PROVE  AloneInv(h)'
<1>1. /\ st[h] = "closed" /\ got' = got /\ UNCHANGED <<file, changes>>
      /\ got' \in [Handles -> [key : Keys \cup {NoKey}, ver : Nat]]
  BY AloneGot DEF OpenRead, OpenWrite
<1>2. ASSUME NEW to \in {"read", "write"}, NEW x, NEW b \in BOOLEAN, Alone(to, x, b),
             Session(h, to, x, b)
      PROVE  AloneInv(h)'
  BY <1>1, <1>2, AloneSession DEF Session
<1>3. CASE NeverUsed(h)
  <2>1. /\ Alone("read", LoadKeys(Checked(ReadHeader(Checked(io[h])))), TRUE)
        /\ Alone("write", LoadKeys(Checked(ReadHeader(io[h]))), TRUE)
        /\ ~IsUpdated(Checked(ReadHeader(io[h]))) \/ file.size # io[h].size
        /\ ~Unchanged(io[h])
    BY <1>3, FirstLoad
  <2>2. CASE OpenRead(h)
    <3>1. Session(h, "read", LoadKeys(Checked(ReadHeader(Checked(io[h])))), TRUE)
      BY <2>1, <2>2 DEF OpenRead
    <3> QED BY <1>2, <2>1, <3>1
  <2>3. CASE OpenWrite(h)
    <3>1. Session(h, "write", LoadKeys(Checked(ReadHeader(io[h]))), TRUE)
      BY <2>1, <2>3 DEF OpenWrite
    <3> QED BY <1>2, <2>1, <3>1
  <2> QED BY <2>2, <2>3
<1>4. CASE ~NeverUsed(h)
  <2>1. /\ Alone(st[h], io[h], touched[h]) /\ Settled(h)
        /\ IsUpdated(io[h]) /\ Unchanged(io[h]) /\ ReadHeader(io[h]) = io[h]
        /\ Checked(io[h]) = io[h]
    BY <1>1, <1>4, AloneKnows
  <2>2. \A to, b : Alone(to, io[h], b)
    BY <2>1 DEF Alone, Settled
  <2>3. CASE OpenRead(h)
    <3>1. Session(h, "read", io[h], FALSE)
      BY <2>1, <2>3 DEF OpenRead
    <3> QED BY <1>2, <2>2, <3>1
  <2>4. CASE OpenWrite(h)
    <3>1. Session(h, "write", io[h], TRUE)
      BY <2>1, <2>4 DEF OpenWrite, Settled
    <3> QED BY <1>2, <2>2, <3>1
  <2> QED BY <2>3, <2>4
<1> QED BY <1>3, <1>4

\* Giving up the lock and taking it again: the file is as it was.
LEMMA AlonePromotes ==
  ASSUME NEW h \in Handles, AloneInv(h),
         Promote(h) \/ Promoted(h) \/ Upgrade(h) \/ Upgraded(h)
  PROVE  AloneInv(h)'
<1>1. st[h] \in {"read", "promoting", "upgrading"} /\ ~NeverUsed(h)
  BY DEF Promote, Promoted, Upgrade, Upgraded, NeverUsed
<1>2. /\ Settled(h) /\ Refreshed(io[h]) = io[h] /\ \A to, b : Alone(to, io[h], b)
  <2>1. Alone(st[h], io[h], touched[h]) /\ Settled(h) /\ Refreshed(io[h]) = io[h]
    BY <1>1, AloneKnows
  <2> QED BY <2>1 DEF Alone, Settled
<1>3. /\ got' = got /\ UNCHANGED <<file, changes>>
      /\ got' \in [Handles -> [key : Keys \cup {NoKey}, ver : Nat]]
  BY AloneGot DEF Promote, Promoted, Upgrade, Upgraded
<1>4. ASSUME NEW to \in {"promoting", "upgrading", "write"}, NEW b \in BOOLEAN,
             st' = [st EXCEPT ![h] = to], io' = [io EXCEPT ![h] = io[h]],
             touched' = [touched EXCEPT ![h] = b]
      PROVE  AloneInv(h)'
  <2>1. Alone(to, io[h], b)
    BY <1>2
  <2> QED BY <1>3, <1>4, <2>1, AloneSession
<1>5. CASE Promote(h) \/ Upgrade(h) \/ Upgraded(h)
  <2>1. io' = [io EXCEPT ![h] = io[h]] /\ touched' = [touched EXCEPT ![h] = touched[h]]
        /\ touched[h] \in BOOLEAN
    BY <1>5, AloneGot DEF Promote, Upgrade, Upgraded
  <2> QED BY <1>4, <1>5, <2>1 DEF Promote, Upgrade, Upgraded
<1>6. CASE Promoted(h)
  <2>1. Session(h, "write", io[h], TRUE)
    BY <1>2, <1>6 DEF Promoted
  <2> QED BY <1>4, <2>1 DEF Session
<1> QED BY <1>5, <1>6

LEMMA AloneReads ==
  ASSUME NEW h \in Handles, AloneInv(h), st[h] \in {"read", "write"}, NEW k \in Keys,
         Get(h, k) \/ GetOld(h, k)
  PROVE  AloneInv(h)'
<1> DEFINE x == io[h]
           r == x.table[k].row
           y == [x EXCEPT !.rows[r] = RowRead(x, r)]
<1>1. Alone(st[h], x, touched[h]) /\ Ready(h) = x /\ TypeOK
  BY AloneKnows DEF NeverUsed, AloneInv, InvTypes
<1>2. Read(h, k)
  BY DEF Get, GetOld
<1>3. r \in 0 .. x.mem.recs - 1 /\ x \in IoType /\ UpToDate(x, file.rows) /\ r < x.mem.recs
  <2>1. x \in IoType /\ UpToDate(x, file.rows) /\ Has(x, k)
    BY <1>1, <1>2 DEF Alone, Read
  <2>2. r \in Nat /\ x.mem.recs \in Nat
    BY <2>1, SyncBounds DEF IoType, Tables, Counters
  <2> QED BY <2>1, <2>2 DEF Has
<1>4. Session(h, st[h], y, TRUE) /\ UNCHANGED <<file, changes>>
  BY <1>1, <1>2, <1>3 DEF Read
<1>5. /\ y \in IoType /\ UpToDate(y, file.rows)
      /\ y.mem = x.mem /\ y.seen = x.seen /\ y.size = x.size
      /\ RowRead(x, r) = file.rows[r]
  BY <1>1, <1>3, RowKept
<1>6. file.rows[r].ver \in Nat
  <2>1. r \in RowIds
    BY <1>3, SyncBounds, SMTT(30) DEF RowIds, IoType, Counters
  <2> QED BY <1>1, <2>1 DEF TypeOK, Rows
<1> HIDE DEF y, r
<1>7. Alone(st[h], y, TRUE)
  <2>1. st[h] # "write" \/ y.mem.sync = file.head.sync => y.mem = file.head /\ y.size = file.size
    BY <1>1, <1>5 DEF Alone
  <2> QED BY <1>1, <1>5, <2>1 DEF Alone
<1>8. got' \in [Handles -> [key : Keys \cup {NoKey}, ver : Nat]]
  <2>1. CASE Get(h, k)
    BY <2>1, AloneGot DEF Get
  <2>2. CASE GetOld(h, k)
    <3> DEFINE g == [key |-> k, ver |-> file.rows[r].ver]
    <3>1. got' = [got EXCEPT ![h] = g]
      BY <1>1, <1>5, <2>2 DEF GetOld, r
    <3>2. g \in [key : Keys \cup {NoKey}, ver : Nat]
      BY <1>6
    <3> HIDE DEF g
    <3> QED BY <3>1, <3>2, AloneGot
  <2> QED BY <2>1, <2>2
<1> HIDE DEF x
<1> QED BY <1>4, <1>7, <1>8, AloneSession DEF Session

\* Closing writes the header unless nothing was changed.
LEMMA AloneCloses ==
  ASSUME NEW h \in Handles, AloneInv(h), Close(h)
  PROVE  AloneInv(h)'
<1> DEFINE x == io[h]
           y == Checked(x)
<1>1. st[h] \in {"read", "write"} /\ Alone(st[h], x, touched[h]) /\ x \in IoType /\ TypeOK
      /\ file.head \in Counters /\ file.size \in Nat
  BY AloneKnows DEF Close, NeverUsed, Alone, AloneInv, InvTypes, TypeOK
<1>2. /\ st' = [st EXCEPT ![h] = "closed"] /\ touched' = [touched EXCEPT ![h] = FALSE]
      /\ got' = [got EXCEPT ![h] = NoGot] /\ changes' = changes
  BY DEF Close
<1>3. got' \in [Handles -> [key : Keys \cup {NoKey}, ver : Nat]]
  <2>1. NoGot \in [key : Keys \cup {NoKey}, ver : Nat]
    BY DEF NoGot
  <2> QED BY <1>2, <2>1, AloneGot
<1>4. CASE st[h] # "write" \/ IsUpdated(x)
  <2>1. Settled(h) /\ Checked(x) = x
    <3>1. st[h] # "write" \/ x.mem.sync = file.head.sync
      BY <1>1, <1>4 DEF IsUpdated, Alone
    <3>2. Settled(h)
      BY <1>1, <3>1 DEF Alone, Settled
    <3> QED BY <3>2, AloneKnows, <1>1 DEF NeverUsed
  <2>2. io' = [io EXCEPT ![h] = x] /\ file' = file
    BY <1>4, <2>1 DEF Close
  <2>3. Alone("closed", x, FALSE)
    BY <1>1, <2>1 DEF Alone, Settled
  <2> HIDE DEF x
  <2> QED BY <1>2, <1>3, <2>2, <2>3, AloneSession
<1>5. CASE st[h] = "write" /\ ~IsUpdated(x)
  <2> DEFINE end == IF y.mem # y.seen THEN Grown(y, file.size) ELSE file.size
             z == [y EXCEPT !.seen = y.mem, !.size = end]
  <2>1. /\ file' = [rows |-> file.rows, head |-> y.mem, size |-> end]
        /\ io' = [io EXCEPT ![h] = z]
    BY <1>5 DEF Close, WriteHeader
  <2>2. /\ y \in IoType /\ y.mem = x.mem /\ y.seen = x.seen /\ y.table = x.table
        /\ y.size = x.size /\ (y.rows = x.rows \/ y.rows = NoRows)
    BY <1>1, CheckedParts
  <2>3. end \in Nat /\ end > 0
    BY <1>1 DEF Alone, Grown
  <2> HIDE DEF end
  <2>4. /\ z \in IoType /\ z.mem = x.mem /\ z.seen = x.mem /\ z.size = end
        /\ z.table = x.table /\ (z.rows = x.rows \/ z.rows = NoRows)
    <3>1. y.mem \in Seens
      BY <2>2 DEF IoType, Seens
    <3> HIDE DEF y
    <3> QED BY <2>2, <2>3, <3>1 DEF IoType
  <2> HIDE DEF z, y
  <2>5. /\ UpToDate(z, file.rows) /\ Bounded(x.mem)
        /\ x.mem \in Counters /\ x.mem.recs <= x.mem.lines
    <3>1. UpToDate(x, file.rows) /\ Bounded(x.mem)
      BY <1>1 DEF Alone
    <3>2. UpToDate(z, file.rows)
      BY <2>4, <3>1, UpToDateSame
    <3> QED BY <1>1, <3>1, <3>2 DEF UpToDate, IoType
  <2> HIDE DEF x
  <2>6. /\ file'.rows = file.rows /\ file'.head = x.mem /\ file'.size = end
        /\ file' \in [rows : [RowIds -> Rows], head : Counters, size : Nat]
    BY <1>1, <2>1, <2>2, <2>3, <2>5 DEF TypeOK
  <2>7. /\ io'[h] = z /\ st'[h] = "closed" /\ touched'[h] = FALSE
        /\ io' \in [Handles -> IoType] /\ \A g \in Handles : g # h => io'[g] = io[g]
        /\ st' \in [Handles -> {"closed", "read", "promoting", "upgrading", "write"}]
        /\ touched' \in [Handles -> BOOLEAN]
    BY <1>2, <2>1, <2>4 DEF AloneInv, InvTypes, TypeOK
  <2>8. InvTypes'
    <3>1. \A g \in Handles : io'[g] \in IoType
      BY <2>7
    <3>2. TypeOK'
      BY <1>1, <1>2, <1>3, <2>5, <2>6, <2>7, <3>1 DEF TypeOK, IoType, Seens, Tables
    <3>3. \A g \in Handles : io'[g].mem.sync <= changes /\ io'[g].mem.swap <= changes
                             /\ io'[g].mem.remv <= changes
      BY <2>4, <2>5, <2>7 DEF AloneInv, InvTypes, Bounded
    <3> QED BY <1>2, <2>5, <2>6, <2>7, <3>2, <3>3 DEF InvTypes, Bounded
  <2>9. Alone(st[h], io[h], touched[h])'
    <3>1. z.mem.sync <= x.mem.sync
      BY <2>4, <2>5 DEF Counters
    <3> QED BY <1>2, <2>3, <2>4, <2>5, <2>6, <2>7, <3>1 DEF Alone, Bounded, Counters
  <2> QED BY <2>8, <2>9 DEF AloneInv
<1> QED BY <1>4, <1>5

\* A change: the handle knows that the header is behind.
LEMMA AloneChanges ==
  ASSUME NEW h \in Handles, AloneInv(h), st[h] = "write", NEW k \in Keys, Change1(h, k)
  PROVE  AloneInv(h)'
<1>1. Alone("write", io[h], touched[h]) /\ Ready(h) = io[h] /\ InvTypes
  BY AloneKnows DEF NeverUsed, AloneInv
<1>2. PICK y, G : \E lines \in Nat : Advances(h, y, G) /\ Change(h, y, G, lines)
  <2>1. Writing(h)
    BY <1>1 DEF Writing, Alone
  <2>2. Carried(h)
    BY <2>1, ChangesCarried
  <2> QED BY <2>2, Zenon DEF Carried
<1>3. InvTypes'
  BY <1>1, <1>2, ChangeTypes
<1>4. /\ st'[h] = "write" /\ io'[h] = y /\ touched'[h] = TRUE
      /\ file'.rows = G /\ file'.head = file.head /\ file'.size > 0
  <2>1. PICK lines \in Nat : Change(h, y, G, lines)
    BY <1>2
  <2>2. HeaderSize + lines * RowSize \in Nat /\ HeaderSize + lines * RowSize > 0
    <3>1. lines * RowSize \in Nat
      BY SyncBounds
    <3> QED BY <3>1 DEF HeaderSize
  <2> DEFINE end == HeaderSize + lines * RowSize
  <2>3. /\ file' = [file EXCEPT !.rows = G, !.size = Larger(file.size, end)]
        /\ st' = [st EXCEPT ![h] = "write"] /\ io' = [io EXCEPT ![h] = y]
        /\ touched' = [touched EXCEPT ![h] = TRUE]
    BY <2>1 DEF Change, Session
  <2>4. file.size \in Nat /\ Larger(file.size, end) > 0
    BY <1>1, <2>2 DEF Larger, InvTypes, TypeOK
  <2> HIDE DEF end
  <2> QED BY <1>1, <2>3, <2>4, AloneGot DEF InvTypes, TypeOK
<1>5. /\ y \in IoType /\ y.size > 0 /\ y.seen = file.head /\ file.head.sync < y.mem.sync
      /\ UpToDate(y, G)
  <2>1. io[h].mem.sync \in Nat /\ file.head.sync \in Nat
    BY <1>1 DEF InvTypes, TypeOK, Alone, IoType, Counters
  <2> QED BY <1>1, <1>2, <2>1 DEF Alone, Advances
<1>6. y.mem.sync # file.head.sync /\ file.head.sync <= y.mem.sync
  BY <1>1, <1>5 DEF InvTypes, TypeOK, IoType, Counters
<1>7. Bounded(io[h].mem)'
  BY <1>3 DEF InvTypes
<1>8. Alone(st[h], io[h], touched[h])'
  BY <1>4, <1>5, <1>6, <1>7 DEF Alone
<1> QED BY <1>3, <1>8 DEF AloneInv

\* recycle takes no row of a record away.
LEMMA CutRight ==
  ASSUME NEW x \in IoType, NEW F, UpToDate(x, F), NEW y \in IoType, NEW G,
         y.mem.recs = x.mem.recs, y.mem.recs <= y.mem.lines, y.rows = x.rows,
         y.table = x.table \/ (x.mem.recs = 0 /\ y.table = NoTable),
         \A r \in 0 .. x.mem.recs - 1 : G[r] = F[r]
  PROVE  UpToDate(y, G)
<1> DEFINE n == x.mem.recs
<1>1. /\ n \in Nat /\ \A k \in Keys : x.table[k].row \in Nat
      /\ \A k \in Keys : NoTable[k].row = NoRow /\ NoRow \in Nat
  BY SyncBounds, NoTableRow DEF IoType, Tables, Counters, NoRow
<1>2. ASSUME NEW k \in Keys, Has(y, k)
      PROVE  /\ Has(x, k) /\ y.table[k] = x.table[k] /\ x.table[k].row \in 0 .. n - 1
             /\ G[x.table[k].row] = F[x.table[k].row]
  <2>1. y.table = x.table
    BY <1>1, <1>2 DEF Has
  <2>2. x.table[k].row < n
    BY <1>2, <2>1 DEF Has
  <2>3. x.table[k].row \in 0 .. n - 1
    BY <1>1, <2>2
  <2> QED BY <2>1, <2>2, <2>3 DEF Has
<1>3. \A r \in RowIds : y.rows[r] # EmptyRow => r < n /\ y.rows[r] = F[r]
  BY DEF UpToDate, Remembers
<1>4. ASSUME NEW r \in RowIds, y.rows[r] # EmptyRow PROVE r < n /\ y.rows[r] = G[r]
  <2>1. r < n /\ y.rows[r] = F[r] /\ r \in Nat
    BY <1>3, <1>4 DEF RowIds
  <2>2. r \in 0 .. n - 1
    BY <1>1, <2>1
  <2> QED BY <2>1, <2>2
<1>5. Entries(y.table, n)
  BY <1>1 DEF UpToDate, Entries
<1>6. ASSUME NEW r \in 0 .. n - 1 PROVE G[r].key \in Keys /\ y.table[G[r].key].row = r
  <2>1. y.table = x.table
    BY <1>1
  <2> QED BY <2>1 DEF UpToDate, Agree
<1>7. \A k \in Keys : y.table[k].row < n => G[y.table[k].row].key = k
  BY <1>2 DEF Has, UpToDate, Agree
<1> QED BY <1>4, <1>5, <1>6, <1>7 DEF UpToDate, Agree, Remembers

LEMMA AloneRecycles ==
  ASSUME NEW h \in Handles, AloneInv(h), st[h] = "write", Recycle(h)
  PROVE  AloneInv(h)'
<1> DEFINE x == io[h]
           m == x.mem
           F == file.rows
           zero == [sync |-> 0, swap |-> 0, remv |-> 0, recs |-> 0, lines |-> 0]
           Y(lines) == IF m.recs = 0 THEN [x EXCEPT !.table = NoTable, !.mem = zero]
                                     ELSE [x EXCEPT !.mem = Count(m, m.recs, lines, 0, 0)]
           End(y) == Grown(x, HeaderSize + y.mem.lines * RowSize)
           G(y) == [r \in RowIds |-> IF r < y.mem.lines THEN F[r] ELSE EmptyRow]
           Z(y) == [y EXCEPT !.seen = y.mem, !.size = End(y)]
<1>1. Alone("write", x, touched[h]) /\ Ready(h) = x /\ InvTypes
  BY AloneKnows DEF NeverUsed, AloneInv
<1>2. /\ x \in IoType /\ m \in Counters /\ m.recs \in Nat /\ m.lines \in Nat /\ m.lines <= MaxRows
      /\ MaxRows \in Nat /\ m.recs <= m.lines /\ Bounded(m) /\ UpToDate(x, F)
      /\ F \in [RowIds -> Rows] /\ changes \in Nat /\ x.size \in Nat
      /\ m.swap \in Nat /\ m.remv \in Nat
  BY <1>1, SyncBounds DEF Alone, IoType, Counters, UpToDate, InvTypes, TypeOK
<1>3. PICK lines \in m.recs .. m.lines :
        /\ file' = [rows |-> G(Y(lines)), head |-> Y(lines).mem, size |-> End(Y(lines))]
        /\ Session(h, "write", Z(Y(lines)), TRUE)
  BY <1>1 DEF Recycle
<1>4. changes < MaxSync /\ changes' = changes + 1 /\ got' = got
  BY DEF Recycle
<1> DEFINE y == Y(lines)
<1>5. lines \in 0 .. MaxRows /\ m.recs \in 0 .. MaxRows /\ m.recs <= lines
  BY <1>2
<1>6. /\ y \in IoType /\ y.mem \in Counters /\ y.rows = x.rows
      /\ y.mem.recs = m.recs /\ y.mem.recs <= y.mem.lines
      /\ y.table = x.table \/ (m.recs = 0 /\ y.table = NoTable)
      /\ y.mem.sync <= changes + 1 /\ y.mem.swap <= changes + 1 /\ y.mem.remv <= changes + 1
  <2>1. CASE m.recs = 0
    <3>1. y = [x EXCEPT !.table = NoTable, !.mem = zero]
      BY <2>1
    <3>2. zero \in Counters /\ zero.recs = 0 /\ zero.lines = 0 /\ zero.sync = 0
          /\ zero.swap = 0 /\ zero.remv = 0
      BY <1>2 DEF Counters
    <3> HIDE DEF y, zero, m
    <3>3. /\ y \in IoType /\ y.mem = zero /\ y.table = NoTable /\ y.rows = x.rows
      BY <1>2, <3>1, <3>2, NoTableRow DEF IoType
    <3> QED BY <1>2, <2>1, <3>2, <3>3
  <2>2. CASE m.recs # 0
    <3> DEFINE c == Count(m, m.recs, lines, 0, 0)
    <3>1. y = [x EXCEPT !.mem = c]
      BY <2>2
    <3>2. /\ c \in Counters /\ c.sync = m.sync + 1 /\ c.swap = m.swap + 0
          /\ c.remv = m.remv + 0 /\ c.recs = m.recs /\ c.lines = lines
      <4> HIDE DEF m
      <4> QED BY <1>2, <1>4, <1>5, Counted
    <3> HIDE DEF c, y, m
    <3>3. y \in IoType /\ y.mem = c /\ y.table = x.table /\ y.rows = x.rows
      BY <1>2, <3>1, <3>2 DEF IoType
    <3> QED BY <1>2, <1>5, <3>2, <3>3 DEF Bounded, Counters
  <2> QED BY <2>1, <2>2
<1> HIDE DEF y, Y
<1>7. End(y) \in Nat /\ End(y) > 0
  <2>1. y.mem.lines * RowSize \in Nat
    BY <1>6, SyncBounds DEF Counters
  <2> QED BY <1>2, <2>1 DEF Grown, HeaderSize
<1>8. G(y) \in [RowIds -> Rows] /\ \A r \in 0 .. m.recs - 1 : G(y)[r] = F[r]
  <2>1. \A r \in 0 .. m.recs - 1 : r \in RowIds /\ r < y.mem.lines
    <3>1. /\ m.recs \in Nat /\ m.recs <= MaxRows /\ MaxRows \in Nat
          /\ y.mem.lines \in Nat /\ m.recs <= y.mem.lines
      BY <1>2, <1>5, <1>6 DEF Counters
    <3> HIDE DEF m
    <3> QED BY <3>1 DEF RowIds
  <2>2. F \in [RowIds -> Rows] /\ EmptyRow \in Rows
    BY <1>2, EmptyIsRow
  <2> HIDE DEF m, F
  <2> QED BY <2>1, <2>2
<1> HIDE DEF End, G
<1> DEFINE z == Z(y)
<1>9. /\ z \in IoType /\ z.mem = y.mem /\ z.seen = y.mem /\ z.size = End(y)
      /\ z.table = y.table /\ z.rows = x.rows
  <2>1. y.mem \in Seens
    BY <1>6 DEF Seens
  <2> QED BY <1>6, <1>7, <2>1 DEF IoType
<1>10. /\ file'.rows = G(y) /\ file'.head = y.mem /\ file'.size = End(y)
       /\ file' \in [rows : [RowIds -> Rows], head : Counters, size : Nat]
  BY <1>3, <1>6, <1>7, <1>8 DEF y
<1>11. st' = [st EXCEPT ![h] = "write"] /\ io' = [io EXCEPT ![h] = z]
       /\ touched' = [touched EXCEPT ![h] = TRUE]
  BY <1>3 DEF Session, y
<1> HIDE DEF z
<1>12. UpToDate(z, G(y))
  BY <1>2, <1>6, <1>8, <1>9, CutRight, SMTT(30)
<1> HIDE DEF x, m, F
<1>13. /\ io'[h] = z /\ st'[h] = "write" /\ touched'[h] = TRUE
       /\ io' \in [Handles -> IoType] /\ \A g \in Handles : g # h => io'[g] = io[g]
       /\ st' \in [Handles -> {"closed", "read", "promoting", "upgrading", "write"}]
       /\ touched' \in [Handles -> BOOLEAN]
  BY <1>1, <1>9, <1>11 DEF InvTypes, TypeOK
<1>14. InvTypes'
  <2>1. \A g \in Handles : io'[g] \in IoType
    BY <1>13
  <2>2. changes' \in 0 .. MaxSync
    BY <1>2, <1>4, SyncBounds
  <2>3. TypeOK'
    BY <1>1, <1>4, <1>6, <1>10, <1>13, <2>1, <2>2 DEF InvTypes, TypeOK, IoType, Seens, Tables
  <2>4. ASSUME NEW g \in Handles
        PROVE  io'[g].mem.sync <= changes + 1 /\ io'[g].mem.swap <= changes + 1
               /\ io'[g].mem.remv <= changes + 1
    <3>1. CASE g = h
      BY <1>6, <1>9, <1>13, <3>1
    <3>2. CASE g # h
      <4>1. io'[g] = io[g] /\ Bounded(io[g].mem) /\ io[g].mem \in Counters
        BY <1>1, <1>13, <3>2 DEF InvTypes, IoType
      <4> QED BY <1>2, <4>1 DEF Bounded, Counters
    <3> QED BY <3>1, <3>2
  <2> QED BY <1>4, <1>6, <1>10, <1>13, <2>3, <2>4 DEF InvTypes, Bounded
<1>15. Alone(st[h], io[h], touched[h])'
  <2>1. /\ z.mem.sync <= changes' /\ z.mem.swap <= changes' /\ z.mem.remv <= changes'
        /\ z.mem.sync <= z.mem.sync
    BY <1>4, <1>6, <1>9 DEF Counters
  <2>2. z.mem = file'.head /\ z.seen = file'.head /\ z.size = file'.size /\ file'.size > 0
    BY <1>7, <1>9, <1>10
  <2>3. UpToDate(z, file'.rows)
    BY <1>10, <1>12
  <2> QED BY <1>9, <1>13, <2>1, <2>2, <2>3 DEF Alone, Bounded
<1> QED BY <1>14, <1>15 DEF AloneInv

LEMMA AloneInit ==
  ASSUME NEW h \in Handles, Init
  PROVE  AloneInv(h)
<1>1. InvTypes
  BY InvInit DEF Inv
<1>2. NeverUsed(h)
  BY DEF Init, NeverUsed
<1> QED BY <1>1, <1>2 DEF AloneInv

LEMMA AloneNext ==
  ASSUME NEW h, Handles = {h}, AloneInv(h), [Next]_vars
  PROVE  AloneInv(h)'
<1>1. h \in Handles
  OBVIOUS
<1>2. CASE UNCHANGED vars
  BY <1>2 DEF vars, AloneInv, InvTypes, TypeOK, Bounded, NeverUsed, Alone
<1>3. CASE Next
  <2>1. \/ OpenRead(h) \/ OpenWrite(h) \/ Close(h)
        \/ Promote(h) \/ Promoted(h) \/ Upgrade(h) \/ Upgraded(h)
        \/ st[h] \in {"read", "write"} /\ \E k \in Keys : Get(h, k) \/ GetOld(h, k)
        \/ st[h] = "write" /\ \E k \in Keys : Change1(h, k)
        \/ st[h] = "write" /\ Recycle(h)
    BY <1>3, Zenon DEF Next
  <2> QED BY <1>1, <2>1, AloneOpens, AloneCloses, AlonePromotes, AloneReads, AloneChanges,
             AloneRecycles
<1> QED BY <1>2, <1>3

\* The file has no other handle.
OneHandle == \E h : Handles = {h}
AloneAll == \A h \in Handles : AloneInv(h)

LEMMA AloneAlways ==
  ASSUME OneHandle
  PROVE  Spec => []AloneAll
<1>1. Init => AloneAll
  BY AloneInit DEF AloneAll
<1>2. ASSUME AloneAll, [Next]_vars PROVE AloneAll'
  <2>1. PICK h : Handles = {h}
    BY DEF OneHandle
  <2>2. AloneInv(h)'
    BY <1>2, <2>1, AloneNext DEF AloneAll
  <2> QED BY <2>1, <2>2 DEF AloneAll
<1>3. AloneAll /\ [Next]_vars => AloneAll'
  BY <1>2
<1> QED BY <1>1, <1>3, PTL DEF Spec

\* With one handle the table is right in every session whatever is done,
\* recycle and both ways of promoting a read session included.
THEOREM TableRightAlone ==
  ASSUME OneHandle
  PROVE  Spec => []TableCurrent
<1>1. AloneAll => TableCurrent
  <2> SUFFICES ASSUME AloneAll, NEW h \in Handles, st[h] \in {"read", "write"}
               PROVE  Current(h)
    BY DEF TableCurrent
  <2>1. Alone(st[h], io[h], touched[h]) /\ (st[h] = "read" => Settled(h))
    BY AloneKnows DEF NeverUsed, AloneAll
  <2> QED BY <2>1 DEF Alone, Settled, Current, UpToDate, Agree, Has
<1> QED BY <1>1, AloneAlways, PTL
=============================================================================
