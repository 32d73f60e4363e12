------------------------------ MODULE KeyTable ------------------------------
(***************************************************************************)
(* KeyTable, the table of keys of a handle that may not keep all keys in   *)
(* memory (PartialKeyTable, LiteKeyTable).  It is filled while the KEY     *)
(* file is searched for a key or iterated, and it takes the number of its  *)
(* entries for the proof that it is complete: size = n_records.            *)
(*                                                                         *)
(* The arrays of the hash groups are one sequence here; a search finds the *)
(* first entry of a key, as it does in the array of its group.  Rows are   *)
(* counted from 1, and 0 is the row of a key that is not found.            *)
(***************************************************************************)
EXTENDS Integers, Sequences, FiniteSets, SequencesExt

CONSTANTS
  Keys,       \* record keys
  Bit,        \* flags_mask: the bit of the filter that a key sets
  Limits,     \* the entries of the cache: _key_limit of a PartialKeyTable, and
              \* 0 for a LiteKeyTable, which has no cache
  Mixed,      \* the application looks up any key while it iterates
  MaxChanges  \* bound on the changes to the KEY file

ASSUME TableAssumption ==
  /\ Limits \subseteq Nat /\ Mixed \in BOOLEAN /\ MaxChanges \in Nat
  /\ \A k \in Keys : Bit[k] \in Nat

VARIABLES
  rows,     \* the keys of the records in the KEY file; n_records is their number
  table,    \* the KeyTable object
  iter,     \* a generator over the table that the application has open
  changes   \* number of changes so far

vars == <<rows, table, iter, changes>>

NewTable(limit) ==
  [entries |-> <<>>, size |-> 0, found |-> {}, flags |-> {}, cache |-> <<>>, limit |-> limit]
NoIter == [open |-> FALSE, row |-> 0, is_empty |-> FALSE]

\* Where key k is in a sequence of entries <<key, row>>, or 0
FindKey(s, k) ==
  LET at == {i \in DOMAIN s : s[i][1] = k} IN
  IF at = {} THEN 0 ELSE CHOOSE i \in at : \A j \in at : i <= j

\* The row of key k in the records fs of the file, or 0
RowOf(fs, k) == IF \E r \in DOMAIN fs : fs[r] = k
                THEN CHOOSE r \in DOMAIN fs : fs[r] = k ELSE 0

-----------------------------------------------------------------------------
(* The methods of the table *)

InSync(t, n) == t.size = n

\* clear: nothing is done for a table without entries
Clear(t) == IF t.size = 0 THEN t ELSE NewTable(t.limit)

\* A sequence of entries without that of key k
Without(s, k) ==
  LET i == FindKey(s, k) IN IF i = 0 THEN s ELSE RemoveAt(s, i)

\* The cache without key k
Uncached(t, k) == [t EXCEPT !.cache = Without(@, k)]

\* Faulty variant of Cached: one entry too many stays.
CachedOver(t, k, r) ==
  LET c == t.cache
      over == Len(c) - t.limit
      room == IF over > 0 THEN SubSeq(c, over + 1, Len(c)) ELSE c
  IN IF t.limit = 0 THEN t
     ELSE [t EXCEPT !.cache = Append(Without(room, k), <<k, r>>)]

\* The cache with entry <<k, r>> as its newest; the oldest make room.
Cached(t, k, r) ==
  LET c == t.cache
      over == Len(c) - t.limit + 1
      room == IF over > 0 THEN SubSeq(c, over + 1, Len(c)) ELSE c
  IN IF t.limit = 0 THEN t
     ELSE [t EXCEPT !.cache = Append(Without(room, k), <<k, r>>)]

\* An entry for a key that has none
Entered(t, k, r) ==
  [t EXCEPT !.entries = Append(@, <<k, r>>), !.size = @ + 1,
            !.found = @ \cup {r}, !.flags = @ \cup {Bit[k]}]

\* _item_iter at row r of the file fs: a row that is not flagged as found is
\* entered, and every row is if the table was empty at the start.
Scanned(t, fs, is_empty, r) ==
  IF is_empty \/ r \notin t.found THEN Entered(t, fs[r], r) ELSE t

\* _item_iter over the rows lo..hi
Indexed(t, fs, is_empty, lo, hi) ==
  LET upto[r \in lo - 1 .. hi] ==
        IF r < lo THEN t ELSE Scanned(upto[r - 1], fs, is_empty, r)
  IN upto[hi]

\* What get_both answers: the row, and the table after the search
Got(row, t) == [row |-> row, table |-> t]

\* Faulty variant of Get: a search that finds its key counts the row it stopped
\* at as the end of the file.
GetCountingAll(t, fs, k) ==
  LET n == Len(fs)
      c == FindKey(t.cache, k)
      i == FindKey(t.entries, k)
      r == RowOf(fs, k)
  IN
  IF InSync(t, n) /\ Bit[k] \notin t.flags THEN Got(0, t)
  ELSE IF c > 0 THEN Got(t.cache[c][2], t)
  ELSE IF i > 0 THEN Got(t.entries[i][2], Cached(t, k, t.entries[i][2]))
  ELSE IF InSync(t, n) THEN Got(0, t)
  ELSE IF r = 0 THEN Got(0, Indexed(t, fs, t.size = 0, 1, n))
  ELSE Got(r, Cached([Indexed(t, fs, t.size = 0, 1, r) EXCEPT !.size = n], k, r))

\* get_both
Get(t, fs, k) ==
  LET n == Len(fs)
      c == FindKey(t.cache, k)
      i == FindKey(t.entries, k)
      r == RowOf(fs, k)
  IN
  IF InSync(t, n) /\ Bit[k] \notin t.flags THEN Got(0, t)
  ELSE IF c > 0 THEN Got(t.cache[c][2], t)
  ELSE IF i > 0 THEN Got(t.entries[i][2], Cached(t, k, t.entries[i][2]))
  ELSE IF InSync(t, n) THEN Got(0, t)
  ELSE IF r = 0 THEN Got(0, Indexed(t, fs, t.size = 0, 1, n))
  ELSE Got(r, Cached(Indexed(t, fs, t.size = 0, 1, r), k, r))

\* set
Put(t, k, r) ==
  LET c == FindKey(t.cache, k)
      i == FindKey(t.entries, k)
      hit == c > 0 /\ t.cache[c][2] = r
      entered ==
        IF i > 0
        THEN [(IF t.entries[i][2] = r THEN t ELSE Uncached(t, k)) EXCEPT !.entries[i] = <<k, r>>]
        ELSE Entered(t, k, r)
  IN
  IF hit THEN [Uncached(t, k) EXCEPT !.cache = Append(@, <<k, r>>)]
  ELSE Cached([entered EXCEPT !.found = @ \cup {r}], k, r)

\* entry i goes
Dropped(t, i) ==
  [t EXCEPT !.entries = RemoveAt(@, i), !.size = @ - 1, !.found = @ \ {t.entries[i][2]}]

\* pop of key k when the file has the records fs of n and, after them, tail.
\* An entry is dropped whether or not its row has the key; if it has not, or if
\* there is no entry, the file is searched, and so the table filled.
Pop(t, fs, tail, k) ==
  LET n == Len(fs)
      u == Uncached(t, k)
      sync == InSync(u, n)
      i == FindKey(u.entries, k)
      r == RowOf(fs, k)
      there == i > 0 /\ LET row == u.entries[i][2] IN
                          row <= n + Len(tail) /\ (fs \o tail)[row] = k
      rest == IF i > 0 THEN Dropped(u, i) ELSE u
      searched == Indexed(rest, fs, rest.size = 0, 1, IF r = 0 THEN n ELSE r)
      at == FindKey(searched.entries, k)
  IN
  IF sync /\ Bit[k] \notin u.flags THEN u
  ELSE IF sync \/ there THEN rest
  ELSE IF r = 0 THEN searched
  ELSE [(IF at > 0 /\ searched.entries[at][2] = r
          THEN [searched EXCEPT !.entries = RemoveAt(@, at), !.size = @ - 1]
          ELSE searched) EXCEPT !.found = @ \ {r}]

\* items: from the entries if the table is complete, from the file otherwise
Items(t, fs) ==
  IF InSync(t, Len(fs)) THEN t.entries ELSE [r \in 1 .. Len(fs) |-> <<fs[r], r>>]

\* sorted_key_table_items over all of the n rows: an entry that comes too early
\* waits in lut until the rows before it have been yielded.
SortStep(acc, e, n) ==
  LET waits(q) == \E f \in acc.lut : f[2] = q
      next == CHOOSE q \in acc.row + 1 .. n + 1 :
                ~waits(q) /\ \A p \in acc.row + 1 .. q - 1 : waits(p)
  IN IF e[2] = acc.row
     THEN [row |-> next,
           lut |-> {f \in acc.lut : f[2] \notin acc.row + 1 .. next - 1},
           out |-> Append(acc.out, e) \o
                   [i \in 1 .. next - acc.row - 1 |-> CHOOSE f \in acc.lut : f[2] = acc.row + i]]
     ELSE IF e[2] \in 1 .. n THEN [acc EXCEPT !.lut = {f \in @ : f[2] # e[2]} \cup {e}]
     ELSE acc

\* Entries of different rows in the order of these
InRowOrder(S) ==
  [i \in 1 .. Cardinality(S) |-> CHOOSE f \in S : Cardinality({g \in S : g[2] < f[2]}) = i - 1]

SortedItems(t, fs) ==
  LET items == Items(t, fs)
      upto[i \in 0 .. Len(items)] ==
        IF i = 0 THEN [row |-> 1, lut |-> {}, out |-> <<>>]
        ELSE SortStep(upto[i - 1], items[i], Len(fs))
      acc == upto[Len(items)]
  IN acc.out \o InRowOrder(acc.lut)

-----------------------------------------------------------------------------
(* The operations that use the table.  One thread uses the handle. *)

Init ==
  /\ rows = <<>>
  /\ \E limit \in Limits : table = NewTable(limit)
  /\ iter = NoIter
  /\ changes = 0

\* Any lookup of a key.  During an iteration the keys that were yielded are
\* looked up, as recycle does, or any key.
Lookup(k) ==
  /\ iter.open => Mixed \/ k \in {rows[r] : r \in 1 .. iter.row}
  /\ table' = Get(table, rows, k).table
  /\ UNCHANGED <<rows, iter, changes>>

Changing == ~iter.open /\ changes < MaxChanges /\ changes' = changes + 1 /\ UNCHANGED iter

\* f_write: a new record goes behind the records, a record that is found is
\* written in its row.
Write(k) ==
  LET g == Get(table, rows, k)
      r == IF g.row = 0 THEN Len(rows) + 1 ELSE g.row
  IN /\ Changing
     /\ rows' = [q \in 1 .. (IF g.row = 0 THEN Len(rows) + 1 ELSE Len(rows)) |->
                   IF q = r THEN k ELSE rows[q]]
     /\ table' = Put(g.table, k, r)

\* f_delete: the count of the records goes down first; the last record takes the
\* row of the deleted one, whose own row comes after the records.
Delete(k) ==
  LET g == Get(table, rows, k)
      last == Len(rows)
      fewer == Front(rows)
      t == Pop(g.table, fewer, <<rows[last]>>, k)
  IN /\ Changing
     /\ g.row > 0 /\ rows[g.row] = k
     /\ IF g.row < last
        THEN LET moved == [fewer EXCEPT ![g.row] = rows[last]] IN
             /\ rows' = moved
             /\ table' = Pop(Put(t, rows[last], g.row), moved, <<k>>, k)
        ELSE /\ rows' = fewer
             /\ table' = Pop(g.table, fewer, <<k>>, k)

\* f_rename: the row is written before the table is told.
Rename(k, new) ==
  LET f == Get(table, rows, new)
      g == Get(f.table, rows, k)
      renamed == [rows EXCEPT ![g.row] = new]
  IN /\ Changing
     /\ k # new /\ f.row = 0 /\ g.row > 0
     /\ rows' = renamed
     /\ table' = Put(Pop(g.table, renamed, <<>>, k), new, g.row)

\* load_keys: the rows from first on are entered into the table cleared before.
Loaded(t, fs, first) ==
  LET upto[r \in first - 1 .. Len(fs)] ==
        IF r < first THEN Clear(t) ELSE Put(upto[r - 1], fs[r], r)
  IN upto[Len(fs)]

\* Another handle adds a record, deletes one or renames one.  load_keys then
\* starts at the first row that changed, or at none if a record moved.
OtherHandle ==
  LET n == Len(rows) IN
  /\ Changing
  /\ \/ \E k \in Keys \ {rows[r] : r \in 1 .. n} :
          /\ rows' = Append(rows, k)
          /\ table' = Loaded(table, rows', n + 1)
     \/ /\ n > 0
        /\ rows' = Front(rows)
        /\ table' = Loaded(table, rows', IF n > 2 THEN n - 1 ELSE 1)
     \/ \E r \in 1 .. n - 1 :
          /\ rows' = [Front(rows) EXCEPT ![r] = rows[n]]
          /\ table' = Clear(table)
     \/ \E r \in 1 .. n, k \in Keys \ {rows[q] : q \in 1 .. n} :
          /\ rows' = [rows EXCEPT ![r] = k]
          /\ table' = Clear(table)

\* Faulty variant of IterNext: a row is entered whatever its flag says.
IterNextAgain ==
  /\ iter.open /\ iter.row < Len(rows)
  /\ iter' = [iter EXCEPT !.row = @ + 1]
  /\ table' = Indexed(table, rows, TRUE, iter.row + 1, iter.row + 1)
  /\ UNCHANGED <<rows, changes>>

\* keys, items and values of a table that is not complete are generators that
\* read the file row by row.  The first row is read when the generator starts ...
IterOpen ==
  /\ ~iter.open /\ ~InSync(table, Len(rows)) /\ rows # <<>>
  /\ iter' = [open |-> TRUE, row |-> 1, is_empty |-> table.size = 0]
  /\ table' = Indexed(table, rows, table.size = 0, 1, 1)
  /\ UNCHANGED <<rows, changes>>

\* ... and one with each step, ...
IterNext ==
  /\ iter.open /\ iter.row < Len(rows)
  /\ iter' = [iter EXCEPT !.row = @ + 1]
  /\ table' = Indexed(table, rows, iter.is_empty, iter.row + 1, iter.row + 1)
  /\ UNCHANGED <<rows, changes>>

\* ... to the end, or until the application has seen enough.
IterClose ==
  /\ iter.open
  /\ iter' = NoIter
  /\ UNCHANGED <<rows, table, changes>>

Next ==
  \/ \E k \in Keys : Lookup(k) \/ Write(k) \/ Delete(k)
  \/ \E k, new \in Keys : Rename(k, new)
  \/ OtherHandle
  \/ IterOpen \/ IterNext \/ IterClose

Spec == Init /\ [][Next]_vars

-----------------------------------------------------------------------------
(* Properties *)

Entries == Keys \X (Nat \ {0})

\* Type invariant: the file has each key once, and the cache keeps its limit.
TypeOK ==
  /\ rows \in Seq(Keys) /\ IsInjective(rows)
  /\ table.entries \in Seq(Entries) /\ table.size \in Nat
  /\ table.cache \in Seq(Entries) /\ Len(table.cache) <= table.limit
  /\ iter.row \in 0 .. Len(rows)
  /\ changes \in 0 .. MaxChanges

\* A lookup answers with the row where the file has the key, and finds no key
\* that the file does not have, whatever part of the file was searched before
\* and whatever the handle or another one changed since.
LookupsRight == \A k \in Keys : Get(table, rows, k).row = RowOf(rows, k)

\* size counts the entries, and no row is entered twice: only then does
\* size = n_records mean that the table is complete.
SizeCounts ==
  /\ table.size = Len(table.entries)
  /\ \A i, j \in DOMAIN table.entries : i # j => table.entries[i] # table.entries[j]

\* sorted_key_table_items yields every record once, in the order of the rows.
SortedByRow ==
  ~iter.open => SortedItems(table, rows) = [r \in 1 .. Len(rows) |-> <<rows[r], r>>]

\* What makes size a proof of completeness: the entries are counted, none twice,
\* and iterating over the table gives the records of the file.
TableAccurate == SizeCounts /\ SortedByRow
=============================================================================
