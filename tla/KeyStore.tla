------------------------------ MODULE KeyStore ------------------------------
(***************************************************************************)
(* The record store of one database handle: the rows of the KEY file, the  *)
(* space of the VAL file that they point to, and the operations of JDb     *)
(* that move rows and hand out space (f_write, f_append, f_delete,         *)
(* f_undelete, f_unwrite and f_rename of jdb.py).                          *)
(*                                                                         *)
(* The rows 0..n_lines-1 of the KEY file are three regions:                *)
(*                                                                         *)
(*   REC   0..n_records-1            the live records                      *)
(*   SAFE  n_records..safe_line-1    versions displaced in this session    *)
(*   DEAD  safe_line..n_lines-1      older versions, whose space may be    *)
(*                                   given to a new value                  *)
(*                                                                         *)
(* A value is stored either in its row (None, booleans, numbers, groups:   *)
(* row_size 0) or in an extent of the VAL file.  The model has one VAL     *)
(* file, whose cells say which part of which value was written there.      *)
(* Record flags that make an operation refuse (READ_ONLY, APPEND_ONLY)     *)
(* and the write of an unchanged value leave everything as it is and are   *)
(* not modelled; dates and the row's version stamp are left out.           *)
(***************************************************************************)
EXTENDS Integers

CONSTANTS
  Keys,      \* record keys
  NoKey,     \* the empty key of a row that only holds free space
  Vals,      \* values
  NoVal,     \* not a value
  Size,      \* cells a value takes in the VAL file; 0: it is stored in the row
  MinSize,   \* min_value_size, the least space a new extent gets
  SplitMin,  \* how much must be left over for an extent to be split
  MinSafe,   \* min_safe
  Reverts,   \* values of JFlag.REVERT that operations are called with
  Splits,    \* values of JFlag.SPLIT that f_write is called with
  NoRevert,  \* keys whose records carry JKeyFlag.NO_REVERT
  Ops,       \* the operations the user calls, a subset of AllOps
  AnyRow,    \* TRUE: undo also gets rows by number (revert with a version)
  MaxRows,   \* bound on the rows of the KEY file
  MaxCells   \* bound on the cells of the VAL file

AllOps == {"write", "append", "delete", "undelete", "unwrite", "rename",
           "read_row", "nested"}

RowIds == 0 .. MaxRows - 1
Cells == 0 .. MaxCells - 1

ASSUME SizeAssumption ==
  /\ Size \in [Vals -> Nat]
  /\ MinSize \in Nat \ {0} /\ SplitMin \in Nat \ {0}
ASSUME NameAssumption == NoKey \notin Keys /\ NoVal \notin Vals
ASSUME CallAssumption ==
  /\ Reverts \subseteq BOOLEAN /\ Splits \subseteq BOOLEAN /\ AnyRow \in BOOLEAN
  /\ NoRevert \subseteq Keys /\ Ops \subseteq AllOps /\ MinSafe \in Nat
ASSUME StoreBounds == MaxRows \in Nat /\ MaxCells \in Nat

VARIABLES
  index,      \* rows of the KEY file, and io._DEAD_rows, a cache of extents
  val,        \* the VAL file
  used,       \* io.file_table: how much of the VAL file has been handed out
  n_records,  \* io.n_records
  n_lines,    \* io.n_lines
  key_table,  \* io.key_table: the row of each key, n_lines or more if none
  safe_line,  \* JDb.safe_line
  chg_keys,   \* JDb.chg_keys: keys that were displaced in this session
  hdr_lines,  \* io._n_lines: n_lines as it is in the header of the file
  dirty,      \* io.sync_id differs from io._sync_id
  open        \* a write session is open

session == <<safe_line, chg_keys, hdr_lines, dirty, open>>
vars == <<index, val, used, n_records, n_lines, key_table, session>>

-----------------------------------------------------------------------------
(* Rows, extents and values *)

NoRow == MaxRows
NoExt == [off |-> 0, size |-> MaxCells + 1]
NoCell == <<NoVal, 0>>

Larger(a, b) == IF a >= b THEN a ELSE b
Smaller(a, b) == IF a <= b THEN a ELSE b

Ext(row) == [off |-> row.off, size |-> row.size]
EmptyRow == [key |-> NoKey, off |-> 0, size |-> 0, len |-> 0, head |-> NoVal]

\* The row of a record: row_size is the size of its extent, val_size its length
RowOf(k, v, ext) ==
  [key |-> k, off |-> ext.off, size |-> ext.size, len |-> Size[v],
   head |-> IF Size[v] = 0 THEN v ELSE NoVal]

\* What f_read decodes from a row: NoVal if the bytes are not those of a value
Decode(row) ==
  IF row.size = 0 THEN row.head
  ELSE LET v == val[row.off][1] IN
       IF /\ v # NoVal /\ row.len = Size[v]
          /\ \A x \in 0 .. row.len - 1 : val[row.off + x] = <<v, x>>
         THEN v ELSE NoVal

\* val_fp.seek(off); val_fp.write(data)
Stored(v, off) ==
  [c \in Cells |-> IF c \in off .. off + Size[v] - 1 THEN <<v, c - off>> ELSE val[c]]

\* io.pad: a new extent has room for min_value_size
Padded(size) == Larger(MinSize, size)

\* Faulty variant of WriteKey: the first row after the records is cached too,
\* which an f_write that adds a key turns into a record.
WriteKeyCachingHead(ix, n, r, row) ==
  [rows |-> [ix.rows EXCEPT ![r] = row],
   dead |-> [ix.dead EXCEPT ![r] = IF r >= n THEN Ext(row) ELSE NoExt]]

\* io.write_key with n records, io.copy_key and io.read_key, with what they do
\* to _DEAD_rows
WriteKey(ix, n, r, row) ==
  [rows |-> [ix.rows EXCEPT ![r] = row],
   dead |-> [ix.dead EXCEPT ![r] = IF r > n THEN Ext(row) ELSE NoExt]]

CopyKey(ix, src, dst) ==
  [rows |-> [ix.rows EXCEPT ![dst] = ix.rows[src]],
   dead |-> [ix.dead EXCEPT ![dst] = NoExt]]

ReadKey(ix, r) ==
  [ix EXCEPT !.dead[r] = IF r >= n_records THEN Ext(ix.rows[r]) ELSE NoExt]

Exists(k) == key_table[k] < n_records

\* safe_line only ever grows in a session; every use of it is clamped to n_lines,
\* so that the model need not tell values above MaxRows apart
Capped(line) == Smaller(line, MaxRows)

\* safe_line as every operation but _get_dead_row reads it
SafeLine == Smaller(Larger(safe_line, n_records), n_lines)

-----------------------------------------------------------------------------
(* _get_dead_row: space for a value of a given size *)

\* Where the search starts.  With REVERT the rows displaced in this session and
\* the first MinSafe rows are out of reach.
StartLine(rev) ==
  IF rev THEN Smaller(Larger(safe_line, n_records + MinSafe), n_lines)
         ELSE n_records

Fits(size, req) == IF req = 0 THEN size = 0 ELSE size >= req

\* io.get_dead_row: the cached rows that fit best; ties go by age in the cache,
\* which the model leaves open
CachedRows(start, req) ==
  LET fit == {r \in RowIds : r >= start /\ index.dead[r] # NoExt
                                        /\ Fits(index.dead[r].size, req)}
  IN {r \in fit : \A s \in fit : index.dead[r].size <= index.dead[s].size}

\* the random window of max_wsize rows, which may miss a row that fits
WindowRows(start, req) ==
  {r \in start .. n_lines - 1 : Fits(index.rows[r].size, req)}

\* Faulty variant of Taken: what was cut off is handed out as well.
TakenWhole(r, ext, req, sp, spare) ==
  LET ix == [index EXCEPT !.dead[r] = NoExt]
      part == Padded(req)
      rest == [EmptyRow EXCEPT !.off = ext.off + part, !.size = ext.size - part]
      first == [EmptyRow EXCEPT !.off = ext.off, !.size = part]
  IN IF sp /\ req > 0 /\ ext.size >= part + SplitMin
       THEN {[ix |-> WriteKey(WriteKey(ix, n_records, s, rest), n_records, r, first),
              lines |-> Larger(n_lines, s + 1), row |-> r, ext |-> ext]
               : s \in ({n_lines} \cup spare) \cap RowIds}
       ELSE {[ix |-> ix, lines |-> n_lines, row |-> r, ext |-> ext]}

\* The space found in row r, and the index and number of rows after it was cut
\* in two when it is much too large: the rest goes to a new row or, when the
\* window was searched, to a row above that has no extent.
Taken(r, ext, req, sp, spare) ==
  LET ix == [index EXCEPT !.dead[r] = NoExt]
      part == Padded(req)
      rest == [EmptyRow EXCEPT !.off = ext.off + part, !.size = ext.size - part]
      first == [EmptyRow EXCEPT !.off = ext.off, !.size = part]
  IN IF sp /\ req > 0 /\ ext.size >= part + SplitMin
       THEN {[ix |-> WriteKey(WriteKey(ix, n_records, s, rest), n_records, r, first),
              lines |-> Larger(n_lines, s + 1), row |-> r, ext |-> Ext(first)]
               : s \in ({n_lines} \cup spare) \cap RowIds}
       ELSE {[ix |-> ix, lines |-> n_lines, row |-> r, ext |-> ext]}

\* Faulty variant of Fresh: the new row is not counted.
FreshUncounted(req) ==
  [ix |-> index, lines |-> n_lines, row |-> n_lines,
   ext |-> IF req = 0 THEN [off |-> 0, size |-> 0]
                      ELSE [off |-> used, size |-> Padded(req)]]

\* No row to reuse: a new row, and for a value new space at the end of the file
Fresh(req) ==
  [ix |-> index, lines |-> n_lines + 1, row |-> n_lines,
   ext |-> IF req = 0 THEN [off |-> 0, size |-> 0]
                      ELSE [off |-> used, size |-> Padded(req)]]

\* All results of the search, as the index, the number of rows, the row that
\* becomes free and the extent for the value
Space(start, req, sp) ==
  LET cached == CachedRows(start, req) IN
  IF start < n_lines /\ cached # {}
    THEN UNION {Taken(r, index.dead[r], req, sp, {}) : r \in cached}
    ELSE {Fresh(req)} \cup
         UNION {Taken(r, Ext(index.rows[r]), req, sp,
                      {s \in r + 1 .. n_lines - 1 : index.rows[s].size = 0})
                  : r \in WindowRows(start, req)}

InBounds(a) == a.lines <= MaxRows /\ a.ext.off + a.ext.size <= MaxCells

\* Faulty variant of NoteKey: safe_line stays, so that the parked row is free.
NoteKeyOnly(rev, k, start) ==
  /\ chg_keys' = IF rev THEN chg_keys \cup {k} ELSE chg_keys
  /\ safe_line' = safe_line

\* _get_dead_row notes that the key is displaced in this session
NoteKey(rev, k, start) ==
  /\ chg_keys' = IF rev THEN chg_keys \cup {k} ELSE chg_keys
  /\ safe_line' = IF rev /\ k \notin chg_keys THEN start + 1 ELSE safe_line

\* DEAD[h] makes way: it goes to the row that became free
MadeWay(a, start) ==
  IF a.row > start THEN CopyKey(a.ix, start, a.row) ELSE a.ix

\* The value is written into its extent
Fill(v, ext) ==
  /\ val' = Stored(v, ext.off)
  /\ used' = Larger(used, ext.off + ext.size)

Touched == dirty' = TRUE /\ UNCHANGED <<hdr_lines, open>>

-----------------------------------------------------------------------------
(* f_write *)

\* Faulty variant of Overwrite: a value may be longer than its extent.
OverwriteTooLong(k, v, rev) ==
  LET row == key_table[k]
      old == index.rows[row]
  IN
  /\ Exists(k)
  /\ ~(rev /\ k \notin NoRevert) \/ k \in chg_keys
  /\ (old.size = 0) = (Size[v] = 0)
  /\ index' = WriteKey(index, n_records, row, RowOf(k, v, Ext(old)))
  /\ val' = Stored(v, old.off)
  /\ Touched
  /\ UNCHANGED <<used, n_records, n_lines, key_table, safe_line, chg_keys>>

\* The new value takes the place of the old one: a header value over a header
\* value, or a value that fits into the extent of the record.
Overwrite(k, v, rev) ==
  LET row == key_table[k]
      old == index.rows[row]
  IN
  /\ Exists(k)
  /\ ~(rev /\ k \notin NoRevert) \/ k \in chg_keys
  /\ (old.size = 0) = (Size[v] = 0)
  /\ Size[v] <= old.size
  /\ index' = WriteKey(index, n_records, row, RowOf(k, v, Ext(old)))
  /\ val' = Stored(v, old.off)
  /\ Touched
  /\ UNCHANGED <<used, n_records, n_lines, key_table, safe_line, chg_keys>>

\* The old value is parked in a row and the new one gets other space.
Replace(k, v, rev, sp) ==
  LET row == key_table[k]
      old == index.rows[row]
      start == StartLine(rev)
  IN
  /\ Exists(k)
  /\ \/ (old.size = 0) # (Size[v] = 0)
     \/ Size[v] > old.size
     \/ rev /\ k \notin NoRevert /\ k \notin chg_keys
  /\ \E a \in Space(start, Size[v], sp) :
       /\ InBounds(a)
       /\ LET parked == WriteKey(MadeWay(a, start), n_records, start, old) IN
          index' = WriteKey(parked, n_records, row, RowOf(k, v, a.ext))
       /\ n_lines' = a.lines
       /\ Fill(v, a.ext)
  /\ NoteKey(rev, k, start)
  /\ Touched
  /\ UNCHANGED <<n_records, key_table>>

\* A new key: its row is the first after the records.  The row that was there
\* moves to the end of the SAFE region, and what was there makes way.
Add(k, v, rev, sp) ==
  LET start == StartLine(rev) IN
  /\ ~Exists(k)
  /\ \E a \in Space(start, Size[v], sp) :
       /\ InBounds(a)
       /\ LET way == MadeWay(a, start)
              moved == IF start > n_records THEN CopyKey(way, n_records, start) ELSE way
          IN index' = WriteKey(moved, n_records, n_records, RowOf(k, v, a.ext))
       /\ n_lines' = a.lines
       /\ Fill(v, a.ext)
  /\ chg_keys' = IF rev THEN chg_keys \cup {k} ELSE chg_keys
  /\ safe_line' = IF rev THEN IF k \in chg_keys THEN safe_line ELSE start + 1
                         ELSE Capped(safe_line + 1)
  /\ n_records' = n_records + 1
  /\ key_table' = [key_table EXCEPT ![k] = n_records]
  /\ Touched

Write(k, v, rev, sp) ==
  Overwrite(k, v, rev) \/ Replace(k, v, rev, sp) \/ Add(k, v, rev, sp)

\* f_append of a new key never reuses a row; an existing key is written with
\* no flags.
Append(k, v) ==
  \/ Overwrite(k, v, FALSE) \/ Replace(k, v, FALSE, FALSE)
  \/ LET a == Fresh(Size[v])
         way == MadeWay(a, SafeLine)
         moved == IF SafeLine > n_records THEN CopyKey(way, n_records, SafeLine) ELSE way
     IN
     /\ ~Exists(k)
     /\ InBounds(a)
     /\ index' = WriteKey(moved, n_records, n_records, RowOf(k, v, a.ext))
     /\ n_lines' = a.lines
     /\ Fill(v, a.ext)
     /\ safe_line' = Capped(safe_line + 1)
     /\ n_records' = n_records + 1
     /\ key_table' = [key_table EXCEPT ![k] = n_records]
     /\ Touched
     /\ UNCHANGED chg_keys

-----------------------------------------------------------------------------
(* f_delete, f_undelete, f_unwrite, f_rename *)

\* The last record takes the row of the deleted one.  The deleted row becomes
\* the first of the SAFE region or, if a version of this key was already parked
\* in this session, the last.
Delete(k, rev) ==
  LET row == key_table[k]
      old == index.rows[row]
      last == n_records - 1
      keep == rev /\ k \in chg_keys /\ SafeLine - 1 # last
      swap == IF row < last THEN CopyKey(index, last, row) ELSE index
      mover == index.rows[last].key
  IN
  /\ Exists(k)
  /\ index' = IF keep
                THEN WriteKey(CopyKey(swap, SafeLine - 1, last), last, SafeLine - 1, old)
                ELSE WriteKey(swap, last, last, old)
  /\ n_records' = last
  /\ key_table' = [key_table EXCEPT ![mover] = row, ![k] = NoRow]
  /\ Touched
  /\ UNCHANGED <<val, used, n_lines, safe_line, chg_keys>>

\* The parked rows of a key that undo may use: the first one that the scan
\* finds, or one given by its number
Parked(k, lines) == {r \in n_records .. lines - 1 : index.rows[r].key = k}
ScanRows(k) == {r \in Parked(k, hdr_lines) : \A s \in Parked(k, hdr_lines) : r <= s}
UndoRows(k) == IF AnyRow THEN ScanRows(k) \cup Parked(k, n_lines) ELSE ScanRows(k)

\* io.read_key notes the extent of a row given by its number; the scan does not
Seen(r) == {index} \cup (IF AnyRow THEN {ReadKey(index, r)} ELSE {})

Undelete(k, r, rev) ==
  LET head == IF rev THEN SafeLine ELSE n_records
      row == index.rows[r]
  IN
  /\ ~Exists(k)
  /\ \E ix \in Seen(r) :
       LET way == IF r > head THEN CopyKey(ix, head, r) ELSE ix
           moved == IF r >= head
                      THEN IF head > n_records THEN CopyKey(way, n_records, head) ELSE way
                      ELSE IF r > n_records THEN CopyKey(ix, n_records, r) ELSE ix
       IN index' = WriteKey(moved, n_records, n_records, row)
  /\ IF r >= head
       THEN /\ chg_keys' = IF rev THEN chg_keys \cup {k} ELSE chg_keys
            /\ safe_line' = IF rev THEN head + 1 ELSE n_records
       ELSE /\ chg_keys' = chg_keys \ {k}
            /\ safe_line' = safe_line
  /\ n_records' = n_records + 1
  /\ key_table' = [key_table EXCEPT ![k] = n_records]
  /\ Touched
  /\ UNCHANGED <<val, used, n_lines>>

\* The parked version and the record change places.
Unwrite(k, r) ==
  LET row == key_table[k] IN
  /\ Exists(k)
  /\ \E ix \in Seen(r) :
       LET parked == WriteKey(ix, n_records, r, index.rows[row])
       IN index' = WriteKey(parked, n_records, row, index.rows[r])
  /\ chg_keys' = chg_keys \ {k}
  /\ Touched
  /\ UNCHANGED <<val, used, n_records, n_lines, key_table, safe_line>>

Rename(k, new) ==
  LET row == key_table[k] IN
  /\ Exists(k) /\ ~Exists(new)
  /\ index' = WriteKey(index, n_records, row, [index.rows[row] EXCEPT !.key = new])
  /\ key_table' = [key_table EXCEPT ![k] = NoRow, ![new] = row]
  /\ Touched
  /\ UNCHANGED <<val, used, n_records, n_lines, safe_line, chg_keys>>

-----------------------------------------------------------------------------
(* Sessions *)

\* read_row and history read rows by number.
ReadRow(r) ==
  /\ index' = ReadKey(index, r)
  /\ UNCHANGED <<val, used, n_records, n_lines, key_table, session>>

\* io.write_header, and io.is_updated, which drops the cache when there was a
\* change
Save ==
  /\ hdr_lines' = n_lines
  /\ dirty' = FALSE
  /\ index' = IF dirty THEN [index EXCEPT !.dead = [r \in RowIds |-> NoExt]] ELSE index
  /\ UNCHANGED <<val, used, n_records, n_lines, key_table>>

Open ==
  /\ ~open
  /\ open' = TRUE
  /\ safe_line' = n_records
  /\ chg_keys' = {}
  /\ UNCHANGED <<index, val, used, n_records, n_lines, key_table, hdr_lines, dirty>>

\* A call that opens and closes a session of its own inside this one
Nested == Save /\ dirty /\ UNCHANGED <<safe_line, chg_keys, open>>

Close ==
  /\ open
  /\ Save
  /\ open' = FALSE
  /\ chg_keys' = {}
  /\ UNCHANGED safe_line

Init ==
  /\ index = [rows |-> [r \in RowIds |-> EmptyRow], dead |-> [r \in RowIds |-> NoExt]]
  /\ val = [c \in Cells |-> NoCell]
  /\ used = 0
  /\ n_records = 0 /\ n_lines = 0
  /\ key_table = [k \in Keys |-> NoRow]
  /\ safe_line = 0 /\ chg_keys = {} /\ hdr_lines = 0
  /\ dirty = FALSE /\ open = FALSE

Operation(k) ==
  \/ /\ "write" \in Ops
     /\ \E v \in Vals, rev \in Reverts, sp \in Splits : Write(k, v, rev, sp)
  \/ "append" \in Ops /\ \E v \in Vals : Append(k, v)
  \/ "delete" \in Ops /\ \E rev \in Reverts : Delete(k, rev)
  \/ "undelete" \in Ops /\ \E r \in UndoRows(k), rev \in Reverts : Undelete(k, r, rev)
  \/ "unwrite" \in Ops /\ \E r \in UndoRows(k) : Unwrite(k, r)
  \/ "rename" \in Ops /\ \E new \in Keys : Rename(k, new)

Next ==
  \/ Open
  \/ Close
  \/ open /\ "nested" \in Ops /\ Nested
  \/ open /\ "read_row" \in Ops /\ \E r \in 0 .. n_lines - 1 : ReadRow(r)
  \/ open /\ \E k \in Keys : Operation(k)

Spec == Init /\ [][Next]_vars

-----------------------------------------------------------------------------
(* Properties *)

Exts == [off : Nat, size : Nat]
Rows == [key : Keys \cup {NoKey}, off : Nat, size : Nat, len : Nat,
         head : Vals \cup {NoVal}]

\* Type invariant: the three regions stay in order (n_records <= n_lines, and the
\* header never counts rows the file does not have) and nothing leaves its range.
TypeOK ==
  /\ index \in [rows : [RowIds -> Rows], dead : [RowIds -> Exts]]
  /\ val \in [Cells -> (Vals \cup {NoVal}) \X Nat]
  /\ used \in 0 .. MaxCells
  /\ n_lines \in 0 .. MaxRows /\ n_records \in 0 .. n_lines
  /\ hdr_lines \in 0 .. n_lines
  /\ key_table \in [Keys -> 0 .. MaxRows]
  /\ safe_line \in Nat /\ chg_keys \subseteq Keys
  /\ dirty \in BOOLEAN /\ open \in BOOLEAN

Extent(r) == {c \in Cells : c >= index.rows[r].off
                          /\ c < index.rows[r].off + index.rows[r].size}

\* Two rows never share space, so that f_write through one row cannot damage the
\* value of another row, live or parked.
ExtentsDisjoint ==
  \A r, s \in 0 .. n_lines - 1 : r # s => Extent(r) \cap Extent(s) = {}

\* Space that was handed out once stays reachable from a row: moving rows out
\* of the way (copy_key) never drops one.
NoSpaceLost ==
  0 .. used - 1 = UNION {Extent(r) : r \in 0 .. n_lines - 1}

\* Whatever moves, splits and undo operations came before, the extents of the
\* rows divide the space of the VAL file that was handed out: none of it belongs
\* to two rows, and none to no row.
SpacePartitioned == ExtentsDisjoint /\ NoSpaceLost

\* key_table is the inverse of the keys in the REC region, so that every record
\* is found under its key and under no other, and no key has two records.
KeyTableMatches ==
  /\ \A r \in 0 .. n_records - 1 :
       index.rows[r].key \in Keys /\ key_table[index.rows[r].key] = r
  /\ \A k \in Keys : Exists(k) => index.rows[key_table[k]].key = k

\* _DEAD_rows tells the truth about the rows it names.  get_dead_row hands out
\* space by it without reading the row.
CacheFresh ==
  \A r \in RowIds : index.dead[r] # NoExt =>
    r \in n_records .. n_lines - 1 /\ index.dead[r] = Ext(index.rows[r])

\* What a handle keeps in memory about the rows, its key table and its cache of
\* free extents, follows every move of a row.
MemoryMatches == KeyTableMatches /\ CacheFresh

\* The store behaves as a dictionary with undo: every operation changes what
\* is read under the keys it names and under no other key.
Value(k) == IF Exists(k) THEN Decode(index.rows[key_table[k]]) ELSE NoVal
Versions == {<<index.rows[r].key, Decode(index.rows[r])>> :
               r \in {s \in n_records .. n_lines - 1 : index.rows[s].key \in Keys}}

Dict == INSTANCE Dictionary WITH
          dict <- [k \in Keys |-> Value(k)], past <- Versions

IsDictionary == Dict!Spec
=============================================================================
