------------------------------ MODULE KeySync -------------------------------
(***************************************************************************)
(* Several database handles, in this process or in others, that share one  *)
(* KEY file.  Every handle keeps in its JIo object the counters of the     *)
(* header, a table of the keys with their rows, and rows it has read.      *)
(* When a session opens, the handle compares what it knows with the file   *)
(* (open, f_get_fp and f_get_write_fp) and brings its table up to date,    *)
(* as far as possible without reading all rows again (load_keys).          *)
(*                                                                         *)
(* The file lock is taken for what FileLock is shown to be: any number of  *)
(* read sessions or one write session, given up between the two while a    *)
(* read session is promoted.  A handle is used by one thread.              *)
(*                                                                         *)
(* KeyStore has the details of the rows after the records; here a row that *)
(* makes way or is parked goes to any such row.  Of a row the model keeps  *)
(* the key, the version stamp, and the READ_ONLY flag.                     *)
(***************************************************************************)
EXTENDS Integers

CONSTANTS
  Handles,   \* JDb objects on the same KEY file
  Keys,      \* record keys
  NoKey,     \* the key of a row that was never written
  RowSize,   \* index_size, in bytes
  Wrap,      \* the counters are taken modulo this number (2^43 in the code)
  Ops,       \* what the handles do, a subset of AllOps
  MaxRows,   \* bound on the rows of the KEY file
  MaxSync    \* bound on the number of changes

AllOps == {"get", "function", "add", "update", "protect", "delete", "undelete",
           "rename", "recycle", "nested"}

ASSUME SyncNames == NoKey \notin Keys
ASSUME SyncBounds ==
  /\ RowSize \in Nat \ {0} /\ MaxRows \in Nat
  /\ MaxSync \in Nat /\ Wrap \in Nat /\ Wrap > MaxSync
ASSUME SyncOps == Ops \subseteq AllOps

VARIABLES
  file,     \* the KEY file: its rows, its header, and its size
  io,       \* JDb.io of each handle
  st,       \* the session that a handle has open
  touched,  \* the handle has the KEY file open in this session
  got,      \* the version of a record that an update function was given
  changes   \* number of changes so far

vars == <<file, io, st, touched, got, changes>>

RowIds == 0 .. MaxRows - 1
NoRow == MaxRows
HeaderSize == 1

Larger(a, b) == IF a >= b THEN a ELSE b
Smaller(a, b) == IF a <= b THEN a ELSE b

EmptyRow == [key |-> NoKey, ver |-> 0, ro |-> FALSE]
NoEntry == [row |-> NoRow, ro |-> FALSE]
NoGot == [key |-> NoKey, ver |-> 0]
NoTable == [k \in Keys |-> NoEntry]
NoRows == [r \in RowIds |-> EmptyRow]

-----------------------------------------------------------------------------
(* Bringing the table of a handle up to date *)

\* io.is_updated: x is a JIo object, mem are its counters and seen the same
\* counters with an underscore
IsUpdated(x) == x.size > 0 /\ x.mem.sync = x.seen.sync

\* is_updated forgets the rows that were read when it says no
Checked(x) == IF IsUpdated(x) THEN x ELSE [x EXCEPT !.rows = NoRows]

\* read_header: the size is forgotten when a counter has changed
ReadHeader(x) ==
  [x EXCEPT !.mem = file.head,
            !.size = IF x.mem = file.head THEN @ ELSE 0]

Diff(new, old) == IF new >= old THEN new - old ELSE (new + Wrap - old) % Wrap

\* The entry of a key as the rows lo..hi-1 have it, or as it was
Reread(table, lo, hi) ==
  [k \in Keys |->
     LET found == {r \in lo .. hi - 1 : file.rows[r].key = k} IN
     IF found = {} THEN table[k]
     ELSE LET r == CHOOSE s \in found : \A q \in found : q <= s
          IN [row |-> r, ro |-> file.rows[r].ro]]

\* the entries of the rows below lo
Pruned(table, lo) ==
  [k \in Keys |-> IF table[k].row < lo THEN table[k] ELSE NoEntry]

\* [A] no record changed its row: the rows from here on are read again
FirstChanged(x, recs, remv) ==
  LET prev == x.seen.recs
      diff == recs - prev
  IN IF remv = 0 /\ diff > 0 THEN prev
     ELSE IF diff > 0 THEN Larger(0, prev - remv)
     ELSE Larger(0, recs - remv)

\* Faulty variant of Moved: the table is only told which keys are gone.
MovedForgotten(table, recs, gone) ==
  [k \in Keys |-> IF k \in {file.rows[r].key : r \in gone} THEN NoEntry ELSE table[k]]

\* [B1-0] records were deleted and nothing else was done: each deleted key is
\* taken out, and the record that is in its old row now is put there.  The
\* entry gets the flags of the deleted row.
Moved(table, recs, gone) ==
  [k \in Keys |->
     LET into == {r \in gone : LET old == table[file.rows[r].key].row IN
                                 old < recs /\ file.rows[old].key = k}
     IN IF k \in {file.rows[r].key : r \in gone} THEN NoEntry
        ELSE IF into = {} THEN table[k]
        ELSE LET r == CHOOSE s \in into : TRUE
             IN [row |-> table[file.rows[r].key].row, ro |-> file.rows[r].ro]]

\* load_keys, after read_header
LoadKeys(x) ==
  LET h == x.mem
      p == x.seen
      swap == Diff(h.swap, p.swap)
      remv == Diff(h.remv, p.remv)
      sync == Diff(h.sync, p.sync)
      recs == h.recs - p.recs
      lines == h.lines - p.lines
      all == h.lines = 0 \/ p.lines = 0 \/ lines < 0
      only_deleted == sync = remv /\ remv = -recs /\ lines = 0
      first == FirstChanged(x, h.recs, remv)
      table ==
        IF all THEN Reread(NoTable, 0, h.recs)
        ELSE IF swap = 0 THEN
          IF recs = 0 /\ remv = 0 THEN IF h.recs = 0 THEN NoTable ELSE x.table
          ELSE Reread(Pruned(x.table, first), first, h.recs)
        ELSE IF only_deleted THEN
          IF h.recs = 0 THEN NoTable
          ELSE Moved(x.table, h.recs, h.recs .. Smaller(h.lines, h.recs + remv) - 1)
        ELSE Reread(NoTable, 0, h.recs)
  IN [mem |-> h, seen |-> h, size |-> file.size, table |-> table,
      rows |-> IF all \/ sync # 0 THEN NoRows ELSE x.rows]

\* What f_get_fp and f_get_write_fp do when they open the KEY file
Refreshed(x) ==
  LET y == ReadHeader(x) IN
  IF file.size # x.size THEN LoadKeys(y)
  ELSE IF IsUpdated(y) THEN y ELSE LoadKeys(Checked(y))

\* A read session that finds the file as large as it was does not open it.
Unchanged(x) == IsUpdated(x) /\ file.size = x.size

-----------------------------------------------------------------------------
(* Sessions *)

Others(h) == Handles \ {h}
MayRead(h) == \A g \in Others(h) : st[g] # "write"
MayWrite(h) == \A g \in Others(h) : st[g] \notin {"read", "write"}

Session(h, to, x, open) ==
  /\ st' = [st EXCEPT ![h] = to]
  /\ io' = [io EXCEPT ![h] = x]
  /\ touched' = [touched EXCEPT ![h] = open]

OpenRead(h) ==
  /\ st[h] = "closed" /\ MayRead(h)
  /\ IF Unchanged(io[h]) THEN Session(h, "read", io[h], FALSE)
     ELSE \* is_latest is FALSE: the keys are loaded whatever the header says
          Session(h, "read", LoadKeys(Checked(ReadHeader(Checked(io[h])))), TRUE)
  /\ UNCHANGED <<file, got, changes>>

OpenWrite(h) ==
  /\ st[h] = "closed" /\ MayWrite(h)
  /\ LET y == Checked(ReadHeader(io[h])) IN
     Session(h, "write", IF IsUpdated(y) /\ file.size = io[h].size THEN y ELSE LoadKeys(y), TRUE)
  /\ UNCHANGED <<file, got, changes>>

\* f_get_write_fp in a read session: the lock is given up, ...
Promote(h) ==
  /\ st[h] = "read"
  /\ st' = [st EXCEPT ![h] = "promoting"]
  /\ UNCHANGED <<file, io, touched, got, changes>>

\* ... taken again for writing, and the file is read again.
Promoted(h) ==
  /\ st[h] = "promoting" /\ MayWrite(h)
  /\ Session(h, "write", Refreshed(io[h]), TRUE)
  /\ UNCHANGED <<file, got, changes>>

\* open(read_only=False) inside a read session: the lock is given up and taken
\* again as well, but the file is not read again.
Upgrade(h) ==
  /\ st[h] = "read"
  /\ st' = [st EXCEPT ![h] = "upgrading"]
  /\ UNCHANGED <<file, io, touched, got, changes>>

Upgraded(h) ==
  /\ st[h] = "upgrading" /\ MayWrite(h)
  /\ st' = [st EXCEPT ![h] = "write"]
  /\ UNCHANGED <<file, io, touched, got, changes>>

\* Faulty variant of Grown: the file keeps its size when no row was added.
GrownNever(x, size) == size

\* The size of the file after write_header: at least one byte more than the
\* writer knew when the header has changed
Grown(x, size) == IF size = x.size THEN size + 1 ELSE size

\* write_header of a handle with JIo object x
WriteHeader(h, x, rows, size) ==
  LET end == IF x.mem # x.seen THEN Grown(x, size) ELSE size IN
  /\ file' = [rows |-> rows, head |-> x.mem, size |-> end]
  /\ io' = [io EXCEPT ![h] = [x EXCEPT !.seen = x.mem, !.size = end]]

Close(h) ==
  /\ st[h] \in {"read", "write"}
  /\ LET x == Checked(io[h]) IN
     IF st[h] = "write" /\ ~IsUpdated(io[h])
       THEN WriteHeader(h, x, file.rows, file.size)
       ELSE io' = [io EXCEPT ![h] = x] /\ UNCHANGED file
  /\ st' = [st EXCEPT ![h] = "closed"]
  /\ touched' = [touched EXCEPT ![h] = FALSE]
  /\ got' = [got EXCEPT ![h] = NoGot]
  /\ UNCHANGED changes

-----------------------------------------------------------------------------
(* Operations *)

\* The JIo object once f_get_fp has made sure that the KEY file is open
Ready(h) == IF touched[h] THEN io[h] ELSE Refreshed(io[h])

Has(x, k) == x.table[k].row < x.mem.recs

\* read_key of row r, from the rows that were read before or from the file
RowRead(x, r) == IF x.rows[r] # EmptyRow THEN x.rows[r] ELSE file.rows[r]

Set(x, k, r, ro) == [x EXCEPT !.table[k] = [row |-> r, ro |-> ro]]

\* One change: x is the JIo object after it, with its rows that were read; rows
\* and lines are those of the file.
Change(h, x, rows, lines) ==
  /\ changes < MaxSync
  /\ changes' = changes + 1
  /\ file' = [file EXCEPT !.rows = rows,
                          !.size = Larger(@, HeaderSize + lines * RowSize)]
  /\ got' = [got EXCEPT ![h] = NoGot]
  /\ Session(h, "write", x, TRUE)

\* Faulty variant of Count: a new row is not counted.
CountLosingRows(m, recs, lines, swap, remv) ==
  [sync |-> (m.sync + 1) % Wrap, swap |-> (m.swap + swap) % Wrap,
   remv |-> (m.remv + remv) % Wrap, recs |-> recs, lines |-> m.lines]

\* The counters of a change
Count(m, recs, lines, swap, remv) ==
  [sync |-> (m.sync + 1) % Wrap, swap |-> (m.swap + swap) % Wrap,
   remv |-> (m.remv + remv) % Wrap, recs |-> recs, lines |-> lines]

\* The rows a value or a version that makes way may go to: one after the
\* records, or a new one
Free(m) == {r \in m.recs .. m.lines : r \in RowIds}

\* f_read.  The row is looked up before the KEY file is opened.
Read(h, k) ==
  LET r == io[h].table[k].row
      x == Ready(h)
  IN
  /\ Has(io[h], k)
  /\ Session(h, st[h], IF r < x.mem.recs THEN [x EXCEPT !.rows[r] = RowRead(x, r)] ELSE x,
             TRUE)
  /\ UNCHANGED <<file, changes>>

Get(h, k) == Read(h, k) /\ UNCHANGED got

\* The read of set(key, function): the function is given what is read.
GetOld(h, k) ==
  /\ Read(h, k)
  /\ got' = [got EXCEPT ![h] =
               [key |-> k, ver |-> RowRead(Ready(h), io[h].table[k].row).ver]]

\* f_write of a new key
Add(h, k) ==
  LET x == Ready(h)
      m == x.mem
      row == [key |-> k, ver |-> m.sync, ro |-> FALSE]
  IN
  /\ ~Has(x, k)
  /\ \E r \in Free(m) :
       LET lines == Larger(m.lines, r + 1)
           rows == [[file.rows EXCEPT ![r] = file.rows[m.recs]] EXCEPT ![m.recs] = row]
       IN Change(h, [Set(x, k, m.recs, FALSE) EXCEPT
                       !.mem = Count(m, m.recs + 1, lines, 0, 0),
                       !.rows[r] = EmptyRow, !.rows[m.recs] = EmptyRow],
                 rows, lines)

\* f_write of a key that is there, in place (r = the row of the record) or with
\* the old version parked in another row.  Only the table is asked whether the
\* record is READ_ONLY.
Update(h, k) ==
  LET x == Ready(h)
      m == x.mem
      row == x.table[k].row
      old == RowRead(x, row)
      new == [old EXCEPT !.key = k, !.ver = m.sync]
  IN
  /\ Has(x, k) /\ ~x.table[k].ro
  /\ \E r \in Free(m) \cup {row} :
       LET lines == Larger(m.lines, r + 1)
           rows == [[file.rows EXCEPT ![r] = old] EXCEPT ![row] = new]
       IN Change(h, [Set(x, k, row, old.ro) EXCEPT
                       !.mem = Count(m, m.recs, lines, 0, 0),
                       !.rows[r] = EmptyRow, !.rows[row] = new],
                 rows, lines)

\* f_write_key_flags
Protect(h, k) ==
  LET x == Ready(h)
      row == x.table[k].row
      old == RowRead(x, row)
      new == [old EXCEPT !.ro = ~@]
  IN
  /\ Has(x, k) /\ old.key = k
  /\ Change(h, [Set(x, k, row, new.ro) EXCEPT
                  !.mem = Count(@, @.recs, @.lines, 0, 0), !.rows[row] = new],
            [file.rows EXCEPT ![row] = new], x.mem.lines)

\* f_delete: the last record takes the row of the deleted one, whose own row
\* is the first after the records.
Delete(h, k) ==
  LET x == Ready(h)
      m == x.mem
      row == x.table[k].row
      old == RowRead(x, row)
      last == m.recs - 1
      mover == file.rows[last]
      y == IF row < last THEN Set(x, mover.key, row, mover.ro) ELSE x
  IN
  /\ Has(x, k) /\ old.key = k /\ ~old.ro
  /\ Change(h, [Set(y, k, NoRow, FALSE) EXCEPT
                  !.mem = Count(m, last, m.lines, IF row < last THEN 1 ELSE 0, 1),
                  !.rows[row] = EmptyRow, !.rows[last] = EmptyRow],
            [file.rows EXCEPT ![row] = mover, ![last] = [old EXCEPT !.ver = m.sync]],
            m.lines)

\* f_undelete of a key that is found in row r
Undelete(h, k) ==
  LET x == Ready(h)
      m == x.mem
  IN
  /\ ~Has(x, k)
  /\ \E r \in m.recs .. m.lines - 1 :
       LET row == [file.rows[r] EXCEPT !.ver = m.sync]
           rows == [[file.rows EXCEPT ![r] = file.rows[m.recs]] EXCEPT ![m.recs] = row]
       IN /\ file.rows[r].key = k
          /\ Change(h, [Set(x, k, m.recs, row.ro) EXCEPT
                          !.mem = Count(m, m.recs + 1, m.lines, 0, 0),
                          !.rows[m.recs] = EmptyRow],
                    rows, m.lines)

\* Faulty variant of Rename: the old key stays in the table.
RenameKeepingKey(h, k, new) ==
  LET x == Ready(h)
      row == x.table[k].row
      old == RowRead(x, row)
      moved == [old EXCEPT !.key = new, !.ver = x.mem.sync]
  IN
  /\ Has(x, k) /\ ~Has(x, new)
  /\ Change(h, [Set(x, new, row, old.ro) EXCEPT
                  !.mem = Count(@, @.recs, @.lines, 1, 0), !.rows[row] = moved],
            [file.rows EXCEPT ![row] = moved], x.mem.lines)

\* f_rename
Rename(h, k, new) ==
  LET x == Ready(h)
      row == x.table[k].row
      old == RowRead(x, row)
      moved == [old EXCEPT !.key = new, !.ver = x.mem.sync]
  IN
  /\ Has(x, k) /\ ~Has(x, new)
  /\ Change(h, [Set(Set(x, k, NoRow, FALSE), new, row, old.ro) EXCEPT
                  !.mem = Count(@, @.recs, @.lines, 1, 0), !.rows[row] = moved],
            [file.rows EXCEPT ![row] = moved], x.mem.lines)

\* recycle: rows after the records are dropped, and the file is cut off there.
\* With no records left all counters start again.
Recycle(h) ==
  LET x == Ready(h)
      m == x.mem
  IN
  /\ changes < MaxSync
  /\ changes' = changes + 1
  /\ \E lines \in m.recs .. m.lines :
       LET y == IF m.recs = 0
                  THEN [x EXCEPT !.table = NoTable,
                                 !.mem = [sync |-> 0, swap |-> 0, remv |-> 0,
                                          recs |-> 0, lines |-> 0]]
                  ELSE [x EXCEPT !.mem = Count(m, m.recs, lines, 0, 0)]
           end == Grown(x, HeaderSize + y.mem.lines * RowSize)
       IN /\ file' = [rows |-> [r \in RowIds |-> IF r < y.mem.lines THEN file.rows[r]
                                                                   ELSE EmptyRow],
                      head |-> y.mem, size |-> end]
          /\ Session(h, "write", [y EXCEPT !.seen = y.mem, !.size = end], TRUE)
  /\ UNCHANGED got

-----------------------------------------------------------------------------
NewFile ==
  [rows |-> NoRows, size |-> HeaderSize,
   head |-> [sync |-> 0, swap |-> 0, remv |-> 0, recs |-> 0, lines |-> 0]]

NewIo ==
  [mem  |-> [sync |-> 0, swap |-> 0, remv |-> 0, recs |-> 0, lines |-> 0],
   seen |-> [sync |-> 0, swap |-> -1, remv |-> -1, recs |-> 0, lines |-> 0],
   size |-> 0, table |-> NoTable, rows |-> NoRows]

Init ==
  /\ file = NewFile
  /\ io = [h \in Handles |-> NewIo]
  /\ st = [h \in Handles |-> "closed"]
  /\ touched = [h \in Handles |-> FALSE]
  /\ got = [h \in Handles |-> NoGot]
  /\ changes = 0

Change1(h, k) ==
  \/ "add" \in Ops /\ Add(h, k)
  \/ "update" \in Ops /\ Update(h, k)
  \/ "protect" \in Ops /\ Protect(h, k)
  \/ "delete" \in Ops /\ Delete(h, k)
  \/ "undelete" \in Ops /\ Undelete(h, k)
  \/ "rename" \in Ops /\ \E new \in Keys : Rename(h, k, new)

Next ==
  \E h \in Handles :
    \/ OpenRead(h) \/ OpenWrite(h) \/ Close(h)
    \/ Promote(h) \/ Promoted(h)
    \/ "nested" \in Ops /\ Upgrade(h)
    \/ Upgraded(h)
    \/ "get" \in Ops /\ st[h] \in {"read", "write"} /\ \E k \in Keys : Get(h, k)
    \/ "function" \in Ops /\ st[h] \in {"read", "write"} /\ \E k \in Keys : GetOld(h, k)
    \/ st[h] = "write" /\ \E k \in Keys : Change1(h, k)
    \/ "recycle" \in Ops /\ st[h] = "write" /\ Recycle(h)

Spec == Init /\ [][Next]_vars

-----------------------------------------------------------------------------
(* Properties *)

Counters == [sync : Nat, swap : Nat, remv : Nat, recs : 0 .. MaxRows, lines : 0 .. MaxRows]
Rows == [key : Keys \cup {NoKey}, ver : Nat, ro : BOOLEAN]

\* Type invariant: the header never has more records than rows, and a handle
\* has seen header counters or none at all.
TypeOK ==
  /\ file \in [rows : [RowIds -> Rows], head : Counters, size : Nat]
  /\ file.head.recs <= file.head.lines
  /\ \A h \in Handles :
       /\ io[h].mem \in Counters
       /\ io[h].seen \in Counters \/ io[h].seen = NewIo.seen
       /\ io[h].size \in Nat
       /\ io[h].table \in [Keys -> [row : 0 .. MaxRows, ro : BOOLEAN]]
       /\ io[h].rows \in [RowIds -> Rows]
  /\ st \in [Handles -> {"closed", "read", "promoting", "upgrading", "write"}]
  /\ touched \in [Handles -> BOOLEAN]
  /\ got \in [Handles -> [key : Keys \cup {NoKey}, ver : Nat]]
  /\ changes \in 0 .. MaxSync

\* The counters and the table of a handle say what is in the file: each record
\* of the file is in the table with its row, and nothing else is.
Current(h) ==
  LET x == io[h]
      m == x.mem
  IN
  /\ st[h] = "read" => m.recs = file.head.recs
  /\ \A k \in Keys : Has(x, k) =>
       file.rows[x.table[k].row].key = k
  /\ \A r \in 0 .. m.recs - 1 :
       file.rows[r].key \in Keys /\ x.table[file.rows[r].key].row = r

\* In every session, whatever the other handles did since this handle had its
\* last one and however load_keys took it over, the handle finds each record in
\* the row where it is and finds no record that is not there.
TableCurrent == \A h \in Handles : st[h] \in {"read", "write"} => Current(h)

\* A row that read_key answers from memory is what the file has in that row: no
\* other handle has written it since.
RowsReadCurrent ==
  \A h \in Handles, r \in RowIds :
    st[h] \in {"read", "write"} /\ io[h].rows[r] # EmptyRow =>
      io[h].rows[r] = file.rows[r]

\* README.rst, on READ_ONLY: "Writes and deletes are refused."  A write goes to no
\* record that has the flag in the file.
ReadOnlyRefused ==
  [][\A h \in Handles, k \in Keys :
       Update(h, k) => ~file.rows[Ready(h).table[k].row].ro]_vars

\* README.rst lists atomic operations: what set(key, function) writes was computed
\* from the version that it replaces.
FunctionAtomic ==
  [][\A h \in Handles, k \in Keys :
       Update(h, k) /\ got[h].key = k =>
         file.rows[Ready(h).table[k].row].ver = got[h].ver]_vars
=============================================================================
