# Verification of omni-json-db

TLA+ models of the core of `omni_json_db`, the TLC runs that check them on small
instances, and TLAPS proofs. Source paths below are relative to
`src/omni_json_db/`.

## 1. Inventory

omni-json-db is an embedded key/value store. A database is a KEY file (a header
and rows of equal size, one per record or displaced version), VAL files with the
values that do not fit into a row, and an LCK file. Any number of handles (`JDb`
objects) in any number of threads and processes work on the same files.

| Component | State | Operations | Interacts with | Hard about it | Correct when |
|---|---|---|---|---|---|
| **FileLock** (`utils.py`) | `_mode`, `_idents`, `_lock`, `_cond` | `acquire`, `release`, `can_lock`, `rlock`, `wlock` | backend `LCK_*`; called by every session | threads and processes interleave; promotion; blocking call without `_lock` | one writer or many readers; every call returns; nothing left behind |
| **Backends** (`jdb_file.py`, `jdb_net.py`) | flock on a descriptor; shared counters in memory; a socket | `LCK_rlock/wlock/unlock`, file I/O | FileLock, server | readers are counted without identity | an unlock takes off the caller's lock |
| **Record store** (`jdb.py`, `jdb_io.py`) | rows, extents, `n_records`, `n_lines`, `key_table`, `safe_line`, `chg_keys`, `_DEAD_rows` | `f_write`, `f_append`, `f_delete`, `f_undelete`, `f_unwrite`, `f_rename`, `read_row` | sessions, VAL files | long sequences of moves of rows; reuse and splitting of space | a dictionary with undo; no two rows share space; no space is lost |
| **Synchronisation** (`jdb_io.py`, `jdb_lite.py`) | header counters in file and memory, key table, `_KEY_rows`, file size | `open`, `f_open`, `f_close`, `f_get_fp`, `f_get_write_fp`, `load_keys`, `read_header`, `write_header` | FileLock, record store of other handles | what one handle knows is changed by another; incremental reload; counters that start again | in a session the table is what is in the file |
| **Handle lock** (`jdb_lite.py`) | `JDbReader.lock`, `th_table` | `open`, `f_open`, `f_close` | FileLock | two locks taken in different orders | no deadlock |
| **Expiry** (`jdb_lite.py`, `jdb_codec.py`) | row in file and cache, day of the handle, queue of expired rows | `f_read`, `f_write`, `f_write_key_flags`, `f_drop_expired` | sessions, promotion, codec | decision and deletion are in different lock phases; rounding | a record expires on time, and what is dropped is expired |
| **recycle** (`jdb.py`) | rows, extents, VAL files | `recycle` | record store, synchronisation | moves everything in place | the dictionary is unchanged |
| **resize_keys, check_error** (`jdb_io.py`, `jdb_lite.py`) | all rows | `resize_keys`, `check_error` | record store | source and destination overlap | no row is overwritten before it is read |
| **INT_Handler** (`utils.py`) | `count`, `call_flag`, `lock` | `disable`, `enable`, `handler`, `is_called` | FileLock | a signal arrives anywhere | an interrupt in a write session is deferred; no deadlock |
| **Key tables** (`jdb_io.py`) | entries by hash, filter bits, found flags, cache, `size` | `get_both`, `set`, `pop`, `items`, `clear` | synchronisation | filled while it is used; `size` proves completeness | answers as reading the whole file would |
| **Codec** (`jdb_codec.py`) | none | packing of header, dates, TTL and flags | rows, header | widths of bit fields | unpack is the inverse of pack |
| **Links, groups** (`jdb.py`) | link rows, group registry | `f_link_write`, `add_group`, ... | record store of another database | cycles; two databases changed in turn | a link is followed or refused |
| **GraphDb** (`jdb_graph.py`) | nodes, edges, adjacency records, counters | `add_*`, `remove_*`, `reindex`, `verify_index`, algorithms | record store, sessions | test before promotion; interrupted calls; parallel edges | what is derived is that of the edges; algorithms agree with their definitions |
| **Network** (`jdb_server.py`, `jdb_net.py`) | files and lock counts per connection, offset of the client, group registry | one handler per command | backends | clients that disappear; groups unlinked and added again | a closed connection holds nothing; clients exclude each other |
| **Query** (`jdb_query.py`, `jdb_lite.py`) | none | matching, `sorted_by_rules`, `grouped_by_rules`, `find_iter` | record store | nested negation, mixed types, groups | matching is what logic says; no row is lost or repeated |
| **Dataclasses** (`jdb_dc.py`) | none | conversion | record store | - | - |

`PROJECT.json` lists the same components with their status, and the hazards
with the line where each one bites.

## 2. Modules

| Module | Models | Used by |
|---|---|---|
| `FileLock` | class `FileLock` over the lock methods of `JDiskFiles` and `JMemFiles` | `MCFileLock`, `FileLockProofs` |
| `FileLockProofs` | proofs about `FileLock` | - |
| `Dictionary` | what the record store promises: a dictionary with undo | `KeyStore` (refinement) |
| `KeyStore` | rows, extents and operations of one handle | `MCKeyStore`, `KeyStoreUndo` |
| `KeyStoreUndo` | `KeyStore` with history variables for what undo can reach | `MCKeyStoreUndo` |
| `KeyStoreProofs`, `KeyStoreUndoProofs` | proofs about both, and that `KeyStore` implements `Dictionary` | - |
| `KeySync` | several handles on one KEY file | `MCKeySync` |
| `KeySyncProofs` | proofs about `KeySync` | - |
| `KeyTable` | `KeyTable`, `PartialKeyTable`, `LiteKeyTable` | `MCKeyTable` |
| `KeyTableProofs` | proofs about `KeyTable` | - |
| `Codec` | lifetimes, the packing of days and flags, the five row formats | `Expiry`, `MCFunctions` |
| `Expiry` | one record with a lifetime, shared by handles | `MCExpiry` |
| `ExpiryProofs` | proofs about `Codec` and `Expiry` | - |
| `Graph` | what GraphDb promises: nodes, and edges between them | `GraphDb` (refinement) |
| `GraphDb` | records of nodes, edges and adjacency, counters, promotion, interruption | `MCGraphDb` |
| `GraphDbProofs` | proofs about `GraphDb`, and that it implements `Graph` | - |
| `GraphAlgo`, `GraphAlgoRef` | reads and algorithms of GraphDb; their definitions on sets of edges | `MCFunctions` |
| `Query`, `QueryFind`, `QueryRef` | matching; sorting, grouping and paging; what they have to agree with | `MCFunctions` |
| `ByteFile` | `JBytesIO`, a file in memory | `NetServer` |
| `NetServer` | server, connections and clients | `MCNetServer` |
| `NetServerProofs` | proofs about locks, types and offsets, groups and exclusion | - |

### FileLock

A step is what happens between two points at which another thread or process can
run. Everything done under `_lock` without a process level call is one step; a
process level call is a step of its own (`OsTry`, `OsBusy`, `OsGrant`), because
another process can act just before it. `pc` follows the loop of `acquire`:
`enter` (top of the loop), `os` (at the non-blocking call, `_lock` held), `wait`
(`_cond.wait()`), `block` (blocking call, `_lock` free, mode `'p'`), `granted`,
and `finally` for the `release()` of `can_lock`. `idents` is `_idents`, with 0
for a thread that is not in it. `held` is what the callers believe: the sessions
for which `acquire` has returned and `release` was not called. The properties
compare `held` with the code's own state.

The two backends are one model with a constant: flock on the descriptor of the
instance (`fd`), and the shared counters of `JMemFiles` (`lck`), whose unlock
takes one reader off whenever the caller is not the writer.

`Inside` has the calls that a thread may make in a session: promotion in
`filelock_mem`, and `can_lock`, which undoes the session it is called in, in
`FileLock_inside.cfg`.

Not modelled: mode `'x'` (a lock that is destroyed or reset while in use), errors
of the operating system other than `BlockingIOError`, Windows locks, and the
calls of `INT_Handler`.

### KeyStore

The rows of the KEY file are three regions, REC, SAFE and DEAD. Of a row the
model keeps the key, the extent (`off`, `size`), the length of the value, and the
value itself if it is stored in the row. A cell of the VAL file says which part of
which value was written there, so that a value that was partly overwritten decodes
to `NoVal`. `index.dead` is `_DEAD_rows`, the cache that `get_dead_row` trusts
without reading the row; every operation changes it as the code does.

`_get_dead_row` is `Space`: all results that the cache (ties are left open), the
random window and the end of the file can give, with the split of an extent that
is too large. Each operation is one action, from the guard to the counters, with
the copies of rows in the code's order. `Save` is `write_header` with what
`is_updated` does to the cache. `Nested` is a session inside the session.

Not modelled: several VAL files (one is enough for extents to collide), dates,
version stamps, flags that refuse an operation, links and groups, the value
cache, growth of the row size, and exceptions.

### KeySync

A handle's `JIo` object is a record: `mem` are the counters, `seen` the counters
with an underscore (as they are in the file for all the handle knows), `size` is
`file_size`, `table` the key table with the READ_ONLY flag, `rows` the rows kept
by `read_key`. `LoadKeys` is `load_keys` with all its cases: everything is read
again, nothing is, the rows from the first changed one on are (`FirstChanged`,
`Pruned`, `Reread`), or only the rows that deletions moved are (`Moved`).

The lock is taken for what FileLock is proved to be; promotion is two steps
(`Promote`, `Promoted`), because the lock is given up in between, and so is the
nested write session (`Upgrade`, `Upgraded`), which differs in that it does not
look at the file again. Rows after the records are placed anywhere, which allows
everything `KeyStore` does and more. An update goes by the flags of the handle's
table (`Update`), and one with a function remembers the version it has read (`got`).

Not modelled: `clear`, `resize_keys`, recycling
that sorts or merges rows, `file_table`, the value cache, exceptions, and more
than one thread per handle.

### KeyTable

The tables that do not keep all keys are filled while they are used: a search
reads rows until it meets its key and enters them, an iteration enters what it
passes, and `size = n_records` ends all reading. The model has the entries in the
order in which they were made, the filter bits, the found flags, the cache with
its limit, and one open generator of the application. `OtherHandle` is a change
by another handle followed by what `load_keys` does to the table.

The arrays of the hash groups are one sequence; the record flags kept with a row
and `copy` are left out. `Mixed` says whether the application looks up keys that
its open iteration has not reached.

### Codec and Expiry

`Codec` has the arithmetic of `conv_ttl`, `pack_days`, `unpack_days`, the flags of
the three API versions, and `dumps` and `loads` of the formats J, S, M, L and U.
Days and fractions of days are counted in minutes, exactly; field widths and the
lengths of minute and day are constants, small enough in the runs for every field to
overflow; a minute lifetime on a day that is too large for its field falls through
to the layout of days, as in the code. `Expiry` follows one record through writes,
changes of its lifetime, reads that find it expired, the queue that the end of the
session works off after promotion, and `recycle`, with the row in the cache of each
handle, the row in the file, and each handle's own idea of the present (`io.now`,
set by `update_days`). Whoever opens the file has the present minute: `open` calls
`update_days` for write sessions only, but `load_keys`, with which a read session on
a changed file goes on, begins with it (`jdb_io.py:2577`), and so do `f_get_fp` and
`f_get_write_fp`. A read session on a file that has not changed keeps the minute it
had (`OpenRead`).

A session is one call of the API: it may write what it has found expired, as
`set(key, function)` does, and its queue is worked off at its end. `LongSessions`
says whether time passes while a session can write; `ValueCache` whether the handle
has a cache of values, with which a write of the value that is there already does
nothing (`Skipped`).

### Graph and GraphDb

`GraphDb` keeps the records of nodes and edges, and what is derived from them: the
adjacency record of each node and three counters. A call is what it tested and read
in its read session (`Wait`), and the writes after promotion (`Promoted`), each in
the code's order, so that it can be cut short between any two of them
(`Interrupted`, and `AddEdgesInterrupted` for a batch). Properties are functions
from names to values, and giving them to a record that exists is `{**old,
**properties}` (`Merge`) with the properties that were read before the promotion
(`c.old`). Batches and `reindex` are one step, since they hold the write lock.
`drift` is a history variable: it leaves 0 when a call finds that what it tested has
changed, when a key is deleted past the graph, or when a call is cut short, and is 0
again after `reindex`. Edges as sets of entries stand for the adjacency lists; their
order matters to `GraphAlgo` alone, which has lists.

### GraphAlgo, Query, QueryFind

Pure functions, translated with their loops, stacks and early returns, and compared
with definitions that do not look like them: relations, sets of walks, logical
formulas. `EdgeBetweenness` has the pass from pairs of nodes to edges, in the order of
the dictionary of pairs (`PairEdge`), and `EdgeFactor` the scale that `normalized`
applies. A value of the query language is a pair of type and content; a rule is
the sequence of its commands. `GraphAlgo` and `QueryRef` are recursive, so no
theorem is stated about them.

`Query` and `QueryFind` were also compared with the code itself: on 25,056 pairs of
a rule and a value or key, and 6,480 lists to sort or group, the model and the
Python functions gave the same answer; they differ where the code raises an
exception (`$neg` before `$size`, `$nhas` on a key), which the inputs leave out.

Not modelled: regular expressions and functions (the application says what they
match), `$sw`, `$ew`, `$ihas`, bytes and floating point numbers, globs, strings of
several characters, the parsing of `group_by`; of GraphDb, `pagerank`, import,
export, `boost_edge_weights`, `add_temporal_edge` and searches by property.

### NetServer

A client is one `JNetFiles` object with at most one open `JNetIO`; its request and
the reply are two messages, and it may go away before, between and after them. The
handler of its connection is a thread with its own copies of the backend, its file
object, and the count of locks it must give back at the end (`EndLocks`,
`EndFiles`). A blocking lock call waits in the handler. A backend is a `JMemFiles`
object with lock counters and KEY file; the registry of groups leads from a path
to a backend, and both clients and the server's own database add to it and unlink
from it. `conn[c].fresh` says that the group a client works on was not unlinked
since it was reached. `GroupStep` is one segment of `get_group_files`: the server's
live group, the cache (`files`), or the group table of the backend above.
`add_group` and `unlink_group` change the table first (`ServeGroup`) and the cache,
under another lock, after it (`ServeGroupFiles`); other handlers run in between. A
group is opened on the server itself (`ServerGroup`) in a session, so not while a
client has the root locked for writing.

Not modelled: VAL files, backups, authentication, timeouts, framing of messages.

## 3. Runs

| Run | Properties | Instance |
|---|---|---|
| `filelock_mem` | `TypeOK`, `MutualExclusion`, `SessionProtected`, `CountsSessions`, `NoLockLeft`, `AcquireReturns` | 2 handles, 3 threads, 3 calls each |
| `keystore` | `TypeOK`, `SpacePartitioned`, `MemoryMatches`, `IsDictionary` | 2 keys, 3 rows, 3 cells |
| `keystore_start` | `StartKept`, `VersionsGenuine` | 2 keys, 4 rows, 4 cells |
| `keysync_shared` | `TypeOK`, `TableCurrent`, `RowsReadCurrent` | 2 handles, 2 keys, 3 rows, 5 changes |
| `keysync_alone` | `TableCurrent` | 1 handle, 2 keys, 4 rows, 5 changes |
| `graph` | `TypeOK`, `IndexInStep`, `GraphKept` | 3 nodes, 4 edges of which 2 at a time, 1 fault |
| `server` | `TypeOK`, `LocksCounted`, `RemoteExclusion`, `OffsetInStep`, `WritesExclusive`, `HandlerEnds` | 2 clients, root and one group, 2 lock and 3 other requests |
| `server_nested` | `RemoteExclusion`, violated | 2 clients, groups two levels deep, 5 lock and 2 other requests |
| `expiry` | `TypeOK`, `RowSurvivesFile`, `ExpiresOnTime` | 2 handles, clock to 15, days of 4 seconds |
| `keytable` | `TypeOK`, `LookupsRight`, `TableAccurate` | 4 keys, 7 changes, no cache or a cache of 2 |
| `keytable_iterate` | `LookupsRight`, violated | the same with `Mixed` |
| `functions` | `GraphPaths`, `GraphStructure`, `QueryMatching`, `QueryResults`, `RowFormats` | 4 nodes and 7 edges, 2 commands around an atom, 3 rows, 4 entries |

`filelock_mem`: two handles, the first with two threads; reads, writes, promotions
and attempts. This is the smallest setting in which threads of one handle compete
with each other and with another process, a promotion meets a second reader, and a
blocked call has somebody behind it. A session contains promotions only (`Inside`),
because the run also checks liveness, and `can_lock` is called outside of sessions
only. Deadlock is not checked, since a thread stops after its last call.

`AcquireReturns`: every call of `acquire` returns. Fairness: a thread that is inside
`acquire` or `release` runs on, and a session is closed in the end, which `with`
blocks and `f_close` are for. Weak fairness on the blocking process level call says
that a lock that stays free is granted; a lock that is free again and again is not
assumed to be (the kernel gives no such guarantee), which is why the number of
calls is bounded.

`keystore`: two keys, values stored in their row or of one and two cells. Two keys
are enough for a record to be moved by the deletion of another one and for a parked
version to be in the way of a new record. The run has all operations, calls with
and without REVERT in one session, `min_safe`, the split of an extent, undo of a row
given by its number, and `read_row`, on three rows and three cells: the smallest
file in which a split leaves a rest beside another extent, and in which a record, a
SAFE version and a DEAD extent exist together. The keys are symmetric: no record
carries NO_REVERT, which acts on a call as leaving out REVERT does. More rows and
cells, and NO_REVERT, are left to the proofs of section 4.

`SpacePartitioned` is that no space belongs to two rows (`ExtentsDisjoint`) or to
none (`NoSpaceLost`); `MemoryMatches` that the key table (`KeyTableMatches`) and the
cache of free extents (`CacheFresh`) follow the rows; `IsDictionary` that the store
implements `Dictionary`: an operation changes what is read under the keys it names,
and under no other.

`keystore_start`: what undo relies on. The start value of a key is in place or
parked in the SAFE region until the session is closed, and versions that can be
found are genuine. A key deleted in the session is not added again in it
(`Again`): such an addition moves another key's parked version out of the SAFE
region. The run includes `read_row` and sessions opened within a session; four rows
and cells hold two records and two parked versions.

`keysync_shared`: two handles; every case of `LoadKeys` occurs, with changes
accumulated over several sessions of the other handle, and rows that `read_key`
keeps. `keysync_alone`: one handle, with `recycle`, nested sessions, flags and
update functions too; what these do to a second handle is shown by the
four `KeySync_*.cfg` below.
`Wrap` stands for 2^43 and is not reached.

`graph`: a call that waits for promotion while the calls of others, batches and
`reindex` run. Of the four edges two join the same pair of nodes, and both kinds
meet at every node; one fault (a raw delete or an
interrupted call) is enough for any drift, and `MaxDrifted = 0` has `reindex`
follow. `IndexInStep` says nothing while `drift` is above 0: an interrupted removal,
or a call whose test was outdated, leaves the index wrong until `reindex`, and
`GraphKept` says that `reindex` then gives back all nodes and all edges between
nodes. While `drift` is 0 the calls are those of a plain graph, with properties
merged name by name; the one exception, stated by `Overwrites`, is a record
to which another handle gave properties while the call waited, which
`GraphDb_merge.cfg` is about. Deadlock is not checked: the bound on drift stops the calls.

`server`: each client may take a lock, work on the file or on groups and go away.
Two lock requests make a client wait for the other, three other requests make a
group be added, unlinked and reached again, or an offset be moved twice.
`HandlerEnds` is under weak fairness of the handler (a thread that runs), of the
receipt of a reply (TCP delivers or the connection breaks), and of giving locks
and files back (`with` blocks): a client that waits for a lock is not promised it,
one that is gone does not keep its handler. `RemoteExclusion` is about clients that
reached the group since it was last unlinked (`fresh`): one that keeps working on an
unlinked group has the old backend. A lock given back twice shows in `LocksCounted`.
Deadlock is not checked: clients stop when the bounds are used up.

`expiry`: a minute of two seconds and a day of two minutes, and fields of one or two
bits, so that fifteen seconds hold several days and every field overflows. One
handle writes, the other is a `JDbReader`. Time does not pass while a session can
write (`LongSessions`), and values are not cached (`ValueCache`): `Expiry_long.cfg`
and `Expiry_cached.cfg` show what happens otherwise. The clock ends, so deadlock is not
checked.

`keytable`: four keys, two of which share a filter bit; seven changes by this
handle or another. Lookups during an iteration are of keys that it has passed.

`functions`: the inputs are the states: a graph grows by an edge, a condition by a
command around it, a list of rows or a database by an entry, a key row by being
written and read in another format and version. Seven edges on four nodes have
pairs joined by one and by two edges, cycles along directed edges, undirected edges
and both, and nodes that are not reached; lists are in both orders. Of
`topological_sort` the property is that an order it returns follows every directed
edge and that an exception has a cycle for its reason; of edge betweenness, that the
scores of directed edges are right in every graph, those of undirected edges in
graphs that have no others, and that normalised scores are at most 1. What the
documentation says beyond that is in `Functions_order.cfg` and `Functions_edges.cfg`. What a query
finds is stated of the input each step makes. Conditions are a command with up to two
commands around it, tried on fifteen values and two records. Fractions are scaled to
integers.

Each property is also run against a variant of one definition with a plausible
mistake in it, and is violated. These variants stand beside the definitions they
replace, each with the comment "Faulty variant of ...", and are not used otherwise.

### Where the code differs from its documentation

`keytable_iterate`: with a table that is not complete, a generator over the keys and
a lookup of a key that it has not reached enter the same rows twice,
`jdb_io.py:634`. `size` then equals `n_records` while rows are missing: keys that
are in the file are not found, and writing one adds a second record of that key.

`server_nested`: `unlink_group` by name takes the group out of the cache and leaves
the groups below it, `jdb_server.py:390`. A client that names such a group gets the
old backend; `add_group` on the group that was made anew makes another one and
replaces it in the cache; from then on two clients that name the same group have
its write lock at once and see different records. With all groups directly below
the root this cannot happen, which section 4 proves.

The configurations that follow are not among the runs of `PROJECT.json`. Each has one
property, which states what a text of the repository says, and TLC finds it violated
within a minute (`tlc -config FileLock_promote.cfg MCFileLock`, and so on):

`FileLock_promote.cfg`, `PromotionAtomic`: a promotion gives the read lock up before
it has the write lock, and another thread writes in between, `utils.py:1191`
(`acquire` docstring: without allowing other threads to sneak in).
`KeySync_function.cfg`, `KeySync_nested.cfg`, `GraphDb_merge.cfg` and
`Expiry_dropped.cfg` are about callers that rely on what they read before.

`FileLock_inside.cfg`, `MutualExclusion`: `can_lock` in a read session gives the
session's lock back, and a writer enters beside a reader, `utils.py:1112` (FileLock
docstring: all readers are excluded).

`KeySync_flags.cfg`, `ReadOnlyRefused`: flags set by another handle are not seen,
since no row moves, and a READ_ONLY record is overwritten, `jdb.py:4793`
(README.rst: writes are refused).

`KeySync_function.cfg`, `FunctionAtomic`: `set(key, function)` loses updates between handles,
`jdb.py:2887` (README.rst: atomic operations).

`KeySync_nested.cfg`, `TableCurrent`: a nested write session does not look at the file after the
promotion, works from a stale table and undoes another handle's write,
`jdb_lite.py:2093` (`open` docstring: thread-safe).

`KeySync_recycle.cfg`, `TableCurrent`: a file as large as remembered is not opened,
though `recycle` has cut it and rows were added again, `jdb_lite.py:2110` (`f_open`
docstring: reloaded if out of date).

`GraphDb_merge.cfg`, `MergesKept`: `add_node` and `add_edge` write the properties
that they have read before the promotion back, over those that another handle has
stored since, `jdb_graph.py:2558` (docstring: merged over the stored properties).

`Expiry_dropped.cfg`, `DropsOnlyExpired`: a record that the session sets after it
has found it expired, or that another handle renews while the session waits for its
promotion, is dropped at the end of the session, `jdb_lite.py:1872` (README.rst: a
TTL never expires early).

`Expiry_long.cfg`, `NeverExpiresEarly`: a record written late in a long session is
stamped with the session's start and expires early, `jdb_io.py:2074` (README.rst as
above).

`Expiry_cached.cfg`, `NeverExpiresEarly`: with a cache of values, a write of the
value that is cached neither renews the record nor stores its lifetime,
`jdb.py:4797` (README.rst: an ordinary write renews it).

`Functions_order.cfg`, `OrderRaises`: for a cycle of directed and undirected edges
`topological_sort` may return an order, `jdb_graph.py:1006` (docstring: raises if
there is a cycle).

`Functions_edges.cfg`, `EdgeScores`: beside directed edges the score of an
undirected edge is that of one of its two directions, and which one depends on the
order of the nodes, `jdb_graph.py:2035` (docstring: the sum over all node pairs).

With `Inside` of read and write and `MaxDepth = 3`, `FileLock` also shows that a write
session inside two read sessions waits for its own thread, `utils.py:1190`. This
and the findings on expiry, merging, edge scores and orders were also seen when the
code was run.

Seen by running or by reading the code, while it was modelled:

- `open` holds the handle's lock while it waits for the
  file lock, which `f_close` of another thread needs, `jdb_lite.py:2056`;
- `revert` brings back the version that is found first, `jdb.py:5490` (docstring:
  the most recent one); `f_unwrite` misses versions in rows added in this session;
- `has` answers from memory, `jdb_lite.py:3079` (`has_` docstring: `has` is up to
  date);
- after `clear` (`jdb.py:1786`), or a `recycle` that leaves nothing (`jdb.py:1550`),
  a value set in the same write session is written to a file that is gone;
- `conv_ttl` raises for lifetimes between 23:59:00 and a day, `jdb_codec.py:703`;
- `all_shortest_paths` recurses without end
  on an undirected edge of weight 0 and gives a path twice when a directed edge is
  beside an undirected one, `jdb_graph.py:2043`; `density` may be above 1;
- the server gives locks back before it closes the files of a connection,
  `jdb_server.py:531`;
- a transformation at the end of a path with a wildcard is applied twice,
  `jdb_query.py:2288`; `$and` of no rules is False; `{'$len': 3}` on a key is
  compared as text, `jdb_query.py:1315`; `find` with conditions built with `&` for
  both keys and values drops one of them, `jdb_lite.py:3654`, and takes `_id` and
  `_date` out of the caller's dictionary, `jdb_lite.py:3658`; a group is cut to the
  limit before its records are skipped, `jdb_lite.py:3833`.

## 4. Proofs

What the passing runs of section 3 check on small instances is proved here for all values of the
constants: any number of threads, handles, clients, keys, nodes and requests, any
sizes, flags and bounds. The properties of the two sections are the same
definitions.

| Theorem | Property | Assumes |
|---|---|---|
| `FileLockProofs!TypeCorrect` | `TypeOK` | - |
| `FileLockProofs!Exclusion`, `Protection`, `Counted`, `NothingLeft` | `MutualExclusion`, `SessionProtected`, `CountsSessions`, `NoLockLeft` | `CanLockIdle` |
| `KeyStoreProofs!TypesKept`, `SpaceKept`, `MemoryKept` | `TypeOK`, `SpacePartitioned`, `MemoryMatches` | - |
| `KeyStoreProofs!StoreIsDictionary` | `IsDictionary` | - |
| `KeyStoreUndoProofs!VersionsAreGenuine` | `VersionsGenuine` | - |
| `KeyStoreUndoProofs!StartIsKept` | `StartKept` | `RevertOnly` |
| `KeySyncProofs!TypesKept`, `TablesRight`, `RowsRight` | `TypeOK`, `TableCurrent`, `RowsReadCurrent` | `PlainOps` |
| `KeySyncProofs!TableRightAlone` | `TableCurrent` | `OneHandle` |
| `GraphDbProofs!TypesKept`, `IndexRight` | `TypeOK`, `IndexInStep` | - |
| `GraphDbProofs!GraphIsKept` | `GraphKept` | - |
| `NetServerProofs!TypesKept`, `LocksAreCounted`, `OffsetsAgree` | `TypeOK`, `LocksCounted`, `OffsetInStep` | - |
| `NetServerProofs!WritesAreExclusive` | `WritesExclusive` | `~Buffered` |
| `NetServerProofs!ClientsExclude` | `RemoteExclusion` | `OneLevel` |
| `KeyTableProofs!TypeCorrect`, `LookupsAsInFile`, `TableAsFile` | `TypeOK`, `LookupsRight`, `TableAccurate` | `~Mixed` |
| `ExpiryProofs!TypesKept` | `TypeOK` | - |
| `ExpiryProofs!RowsReturn` | (every row, format and version) | row fits its fields (`GoodRow`) |
| `ExpiryProofs!RowsSurvive` | `RowSurvivesFile` | `FieldsFit` |
| `ExpiryProofs!ExpiresRight` | `ExpiresOnTime` | `FieldsFit`, `~LongSessions`, `~ValueCache` |

Besides these the theorems use the named assumptions about the constants in each
module. Every proof has one lemma per action, and an invariant that is stronger
than the properties it gives.

**FileLock.** `CanLockIdle`: `can_lock` is not called inside a session (section 3
says what happens otherwise). Mutual exclusion is not inductive: that a writer is
alone follows from the process level lock only if that lock is what the thread
level believes it to be. For the threads of one instance the invariant says, by
mode, which of them may have a count, who holds `_lock`, and that at most one of
them is at the process level, where nobody else of the instance has a count. For
the process level it says that each instance holds exactly what its mode and its
granted threads call for: on disk the descriptor's flock, in memory the writer's
identity and the number of instances that share, which is a cardinality; `RlockMatch`,
`WlockMatch` and `UnlockMatch` show that each call of the backend keeps this
agreement, `UnlockMatch` only for an instance that holds a lock. `NothingLeft`
follows: with no session open no mode can be other than free, and so no process
level lock is called for. The theorems hold for both backends and for sessions
nested to any depth; the run has the memory backend and sessions nested by
promotion.

**KeyStore.** Each operation moves rows in a cycle, one row taking the extent of
another: `Turned`. That it is a permutation (`FromPermutes`) gives at once that the
extents still divide the space (`Divides`); handing out, splitting and freeing of
space is shown apart from that. `MemoryMatches` has to be strengthened: a key
without a record has no row number below the number of *rows*, or a record added
later would be taken for it (`InvKeys`). For the refinement the invariant also says
that every row with a key, live or parked, holds a whole value (`InvWhole`), because
undo makes parked rows live. `Keeps(K)` says of a step that no row of a key outside
of K changes what it decodes to; from it follow the steps of `Dictionary`, one
lemma per operation. The initial state of the store is that of the dictionary, and
every step is one of the dictionary or leaves it unchanged.

**KeyStoreUndo.** That a version is genuine is inductive together with the fact that
the present values are. That the start of the session is kept is proved for
sessions whose calls all carry REVERT (`RevertOnly`): while a key is not in
`chg_keys` it may be kept as the present value, after that it must be parked in the
SAFE region (`Shielded`), and the region must cover the row that `f_delete` frees.
Each call that is excluded really gives the start away: `f_append` writes without
REVERT, `f_unwrite` by row exchanges a version with one that may be parked outside
of the region, `f_rename` gives the row to another key, and adding a key again
that was deleted in the session is the hazard at `jdb.py:5349`.

**KeySync.** `PlainOps`: neither `recycle` nor write sessions nested in read
sessions, with which the properties do not hold for two handles (section 3). The
hard part is what a handle still knows of a file that others have changed since
it last looked. `Knows` says it by the counters: if nothing was deleted, added
elsewhere or renamed, the rows up to the first one that a deletion reached are as
the table has them; if deletions were all that happened, the records changed
places along chains that `LoadKeys` can follow (`Permuted`). Every operation of
the writer is shown to keep `Knows` for every other handle, and each case of
`load_keys` to make the table right from it. `is_updated` looks at the size of
the file, which is enough because each session with a change leaves the file larger
than any handle has seen it (`SizeKnown`).

With one handle (`OneHandle`) all operations are covered: `recycle`, which may make
the file smaller and start its counters again, and nested write sessions, which do
not look at the file. What the others know does not matter, and `AloneInv` replaces
`Knows`: the handle remembers the header that is in the file, and, except in a write
session that has changed something, its counters and the size too (`Settled`), so
that every look at the file finds it unchanged. About flags and update functions
nothing is proved: what could go wrong there needs a second handle, with which it
does (`KeySync_flags.cfg`, `KeySync_function.cfg`).

**KeyTable.** `~Mixed`: during an iteration only keys that it has yielded are looked
up; `keytable_iterate` shows what happens otherwise. `TableInv` says what the table
has to do with the file, seen as a set of pairs of key and row: its entries are some
of these pairs, no key twice; the cache is some of the entries and within its limit;
the filter has the bit of every entry; and for a row *of the file* the found flag is
set exactly if the row is entered. The last part is what makes `size = n_records` a
proof of completeness (`CompleteIs`): entries that are as many as the pairs, and
among them, are all of them. It is stated for rows of the file only, because flags
of rows that are not there are left behind when a record is deleted or the file
gets shorter; that is harmless only since a row that comes back is first entered by
`set`, which does not look at the flag. An iteration that started on an
empty table ignores the flags, so the invariant also says that it has entered
nothing behind its row, and that the rows it has passed are entered. Each method is
shown to fit the table to the pairs after the change (`GetFits`, `PutFits`,
`RestFits`, `PopSearched`), and each operation of the handle to call them in an order
in which this is possible: while `f_delete` runs, the table fits the pairs without
the deleted key, which are those of no file yet. What a loop over rows computes is
proved by the least row at which it would be wrong (`IndexedFits`), and so is the
loop of `sorted_key_table_items`: `SortedUpTo` says which rows it has yielded and
which wait, from whatever order the entries are in.

**GraphDb.** The adjacency of each node holds exactly the entries of the edges
(`Aligned`), the counters are the cardinalities, and edges have both their nodes:
this is inductive as long as `drift` is 0. A call reads before promotion and writes
after it; `remove_node` decides from a view of the node and its neighbours that may
be old by then. If the view is still right its plan is exactly the edges of the node
and the other adjacencies without it (`PlanRight`), whichever neighbours were
written early, although it looks at adjacencies only; if not, `drift` is set. The
refinement is of `Graph` while the index is in step, and of `reindex` from any drift.
For properties it says that a promoted call merges what it was given over what is
stored, unless another handle has changed the properties of that record while it
waited, in which case it does nothing but write over them; it does not say that they
are kept, which `GraphDb_merge.cfg` shows to be false.

**NetServer.** The invariant `NetInv` is the protocol between client and handler: a
request that is under way has the lock that it needs (`RequestRight`); what the
client will believe when the reply is in is what the server counted (`ClientRight`,
`WillBelieve`); the offset it will then keep is the position of the file object
(`OffsetRight`); a handler that ends has nobody behind it (`HandlerRight`). For a
backend it says that the counters are those of the connections that hold a lock,
and that a writer is the only one (`LocksRight`), which is why the unlock
of `JMemFiles`, which does not know who calls, takes off the right lock. Reads, seeks,
cuts and writes of the file object are shown to answer what the client computes
from (`Works`). `WritesExclusive` is proved for backends that write through
(`JMemFiles`): a file object that buffers may write when it is closed, after
the lock was given back (`jdb_server.py:531`).

`RemoteExclusion` needs, in addition, that two clients of one path have one
backend. `GroupInv` says that the server's live groups, the cache and the group
table of the root lead to the same backend, but for a group that some handler is
unlinking, which is between the table and the cache and has the root locked for
writing, so that nobody adds the group again meanwhile. It is an invariant for
groups of one level (`OneLevel`), and `server_nested` shows that for two it is not.

**Codec and Expiry.** The day field of a row is one integer with up to five fields
in it, and which fields they are depends on the lifetime. The provers have no facts
about powers of two with a variable exponent; `PowerSum`, that 2^(a+b) is the
product, is proved by counting subsets. From it follows that what is put into a
field does not reach another one (`ThreeFields`), and, for each of the three layouts
and the difference that overflows into the day, that loads takes out what dumps put
in (`DaysReturn`), with the flags above the field in versions 0 and 1, and with a key
that contains commas in format L (`FieldsReturn`). `RowsReturn` is the result:
`loads(dumps(row))` is the row (`AsRead`), but for a creation day that is too far
back. `FieldsFit` says that the days up to the end of the clock fit in the 22 bits
they have in the code, which they do for eleven thousand years, and that sizes and
lifetimes have two bits or more.

`write_key` makes only such rows (`WriteKeyGood`), so the cached row and the row in
the file are the same through any sequence of calls (`RowInv`). That a record expires
on time is not inductive: a change of its lifetime counts from a stamp that an
earlier call has rounded. `Timely` says what stamp and lifetime stand for: the stamp
is the minute or the day in which the modification was (`Since`), the lifetime is
what was asked for, rounded up by less than a unit (`Rounds`), and a handle that
writes sees the present minute. Changing the unit keeps this, because a stamp that
goes from minutes to days is rounded down, and one that goes from days to minutes
stands for the beginning of its day. `NotEarly` and `NotLate` then bound both ends
of the lifetime, in whole minutes or days. The hypotheses are those of the
run, and each is needed: `Expiry_long.cfg` and `Expiry_cached.cfg` show what
the code does without it.

Only model-checked:

- liveness (`AcquireReturns`, `HandlerEnds`), which is out of the prover's reach;
- `GraphAlgo`, `Query`, `QueryFind` and their reference definitions: recursive
  functions of data, which no theorem can be stated about. `RowFormats` of the run
  `functions` is what `RowsReturn` says for one width of each field.

## 5. Not modelled

- The handle's own lock around FileLock, and `INT_Handler`: both can deadlock in
  the code as it is (hazards at `jdb_lite.py:2056` and `utils.py:881`).
- Crashes and exceptions between the writes of rows and of the header: there is no
  log, and no text says what is left; `check_error` repairs what it can.
- `resize_keys`, `clear`, `clone`, import and export, and the part of `recycle` that
  merges extents and moves values.
- Links, and groups other than in the server's registry and in paging.
- Value codecs, compression and encryption (third-party code), dataclass mapping
  (reflection), the command line, and what section 2 names for each module.

## 6. Plan

1. *Done*: FileLock with proofs; KeyStore with its refinement of Dictionary;
   KeySync; KeyTable; Codec and Expiry; GraphDb with its refinement of Graph; the
   algorithms and the query language against their definitions; the server.
2. *Done*: proofs about FileLock, KeyStore with its refinement, KeyStoreUndo,
   KeySync, KeyTable, GraphDb with its refinement, the server, Codec and Expiry.
   Every safety property of a state machine that a passing run checks is stated by
   a theorem.
3. The handle's lock around FileLock, and INT_Handler; `recycle` and `resize_keys`
   with overlapping rows; links.
