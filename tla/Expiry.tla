------------------------------- MODULE Expiry -------------------------------
(***************************************************************************)
(* The life of one record with a lifetime: written, rewritten, given       *)
(* another lifetime, read, found expired, queued and dropped when the      *)
(* session that found it ends (f_read, f_write, f_write_key_flags,         *)
(* f_drop_expired, recycle), by handles that share the KEY file.  The row  *)
(* goes through the codec: a handle tests the row it has cached or the row *)
(* it decodes from the file.                                               *)
(*                                                                         *)
(* The lock is what FileLock provides: many readers or one writer; a read  *)
(* session that has to write gives its lock up and waits for the write     *)
(* lock.  That the handle's key table is in step is KeySync's subject.     *)
(***************************************************************************)
EXTENDS Codec

CONSTANTS Handles,         \* the handles that have the database open
          Readers,         \* those that are a JDbReader, which cannot delete
          Format,          \* the row format, J, S, M, L or U
          Versions,        \* the API versions a database may have
          Lifetimes,       \* the lifetimes asked for, in seconds; negative keeps
          LongSessions,    \* whether time passes while a session can write
          ValueCache,      \* whether the handles have a value cache (cache_limit)
          MaxClock         \* bound: the last second of the clock

ASSUME ExpiryAssumption == /\ Readers \subseteq Handles
                           /\ Format \in {"J", "S", "M", "L", "U"}
                           /\ Versions \subseteq 0..2
                           /\ Lifetimes \subseteq Int
                           /\ LongSessions \in BOOLEAN /\ ValueCache \in BOOLEAN
                           /\ MaxClock \in Nat

VARIABLES
    clock,      \* the local time in seconds
    ver,        \* the API version of the file
    file,       \* the record's row in the KEY file, or <<>>
    rows,       \* rows[h]: the row h has in _KEY_rows, or NoRow; a row of a
                \* table h has to load again is never read, and is not kept
    seen,       \* seen[h]: h has loaded the table as the file has it
    now,        \* now[h]: the minute of h's last update_days (io.now, io.days);
                \* 0 while the KEY file is closed, when nobody reads it
    mode,       \* mode[h]: none, read, write, or switch while it waits to write
    opened,     \* opened[h]: the session has the KEY file open (fp_dict[-1])
    expired,    \* expired[h]: the session has queued the record as expired
    life        \* what the caller asked: last modified at .mod for .secs seconds

vars == <<clock, ver, file, rows, seen, now, mode, opened, expired, life>>

NoRow == [key |-> <<>>]
Key == <<"k">>
Present == file # <<>>
Minute == clock \div MIN_SEC

\* read_key: the row from the cache, or decoded from the file.
Row(h) == IF rows[h] # NoRow THEN rows[h] ELSE LoadsRow(Format, ver, file)

Init == /\ clock = 0
        /\ ver \in Versions
        /\ file = <<>>
        /\ rows = [h \in Handles |-> NoRow]
        /\ seen = [h \in Handles |-> TRUE]
        /\ now = [h \in Handles |-> 0]
        /\ mode = [h \in Handles |-> "none"]
        /\ opened = [h \in Handles |-> FALSE]
        /\ expired = [h \in Handles |-> FALSE]
        /\ life = [mod |-> 0, secs |-> 0]

-----------------------------------------------------------------------------
(* Sessions.                                                               *)

\* read_header and load_keys: the KEY file is opened, and what h knows of it is
\* given up when the header has changed.  load_keys begins with update_days
\* (jdb_io.py:2577), so a read session that loads has the minute of the clock
\* although open does not call update_days itself.
Refresh(h) == /\ now' = [now EXCEPT ![h] = Minute]
              /\ seen' = [seen EXCEPT ![h] = TRUE]
              /\ opened' = [opened EXCEPT ![h] = TRUE]

MayRead(h) == \A o \in Handles \ {h} : mode[o] # "write"

\* Faulty variant of MayWrite: readers do not keep a writer out.
MayWriteAmongReaders(h) == \A o \in Handles \ {h} : mode[o] # "write"

MayWrite(h) == \A o \in Handles \ {h} : mode[o] \in {"none", "switch"}

\* open(read_only=True): the file is left closed unless its size has changed.
OpenRead(h) ==
    /\ mode[h] = "none" /\ MayRead(h)
    /\ mode' = [mode EXCEPT ![h] = "read"]
    /\ \/ UNCHANGED <<seen, now, opened>>
       \/ ~seen[h] /\ Refresh(h)
    /\ UNCHANGED <<clock, ver, file, rows, expired, life>>

\* open(read_only=False).
OpenWrite(h) ==
    /\ mode[h] = "none" /\ MayWrite(h) /\ h \notin Readers
    /\ mode' = [mode EXCEPT ![h] = "write"]
    /\ Refresh(h)
    /\ UNCHANGED <<clock, ver, file, rows, expired, life>>

\* f_delete of the record: the header changes, and every other handle's
\* table is behind.
Deleted(h) == /\ file' = <<>>
              /\ life' = [mod |-> 0, secs |-> 0]
              /\ rows' = [o \in Handles |-> NoRow]
              /\ seen' = [o \in Handles |-> o = h]

EndSession(h) == /\ mode' = [mode EXCEPT ![h] = "none"]
                 /\ opened' = [opened EXCEPT ![h] = FALSE]
                 /\ now' = [now EXCEPT ![h] = 0]
                 /\ expired' = [expired EXCEPT ![h] = FALSE]

\* The end of open and f_close with nothing to drop.
Close(h) == /\ mode[h] \in {"read", "write"}
            /\ expired[h] => h \in Readers
            /\ EndSession(h)
            /\ UNCHANGED <<clock, ver, file, rows, seen, life>>

\* f_drop_expired in a session that holds a read lock: f_get_write_fp gives it
\* up for the write lock.
Switch(h) == /\ mode[h] = "read" /\ expired[h] /\ h \notin Readers
             /\ mode' = [mode EXCEPT ![h] = "switch"]
             /\ opened' = [opened EXCEPT ![h] = FALSE]
             /\ now' = [now EXCEPT ![h] = 0]
             /\ UNCHANGED <<clock, ver, file, rows, seen, expired, life>>

\* f_drop_expired holds the write lock, or gets it when nobody is in the way.
HasLock(h) == mode[h] = "write" \/ (mode[h] = "switch" /\ MayWrite(h))

\* f_drop_expired and the end of the session: the key is looked up again and
\* what it has now is deleted.
DropExpired(h) ==
    /\ expired[h] /\ h \notin Readers
    /\ HasLock(h)
    /\ EndSession(h)
    /\ IF Present THEN Deleted(h)
       ELSE seen' = [seen EXCEPT ![h] = TRUE] /\ UNCHANGED <<file, rows, life>>
    /\ UNCHANGED <<clock, ver>>

-----------------------------------------------------------------------------
(* Operations of a session.                                                *)

\* io.live_now, which only the test of a sub-day lifetime reads.
LiveNow(h, row) == IF SubDay(row.ttl) THEN Minute ELSE now[h]

\* f_read: an expired record is queued and reads as missing.
Read(h) ==
    /\ mode[h] \in {"read", "write"} /\ Present
    /\ LET known == IF opened[h] THEN now[h] ELSE Minute
           row == Row(h)
       IN /\ now' = [now EXCEPT ![h] = IF SubDay(row.ttl) THEN Minute ELSE known]
          /\ expired' = [expired EXCEPT ![h] = @ \/ Expired(row, Day(known), Minute)]
          /\ rows' = [rows EXCEPT ![h] = row]
    /\ seen' = [seen EXCEPT ![h] = TRUE]
    /\ opened' = [opened EXCEPT ![h] = TRUE]
    /\ UNCHANGED <<clock, ver, file, mode, life>>

\* write_key of the record: the row is cached and dumped, and every other
\* handle's table is behind.
Store(h, row) == /\ Storable(row)
                 /\ file' = Dumps(Format, ver, row)
                 /\ rows' = [o \in Handles |-> IF o = h THEN row ELSE NoRow]
                 /\ seen' = [o \in Handles |-> o = h]

CapSecs(secs) == Least(secs, MAX_TTL_DAYS * DAY_SEC)

\* The stamp f_write gives a record that exists: the live minute when its
\* lifetime is counted in minutes, the day otherwise.
NewStamp(h, old, ttl) == IF SubDay(ttl) THEN Minute ELSE Minutes(Day(now[h]))

\* _cache, which every load clears, has the value that h read or wrote last; a
\* read that finds the record expired takes it out.
HoldsValue(h) == ValueCache /\ rows[h] # NoRow /\ ~expired[h]

\* f_write is given the value that _cache has: it returns before it looks at
\* the lifetime or the stamp.
Skipped(h) == HoldsValue(h) /\ UNCHANGED <<file, rows, seen, now>>

\* f_write of a record that exists; keep is NO_ATIME, which leaves the stamp.
\* life is what the caller asks for, stored or not.
Update(h, secs, keep) ==
    /\ mode[h] = "write" /\ Present
    /\ LET old == Row(h)
           asked == ConvTtl(secs)
           ttl == IF asked.mins < 0 THEN old.ttl ELSE asked
           mdays == IF keep THEN old.mdays ELSE NewStamp(h, old, ttl)
       IN /\ \/ /\ Store(h, WriteKey(Key, old.file, old.row_size, old.val_size,
                                  old.cdays, mdays, ttl, old.flags, now[h]))
                /\ now' = [now EXCEPT ![h] = IF SubDay(ttl) /\ ~keep THEN Minute ELSE @]
             \/ Skipped(h)
          /\ life' = [mod |-> IF ~keep THEN clock
                              ELSE IF SubDay(ttl) /\ ~SubDay(old.ttl)
                                   THEN (life.mod \div DAY_SEC) * DAY_SEC ELSE life.mod,
                      secs |-> IF secs < 0 THEN life.secs ELSE CapSecs(secs)]
    /\ UNCHANGED <<clock, ver, mode, opened, expired>>

\* f_write and f_append of a record that does not exist: write_key takes the
\* day or the minute of the handle's last update_days.
Insert(h, secs, flags) ==
    /\ mode[h] = "write" /\ ~Present
    /\ LET asked == ConvTtl(secs)
       IN Store(h, WriteKey(Key, 0, 2, 1, -1, -1,
                            IF asked.mins < 0 THEN NoTtl ELSE asked, flags, now[h]))
    /\ life' = [mod |-> clock, secs |-> IF secs < 0 THEN 0 ELSE CapSecs(secs)]
    /\ UNCHANGED <<clock, ver, now, mode, opened, expired>>

\* f_write_key_flags with a lifetime: it counts from the stamp the record has,
\* which is a day unless the lifetime before was in minutes.
SetLifetime(h, secs) ==
    /\ mode[h] = "write" /\ Present
    /\ LET old == Row(h)
           asked == ConvTtl(secs)
           ttl == IF asked.mins < 0 THEN NoTtl ELSE asked
       IN /\ ttl # old.ttl
          /\ Store(h, WriteKey(Key, old.file, old.row_size, old.val_size,
                               old.cdays, old.mdays, ttl, old.flags, now[h]))
          /\ life' = [mod |-> IF SubDay(ttl) /\ ~SubDay(old.ttl)
                              THEN (life.mod \div DAY_SEC) * DAY_SEC ELSE life.mod,
                      secs |-> IF secs < 0 THEN 0 ELSE CapSecs(secs)]
    /\ UNCHANGED <<clock, ver, now, mode, opened, expired>>

\* f_delete by the caller.
Delete(h) == /\ mode[h] = "write" /\ Present
             /\ Deleted(h)
             /\ UNCHANGED <<clock, ver, now, mode, opened, expired>>

\* recycle drops the records it finds expired.
Recycle(h) == /\ mode[h] = "write" /\ Present
              /\ Expired(Row(h), Day(now[h]), Minute)
              /\ Deleted(h)
              /\ now' = [now EXCEPT ![h] = LiveNow(h, Row(h))]
              /\ UNCHANGED <<clock, ver, mode, opened, expired>>

\* _KEY_rows is at its limit and the row is the oldest.
Evict(h) == /\ rows[h] # NoRow
            /\ rows' = [rows EXCEPT ![h] = NoRow]
            /\ UNCHANGED <<clock, ver, file, seen, now, mode, opened, expired, life>>

Tick == /\ clock < MaxClock
        /\ LongSessions \/ \A h \in Handles : mode[h] # "write"
        /\ clock' = clock + 1
        /\ UNCHANGED <<ver, file, rows, seen, now, mode, opened, expired, life>>

Next == \/ Tick
        \/ \E h \in Handles :
              \/ OpenRead(h) \/ OpenWrite(h) \/ Close(h) \/ Switch(h) \/ DropExpired(h)
              \/ Read(h) \/ Delete(h) \/ Recycle(h) \/ Evict(h)
              \/ \E secs \in Lifetimes :
                    \/ \E keep \in BOOLEAN : Update(h, secs, keep)
                    \/ \E flags \in {0, KF_HIDDEN + KF_UNLOCK} : Insert(h, secs, flags)
                    \/ SetLifetime(h, secs)

Spec == Init /\ [][Next]_vars

-----------------------------------------------------------------------------
(* Properties.                                                             *)

\* Type invariant: a handle that writes is alone, but for those that wait.
TypeOK == /\ clock \in 0..MaxClock
          /\ ver \in Versions
          /\ seen \in [Handles -> BOOLEAN]
          /\ now \in [Handles -> 0..MaxClock]
          /\ mode \in [Handles -> {"none", "read", "write", "switch"}]
          /\ opened \in [Handles -> BOOLEAN]
          /\ expired \in [Handles -> BOOLEAN]
          /\ life \in [mod : 0..MaxClock, secs : Nat]
          /\ \A h, o \in Handles : (mode[h] = "write" /\ o # h) => mode[o] \in {"none", "switch"}

\* What write_key cached and what a loads of the file gives are one row: the
\* stamp, the lifetime, the sizes and the flags, and the creation day unless it
\* is so far back that the field of the difference cannot hold it, in which
\* case it is the day of the stamp.
RowSurvivesFile ==
    \A h \in Handles :
        (Present /\ rows[h] # NoRow) =>
            LET kept == LoadsRow(Format, ver, file)
            IN /\ rows[h] = [kept EXCEPT !.cdays = rows[h].cdays]
               /\ kept.cdays \in {rows[h].cdays, Day(rows[h].mdays)}

HasLifetime == Present /\ life.secs > 0
Due == life.mod + life.secs

\* A session reads a record as expired, and recycle drops it, only when all of
\* the lifetime asked for has passed since the record was last modified,
\* whatever was rounded on the way and whichever handle wrote it.
NeverExpiresEarly ==
    \A h \in Handles :
        (opened[h] /\ Present /\ seen[h] /\ Expired(Row(h), Day(now[h]), Minute))
            => (HasLifetime /\ clock > Due)

\* A session whose day is current reads the record as expired once the lifetime
\* is over by two units: a lifetime is rounded up by less than a unit and the
\* stamp down by less than one.
ExpiresInTime ==
    \A h \in Handles :
        LET unit == IF life.secs < DAY_SEC THEN MIN_SEC ELSE DAY_SEC
        IN (opened[h] /\ HasLifetime /\ seen[h] /\ now[h] = Minute
              /\ clock >= Due + 2 * unit)
                => Expired(Row(h), Day(now[h]), Minute)

\* A record expires when its lifetime is over: not before, and not much later.
ExpiresOnTime == NeverExpiresEarly /\ ExpiresInTime

\* A TTL never expires early, and an ordinary write renews it: what a session
\* drops at its end, and what recycle drops, is a record whose lifetime is over,
\* not what has been written in its place since it was found expired.  The code
\* breaks it: f_drop_expired deletes whatever the key has by then.
DropsOnlyExpired ==
    [][(Present /\ \E h \in Handles : DropExpired(h) \/ Recycle(h))
          => (HasLifetime /\ clock > Due)]_vars

=============================================================================
