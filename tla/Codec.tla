------------------------------- MODULE Codec -------------------------------
(***************************************************************************)
(* The KEY row codec of jdb_codec.py: how a lifetime is normalised         *)
(* (conv_ttl), how the creation day, the modification stamp and the        *)
(* lifetime share one integer (pack_days, unpack_days and the same code in *)
(* every dumps/loads), where the flags go in the three API versions, and   *)
(* what the five row formats accept.                                       *)
(*                                                                         *)
(* The code counts stamps and lifetimes in days, as an int or as a float   *)
(* whose fraction is a minute of the day.  Here both are counted in        *)
(* minutes, so that arithmetic is exact: a stamp m is the day              *)
(* m \div MIN_OF_DAY and the minute m % MIN_OF_DAY of it.  A lifetime is   *)
(* [mins, int]; int is FALSE for the code's float.  The field widths and   *)
(* the lengths of the minute and of the day are parameters.                *)
(***************************************************************************)
EXTENDS Integers, Sequences

CONSTANTS MIN_SEC,         \* seconds in a minute
          MIN_OF_DAY,      \* minutes in a day
          SubDayBits,      \* width of SUB_DAY_MASK: 22 in the code
          SubDeltaBits,    \* width of SUB_DELTA_MASK: 3
          ExpDeltaBits,    \* width of EXP_DELTA_MASK: 13
          TtlBits,         \* width of TTL_MASK: 9
          MinBits,         \* width of MIN_MASK: 11
          TtlMinBits,      \* width of TTL_MIN_MASK: 11
          SizeBits         \* width of a size in a v0 row: 32

\* The two tests jdb_codec.py makes when it is imported, and that a minute of
\* the day and a whole day of minutes fit in their fields.
ASSUME CodecAssumption ==
    /\ {MIN_SEC, MIN_OF_DAY, SubDayBits, SubDeltaBits, ExpDeltaBits,
        TtlBits, MinBits, TtlMinBits, SizeBits} \subseteq Nat \ {0}
    /\ ExpDeltaBits + TtlBits = MinBits + TtlMinBits
    /\ MIN_OF_DAY <= 2^MinBits
    /\ MIN_OF_DAY < 2^TtlMinBits

DAY_SEC == MIN_OF_DAY * MIN_SEC
SubDayShift == SubDayBits                              \* SUB_DAY_BIT
SubDeltaShift == SubDayBits + 1                        \* SUB_DELTA_SHIFT
OldDayBits == SubDayBits + 1 + SubDeltaBits            \* OLD_DAY_MASK, NEW_DAY_SHIFT
NewDayBits == ExpDeltaBits + TtlBits                   \* NEW_DAY_MASK
TtlShift == OldDayBits + ExpDeltaBits                  \* TTL_SHIFT
TtlMinShift == OldDayBits + MinBits                    \* TTL_MIN_SHIFT
FlagShift == OldDayBits + NewDayBits                   \* KEY_FLAG_SHIFT
MAX_TTL_DAYS == 2^TtlBits - 1
MAX_EXP_DELTA == 2^ExpDeltaBits - 1
MAX_SUB_DELTA == 2^SubDeltaBits - 1
MAX_TTL_MINS == 2^TtlMinBits - 1

\* Three of the stored flags stand for all of them: two the row code derives
\* and one the caller sets; the fourth value is a bit outside KEY_FLAG_MASK.
KF_GROUP == 1
KF_EXPIRE == 2
KF_HIDDEN == 4
KF_UNLOCK == 8
FlagBits == 3
GroupFile == 16                                        \* file_id 0x10
Has(flags, bit) == (flags \div bit) % 2 = 1
With(flags, bit) == IF Has(flags, bit) THEN flags ELSE flags + bit
Without(flags, bit) == IF Has(flags, bit) THEN flags - bit ELSE flags

Least(a, b) == IF a < b THEN a ELSE b
Most(a, b) == IF a < b THEN b ELSE a
Ceil(a, b) == (a + b - 1) \div b

\* (x << lo) & mask and (x & mask) >> lo for a mask of n bits.
Put(x, lo, n) == (x % 2^n) * 2^lo
Take(x, lo, n) == (x \div 2^lo) % 2^n

Day(m) == m \div MIN_OF_DAY
Minutes(d) == d * MIN_OF_DAY

NoTtl == [mins |-> 0, int |-> TRUE]
KeepTtl == [mins |-> -1, int |-> TRUE]
DayTtl(n) == [mins |-> Minutes(n), int |-> TRUE]
MinTtl(n) == [mins |-> n, int |-> FALSE]
SubDay(ttl) == 0 < ttl.mins /\ ttl.mins < MIN_OF_DAY

\* conv_ttl: less than a day rounds up to minutes, a day or more to days.
ConvTtl(secs) ==
    IF secs <= 0 THEN IF secs < 0 THEN KeepTtl ELSE NoTtl
    ELSE IF secs < DAY_SEC
         THEN MinTtl(Least(Ceil(secs, MIN_SEC), MAX_TTL_MINS))
         ELSE DayTtl(Least(Ceil(secs, DAY_SEC), MAX_TTL_DAYS))

-----------------------------------------------------------------------------
(* The day field.                                                          *)

\* The wide layout of a row without a lifetime.
PackPlain(cday, delta) ==
    Put(cday, 0, OldDayBits)
      + (IF delta > 0 THEN Put(delta, OldDayBits, NewDayBits) ELSE 0)

\* Faulty variant of PackDay: the difference is cut to its field.
PackDayCut(cday, delta, days) ==
    cday + Put(delta, OldDayBits, ExpDeltaBits) + Least(days, MAX_TTL_DAYS) * 2^TtlShift

\* The layout of a lifetime counted in days.  A modification too long after
\* the creation for the field takes the place of the creation day.
PackDay(cday, delta, days) ==
    LET ttl == Least(days, MAX_TTL_DAYS) * 2^TtlShift
    IN IF delta > MAX_EXP_DELTA
       THEN Put(cday + delta, 0, OldDayBits) + ttl
       ELSE cday + Put(delta, OldDayBits, ExpDeltaBits) + ttl

\* The layout of a lifetime counted in minutes.
PackMinute(cday, mdays, mins) ==
    LET delta == Day(mdays) - cday
        near == 0 <= delta /\ delta <= MAX_SUB_DELTA
    IN Put(IF near THEN cday ELSE Day(mdays), 0, SubDayBits)
         + (IF near THEN delta * 2^SubDeltaShift ELSE 0)
         + 2^SubDayShift
         + (mdays % MIN_OF_DAY) * 2^OldDayBits
         + Most(1, Least(mins, MAX_TTL_MINS)) * 2^TtlMinShift

\* The day field every dumps computes.  A lifetime of minutes has no layout for
\* a day beyond its field: it becomes one of no days.
PackDays(cday, mdays, ttl) ==
    IF ttl.mins <= 0 THEN PackPlain(cday, Day(mdays) - cday)
    ELSE IF ttl.mins < MIN_OF_DAY /\ Day(mdays) < 2^SubDayBits
         THEN PackMinute(cday, mdays, ttl.mins)
    ELSE PackDay(cday, Day(mdays) - cday, Day(ttl.mins))

\* The creation day, the stamp and the lifetime every loads takes out of it.
UnpackDays(days, flags) ==
    LET cday == Take(days, 0, OldDayBits)
        sday == Take(days, 0, SubDayBits)
    IN IF ~Has(flags, KF_EXPIRE)
       THEN [cdays |-> cday, ttl |-> NoTtl,
             mdays |-> Minutes(cday + Take(days, OldDayBits, NewDayBits))]
       ELSE IF Take(days, SubDayShift, 1) = 0
       THEN [cdays |-> cday, ttl |-> DayTtl(Take(days, TtlShift, TtlBits)),
             mdays |-> Minutes(cday + Take(days, OldDayBits, ExpDeltaBits))]
       ELSE [cdays |-> sday, ttl |-> MinTtl(Take(days, TtlMinShift, TtlMinBits)),
             mdays |-> Minutes(sday + Take(days, SubDeltaShift, SubDeltaBits))
                         + Take(days, OldDayBits, MinBits)]

-----------------------------------------------------------------------------
(* The row.  A key is the sequence of its comma-separated parts, which is  *)
(* what the L format has to put together again.                            *)

Unreadable == [key |-> <<>>]                           \* JValueError

\* A float lifetime of a whole day: 1.0 << TTL_SHIFT is a TypeError.
Storable(row) == ~(row.ttl.mins >= MIN_OF_DAY /\ ~row.ttl.int)

Days(row) == PackDays(row.cdays, row.mdays, row.ttl)
Flagged(row) == Days(row) + Put(row.flags, FlagShift, FlagBits)

\* dumps_v0, dumps_v1 and dumps_v2: the fields after the key.
DumpsV0(row) == <<row.file, row.row_size + row.val_size * 2^SizeBits, Flagged(row)>>
DumpsV1(row) == <<row.file, row.row_size, row.val_size, Flagged(row)>>
DumpsV2(row) == <<row.file, row.row_size, row.val_size, Days(row), row.flags>>

\* A row of v0 and v1 with the file id of a group and no bytes is a group
\* whatever its flags say.
LoadedFlags(days, file, size) ==
    LET flags == Take(days, FlagShift, FlagBits)
    IN IF size = 0 /\ file = GroupFile THEN With(flags, KF_GROUP) ELSE flags

Loaded(key, file, rsize, vsize, days, flags) ==
    LET d == UnpackDays(days, flags)
    IN [key |-> key, file |-> file, row_size |-> rsize, val_size |-> vsize,
        cdays |-> d.cdays, mdays |-> d.mdays, ttl |-> d.ttl, flags |-> flags]

\* loads_v0, loads_v1 and loads_v2.
LoadsV0(key, f) ==
    LET size == f[2] % 2^SizeBits
    IN Loaded(key, f[1], size, f[2] \div 2^SizeBits, f[3], LoadedFlags(f[3], f[1], size))
LoadsV1(key, f) == Loaded(key, f[1], f[2], f[3], f[4], LoadedFlags(f[4], f[1], f[2]))
LoadsV2(key, f) == Loaded(key, f[1], f[2], f[3], f[4], f[5])

Width(v) == CASE v = 0 -> 3 [] v = 1 -> 4 [] v = 2 -> 5
Fields(v, row) == CASE v = 0 -> DumpsV0(row) [] v = 1 -> DumpsV1(row) [] v = 2 -> DumpsV2(row)
Loads(v, key, f) ==
    CASE v = 0 -> LoadsV0(key, f) [] v = 1 -> LoadsV1(key, f) [] v = 2 -> LoadsV2(key, f)

\* JIoKEY_J and JIoKEY_M: an array whose first fields are taken, however many
\* follow them.
DumpsArray(v, row) == <<row.key>> \o Fields(v, row)
LoadsArray(v, data) ==
    IF Len(data) < 1 + Width(v) THEN Unreadable
    ELSE Loads(v, data[1], SubSeq(data, 2, 1 + Width(v)))

\* JIoKEY_S: the tag of the array says how many fields it has, and a row with
\* another number of fields is refused.
LoadsTagged(v, data) ==
    IF Len(data) # 1 + Width(v) THEN Unreadable ELSE LoadsArray(v, data)

\* JIoKEY_L: the fields and the parts of the key are separated by the same
\* comma; the key is what is left of the last fields.
DumpsText(v, row) == row.key \o Fields(v, row)
\* Faulty variant of LoadsText: the key ends at its first comma.
LoadsTextFirst(v, data) ==
    LET n == Len(data)
    IN IF n < Width(v) THEN Unreadable
       ELSE Loads(v, <<data[1]>>, SubSeq(data, n - Width(v) + 1, n))

LoadsText(v, data) ==
    LET n == Len(data)
    IN IF n < Width(v) THEN Unreadable
       ELSE Loads(v, IF n > Width(v) + 1 THEN SubSeq(data, 1, n - Width(v)) ELSE <<data[1]>>,
                  SubSeq(data, n - Width(v) + 1, n))

\* JIoKEY_U: the registered functions, which have to give an array of eight
\* fields back as it was, do the rest; a v0 row has the layout of v1 here.
UserVersion(v) == IF v = 0 THEN 1 ELSE v

Dumps(format, v, row) ==
    CASE format \in {"J", "M", "S"} -> DumpsArray(v, row)
      [] format = "L" -> DumpsText(v, row)
      [] format = "U" -> DumpsArray(UserVersion(v), row)
LoadsRow(format, v, data) ==
    CASE format \in {"J", "M"} -> LoadsArray(v, data)
      [] format = "S" -> LoadsTagged(v, data)
      [] format = "L" -> LoadsText(v, data)
      [] format = "U" -> LoadsArray(UserVersion(v), data)

-----------------------------------------------------------------------------
(* What a row is before it is written.                                     *)

\* write_key: the row that is cached and dumped for the arguments, with the
\* day and the minute the handle knows.  A negative day or stamp is "now".
WriteKey(key, file, rsize, vsize, cdays, mdays, ttl, flags, now) ==
    LET life == IF ttl.mins <= 0 THEN NoTtl
                ELSE IF Day(ttl.mins) < MAX_TTL_DAYS THEN ttl ELSE DayTtl(MAX_TTL_DAYS)
        cday == IF cdays < 0 THEN Day(now) ELSE cdays % 2^SubDayBits
        stamp == IF mdays < 0 THEN IF SubDay(life) THEN now ELSE Minutes(Day(now))
                 ELSE Most(Minutes(cday), IF SubDay(life) THEN mdays ELSE Minutes(Day(mdays)))
        kept == flags % 2^FlagBits
        group == IF key # <<"">> /\ file = GroupFile /\ rsize = 0 THEN With(kept, KF_GROUP) ELSE kept
    IN [key |-> key, file |-> file, row_size |-> rsize, val_size |-> vsize,
        cdays |-> cday, mdays |-> stamp, ttl |-> life,
        flags |-> IF life.mins > 0 THEN With(group, KF_EXPIRE)
                                   ELSE Without(group, KF_EXPIRE)]

\* Faulty variant of Expired: the last unit of a lifetime is not lived.
ExpiredAtLimit(row, today, now) ==
    /\ row.ttl.mins > 0
    /\ IF row.ttl.mins >= MIN_OF_DAY
       THEN Minutes(today) >= row.mdays + row.ttl.mins
       ELSE now >= row.mdays + row.ttl.mins

\* f_read, f_key_iter, f_items and recycle: a lifetime of days runs to the end
\* of its last day, one of minutes to the end of its last minute.
Expired(row, today, now) ==
    /\ row.ttl.mins > 0
    /\ IF row.ttl.mins >= MIN_OF_DAY
       THEN Minutes(today) > row.mdays + row.ttl.mins
       ELSE now > row.mdays + row.ttl.mins

=============================================================================
