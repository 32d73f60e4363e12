--------------------------- MODULE KeyStoreProofs ---------------------------
(***************************************************************************)
(* Proofs about KeyStore, for any keys, values, sizes, flags and bounds:   *)
(* the rows divide the space of the VAL file, the key table and the cache  *)
(* of free extents follow every move, and the store is a dictionary.       *)
(***************************************************************************)
EXTENDS KeyStore, TLAPS

-----------------------------------------------------------------------------
(* The inductive invariant *)

\* Cell c belongs to the extent of a row.
In(row, c) == row.off <= c /\ c < row.off + row.size

\* The extents of the rows 0..lines-1 divide the cells 0..top-1.
Divides(rows, lines, top) ==
  /\ \A r \in 0 .. lines - 1 : rows[r].off + rows[r].size <= top
  /\ \A c \in Nat : c < top => \E r \in 0 .. lines - 1 : In(rows[r], c)
  /\ \A r, s \in 0 .. lines - 1 : \A c \in Nat :
       In(rows[r], c) /\ In(rows[s], c) => r = s

\* CacheFresh for an index in the middle of an operation
CacheIn(ix, n, lines) ==
  \A r \in RowIds : ix.dead[r] # NoExt =>
    r \in n .. lines - 1 /\ ix.dead[r] = Ext(ix.rows[r])

\* The row and the VAL file f hold value v, whole.
Reads(row, f, v) ==
  \/ row.size = 0 /\ row.head = v
  \/ /\ row.size > 0 /\ Size[v] > 0
     /\ row.len = Size[v] /\ row.len <= row.size
     /\ \A x \in 0 .. row.len - 1 : f[row.off + x] = <<v, x>>

Whole(row, f) == \E v \in Vals : Reads(row, f, v)

InvSpace == Divides(index.rows, n_lines, used)

\* A key without a record has no row number below the number of rows, so that
\* a record added later is not taken for it.
InvKeys ==
  /\ KeyTableMatches
  /\ \A k \in Keys : Exists(k) \/ key_table[k] = NoRow

InvCache == CacheIn(index, n_records, n_lines)

\* Every row with a key, live or parked, holds a whole value.
InvWhole ==
  \A r \in 0 .. n_lines - 1 : index.rows[r].key \in Keys => Whole(index.rows[r], val)

Inv == TypeOK /\ InvSpace /\ InvKeys /\ InvCache /\ InvWhole

-----------------------------------------------------------------------------
(* Moving rows *)

\* Every operation moves rows in a cycle: row a gets the extent of row c (and
\* perhaps a new record), b what was in a, and c what was in b.  Rows may
\* coincide, as long as a is not left out.
Turned(old, new, lines, a, b, c) ==
  /\ Ext(new[a]) = Ext(old[c])
  /\ a # b => new[b] = old[a]
  /\ c # a /\ c # b => new[c] = old[b]
  /\ \A r \in 0 .. lines - 1 : r \notin {a, b, c} => new[r] = old[r]

\* The row that a row comes from
From(r, a, b, c) == IF r = a THEN c ELSE IF r = b THEN a ELSE IF r = c THEN b ELSE r

\* Two rows never come from one, every row goes somewhere, and only row a comes
\* from row c.
LEMMA FromPermutes ==
  ASSUME NEW lines \in Nat, NEW a \in 0 .. lines - 1, NEW b \in 0 .. lines - 1,
         NEW c \in 0 .. lines - 1, a = c => b = a
  PROVE  /\ \A r \in 0 .. lines - 1 : From(r, a, b, c) \in 0 .. lines - 1
         /\ \A r, s \in 0 .. lines - 1 : From(r, a, b, c) = From(s, a, b, c) => r = s
         /\ \A s \in 0 .. lines - 1 : \E r \in 0 .. lines - 1 : From(r, a, b, c) = s
<1>1. \A r \in 0 .. lines - 1 : From(r, a, b, c) \in 0 .. lines - 1
  BY DEF From
<1>2. \A r, s \in 0 .. lines - 1 : From(r, a, b, c) = From(s, a, b, c) => r = s
  BY DEF From
<1>3. ASSUME NEW s \in 0 .. lines - 1 PROVE \E r \in 0 .. lines - 1 : From(r, a, b, c) = s
  <2>1. From(a, a, b, c) = c
    BY DEF From
  <2>2. a # b => From(b, a, b, c) = a
    BY DEF From
  <2>3. c # a /\ c # b => From(c, a, b, c) = b
    BY DEF From
  <2>4. s \notin {a, b, c} => From(s, a, b, c) = s
    BY DEF From
  <2> QED BY <2>1, <2>2, <2>3, <2>4
<1> QED BY <1>1, <1>2, <1>3

LEMMA SameExt ==
  ASSUME NEW x, NEW y, Ext(x) = Ext(y)
  PROVE  x.off = y.off /\ x.size = y.size /\ \A c : In(x, c) <=> In(y, c)
BY DEF Ext, In

\* A row of the turned rows has the extent of the row it comes from, and all
\* but a are that row.
LEMMA TurnedFrom ==
  ASSUME NEW old, NEW new, NEW lines \in Nat, NEW a \in 0 .. lines - 1,
         NEW b \in 0 .. lines - 1, NEW c \in 0 .. lines - 1, a = c => b = a,
         Turned(old, new, lines, a, b, c), NEW r \in 0 .. lines - 1
  PROVE  /\ Ext(new[r]) = Ext(old[From(r, a, b, c)])
         /\ r # a => new[r] = old[From(r, a, b, c)] /\ From(r, a, b, c) # c
BY DEF Turned, From

\* Turning keeps the division of the space.
LEMMA TurnedDivides ==
  ASSUME NEW old, NEW new, NEW lines \in Nat, NEW top \in Nat, NEW a \in 0 .. lines - 1,
         NEW b \in 0 .. lines - 1, NEW c \in 0 .. lines - 1, a = c => b = a,
         Turned(old, new, lines, a, b, c), Divides(old, lines, top)
  PROVE  Divides(new, lines, top)
<1> DEFINE D == 0 .. lines - 1
           f(r) == From(r, a, b, c)
<1>1. /\ \A r \in D : f(r) \in D
      /\ \A r, s \in D : f(r) = f(s) => r = s
      /\ \A s \in D : \E r \in D : f(r) = s
  BY FromPermutes
<1>2. \A r \in D : /\ new[r].off = old[f(r)].off /\ new[r].size = old[f(r)].size
                   /\ \A x : In(new[r], x) <=> In(old[f(r)], x)
  BY TurnedFrom, SameExt
<1> HIDE DEF D, f
<1>3. \A r \in D : new[r].off + new[r].size <= top
  BY <1>1, <1>2 DEF Divides, D
<1>4. ASSUME NEW x \in Nat, x < top PROVE \E r \in D : In(new[r], x)
  <2>1. PICK s \in D : In(old[s], x)
    BY <1>4 DEF Divides, D
  <2>2. PICK r \in D : f(r) = s
    BY <1>1
  <2> QED BY <1>2, <2>1, <2>2
<1>5. ASSUME NEW r \in D, NEW s \in D, NEW x \in Nat, In(new[r], x), In(new[s], x)
      PROVE  r = s
  <2>1. In(old[f(r)], x) /\ In(old[f(s)], x) /\ f(r) \in D /\ f(s) \in D
    BY <1>1, <1>2, <1>5
  <2>2. f(r) = f(s)
    BY <2>1 DEF Divides, D
  <2> QED BY <1>1, <2>2
<1> QED BY <1>3, <1>4, <1>5 DEF Divides, D

-----------------------------------------------------------------------------
(* Handing out space *)

IndexType == [rows : [RowIds -> Rows], dead : [RowIds -> Exts]]

\* A row that only holds extent e
FreeRow(e) == [EmptyRow EXCEPT !.off = e.off, !.size = e.size]

\* The rows with the space that was handed out still in the row that becomes free
Freed(a) == [a.ix.rows EXCEPT ![a.row] = FreeRow(a.ext)]

TopWith(e) == Larger(used, e.off + e.size)

\* What Space promises: room for the value in a row from start on, which the
\* cache does not name wrongly, and of the other rows only empty ones were used.
Sound(a, start, req) ==
  /\ a.ix \in IndexType
  /\ a.lines \in n_lines .. MaxRows
  /\ a.row \in start .. a.lines - 1
  /\ a.ext \in Exts /\ Fits(a.ext.size, req)
  /\ TopWith(a.ext) \in 0 .. MaxCells
  /\ Divides(Freed(a), a.lines, TopWith(a.ext))
  /\ CacheIn(a.ix, n_records, a.lines)
  /\ \A r \in 0 .. start - 1 : a.ix.rows[r] = index.rows[r]
  /\ \A r \in start .. a.lines - 1 :
       \/ r = a.row
       \/ r < n_lines /\ a.ix.rows[r] = index.rows[r]
       \/ a.ix.rows[r].key = NoKey

LEMMA ExtType ==
  ASSUME NEW row \in Rows
  PROVE  Ext(row) \in Exts /\ row.off \in Nat /\ row.size \in Nat
BY DEF Rows, Exts, Ext

LEMMA FreeRowType ==
  ASSUME NEW e \in Exts
  PROVE  /\ FreeRow(e) \in Rows /\ FreeRow(e).key = NoKey
         /\ FreeRow(e).off = e.off /\ FreeRow(e).size = e.size /\ Ext(FreeRow(e)) = e
BY DEF Rows, Exts, FreeRow, EmptyRow, Ext

LEMMA PaddedType ==
  ASSUME NEW n \in Nat
  PROVE  Padded(n) \in Nat /\ Padded(n) >= n /\ Padded(n) > 0
BY SizeAssumption DEF Padded, Larger

LEMMA WriteKeyType ==
  ASSUME NEW ix \in IndexType, NEW n, NEW r \in RowIds, NEW row \in Rows
  PROVE  WriteKey(ix, n, r, row) \in IndexType
<1>1. NoExt \in Exts
  BY StoreBounds DEF NoExt, Exts
<1> QED BY <1>1, ExtType DEF WriteKey, IndexType

LEMMA CopyKeyType ==
  ASSUME NEW ix \in IndexType, NEW r \in RowIds, NEW s \in RowIds
  PROVE  CopyKey(ix, r, s) \in IndexType
<1>1. NoExt \in Exts
  BY StoreBounds DEF NoExt, Exts
<1> QED BY <1>1 DEF CopyKey, IndexType

\* Writing a row keeps the cache true, with the rows counted as records of n ...
LEMMA WriteKeyCache ==
  ASSUME NEW ix \in IndexType, NEW n \in Nat, NEW lines \in Nat, CacheIn(ix, n, lines),
         NEW r \in 0 .. lines - 1, r \in RowIds, NEW row \in Rows
  PROVE  CacheIn(WriteKey(ix, n, r, row), n, lines)
BY DEF CacheIn, WriteKey, IndexType, RowIds

\* ... and copying one.
LEMMA CopyKeyCache ==
  ASSUME NEW ix \in IndexType, NEW n \in Nat, NEW lines \in Nat, CacheIn(ix, n, lines),
         NEW r \in RowIds, NEW s \in RowIds
  PROVE  CacheIn(CopyKey(ix, r, s), n, lines)
BY DEF CacheIn, CopyKey, IndexType

\* More rows, and fewer records, leave the cache true.
LEMMA CacheGrows ==
  ASSUME NEW ix, NEW n \in Nat, NEW lines \in Nat, CacheIn(ix, n, lines),
         NEW n2 \in 0 .. n, NEW lines2 \in Nat, lines2 >= lines
  PROVE  CacheIn(ix, n2, lines2)
BY StoreBounds DEF CacheIn, RowIds

\* New space at the end of the file, or a row without space, extends the division.
LEMMA FreshDivides ==
  ASSUME NEW rows, NEW new, NEW lines \in Nat, NEW top \in Nat, NEW size \in Nat,
         NEW off \in Nat, size = 0 => off <= top, size > 0 => off = top,
         \A r \in 0 .. lines - 1 : rows[r].off \in Nat /\ rows[r].size \in Nat,
         \A r \in 0 .. lines - 1 : new[r] = rows[r],
         new[lines].off = off, new[lines].size = size,
         Divides(rows, lines, top)
  PROVE  Divides(new, lines + 1, Larger(top, off + size))
<1> DEFINE top2 == Larger(top, off + size)
<1>1. top2 \in Nat /\ top2 >= top /\ off + size <= top2
      /\ (size = 0 => top2 = top) /\ (size > 0 => top2 = off + size)
  BY DEF Larger
<1>2. \A x \in Nat : In(new[lines], x) <=> top <= x /\ x < top2
  BY <1>1 DEF In
<1>3. \A r \in 0 .. lines - 1 : \A x \in Nat : In(new[r], x) => x < top
  BY DEF In, Divides
<1> HIDE DEF top2
<1>4. ASSUME NEW r \in 0 .. lines PROVE new[r].off + new[r].size <= top2
  <2>1. CASE r < lines
    <3>1. new[r].off + new[r].size <= top /\ new[r].off + new[r].size \in Nat
      BY <2>1 DEF Divides
    <3> QED BY <1>1, <3>1
  <2>2. CASE r = lines
    BY <1>1, <2>2
  <2> QED BY <2>1, <2>2
<1>5. ASSUME NEW x \in Nat, x < top2 PROVE \E r \in 0 .. lines : In(new[r], x)
  <2>1. CASE x < top
    <3>1. PICK r \in 0 .. lines - 1 : In(rows[r], x)
      BY <2>1 DEF Divides
    <3> QED BY <3>1
  <2>2. CASE x >= top
    BY <1>2, <1>5, <2>2
  <2> QED BY <2>1, <2>2
<1>6. ASSUME NEW r \in 0 .. lines, NEW s \in 0 .. lines, NEW x \in Nat,
             In(new[r], x), In(new[s], x)
      PROVE  r = s
  <2>1. CASE r < lines /\ s < lines
    BY <1>6, <2>1 DEF Divides
  <2>2. CASE r = lines \/ s = lines
    BY <1>2, <1>3, <1>6, <2>2
  <2> QED BY <2>1, <2>2
<1>7. 0 .. (lines + 1) - 1 = 0 .. lines
  OBVIOUS
<1> QED BY <1>4, <1>5, <1>6, <1>7 DEF Divides, top2

\* The extent of row r is cut in two, the rest goes into row s, which has none.
Cut(rows, new, lines, r, s, part) ==
  /\ r # s
  /\ \A x \in 0 .. lines - 1 : rows[x].off \in Nat /\ rows[x].size \in Nat
  /\ rows[s].size = 0 /\ part <= rows[r].size
  /\ new[r].off = rows[r].off /\ new[r].size = part
  /\ new[s].off = rows[r].off + part /\ new[s].size = rows[r].size - part
  /\ \A x \in 0 .. lines - 1 : x \notin {r, s} => new[x] = rows[x]

\* Cutting an extent keeps the division.
LEMMA SplitDivides ==
  ASSUME NEW rows, NEW new, NEW lines \in Nat, NEW top \in Nat, NEW part \in Nat,
         NEW r \in 0 .. lines - 1, NEW s \in 0 .. lines - 1,
         Cut(rows, new, lines, r, s, part), Divides(rows, lines, top)
  PROVE  Divides(new, lines, top)
<1>0. /\ r # s
      /\ \A x \in 0 .. lines - 1 : rows[x].off \in Nat /\ rows[x].size \in Nat
      /\ rows[s].size = 0 /\ part <= rows[r].size
      /\ new[r].off = rows[r].off /\ new[r].size = part
      /\ new[s].off = rows[r].off + part /\ new[s].size = rows[r].size - part
      /\ \A x \in 0 .. lines - 1 : x \notin {r, s} => new[x] = rows[x]
  BY DEF Cut
<1>1. \A x \in Nat : In(rows[r], x) <=> In(new[r], x) \/ In(new[s], x)
  BY <1>0 DEF In
<1>2. \A x \in Nat : ~In(rows[s], x)
  BY <1>0 DEF In
<1>3. \A x \in Nat : ~(In(new[r], x) /\ In(new[s], x))
  BY <1>0 DEF In
<1>4. \A x \in 0 .. lines - 1 : new[x].off + new[x].size <= top
  <2>1. rows[r].off + rows[r].size <= top
    BY <1>0 DEF Divides
  <2>2. new[r].off + new[r].size <= top /\ new[s].off + new[s].size <= top
    BY <1>0, <2>1
  <2> QED BY <1>0, <2>2 DEF Divides
<1>5. ASSUME NEW x \in Nat, x < top PROVE \E u \in 0 .. lines - 1 : In(new[u], x)
  <2>1. PICK u \in 0 .. lines - 1 : In(rows[u], x)
    BY <1>5 DEF Divides
  <2> QED BY <1>0, <1>1, <1>2, <2>1
<1>6. ASSUME NEW u \in 0 .. lines - 1, NEW w \in 0 .. lines - 1, NEW x \in Nat,
             In(new[u], x), In(new[w], x)
      PROVE  u = w
  <2> DEFINE Old(z) == IF z = s THEN r ELSE z
  <2>1. \A z \in 0 .. lines - 1 : In(new[z], x) => In(rows[Old(z)], x) /\ Old(z) \in 0 .. lines - 1
    BY <1>0, <1>1
  <2>2. Old(u) = Old(w)
    <3> HIDE DEF Old
    <3> QED BY <1>6, <2>1 DEF Divides
  <2> QED BY <1>3, <1>6, <2>2
<1> QED BY <1>4, <1>5, <1>6 DEF Divides

\* The numbers and rows of a state
LEMMA Basics ==
  ASSUME TypeOK
  PROVE  /\ index \in IndexType
         /\ n_lines \in Nat /\ n_records \in Nat /\ used \in Nat /\ hdr_lines \in Nat
         /\ MaxRows \in Nat /\ MaxCells \in Nat
         /\ n_records <= n_lines /\ n_lines <= MaxRows /\ used <= MaxCells /\ hdr_lines <= n_lines
         /\ \A r \in RowIds : /\ index.rows[r] \in Rows
                              /\ index.rows[r].off \in Nat /\ index.rows[r].size \in Nat
         /\ 0 .. n_lines - 1 \subseteq RowIds
         /\ \A k \in Keys : key_table[k] \in 0 .. MaxRows
BY StoreBounds, ExtType DEF TypeOK, IndexType, RowIds

LEMMA FreshSound ==
  ASSUME Inv, NEW start \in n_records .. n_lines, NEW req \in Nat, InBounds(Fresh(req))
  PROVE  Sound(Fresh(req), start, req)
<1> DEFINE a == Fresh(req)
<1>1. TypeOK /\ InvSpace /\ InvCache
  BY DEF Inv
<1>2. /\ index \in IndexType
      /\ n_lines \in Nat /\ n_records \in Nat /\ used \in Nat
      /\ MaxRows \in Nat /\ MaxCells \in Nat
      /\ n_records <= n_lines /\ n_lines <= MaxRows /\ used <= MaxCells
      /\ \A r \in 0 .. n_lines - 1 : index.rows[r].off \in Nat /\ index.rows[r].size \in Nat
  BY <1>1, Basics
<1>3. /\ a.ix = index /\ a.lines = n_lines + 1 /\ a.row = n_lines
      /\ a.ext = IF req = 0 THEN [off |-> 0, size |-> 0] ELSE [off |-> used, size |-> Padded(req)]
  BY DEF Fresh
<1>4. n_lines + 1 <= MaxRows /\ a.ext.off + a.ext.size <= MaxCells
  BY <1>3 DEF InBounds
<1>5. /\ a.ext \in Exts /\ Fits(a.ext.size, req)
      /\ a.ext.off \in Nat /\ a.ext.size \in Nat
      /\ (a.ext.size = 0 => a.ext.off <= used) /\ (a.ext.size > 0 => a.ext.off = used)
  BY <1>2, <1>3, PaddedType DEF Exts, Fits
<1>6. TopWith(a.ext) \in 0 .. MaxCells
  BY <1>2, <1>4, <1>5 DEF TopWith, Larger
<1>7. Divides(Freed(a), a.lines, TopWith(a.ext))
  <2>1. n_lines \in RowIds /\ index.rows \in [RowIds -> Rows]
    BY <1>2, <1>4 DEF RowIds, IndexType
  <2>2. Freed(a) = [index.rows EXCEPT ![n_lines] = FreeRow(a.ext)]
    BY <1>3 DEF Freed
  <2>3. /\ \A r \in 0 .. n_lines - 1 : Freed(a)[r] = index.rows[r]
        /\ Freed(a)[n_lines].off = a.ext.off /\ Freed(a)[n_lines].size = a.ext.size
    BY <1>2, <1>5, <2>1, <2>2, FreeRowType DEF RowIds
  <2>4. Divides(index.rows, n_lines, used)
    BY <1>1 DEF InvSpace
  <2> HIDE DEF a
  <2>5. Divides(Freed(a), n_lines + 1, Larger(used, a.ext.off + a.ext.size))
    BY <1>2, <1>5, <2>3, <2>4, FreshDivides
  <2> QED BY <1>3, <2>5 DEF TopWith
<1>8. CacheIn(a.ix, n_records, a.lines)
  BY <1>1, <1>2, <1>3, CacheGrows DEF InvCache
<1> HIDE DEF a
<1> QED BY <1>2, <1>3, <1>4, <1>5, <1>6, <1>7, <1>8 DEF Sound, a

\* A row that is taken whole, or cut in two.
LEMMA TakenSound ==
  ASSUME Inv, NEW start \in n_records .. n_lines, NEW req \in Nat, NEW sp \in BOOLEAN,
         NEW r \in start .. n_lines - 1, Fits(index.rows[r].size, req),
         NEW spare \in SUBSET (r + 1 .. n_lines - 1), \A s \in spare : index.rows[s].size = 0,
         NEW a \in Taken(r, Ext(index.rows[r]), req, sp, spare), InBounds(a)
  PROVE  Sound(a, start, req)
<1> DEFINE e == Ext(index.rows[r])
           piece == Padded(req)
           ix == [index EXCEPT !.dead[r] = NoExt]
           first == FreeRow([off |-> e.off, size |-> piece])
           rest == FreeRow([off |-> e.off + piece, size |-> e.size - piece])
<1>1. TypeOK /\ InvSpace /\ InvCache
  BY DEF Inv
<1>2. /\ index \in IndexType
      /\ n_lines \in Nat /\ n_records \in Nat /\ used \in Nat
      /\ MaxRows \in Nat /\ MaxCells \in Nat
      /\ n_records <= n_lines /\ n_lines <= MaxRows /\ used <= MaxCells
      /\ \A s \in 0 .. n_lines - 1 : /\ index.rows[s] \in Rows
                                     /\ index.rows[s].off \in Nat /\ index.rows[s].size \in Nat
  BY <1>1, Basics
<1>3. /\ r \in 0 .. n_lines - 1 /\ r \in RowIds /\ start \in Nat
      /\ index.rows \in [RowIds -> Rows] /\ index.dead \in [RowIds -> Exts]
  BY <1>2 DEF RowIds, IndexType
<1>4. /\ e \in Exts /\ e.off = index.rows[r].off /\ e.size = index.rows[r].size
      /\ e.off \in Nat /\ e.size \in Nat
  BY <1>2, <1>3, ExtType DEF Ext
<1>5. Divides(index.rows, n_lines, used) /\ e.off + e.size <= used
  BY <1>1, <1>3, <1>4 DEF InvSpace, Divides
<1>6. /\ ix \in IndexType /\ ix.rows = index.rows
      /\ CacheIn(ix, n_records, n_lines)
  <2>1. NoExt \in Exts
    BY <1>2 DEF NoExt, Exts
  <2>2. ix.rows = index.rows /\ ix.dead = [index.dead EXCEPT ![r] = NoExt]
    BY <1>2 DEF IndexType
  <2>3. ix = [rows |-> index.rows, dead |-> [index.dead EXCEPT ![r] = NoExt]]
    BY <1>2 DEF IndexType
  <2>4. ix \in IndexType
    BY <1>3, <2>1, <2>3 DEF IndexType
  <2> HIDE DEF ix
  <2>5. CacheIn(ix, n_records, n_lines)
    BY <1>1, <1>3, <2>2 DEF InvCache, CacheIn
  <2> QED BY <2>2, <2>4, <2>5
<1>7. piece \in Nat /\ piece >= req /\ piece > 0
  BY PaddedType
<1>8. \/ a = [ix |-> ix, lines |-> n_lines, row |-> r, ext |-> e]
      \/ /\ sp /\ req > 0 /\ e.size >= piece + SplitMin
         /\ \E s \in ({n_lines} \cup spare) \cap RowIds :
              a = [ix |-> WriteKey(WriteKey(ix, n_records, s, rest), n_records, r, first),
                   lines |-> Larger(n_lines, s + 1), row |-> r, ext |-> Ext(first)]
  BY DEF Taken, FreeRow
<1>9. CASE a = [ix |-> ix, lines |-> n_lines, row |-> r, ext |-> e]
  <2> HIDE DEF ix, e
  <2>1. a.ix = ix /\ a.lines = n_lines /\ a.row = r /\ a.ext = e
    BY <1>9
  <2>2. TopWith(e) = used
    BY <1>2, <1>4, <1>5 DEF TopWith, Larger
  <2>3. Freed(a) = [index.rows EXCEPT ![r] = FreeRow(e)]
    BY <1>6, <2>1 DEF Freed
  <2>4. Turned(index.rows, Freed(a), n_lines, r, r, r)
    <3>1. Ext(FreeRow(e)) = e
      BY <1>4, FreeRowType
    <3>2. Freed(a)[r] = FreeRow(e) /\ \A s \in 0 .. n_lines - 1 : s # r => Freed(a)[s] = index.rows[s]
      BY <1>2, <1>3, <2>3 DEF RowIds
    <3> QED BY <3>1, <3>2 DEF Turned, e
  <2>5. Divides(Freed(a), n_lines, used)
    BY <1>2, <1>3, <1>5, <2>4, TurnedDivides
  <2>6. Fits(e.size, req)
    BY <1>4
  <2> QED BY <1>2, <1>3, <1>4, <1>6, <2>1, <2>2, <2>5, <2>6 DEF Sound
<1>10. ASSUME sp, req > 0, e.size >= piece + SplitMin,
              NEW s \in ({n_lines} \cup spare) \cap RowIds,
              a = [ix |-> WriteKey(WriteKey(ix, n_records, s, rest), n_records, r, first),
                   lines |-> Larger(n_lines, s + 1), row |-> r, ext |-> Ext(first)]
       PROVE  Sound(a, start, req)
  <2> DEFINE total == Larger(n_lines, s + 1)
             base == [index.rows EXCEPT ![s] = FreeRow([off |-> 0, size |-> 0])]
             new == [index.rows EXCEPT ![s] = rest, ![r] = first]
  <2>1. SplitMin \in Nat \ {0}
    BY SizeAssumption
  <2>2. /\ s \in RowIds /\ s # r /\ s > r
        /\ total \in Nat /\ total >= n_lines /\ total <= MaxRows
        /\ s \in 0 .. total - 1 /\ r \in 0 .. total - 1
        /\ (total = n_lines /\ s \in spare) \/ (total = n_lines + 1 /\ s = n_lines)
    BY <1>2, <1>3 DEF Larger, RowIds
  <2>3. /\ first \in Rows /\ first.off = e.off /\ first.size = piece
        /\ Ext(first) = [off |-> e.off, size |-> piece]
        /\ Ext(first) \in Exts
        /\ rest \in Rows /\ rest.off = e.off + piece /\ rest.size = e.size - piece
        /\ first.key = NoKey /\ rest.key = NoKey
    <3>1. [off |-> e.off, size |-> piece] \in Exts /\ [off |-> e.off + piece, size |-> e.size - piece] \in Exts
      BY <1>4, <1>7, <1>10, <2>1 DEF Exts
    <3> QED BY <3>1, FreeRowType
  <2>4. /\ a.lines = total /\ a.row = r /\ a.ext = Ext(first)
        /\ a.ix = WriteKey(WriteKey(ix, n_records, s, rest), n_records, r, first)
    BY <1>10
  <2> HIDE DEF ix, e, first, rest, piece, total
  <2>5. a.ix.rows = [index.rows EXCEPT ![s] = rest, ![r] = first]
    BY <1>6, <2>4 DEF WriteKey
  <2>6. a.ix \in IndexType /\ CacheIn(a.ix, n_records, total)
    <3>1. CacheIn(ix, n_records, total)
      BY <1>2, <1>6, <2>2, CacheGrows
    <3>2. WriteKey(ix, n_records, s, rest) \in IndexType
      BY <1>6, <2>2, <2>3, WriteKeyType
    <3>3. CacheIn(WriteKey(ix, n_records, s, rest), n_records, total)
      BY <1>2, <1>6, <2>2, <2>3, <3>1, WriteKeyCache
    <3> QED BY <1>2, <1>3, <2>2, <2>3, <2>4, <3>2, <3>3, WriteKeyType, WriteKeyCache
  <2>7. TopWith(a.ext) = used
    BY <1>2, <1>4, <1>5, <1>7, <1>10, <2>1, <2>3, <2>4 DEF TopWith, Larger
  <2>8. /\ \A x \in 0 .. total - 1 : x \in RowIds
        /\ base \in [RowIds -> Rows]
    <3>1. FreeRow([off |-> 0, size |-> 0]) \in Rows
      BY FreeRowType DEF Exts
    <3> QED BY <1>2, <1>3, <2>2, <3>1 DEF RowIds
  <2>9. /\ base[s].off = 0 /\ base[s].size = 0
        /\ \A x \in 0 .. total - 1 : x # s => base[x] = index.rows[x]
        /\ \A x \in 0 .. total - 1 : base[x].off \in Nat /\ base[x].size \in Nat
    <3>1. [off |-> 0, size |-> 0] \in Exts
      BY DEF Exts
    <3> QED BY <1>3, <2>2, <2>8, <3>1, FreeRowType, ExtType
  <2> HIDE DEF base
  <2>10. Divides(base, total, used)
    <3>1. CASE s = n_lines
      <4>1. \A x \in 0 .. n_lines - 1 : base[x] = index.rows[x]
        BY <1>2, <2>2, <2>9, <3>1
      <4>2. Divides(base, n_lines + 1, Larger(used, base[n_lines].off + base[n_lines].size))
        <5>1. /\ base[n_lines].off \in Nat /\ base[n_lines].size \in Nat
              /\ base[n_lines].size = 0 => base[n_lines].off <= used
              /\ base[n_lines].size > 0 => base[n_lines].off = used
          BY <1>2, <2>9, <3>1
        <5>2. \A x \in 0 .. n_lines - 1 : index.rows[x].off \in Nat /\ index.rows[x].size \in Nat
          BY <1>2
        <5>3. n_lines \in Nat /\ used \in Nat
          BY <1>2
        <5> QED BY <1>5, <4>1, <5>1, <5>2, <5>3, FreshDivides
      <4>3. Larger(used, base[n_lines].off + base[n_lines].size) = used
        BY <1>2, <2>9, <3>1 DEF Larger
      <4>4. total = n_lines + 1
        BY <1>2, <2>2, <3>1
      <4> QED BY <4>2, <4>3, <4>4
    <3>2. CASE s # n_lines
      <4>1. total = n_lines /\ s \in 0 .. n_lines - 1 /\ index.rows[s].size = 0
        BY <2>2, <3>2
      <4>2. \A x \in 0 .. n_lines - 1 : \A c \in Nat : In(base[x], c) <=> In(index.rows[x], c)
        BY <1>2, <2>9, <4>1 DEF In
      <4>3. \A x \in 0 .. n_lines - 1 : base[x].off + base[x].size <= used
        BY <1>2, <1>5, <2>9, <4>1 DEF Divides
      <4> QED BY <1>5, <4>1, <4>2, <4>3 DEF Divides
    <3> QED BY <3>1, <3>2
  <2>11. Freed(a) = [index.rows EXCEPT ![s] = rest, ![r] = FreeRow(a.ext)]
    BY <1>3, <2>2, <2>5, <2>4 DEF Freed
  <2>12. /\ Freed(a)[r].off = base[r].off /\ Freed(a)[r].size = piece
         /\ Freed(a)[s].off = base[r].off + piece /\ Freed(a)[s].size = base[r].size - piece
         /\ \A x \in 0 .. total - 1 : x \notin {r, s} => Freed(a)[x] = base[x]
    <3>1. FreeRow(a.ext).off = e.off /\ FreeRow(a.ext).size = piece
      BY <2>3, <2>4, FreeRowType
    <3>2. base[r].off = e.off /\ base[r].size = e.size
      BY <1>4, <2>2, <2>9
    <3> QED BY <1>3, <2>2, <2>3, <2>8, <2>9, <2>11, <3>1, <3>2
  <2>13. piece <= base[r].size
    BY <1>4, <1>7, <1>10, <2>1, <2>2, <2>9
  <2>14. Divides(Freed(a), total, used)
    <3>1. total \in Nat /\ used \in Nat /\ piece \in Nat
      BY <1>2, <1>7, <2>2
    <3>2. Cut(base, Freed(a), total, r, s, piece)
      BY <2>2, <2>9, <2>12, <2>13 DEF Cut
    <3>3. r \in 0 .. total - 1 /\ s \in 0 .. total - 1
      BY <2>2
    <3> QED BY <2>10, <3>1, <3>2, <3>3, SplitDivides
  <2>15. \A x \in 0 .. total - 1 : \/ x = r
                                   \/ x = s /\ a.ix.rows[x].key = NoKey
                                   \/ x < n_lines /\ a.ix.rows[x] = index.rows[x]
    <3>1. a.ix.rows[s] = rest /\ \A x \in RowIds : x \notin {r, s} => a.ix.rows[x] = index.rows[x]
      BY <1>3, <2>2, <2>5
    <3>2. \A x \in 0 .. total - 1 : x # s => x < n_lines
      BY <1>2, <2>2
    <3> QED BY <2>3, <2>8, <3>1, <3>2
  <2>16. Fits(a.ext.size, req)
    BY <1>7, <1>10, <2>3, <2>4 DEF Fits
  <2> QED
    BY <1>2, <1>3, <2>2, <2>3, <2>4, <2>6, <2>7, <2>14, <2>15, <2>16 DEF Sound
<1> QED BY <1>8, <1>9, <1>10

\* Whatever the search finds is sound.
LEMMA SpaceSound ==
  ASSUME Inv, NEW start \in n_records .. n_lines, NEW req \in Nat, NEW sp \in BOOLEAN,
         NEW a \in Space(start, req, sp), InBounds(a)
  PROVE  Sound(a, start, req)
<1>1. TypeOK /\ InvCache
  BY DEF Inv
<1>2. ASSUME NEW r \in CachedRows(start, req), a \in Taken(r, index.dead[r], req, sp, {})
      PROVE  Sound(a, start, req)
  <2>1. /\ r \in RowIds /\ r >= start /\ index.dead[r] # NoExt /\ Fits(index.dead[r].size, req)
    BY <1>2 DEF CachedRows
  <2>2. r \in n_records .. n_lines - 1 /\ index.dead[r] = Ext(index.rows[r])
    BY <1>1, <2>1 DEF InvCache, CacheIn
  <2>3. r \in start .. n_lines - 1 /\ Fits(index.rows[r].size, req)
    BY <1>1, <2>1, <2>2, Basics DEF Ext
  <2> QED BY <1>2, <2>2, <2>3, TakenSound
<1>3. ASSUME NEW r \in WindowRows(start, req),
             a \in Taken(r, Ext(index.rows[r]), req, sp,
                         {s \in r + 1 .. n_lines - 1 : index.rows[s].size = 0})
      PROVE  Sound(a, start, req)
  <2>1. r \in start .. n_lines - 1 /\ Fits(index.rows[r].size, req)
    BY <1>3 DEF WindowRows
  <2> QED BY <1>3, <2>1, TakenSound
<1>4. a = Fresh(req) \/ (\E r \in CachedRows(start, req) : a \in Taken(r, index.dead[r], req, sp, {}))
      \/ \E r \in WindowRows(start, req) :
           a \in Taken(r, Ext(index.rows[r]), req, sp,
                       {s \in r + 1 .. n_lines - 1 : index.rows[s].size = 0})
  BY DEF Space
<1> QED BY <1>2, <1>3, <1>4, FreshSound

-----------------------------------------------------------------------------
(* Reading values *)

\* Decode with the VAL file f
DecodeIn(row, f) ==
  IF row.size = 0 THEN row.head
  ELSE LET v == f[row.off][1] IN
       IF /\ v # NoVal /\ row.len = Size[v]
          /\ \A x \in 0 .. row.len - 1 : f[row.off + x] = <<v, x>>
         THEN v ELSE NoVal

\* A row that holds a value is decoded to it.
LEMMA ReadsDecode ==
  ASSUME NEW row \in Rows, NEW f, NEW v \in Vals, Reads(row, f, v)
  PROVE  DecodeIn(row, f) = v
<1>1. row.off \in Nat /\ row.size \in Nat /\ row.len \in Nat
  BY DEF Rows
<1>2. v # NoVal
  BY NameAssumption
<1>3. CASE row.size = 0
  BY <1>1, <1>3 DEF Reads, DecodeIn
<1>4. CASE row.size # 0
  <2>1. /\ Size[v] > 0 /\ row.len = Size[v]
        /\ \A x \in 0 .. row.len - 1 : f[row.off + x] = <<v, x>>
    BY <1>1, <1>4 DEF Reads
  <2>2. f[row.off + 0] = <<v, 0>>
    BY <1>1, <2>1
  <2>3. f[row.off][1] = v
    BY <1>1, <2>2
  <2> QED BY <1>2, <1>4, <2>1, <2>3 DEF DecodeIn
<1> QED BY <1>3, <1>4

\* What a row holds depends on the cells of its extent only.
LEMMA ReadsKept ==
  ASSUME NEW row \in Rows, NEW f, NEW g, NEW v \in Vals, Reads(row, f, v),
         \A c \in Nat : In(row, c) => g[c] = f[c]
  PROVE  Reads(row, g, v)
<1>1. row.off \in Nat /\ row.size \in Nat /\ row.len \in Nat
  BY DEF Rows
<1>2. CASE row.size = 0
  BY <1>1, <1>2 DEF Reads
<1>3. CASE row.size # 0
  <2>1. /\ Size[v] > 0 /\ row.len = Size[v] /\ row.len <= row.size
        /\ \A x \in 0 .. row.len - 1 : f[row.off + x] = <<v, x>>
    BY <1>1, <1>3 DEF Reads
  <2>2. \A x \in 0 .. row.len - 1 : row.off + x \in Nat /\ In(row, row.off + x)
    BY <1>1, <2>1 DEF In
  <2>3. \A x \in 0 .. row.len - 1 : g[row.off + x] = <<v, x>>
    BY <2>1, <2>2
  <2> QED BY <1>1, <1>3, <2>1, <2>3 DEF Reads
<1> QED BY <1>2, <1>3

LEMMA WholeKept ==
  ASSUME NEW row \in Rows, NEW f, NEW g, Whole(row, f),
         \A c \in Nat : In(row, c) => g[c] = f[c]
  PROVE  /\ Whole(row, g) /\ DecodeIn(row, g) = DecodeIn(row, f)
         /\ DecodeIn(row, f) \in Vals
<1>1. PICK v \in Vals : Reads(row, f, v)
  BY DEF Whole
<1>2. Reads(row, g, v)
  BY <1>1, ReadsKept
<1> QED BY <1>1, <1>2, ReadsDecode DEF Whole

\* A value fits into the extent it is given.
Suits(e, v) == (e.size = 0) = (Size[v] = 0) /\ Size[v] <= e.size

\* A value written into an extent can be read from its row, and no cell outside
\* the extent changes.
LEMMA StoredReads ==
  ASSUME TypeOK, NEW k \in Keys, NEW v \in Vals, NEW e \in Exts, Suits(e, v),
         e.off + e.size <= MaxCells
  PROVE  /\ RowOf(k, v, e) \in Rows /\ Ext(RowOf(k, v, e)) = e /\ RowOf(k, v, e).key = k
         /\ Stored(v, e.off) \in [Cells -> (Vals \cup {NoVal}) \X Nat]
         /\ Reads(RowOf(k, v, e), Stored(v, e.off), v)
         /\ \A c \in Cells : ~(e.off <= c /\ c < e.off + e.size) => Stored(v, e.off)[c] = val[c]
<1> DEFINE row == RowOf(k, v, e)
<1>1. e.off \in Nat /\ e.size \in Nat /\ Size[v] \in Nat /\ MaxCells \in Nat
  BY SizeAssumption, StoreBounds DEF Exts
<1>2. /\ row.key = k /\ row.off = e.off /\ row.size = e.size /\ row.len = Size[v]
      /\ row.head = IF Size[v] = 0 THEN v ELSE NoVal
  BY DEF RowOf
<1>3. row \in Rows
  BY <1>1 DEF RowOf, Rows
<1>4. Ext(row) = e
  BY <1>2 DEF Ext, Exts
<1>5. Stored(v, e.off) \in [Cells -> (Vals \cup {NoVal}) \X Nat]
  <2>1. ASSUME NEW c \in Cells
        PROVE  (IF c \in e.off .. e.off + Size[v] - 1 THEN <<v, c - e.off>> ELSE val[c])
                 \in (Vals \cup {NoVal}) \X Nat
    <3>1. CASE c \in e.off .. e.off + Size[v] - 1
      <4>1. c - e.off \in Nat
        BY <1>1, <3>1 DEF Cells
      <4> QED BY <3>1, <4>1
    <3>2. CASE c \notin e.off .. e.off + Size[v] - 1
      BY <3>2 DEF TypeOK
    <3> QED BY <3>1, <3>2
  <2> QED BY <2>1 DEF Stored
<1>6. Reads(row, Stored(v, e.off), v)
  <2>1. CASE Size[v] = 0
    BY <1>1, <1>2, <2>1 DEF Reads, Suits
  <2>2. CASE Size[v] > 0
    <3>1. ASSUME NEW x \in 0 .. Size[v] - 1 PROVE Stored(v, e.off)[e.off + x] = <<v, x>>
      <4>1. e.off + x \in Cells /\ e.off + x \in e.off .. e.off + Size[v] - 1
            /\ (e.off + x) - e.off = x
        BY <1>1 DEF Cells, Suits
      <4> QED BY <4>1 DEF Stored
    <3>2. e.size > 0
      BY <1>1, <2>2 DEF Suits
    <3> QED BY <1>1, <1>2, <2>2, <3>1, <3>2 DEF Reads, Suits
  <2> QED BY <1>1, <2>1, <2>2
<1>7. ASSUME NEW c \in Cells, ~(e.off <= c /\ c < e.off + e.size)
      PROVE  Stored(v, e.off)[c] = val[c]
  <2>1. c \notin e.off .. e.off + Size[v] - 1
    BY <1>1, <1>7 DEF Suits, Cells
  <2> QED BY <2>1 DEF Stored
<1> QED BY <1>2, <1>3, <1>4, <1>5, <1>6, <1>7

-----------------------------------------------------------------------------
(* What a step keeps *)

\* The cells of row s keep what they hold.
Same(s) == \A c \in Nat : In(index.rows[s], c) => val'[c] = val[c]

\* A step that names the keys ks: the row of any other key may move but stays
\* as it is, and a parked row with a key was parked before or was the row of
\* one of the keys.
Keeps(ks) ==
  /\ \A r \in n_records' .. n_lines' - 1 : index'.rows[r].key \in Keys =>
       \E s \in 0 .. n_lines - 1 :
         /\ index'.rows[r] = index.rows[s] /\ Same(s)
         /\ s >= n_records \/ \E k \in ks : Exists(k) /\ s = key_table[k]
  /\ \A l \in Keys \ ks :
       /\ Exists(l)' <=> Exists(l)
       /\ Exists(l) => /\ index'.rows[key_table'[l]] = index.rows[key_table[l]]
                       /\ Same(key_table[l])

\* What Keeps says of one row
LEMMA SameWhole ==
  ASSUME Inv, NEW s \in 0 .. n_lines - 1, index.rows[s].key \in Keys, Same(s)
  PROVE  /\ Whole(index.rows[s], val')
         /\ DecodeIn(index.rows[s], val') = DecodeIn(index.rows[s], val)
         /\ DecodeIn(index.rows[s], val) \in Vals
<1>1. index.rows[s] \in Rows
  BY Basics DEF Inv
<1>2. Whole(index.rows[s], val)
  BY DEF Inv, InvWhole
<1> QED BY <1>1, <1>2, WholeKept DEF Same

\* The row of a record
LEMMA RecordRow ==
  ASSUME Inv, NEW k \in Keys, Exists(k)
  PROVE  /\ key_table[k] \in 0 .. n_records - 1 /\ key_table[k] \in 0 .. n_lines - 1
         /\ key_table[k] \in RowIds /\ index.rows[key_table[k]].key = k
         /\ DecodeIn(index.rows[key_table[k]], val) \in Vals
         /\ Value(k) = DecodeIn(index.rows[key_table[k]], val)
<1>1. /\ key_table[k] \in 0 .. MaxRows /\ key_table[k] < n_records
      /\ n_records \in Nat /\ n_lines \in Nat /\ n_records <= n_lines
      /\ 0 .. n_lines - 1 \subseteq RowIds
  BY Basics DEF Inv, Exists
<1>2. key_table[k] \in 0 .. n_records - 1 /\ key_table[k] \in 0 .. n_lines - 1
  BY <1>1
<1>3. index.rows[key_table[k]].key = k
  BY DEF Inv, InvKeys, KeyTableMatches
<1>4. index.rows[key_table[k]] \in Rows /\ Whole(index.rows[key_table[k]], val)
  BY <1>1, <1>2, <1>3, Basics DEF Inv, InvWhole
<1>5. DecodeIn(index.rows[key_table[k]], val) \in Vals
  BY <1>4, WholeKept
<1>6. Value(k) = DecodeIn(index.rows[key_table[k]], val)
  BY DEF Value, Decode, DecodeIn
<1> QED BY <1>1, <1>2, <1>3, <1>5, <1>6

\* A row is a record or comes after the records.
LEMMA TwoRegions ==
  ASSUME NEW n \in Nat, NEW lines \in Nat, NEW r, r \in 0 .. lines - 1
  PROVE  r \in n .. lines - 1 \/ (r \in 0 .. n - 1 /\ r < n)
OBVIOUS

\* The records of the named keys are whole after the step.
NamedWhole(ks) == \A k \in ks : key_table'[k] < n_records' => Whole(index'.rows[key_table'[k]], val')

\* Every row still holds a whole value, if the rows of the named keys do.
LEMMA KeepsWhole ==
  ASSUME Inv, TypeOK', InvKeys', NEW ks \in SUBSET Keys, Keeps(ks), NamedWhole(ks)
  PROVE  InvWhole'
<1> SUFFICES ASSUME NEW r, r \in 0 .. n_lines' - 1, index'.rows[r].key \in Keys
             PROVE  Whole(index'.rows[r], val')
  BY DEF InvWhole
<1>1. n_records' \in Nat /\ n_lines' \in Nat
  BY Basics DEF TypeOK
<1>4. r \in n_records' .. n_lines' - 1 \/ (r \in 0 .. n_records' - 1 /\ r < n_records')
  BY <1>1, TwoRegions
<1>2. CASE r \in n_records' .. n_lines' - 1
  <2>2. PICK s \in 0 .. n_lines - 1 : index'.rows[r] = index.rows[s] /\ Same(s)
    BY <1>2 DEF Keeps
  <2> QED BY <2>2, SameWhole
<1>3. CASE r \in 0 .. n_records' - 1 /\ r < n_records'
  <2>1. PICK l \in Keys : l = index'.rows[r].key /\ key_table'[l] = r /\ key_table'[l] < n_records'
    BY <1>3 DEF InvKeys, KeyTableMatches
  <2>2. CASE l \in ks
    BY <2>1, <2>2 DEF NamedWhole
  <2>3. CASE l \notin ks
    <3>1. Exists(l) /\ index'.rows[r] = index.rows[key_table[l]] /\ Same(key_table[l])
      BY <2>1, <2>3 DEF Keeps, Exists
    <3> QED BY <2>1, <3>1, RecordRow, SameWhole
  <2> QED BY <2>2, <2>3
<1> QED BY <1>2, <1>3, <1>4

\* What is read under the other keys stays, and a version is one that was there
\* or the displaced value of a named key.
LEMMA KeepsValues ==
  ASSUME Inv, NEW ks \in SUBSET Keys, Keeps(ks)
  PROVE  /\ \A l \in Keys \ ks : Value(l)' = Value(l)
         /\ \A p \in Versions' :
              p \in Versions \/ \E k \in ks : p = <<k, Value(k)>> /\ Value(k) \in Vals
<1>1. ASSUME NEW l \in Keys \ ks PROVE Value(l)' = Value(l)
  <2>1. Exists(l)' <=> Exists(l)
    BY DEF Keeps
  <2>2. CASE Exists(l)
    <3>1. index'.rows[key_table'[l]] = index.rows[key_table[l]] /\ Same(key_table[l])
      BY <2>2 DEF Keeps
    <3>2. Value(l)' = DecodeIn(index'.rows[key_table'[l]], val')
      BY <2>1, <2>2 DEF Value, Decode, DecodeIn
    <3> QED BY <2>2, <3>1, <3>2, RecordRow, SameWhole
  <2>3. CASE ~Exists(l)
    BY <2>1, <2>3 DEF Value
  <2> QED BY <2>2, <2>3
<1>2. ASSUME NEW p \in Versions'
      PROVE  p \in Versions \/ \E k \in ks : p = <<k, Value(k)>> /\ Value(k) \in Vals
  <2>1. PICK r \in n_records' .. n_lines' - 1 :
          index'.rows[r].key \in Keys /\ p = <<index'.rows[r].key, DecodeIn(index'.rows[r], val')>>
    BY DEF Versions, Decode, DecodeIn
  <2>2. PICK s \in 0 .. n_lines - 1 :
          /\ index'.rows[r] = index.rows[s] /\ Same(s)
          /\ s >= n_records \/ \E k \in ks : Exists(k) /\ s = key_table[k]
    BY <2>1 DEF Keeps
  <2>3. p = <<index.rows[s].key, DecodeIn(index.rows[s], val)>> /\ index.rows[s].key \in Keys
    BY <2>1, <2>2, SameWhole
  <2>4. CASE s >= n_records
    <3>1. s \in n_records .. n_lines - 1
      BY <2>4, Basics DEF Inv
    <3> QED BY <2>3, <3>1 DEF Versions, Decode, DecodeIn
  <2>5. CASE \E k \in ks : Exists(k) /\ s = key_table[k]
    <3>1. PICK k \in ks : Exists(k) /\ s = key_table[k]
      BY <2>5
    <3>2. index.rows[s].key = k /\ Value(k) = DecodeIn(index.rows[s], val) /\ Value(k) \in Vals
      BY <3>1, RecordRow
    <3> QED BY <2>3, <3>2
  <2> QED BY <2>2, <2>4, <2>5
<1> QED BY <1>1, <1>2

-----------------------------------------------------------------------------
(* The operations *)

\* The named key has the value v.
Puts(k, v) == Exists(k) /\ Reads(index.rows[key_table[k]], val, v)

LEMMA PutsValue ==
  ASSUME TypeOK', NEW k \in Keys, NEW v \in Vals, Puts(k, v)'
  PROVE  Value(k)' = v /\ Whole(index'.rows[key_table'[k]], val')
<1>1. key_table'[k] < n_records' /\ Reads(index'.rows[key_table'[k]], val', v)
  BY DEF Puts, Exists
<1>2. index'.rows[key_table'[k]] \in Rows
  BY <1>1, StoreBounds DEF TypeOK, RowIds
<1>3. DecodeIn(index'.rows[key_table'[k]], val') = v
  BY <1>1, <1>2, ReadsDecode
<1> QED BY <1>1, <1>3 DEF Value, Exists, Decode, DecodeIn, Whole

\* One key is named: the rows of the others are whole because they are kept.
LEMMA PutsInv ==
  ASSUME Inv, TypeOK', InvSpace', InvKeys', InvCache', NEW k \in Keys, NEW v \in Vals,
         Keeps({k}), Puts(k, v)'
  PROVE  Inv' /\ Value(k)' = v
<1>1. Value(k)' = v /\ Whole(index'.rows[key_table'[k]], val')
  BY PutsValue
<1>2. InvWhole'
  <2>1. {k} \in SUBSET Keys /\ NamedWhole({k})
    BY <1>1 DEF NamedWhole
  <2> QED BY <2>1, KeepsWhole
<1> QED BY <1>1, <1>2 DEF Inv

LEMMA OverwriteInv ==
  ASSUME Inv, NEW k \in Keys, NEW v \in Vals, NEW rev, Overwrite(k, v, rev)
  PROVE  /\ Inv' /\ Keeps({k}) /\ Value(k)' = v
         /\ \A r \in n_records .. n_lines - 1 : index'.rows[r] = index.rows[r] /\ Same(r)
<1> DEFINE row == key_table[k]
           e == Ext(index.rows[row])
           D == 0 .. n_lines - 1
<1>1. TypeOK /\ InvSpace /\ InvKeys /\ InvCache
  BY DEF Inv
<1>2. /\ index \in IndexType
      /\ n_lines \in Nat /\ n_records \in Nat /\ used \in Nat
      /\ MaxRows \in Nat /\ MaxCells \in Nat
      /\ n_records <= n_lines /\ n_lines <= MaxRows /\ used <= MaxCells
      /\ \A s \in D : s \in RowIds /\ index.rows[s] \in Rows
  BY <1>1, Basics
<1>3. /\ Exists(k) /\ Suits(e, v)
      /\ index' = WriteKey(index, n_records, row, RowOf(k, v, e))
      /\ val' = Stored(v, e.off)
      /\ UNCHANGED <<used, n_records, n_lines, key_table, safe_line, chg_keys, hdr_lines, open>>
      /\ dirty' = TRUE
  BY DEF Overwrite, Touched, Suits, Ext
<1>4. row \in 0 .. n_records - 1 /\ row \in D /\ row \in RowIds /\ index.rows[row].key = k
  BY <1>3, RecordRow
<1>5. /\ e \in Exts /\ e.off = index.rows[row].off /\ e.size = index.rows[row].size
      /\ e.off + e.size <= MaxCells
  <2>1. e.off + e.size <= used /\ e.off \in Nat /\ e.size \in Nat
    BY <1>1, <1>2, <1>4, ExtType DEF InvSpace, Divides, Ext
  <2> QED BY <1>2, <1>4, <2>1, ExtType DEF Ext
<1> HIDE DEF e
<1>6. /\ RowOf(k, v, e) \in Rows /\ Ext(RowOf(k, v, e)) = e /\ RowOf(k, v, e).key = k
      /\ val' \in [Cells -> (Vals \cup {NoVal}) \X Nat]
      /\ Reads(RowOf(k, v, e), val', v)
      /\ \A c \in Cells : ~(e.off <= c /\ c < e.off + e.size) => val'[c] = val[c]
  BY <1>1, <1>3, <1>5, StoredReads
<1>7. index' \in IndexType /\ InvCache'
  <2>1. index' \in IndexType
    BY <1>2, <1>3, <1>4, <1>6, WriteKeyType
  <2>2. CacheIn(index', n_records, n_lines)
    BY <1>1, <1>2, <1>3, <1>4, <1>6, WriteKeyCache DEF InvCache
  <2> QED BY <1>3, <2>1, <2>2 DEF InvCache
<1>8. /\ index'.rows[row] = RowOf(k, v, e)
      /\ \A s \in RowIds : s # row => index'.rows[s] = index.rows[s]
  BY <1>2, <1>3, <1>4 DEF WriteKey, IndexType
<1>9. TypeOK'
  BY <1>1, <1>3, <1>6, <1>7 DEF TypeOK, IndexType
<1>10. InvSpace'
  <2>1. Turned(index.rows, index'.rows, n_lines, row, row, row)
    BY <1>2, <1>6, <1>8 DEF Turned, e
  <2>2. Divides(index'.rows, n_lines, used)
    BY <1>1, <1>2, <1>4, <2>1, TurnedDivides DEF InvSpace
  <2> QED BY <1>3, <2>2 DEF InvSpace
<1>11. InvKeys'
  <2>1. \A s \in RowIds : index'.rows[s].key = index.rows[s].key
    BY <1>4, <1>6, <1>8
  <2>2. \A l \in Keys : Exists(l) => key_table[l] \in RowIds
    BY RecordRow
  <2>3. \A s \in 0 .. n_records - 1 : s \in RowIds
    BY <1>2
  <2> QED BY <1>1, <1>3, <2>1, <2>2, <2>3 DEF InvKeys, KeyTableMatches, Exists
<1>12. \A s \in D : s # row => Same(s)
  <2> SUFFICES ASSUME NEW s \in D, s # row, NEW c \in Nat, In(index.rows[s], c)
               PROVE  val'[c] = val[c]
    BY DEF Same
  <2>1. ~In(index.rows[row], c)
    BY <1>1, <1>4 DEF InvSpace, Divides
  <2>2. c \in Cells
    <3>1. index.rows[s].off + index.rows[s].size <= used /\ index.rows[s].off \in Nat
          /\ index.rows[s].size \in Nat
      BY <1>1, <1>2, ExtType DEF InvSpace, Divides
    <3> QED BY <1>2, <3>1 DEF In, Cells
  <2> QED BY <1>5, <1>6, <2>1, <2>2 DEF In
<1>13. Keeps({k})
  <2>1. ASSUME NEW r \in n_records .. n_lines - 1
        PROVE  r \in D /\ r >= n_records /\ index'.rows[r] = index.rows[r] /\ Same(r)
    BY <1>2, <1>4, <1>8, <1>12
  <2>2. ASSUME NEW l \in Keys \ {k}, Exists(l)
        PROVE  index'.rows[key_table[l]] = index.rows[key_table[l]] /\ Same(key_table[l])
    <3>1. key_table[l] \in D /\ key_table[l] \in RowIds /\ key_table[l] # row
      BY <1>4, <2>2, RecordRow
    <3> QED BY <1>8, <1>12, <3>1
  <2> QED BY <1>3, <2>1, <2>2 DEF Keeps, Exists
<1>14. Puts(k, v)'
  BY <1>3, <1>6, <1>8 DEF Puts, Exists
<1>15. \A r \in n_records .. n_lines - 1 : index'.rows[r] = index.rows[r] /\ Same(r)
  BY <1>2, <1>4, <1>8, <1>12
<1> QED BY <1>7, <1>9, <1>10, <1>11, <1>13, <1>14, <1>15, PutsInv

\* A step that puts value v of key k into space a and into row w, the row of k
\* or the first one after the records.  What was in w goes to row start, and
\* what was there to the row that became free.
Places(k, v, a, start, w) ==
  /\ Sound(a, start, Size[v])
  /\ \/ Exists(k) /\ w = key_table[k] /\ n_records' = n_records
     \/ ~Exists(k) /\ w = n_records /\ n_records' = n_records + 1
  /\ Turned(Freed(a), index'.rows, a.lines, w, start, a.row)
  /\ index'.rows[w] = RowOf(k, v, a.ext)
  /\ n_lines' = a.lines
  /\ Fill(v, a.ext)

\* The rows before row start stay where they are and hold what they held, but
\* for row w, which makes way to row start.
Below(start, w) ==
  /\ n_lines <= n_lines' /\ start < n_lines'
  /\ \A s \in 0 .. start - 1 :
       Same(s) /\ index'.rows[IF s = w THEN start ELSE s] = index.rows[s]

\* Such a step keeps the division of the space and what other rows hold.
LEMMA PlacesKeeps ==
  ASSUME Inv, NEW k \in Keys, NEW v \in Vals, NEW start \in n_records .. n_lines,
         NEW a, NEW w, Places(k, v, a, start, w)
  PROVE  /\ InvSpace' /\ Below(start, w)
         /\ used' \in 0 .. MaxCells
         /\ val' \in [Cells -> (Vals \cup {NoVal}) \X Nat]
         /\ Reads(RowOf(k, v, a.ext), val', v)
         /\ \A s \in 0 .. n_records - 1 : Same(s)
         /\ \A r : r \in 0 .. a.lines - 1 /\ r >= n_records /\ r # w /\ index'.rows[r].key \in Keys =>
              \E s \in 0 .. n_lines - 1 :
                /\ index'.rows[r] = index.rows[s] /\ Same(s)
                /\ s >= n_records \/ (Exists(k) /\ s = key_table[k])
<1>1. TypeOK /\ InvSpace
  BY DEF Inv
<1>2. /\ n_lines \in Nat /\ n_records \in Nat /\ used \in Nat
      /\ MaxRows \in Nat /\ MaxCells \in Nat
      /\ n_records <= n_lines /\ n_lines <= MaxRows /\ used <= MaxCells
      /\ \A s \in 0 .. n_lines - 1 : s \in RowIds /\ index.rows[s] \in Rows
  BY <1>1, Basics
<1>3. /\ a.lines \in n_lines .. MaxRows /\ a.row \in start .. a.lines - 1
      /\ a.ext \in Exts /\ Fits(a.ext.size, Size[v]) /\ a.ix \in IndexType
      /\ TopWith(a.ext) \in 0 .. MaxCells
      /\ Divides(Freed(a), a.lines, TopWith(a.ext))
  BY DEF Places, Sound
<1>4. /\ Turned(Freed(a), index'.rows, a.lines, w, start, a.row)
      /\ n_lines' = a.lines /\ val' = Stored(v, a.ext.off) /\ used' = TopWith(a.ext)
  BY DEF Places, Fill, TopWith
<1>5. /\ w \in 0 .. a.lines - 1 /\ start \in 0 .. a.lines - 1 /\ a.row \in 0 .. a.lines - 1
      /\ w <= start /\ (a.row = w => start = w) /\ a.lines \in Nat /\ start \in Nat
      /\ w >= n_records \/ (Exists(k) /\ w = key_table[k])
  <2>1. CASE Exists(k) /\ w = key_table[k]
    BY <1>2, <1>3, <2>1, RecordRow
  <2>2. CASE w = n_records
    BY <1>2, <1>3, <2>2
  <2> QED BY <2>1, <2>2 DEF Places
<1>6. InvSpace'
  <2>1. TopWith(a.ext) \in Nat
    BY <1>2, <1>3
  <2>2. Divides(index'.rows, a.lines, TopWith(a.ext))
    BY <1>3, <1>4, <1>5, <2>1, TurnedDivides
  <2> QED BY <1>4, <2>2 DEF InvSpace
<1>7. Suits(a.ext, v) /\ a.ext.off + a.ext.size <= MaxCells
  <2>1. Size[v] \in Nat /\ a.ext.off \in Nat /\ a.ext.size \in Nat
    BY <1>3, SizeAssumption DEF Exts
  <2> QED BY <1>2, <1>3, <2>1 DEF Suits, Fits, TopWith, Larger
<1>8. /\ val' \in [Cells -> (Vals \cup {NoVal}) \X Nat]
      /\ Reads(RowOf(k, v, a.ext), val', v)
      /\ \A c \in Cells : ~(a.ext.off <= c /\ c < a.ext.off + a.ext.size) => val'[c] = val[c]
  BY <1>1, <1>3, <1>4, <1>7, StoredReads
<1>9. /\ Freed(a)[a.row] = FreeRow(a.ext)
      /\ \A s \in 0 .. a.lines - 1 : s # a.row => Freed(a)[s] = a.ix.rows[s]
  <2>1. a.ix.rows \in [RowIds -> Rows] /\ a.row \in RowIds
        /\ \A s \in 0 .. a.lines - 1 : s \in RowIds
    BY <1>2, <1>3, <1>5 DEF IndexType, RowIds
  <2> QED BY <2>1 DEF Freed
<1>10. ASSUME NEW s \in 0 .. n_lines - 1, s # a.row, a.ix.rows[s] = index.rows[s]
       PROVE  Same(s)
  <2> SUFFICES ASSUME NEW c \in Nat, In(index.rows[s], c) PROVE val'[c] = val[c]
    BY DEF Same
  <2>1. s \in 0 .. a.lines - 1
    BY <1>2, <1>3
  <2>2. ~In(Freed(a)[a.row], c)
    BY <1>3, <1>5, <1>9, <1>10, <2>1 DEF Divides
  <2>3. ~(a.ext.off <= c /\ c < a.ext.off + a.ext.size)
    BY <1>3, <1>9, <2>2, FreeRowType DEF In
  <2>4. c \in Cells
    <3>1. /\ index.rows[s].off + index.rows[s].size <= used
          /\ index.rows[s].off \in Nat /\ index.rows[s].size \in Nat
      BY <1>1, <1>2, ExtType DEF InvSpace, Divides
    <3> QED BY <1>2, <3>1 DEF In, Cells
  <2> QED BY <1>8, <2>3, <2>4
<1>11. ASSUME NEW s \in 0 .. n_records - 1 PROVE Same(s)
  <2>1. s \in 0 .. start - 1 /\ s \in 0 .. n_lines - 1 /\ s # a.row
    BY <1>2, <1>3
  <2>2. a.ix.rows[s] = index.rows[s]
    BY <2>1 DEF Places, Sound
  <2> QED BY <1>10, <2>1, <2>2
<1>12. ASSUME NEW r, r \in 0 .. a.lines - 1, r >= n_records, r # w, index'.rows[r].key \in Keys
       PROVE  \E s \in 0 .. n_lines - 1 :
                /\ index'.rows[r] = index.rows[s] /\ Same(s)
                /\ s >= n_records \/ (Exists(k) /\ s = key_table[k])
  <2> DEFINE s == From(r, w, start, a.row)
  <2>1. index'.rows[r] = Freed(a)[s] /\ s # a.row
    <3>1. /\ Turned(Freed(a), index'.rows, a.lines, w, start, a.row) /\ a.lines \in Nat
          /\ w \in 0 .. a.lines - 1 /\ start \in 0 .. a.lines - 1 /\ a.row \in 0 .. a.lines - 1
          /\ (w = a.row => start = w) /\ r \in 0 .. a.lines - 1
      BY <1>4, <1>5, <1>12
    <3>2. r # w => index'.rows[r] = Freed(a)[From(r, w, start, a.row)] /\ From(r, w, start, a.row) # a.row
      BY <3>1 DEF Turned, From
    <3> QED BY <1>12, <3>2
  <2>2. s \in 0 .. a.lines - 1
    BY <1>5, <1>12, FromPermutes
  <2>3. s >= n_records \/ s = w
    BY <1>2, <1>12 DEF From
  <2> HIDE DEF s
  <2>4. index'.rows[r] = a.ix.rows[s]
    BY <1>9, <2>1, <2>2
  <2>5. a.ix.rows[s].key # NoKey
    BY <1>12, <2>4, NameAssumption
  <2>6. s \in 0 .. n_lines - 1 /\ a.ix.rows[s] = index.rows[s]
    <3>1. CASE s < start
      <4>1. s \in 0 .. start - 1
        BY <1>5, <2>2, <3>1
      <4> QED BY <1>2, <4>1 DEF Places, Sound
    <3>2. CASE s >= start
      <4>1. s \in start .. a.lines - 1
        BY <1>5, <2>2, <3>2
      <4>2. s < n_lines /\ a.ix.rows[s] = index.rows[s]
        BY <2>1, <2>5, <4>1 DEF Places, Sound
      <4> QED BY <1>2, <2>2, <4>2
    <3> QED BY <1>5, <2>2, <3>1, <3>2
  <2>7. Same(s)
    BY <1>10, <2>1, <2>6
  <2> QED BY <1>5, <2>3, <2>4, <2>6, <2>7
<1>13. Below(start, w)
  <2>1. ASSUME NEW s \in 0 .. start - 1
        PROVE  Same(s) /\ index'.rows[IF s = w THEN start ELSE s] = index.rows[s]
    <3>1. s \in 0 .. n_lines - 1 /\ s \in 0 .. a.lines - 1 /\ s # a.row /\ s # start /\ s < start
      BY <1>2, <1>3, <1>5
    <3>2. a.ix.rows[s] = index.rows[s] /\ Freed(a)[s] = a.ix.rows[s]
      BY <1>9, <2>1, <3>1 DEF Places, Sound
    <3>3. Same(s)
      BY <1>10, <3>1, <3>2
    <3>4. CASE s = w
      BY <1>4, <3>1, <3>2, <3>3, <3>4 DEF Turned
    <3>5. CASE s # w
      BY <1>4, <3>1, <3>2, <3>3, <3>5 DEF Turned
    <3> QED BY <3>4, <3>5
  <2>2. n_lines <= n_lines' /\ start < n_lines'
    BY <1>2, <1>3, <1>4, <1>5
  <2> QED BY <2>1, <2>2 DEF Below
<1> QED BY <1>3, <1>4, <1>6, <1>8, <1>11, <1>12, <1>13

\* What such a step does to the memory of the handle
Notes(k, w) ==
  /\ index' \in IndexType /\ CacheIn(index', n_records', n_lines')
  /\ key_table' = [key_table EXCEPT ![k] = w]
  /\ safe_line' \in Nat /\ chg_keys' \subseteq Keys
  /\ Touched

LEMMA PlacesInv ==
  ASSUME Inv, NEW k \in Keys, NEW v \in Vals, NEW start \in n_records .. n_lines,
         NEW a, NEW w, Places(k, v, a, start, w), Notes(k, w)
  PROVE  Inv' /\ Keeps({k}) /\ Value(k)' = v /\ Below(start, w)
<1>1. TypeOK /\ InvSpace /\ InvKeys
  BY DEF Inv
<1>2. /\ n_lines \in Nat /\ n_records \in Nat /\ hdr_lines \in Nat
      /\ MaxRows \in Nat /\ MaxCells \in Nat
      /\ n_records <= n_lines /\ n_lines <= MaxRows /\ hdr_lines <= n_lines
      /\ \A l \in Keys : key_table[l] \in 0 .. MaxRows
      /\ key_table \in [Keys -> 0 .. MaxRows]
  BY <1>1, Basics DEF TypeOK
<1>3. /\ a.lines \in n_lines .. MaxRows /\ a.row \in start .. a.lines - 1
      /\ a.ext \in Exts /\ Fits(a.ext.size, Size[v]) /\ a.ix \in IndexType
      /\ TopWith(a.ext) \in 0 .. MaxCells
      /\ n_lines' = a.lines
  BY DEF Places, Sound
<1>4. /\ w \in 0 .. a.lines - 1 /\ w \in RowIds /\ a.lines \in Nat
      /\ n_records' \in 0 .. a.lines /\ w < n_records' /\ w \in Nat
      /\ \A l \in Keys \ {k} : Exists(l) => key_table[l] # w
      /\ \A l \in Keys \ {k} : key_table[l] < n_records' <=> Exists(l)
  <2>1. CASE Exists(k) /\ w = key_table[k] /\ n_records' = n_records
    <3>1. \A l \in Keys : Exists(l) => index.rows[key_table[l]].key = l
      BY RecordRow
    <3>2. w \in 0 .. n_records - 1
      BY <2>1, RecordRow
    <3> QED BY <1>2, <1>3, <2>1, <3>1, <3>2 DEF RowIds, Exists
  <2>2. CASE ~Exists(k) /\ w = n_records /\ n_records' = n_records + 1
    <3>1. \A l \in Keys : Exists(l) \/ key_table[l] = MaxRows
      BY <1>1 DEF InvKeys, NoRow
    <3> QED BY <1>2, <1>3, <2>2, <3>1 DEF RowIds, Exists
  <2> QED BY <2>1, <2>2 DEF Places
<1>5. /\ InvSpace' /\ Below(start, w)
      /\ used' \in 0 .. MaxCells
      /\ val' \in [Cells -> (Vals \cup {NoVal}) \X Nat]
      /\ Reads(RowOf(k, v, a.ext), val', v)
      /\ \A s \in 0 .. n_records - 1 : Same(s)
      /\ \A r : r \in 0 .. a.lines - 1 /\ r >= n_records /\ r # w /\ index'.rows[r].key \in Keys =>
           \E s \in 0 .. n_lines - 1 :
             /\ index'.rows[r] = index.rows[s] /\ Same(s)
             /\ s >= n_records \/ (Exists(k) /\ s = key_table[k])
  BY PlacesKeeps
<1>6. TypeOK'
  <2>1. key_table' \in [Keys -> 0 .. MaxRows]
    BY <1>2, <1>4 DEF Notes, RowIds
  <2>2. n_lines' \in 0 .. MaxRows /\ n_records' \in 0 .. n_lines' /\ hdr_lines' \in 0 .. n_lines'
    BY <1>2, <1>3, <1>4 DEF Notes, Touched
  <2> QED BY <1>1, <1>5, <2>1, <2>2 DEF TypeOK, Notes, Touched, IndexType
<1>7. /\ index'.rows[w] = RowOf(k, v, a.ext) /\ index'.rows[w].key = k
      /\ key_table'[k] = w
      /\ \A l \in Keys \ {k} : key_table'[l] = key_table[l]
  BY <1>2 DEF Places, RowOf, Notes
<1>8. ASSUME NEW r \in 0 .. n_records - 1, r # w PROVE index'.rows[r] = index.rows[r]
  <2>1. r \in 0 .. a.lines - 1 /\ r < start /\ r # a.row /\ r \in RowIds /\ r \in 0 .. start - 1
    BY <1>2, <1>3 DEF RowIds
  <2>2. index'.rows[r] = Freed(a)[r]
    BY <1>8, <2>1 DEF Places, Turned
  <2>3. Freed(a)[r] = a.ix.rows[r]
    BY <1>3, <2>1 DEF Freed, IndexType
  <2>4. a.ix.rows[r] = index.rows[r]
    BY <2>1 DEF Places, Sound
  <2> QED BY <2>2, <2>3, <2>4
<1>9. \A l \in Keys \ {k} :
        /\ Exists(l)' <=> Exists(l)
        /\ Exists(l) => /\ index'.rows[key_table'[l]] = index.rows[key_table[l]]
                        /\ Same(key_table[l]) /\ key_table[l] \in 0 .. n_records - 1
  <2> SUFFICES ASSUME NEW l \in Keys \ {k}
               PROVE  /\ Exists(l)' <=> Exists(l)
                      /\ Exists(l) => /\ index'.rows[key_table'[l]] = index.rows[key_table[l]]
                                      /\ Same(key_table[l]) /\ key_table[l] \in 0 .. n_records - 1
    OBVIOUS
  <2>1. key_table'[l] = key_table[l]
    BY <1>7
  <2>2. key_table'[l] < n_records' <=> Exists(l)
    <3>1. key_table[l] \in Nat /\ n_records' \in Nat
      BY <1>2, <1>4
    <3> QED BY <1>4, <2>1, <3>1
  <2>3. ASSUME Exists(l)
        PROVE  /\ index'.rows[key_table'[l]] = index.rows[key_table[l]]
               /\ Same(key_table[l]) /\ key_table[l] \in 0 .. n_records - 1
    <3>1. key_table[l] \in 0 .. n_records - 1 /\ key_table[l] # w
      BY <1>4, <2>3, RecordRow
    <3> QED BY <1>5, <1>8, <2>1, <3>1
  <2> QED BY <2>2, <2>3 DEF Exists
<1>10. InvKeys'
  <2>1. ASSUME NEW r, r \in 0 .. n_records' - 1
        PROVE  index'.rows[r].key \in Keys /\ key_table'[index'.rows[r].key] = r
    <3>1. CASE r = w
      BY <1>7, <3>1
    <3>2. CASE r # w
      <4>1. r \in 0 .. n_records - 1
        <5>1. n_records' = n_records \/ (w = n_records /\ n_records' = n_records + 1)
          BY DEF Places
        <5>2. r \in 0 .. n_records /\ (w = n_records => r # n_records)
          BY <1>2, <2>1, <3>2, <5>1
        <5> QED BY <1>2, <2>1, <5>1, <5>2
      <4>2. index.rows[r].key \in Keys /\ key_table[index.rows[r].key] = r
        BY <1>1, <4>1 DEF InvKeys, KeyTableMatches
      <4>3. index.rows[r].key # k
        <5>1. CASE Exists(k) /\ w = key_table[k]
          BY <3>2, <4>2, <5>1
        <5>2. CASE ~Exists(k)
          BY <1>2, <4>1, <4>2, <5>2 DEF Exists
        <5> QED BY <5>1, <5>2 DEF Places
      <4> QED BY <1>7, <1>8, <3>2, <4>1, <4>2, <4>3
    <3> QED BY <3>1, <3>2
  <2>2. ASSUME NEW l \in Keys
        PROVE  /\ key_table'[l] < n_records' => index'.rows[key_table'[l]].key = l
               /\ key_table'[l] < n_records' \/ key_table'[l] = NoRow
    <3>1. CASE l = k
      BY <1>4, <1>7, <3>1
    <3>2. CASE l # k
      <4>1. Exists(l) => index.rows[key_table[l]].key = l
        BY RecordRow
      <4>2. Exists(l) \/ key_table[l] = NoRow
        BY <1>1 DEF InvKeys
      <4> QED BY <1>7, <1>9, <3>2, <4>1, <4>2 DEF Exists
    <3> QED BY <3>1, <3>2
  <2> QED BY <2>1, <2>2 DEF InvKeys, KeyTableMatches, Exists
<1>11. InvCache'
  BY DEF Notes, InvCache
<1>12. Keeps({k})
  <2>1. ASSUME NEW r, r \in n_records' .. n_lines' - 1, index'.rows[r].key \in Keys
        PROVE  \E s \in 0 .. n_lines - 1 :
                 /\ index'.rows[r] = index.rows[s] /\ Same(s)
                 /\ s >= n_records \/ \E l \in {k} : Exists(l) /\ s = key_table[l]
    <3>1. r \in 0 .. a.lines - 1 /\ r >= n_records /\ r # w
      BY <1>2, <1>3, <1>4, <2>1 DEF Places
    <3> QED BY <1>5, <2>1, <3>1
  <2> QED BY <1>9, <2>1 DEF Keeps
<1>13. Puts(k, v)'
  BY <1>4, <1>5, <1>7 DEF Puts, Exists
<1> QED BY <1>5, <1>6, <1>10, <1>11, <1>12, <1>13, PutsInv

LEMMA Lines ==
  ASSUME TypeOK
  PROVE  /\ \A rev \in BOOLEAN : StartLine(rev) \in n_records .. n_lines
         /\ SafeLine \in n_records .. n_lines
BY CallAssumption DEF TypeOK, StartLine, SafeLine, Smaller, Larger

LEMMA NotesTypes ==
  ASSUME TypeOK, NEW rev \in BOOLEAN, NEW k \in Keys, NEW start \in Nat, NoteKey(rev, k, start)
  PROVE  safe_line' \in Nat /\ chg_keys' \subseteq Keys
BY DEF TypeOK, NoteKey

\* What was in row start is out of the way.
LEMMA MadeWayRows ==
  ASSUME TypeOK, NEW start \in n_records .. n_lines, NEW req, NEW a, Sound(a, start, req)
  PROVE  /\ MadeWay(a, start) \in IndexType
         /\ CacheIn(MadeWay(a, start), n_records, a.lines)
         /\ a.row # start => MadeWay(a, start).rows[a.row] = a.ix.rows[start]
         /\ \A r \in RowIds : r # a.row => MadeWay(a, start).rows[r] = a.ix.rows[r]
         /\ start \in RowIds /\ a.row \in RowIds
<1>1. /\ a.ix \in IndexType /\ a.lines \in n_lines .. MaxRows /\ a.row \in start .. a.lines - 1
      /\ CacheIn(a.ix, n_records, a.lines)
  BY DEF Sound
<1>2. n_records \in Nat /\ n_lines \in Nat /\ MaxRows \in Nat /\ a.lines \in Nat
  BY <1>1, Basics
<1>3. start \in RowIds /\ a.row \in RowIds
  BY <1>1, <1>2 DEF RowIds
<1>4. CASE a.row > start
  <2>1. MadeWay(a, start) = CopyKey(a.ix, start, a.row)
    BY <1>4 DEF MadeWay
  <2>2. MadeWay(a, start).rows = [a.ix.rows EXCEPT ![a.row] = a.ix.rows[start]]
    BY <2>1 DEF CopyKey
  <2> QED BY <1>1, <1>2, <1>3, <2>1, <2>2, CopyKeyType, CopyKeyCache DEF IndexType
<1>5. CASE ~(a.row > start)
  <2>1. a.row = start /\ MadeWay(a, start) = a.ix
    BY <1>1, <1>2, <1>5 DEF MadeWay
  <2> QED BY <1>1, <1>3, <2>1
<1> QED BY <1>4, <1>5

\* The record moves to its new space and its old row is parked in row start.
LEMMA ReplaceInv ==
  ASSUME Inv, NEW k \in Keys, NEW v \in Vals, NEW rev \in BOOLEAN, NEW sp \in BOOLEAN,
         Replace(k, v, rev, sp)
  PROVE  Inv' /\ Keeps({k}) /\ Value(k)' = v /\ Below(StartLine(rev), key_table[k])
<1> DEFINE row == key_table[k]
           old == index.rows[row]
           start == StartLine(rev)
<1>1. TypeOK
  BY DEF Inv
<1>2. PICK a \in Space(start, Size[v], sp) :
        /\ InBounds(a)
        /\ index' = WriteKey(WriteKey(MadeWay(a, start), n_records, start, old),
                             n_records, row, RowOf(k, v, a.ext))
        /\ n_lines' = a.lines
        /\ Fill(v, a.ext)
  BY DEF Replace
<1>3. /\ Exists(k) /\ NoteKey(rev, k, start) /\ Touched
      /\ n_records' = n_records /\ key_table' = key_table
  BY DEF Replace
<1>4. start \in n_records .. n_lines /\ start \in Nat
  BY <1>1, Lines, Basics
<1>5. Sound(a, start, Size[v])
  BY <1>2, <1>4, SpaceSound, SizeAssumption
<1>6. /\ row \in 0 .. n_records - 1 /\ row \in RowIds /\ old \in Rows
      /\ row < start /\ row # a.row /\ start >= n_records
      /\ row \in 0 .. start - 1
  BY <1>1, <1>3, <1>4, <1>5, RecordRow, Basics DEF Sound
<1>7. /\ MadeWay(a, start) \in IndexType
      /\ CacheIn(MadeWay(a, start), n_records, a.lines)
      /\ a.row # start => MadeWay(a, start).rows[a.row] = a.ix.rows[start]
      /\ \A r \in RowIds : r # a.row => MadeWay(a, start).rows[r] = a.ix.rows[r]
      /\ start \in RowIds /\ a.row \in RowIds
  BY <1>1, <1>4, <1>5, MadeWayRows
<1>8. RowOf(k, v, a.ext) \in Rows /\ Ext(RowOf(k, v, a.ext)) = a.ext /\ a.ext \in Exts
  BY <1>5, SizeAssumption DEF Sound, RowOf, Rows, Exts, Ext
<1>9. /\ a.lines \in n_lines .. MaxRows /\ a.row \in start .. a.lines - 1 /\ a.lines \in Nat
      /\ start \in 0 .. a.lines - 1 /\ row \in 0 .. a.lines - 1
      /\ \A r \in 0 .. a.lines - 1 : r \in RowIds
  BY <1>1, <1>4, <1>5, <1>6, Basics DEF Sound, RowIds
<1> HIDE DEF start, row, old
<1>10. /\ index' \in IndexType /\ CacheIn(index', n_records, a.lines)
       /\ index'.rows = [MadeWay(a, start).rows EXCEPT ![start] = old, ![row] = RowOf(k, v, a.ext)]
  <2>1. /\ WriteKey(MadeWay(a, start), n_records, start, old) \in IndexType
        /\ CacheIn(WriteKey(MadeWay(a, start), n_records, start, old), n_records, a.lines)
    BY <1>1, <1>6, <1>7, <1>9, Basics, WriteKeyType, WriteKeyCache
  <2>2. index' \in IndexType /\ CacheIn(index', n_records, a.lines)
    BY <1>1, <1>2, <1>6, <1>8, <1>9, <2>1, Basics, WriteKeyType, WriteKeyCache
  <2>3. index'.rows = [MadeWay(a, start).rows EXCEPT ![start] = old, ![row] = RowOf(k, v, a.ext)]
    BY <1>2 DEF WriteKey
  <2> QED BY <2>2, <2>3
<1>11. /\ index'.rows[row] = RowOf(k, v, a.ext) /\ index'.rows[start] = old
       /\ a.row # start => index'.rows[a.row] = a.ix.rows[start]
       /\ \A r \in RowIds : r \notin {row, start, a.row} => index'.rows[r] = a.ix.rows[r]
  BY <1>4, <1>6, <1>7, <1>10 DEF IndexType
<1>12. Turned(Freed(a), index'.rows, a.lines, row, start, a.row)
  <2>1. /\ Freed(a)[a.row] = FreeRow(a.ext)
        /\ \A r \in RowIds : r # a.row => Freed(a)[r] = a.ix.rows[r]
    BY <1>5, <1>7 DEF Freed, Sound, IndexType
  <2>2. a.ix.rows[row] = old
    BY <1>5, <1>6 DEF Sound, old
  <2> QED BY <1>6, <1>7, <1>8, <1>9, <1>11, <2>1, <2>2, FreeRowType DEF Turned
<1>13. Places(k, v, a, start, row)
  BY <1>2, <1>3, <1>5, <1>11, <1>12 DEF Places, row
<1>14. Notes(k, row)
  <2>1. key_table' = [key_table EXCEPT ![k] = row]
    BY <1>1, <1>3 DEF TypeOK, row
  <2> QED BY <1>1, <1>2, <1>3, <1>4, <1>10, <2>1, NotesTypes DEF Notes
<1>15. Inv' /\ Keeps({k}) /\ Value(k)' = v /\ Below(start, row)
  BY <1>4, <1>13, <1>14, PlacesInv
<1> QED BY <1>15 DEF start, row

\* A new record takes the first row after the records.
LEMMA AddAt ==
  ASSUME Inv, NEW k \in Keys, NEW v \in Vals, NEW start \in n_records .. n_lines,
         NEW a, Sound(a, start, Size[v]), ~Exists(k),
         index' = WriteKey(IF start > n_records THEN CopyKey(MadeWay(a, start), n_records, start)
                                                ELSE MadeWay(a, start),
                           n_records, n_records, RowOf(k, v, a.ext)),
         n_lines' = a.lines, Fill(v, a.ext), n_records' = n_records + 1,
         key_table' = [key_table EXCEPT ![k] = n_records],
         safe_line' \in Nat, chg_keys' \subseteq Keys, Touched
  PROVE  Inv' /\ Keeps({k}) /\ Value(k)' = v /\ Below(start, n_records)
<1> DEFINE moved == IF start > n_records THEN CopyKey(MadeWay(a, start), n_records, start)
                                         ELSE MadeWay(a, start)
           new == RowOf(k, v, a.ext)
<1>1. TypeOK
  BY DEF Inv
<1>2. /\ n_records \in Nat /\ n_lines \in Nat /\ MaxRows \in Nat /\ start \in Nat
      /\ start >= n_records
      /\ a.lines \in n_lines .. MaxRows /\ a.row \in start .. a.lines - 1 /\ a.lines \in Nat
      /\ \A r \in 0 .. a.lines - 1 : r \in RowIds
  BY <1>1, Basics DEF Sound, RowIds
<1>3. /\ MadeWay(a, start) \in IndexType
      /\ CacheIn(MadeWay(a, start), n_records, a.lines)
      /\ a.row # start => MadeWay(a, start).rows[a.row] = a.ix.rows[start]
      /\ \A r \in RowIds : r # a.row => MadeWay(a, start).rows[r] = a.ix.rows[r]
      /\ start \in RowIds /\ a.row \in RowIds
  BY <1>1, MadeWayRows
<1>4. /\ n_records \in 0 .. a.lines - 1 /\ n_records \in RowIds
      /\ start \in 0 .. a.lines - 1 /\ a.row \in 0 .. a.lines - 1
  BY <1>2
<1>5. new \in Rows /\ Ext(new) = a.ext /\ a.ext \in Exts
  BY SizeAssumption DEF Sound, RowOf, Rows, Exts, Ext
<1>6. /\ moved \in IndexType /\ CacheIn(moved, n_records, a.lines)
      /\ start # n_records => moved.rows[start] = a.ix.rows[n_records]
      /\ a.row # start => moved.rows[a.row] = a.ix.rows[start]
      /\ \A r \in RowIds : r \notin {start, a.row} => moved.rows[r] = a.ix.rows[r]
  <2>1. CASE start > n_records
    <3>1. moved = CopyKey(MadeWay(a, start), n_records, start)
      BY <2>1
    <3>2. moved \in IndexType /\ CacheIn(moved, n_records, a.lines)
      BY <1>2, <1>3, <1>4, <3>1, CopyKeyType, CopyKeyCache
    <3>3. moved.rows = [MadeWay(a, start).rows EXCEPT ![start] = MadeWay(a, start).rows[n_records]]
      BY <3>1 DEF CopyKey
    <3>4. MadeWay(a, start).rows[n_records] = a.ix.rows[n_records]
      BY <1>2, <1>3, <1>4, <2>1
    <3> HIDE DEF moved
    <3> QED BY <1>3, <3>2, <3>3, <3>4 DEF IndexType
  <2>2. CASE ~(start > n_records)
    <3>1. moved = MadeWay(a, start) /\ start = n_records
      BY <1>2, <2>2
    <3> HIDE DEF moved
    <3> QED BY <1>3, <3>1
  <2> QED BY <2>1, <2>2
<1> HIDE DEF moved, new
<1>7. index' = WriteKey(moved, n_records, n_records, new)
  BY DEF moved, new
<1>8. /\ index' \in IndexType /\ CacheIn(index', n_records, a.lines)
      /\ index'.rows = [moved.rows EXCEPT ![n_records] = new]
      /\ index'.dead = [moved.dead EXCEPT ![n_records] = NoExt]
  <2>1. index'.dead = [moved.dead EXCEPT ![n_records] = NoExt]
    BY <1>2, <1>7 DEF WriteKey
  <2>2. index'.rows = [moved.rows EXCEPT ![n_records] = new]
    BY <1>7 DEF WriteKey
  <2>3. index' \in IndexType /\ CacheIn(index', n_records, a.lines)
    BY <1>2, <1>4, <1>5, <1>6, <1>7, WriteKeyType, WriteKeyCache
  <2> QED BY <2>1, <2>2, <2>3
<1>9. CacheIn(index', n_records + 1, a.lines)
  <2>1. index'.dead[n_records] = NoExt
    BY <1>4, <1>6, <1>8 DEF IndexType
  <2> SUFFICES ASSUME NEW r \in RowIds, index'.dead[r] # NoExt
               PROVE  r \in n_records + 1 .. a.lines - 1 /\ index'.dead[r] = Ext(index'.rows[r])
    BY DEF CacheIn
  <2>2. r \in n_records .. a.lines - 1 /\ index'.dead[r] = Ext(index'.rows[r])
    BY <1>8 DEF CacheIn
  <2> QED BY <1>2, <2>1, <2>2
<1>10. /\ index'.rows[n_records] = new
       /\ start # n_records => index'.rows[start] = a.ix.rows[n_records]
       /\ a.row # start => index'.rows[a.row] = a.ix.rows[start]
       /\ \A r \in RowIds : r \notin {n_records, start, a.row} => index'.rows[r] = a.ix.rows[r]
  BY <1>2, <1>4, <1>6, <1>8 DEF IndexType
<1>11. Turned(Freed(a), index'.rows, a.lines, n_records, start, a.row)
  <2>1. /\ Freed(a)[a.row] = FreeRow(a.ext)
        /\ \A r \in RowIds : r # a.row => Freed(a)[r] = a.ix.rows[r]
    BY <1>3 DEF Freed, Sound, IndexType
  <2>2. start # n_records => n_records # a.row
    BY <1>2
  <2>3. Ext(Freed(a)[a.row]) = a.ext
    BY <1>5, <2>1, FreeRowType
  <2> QED BY <1>2, <1>3, <1>4, <1>5, <1>10, <2>1, <2>2, <2>3 DEF Turned
<1>12. Places(k, v, a, start, n_records)
  BY <1>10, <1>11 DEF Places, new
<1>13. Notes(k, n_records)
  BY <1>8, <1>9 DEF Notes
<1> QED BY <1>12, <1>13, PlacesInv

LEMMA AddInv ==
  ASSUME Inv, NEW k \in Keys, NEW v \in Vals, NEW rev \in BOOLEAN, NEW sp \in BOOLEAN,
         Add(k, v, rev, sp)
  PROVE  Inv' /\ Keeps({k}) /\ Value(k)' = v /\ Below(StartLine(rev), n_records)
<1> DEFINE start == StartLine(rev)
<1>1. TypeOK
  BY DEF Inv
<1>2. start \in n_records .. n_lines /\ start \in Nat
  BY <1>1, Lines, Basics
<1> HIDE DEF start
<1>3. PICK a \in Space(start, Size[v], sp) :
        /\ InBounds(a)
        /\ index' = WriteKey(IF start > n_records THEN CopyKey(MadeWay(a, start), n_records, start)
                                                  ELSE MadeWay(a, start),
                             n_records, n_records, RowOf(k, v, a.ext))
        /\ n_lines' = a.lines
        /\ Fill(v, a.ext)
  BY DEF Add, start
<1>4. /\ ~Exists(k) /\ n_records' = n_records + 1 /\ Touched
      /\ key_table' = [key_table EXCEPT ![k] = n_records]
      /\ chg_keys' = IF rev THEN chg_keys \cup {k} ELSE chg_keys
      /\ safe_line' = IF rev THEN IF k \in chg_keys THEN safe_line ELSE start + 1
                             ELSE Capped(safe_line + 1)
  BY DEF Add, start
<1>5. safe_line' \in Nat /\ chg_keys' \subseteq Keys
  BY <1>1, <1>2, <1>4, StoreBounds DEF TypeOK, Capped, Smaller
<1>6. Sound(a, start, Size[v])
  BY <1>2, <1>3, SpaceSound, SizeAssumption
<1>7. Inv' /\ Keeps({k}) /\ Value(k)' = v /\ Below(start, n_records)
  BY <1>2, <1>3, <1>4, <1>5, <1>6, AddAt
<1> QED BY <1>7 DEF start

LEMMA AppendInv ==
  ASSUME Inv, NEW k \in Keys, NEW v \in Vals, Append(k, v)
  PROVE  Inv' /\ Keeps({k}) /\ Value(k)' = v
<1> DEFINE a == Fresh(Size[v])
<1>1. TypeOK
  BY DEF Inv
<1>2. CASE Overwrite(k, v, FALSE)
  BY <1>2, OverwriteInv
<1>3. CASE Replace(k, v, FALSE, FALSE)
  BY <1>3, ReplaceInv
<1>4. CASE /\ ~Exists(k) /\ InBounds(a)
           /\ index' = WriteKey(IF SafeLine > n_records THEN CopyKey(MadeWay(a, SafeLine), n_records, SafeLine)
                                                        ELSE MadeWay(a, SafeLine),
                                n_records, n_records, RowOf(k, v, a.ext))
           /\ n_lines' = a.lines
           /\ Fill(v, a.ext)
           /\ safe_line' = Capped(safe_line + 1)
           /\ n_records' = n_records + 1
           /\ key_table' = [key_table EXCEPT ![k] = n_records]
           /\ Touched
           /\ UNCHANGED chg_keys
  <2>1. SafeLine \in n_records .. n_lines
    BY <1>1, Lines
  <2>2. Sound(a, SafeLine, Size[v])
    BY <1>4, <2>1, FreshSound, SizeAssumption
  <2>3. safe_line' \in Nat /\ chg_keys' \subseteq Keys
    BY <1>1, <1>4, StoreBounds DEF TypeOK, Capped, Smaller
  <2> HIDE DEF a
  <2> QED BY <1>4, <2>1, <2>2, <2>3, AddAt
<1> HIDE DEF a
<1> QED BY <1>2, <1>3, <1>4 DEF Append, a

\* A step that only moves rows
Moves(a, b, c) ==
  /\ a \in 0 .. n_lines - 1 /\ b \in 0 .. n_lines - 1 /\ c \in 0 .. n_lines - 1
  /\ a = c => b = a
  /\ Turned(index.rows, index'.rows, n_lines, a, b, c)
  /\ index'.rows[a] = index.rows[c]
  /\ UNCHANGED <<val, used, n_lines>>

LEMMA MovesKeeps ==
  ASSUME Inv, NEW a, NEW b, NEW c, Moves(a, b, c)
  PROVE  /\ InvSpace' /\ InvWhole'
         /\ \A s : Same(s)
         /\ \A r : r \in 0 .. n_lines - 1 => /\ From(r, a, b, c) \in 0 .. n_lines - 1
                                             /\ index'.rows[r] = index.rows[From(r, a, b, c)]
<1>1. /\ a \in 0 .. n_lines - 1 /\ b \in 0 .. n_lines - 1 /\ c \in 0 .. n_lines - 1
      /\ a = c => b = a
      /\ Turned(index.rows, index'.rows, n_lines, a, b, c)
      /\ index'.rows[a] = index.rows[c]
      /\ UNCHANGED <<val, used, n_lines>>
  BY DEF Moves
<1>2. n_lines \in Nat /\ used \in Nat
  BY Basics DEF Inv
<1>3. InvSpace'
  <2>1. Divides(index'.rows, n_lines, used)
    BY <1>1, <1>2, TurnedDivides DEF Inv, InvSpace
  <2> QED BY <1>1, <2>1 DEF InvSpace
<1>4. \A s : Same(s)
  BY <1>1 DEF Same
<1>5. ASSUME NEW r, r \in 0 .. n_lines - 1
      PROVE  /\ From(r, a, b, c) \in 0 .. n_lines - 1
             /\ index'.rows[r] = index.rows[From(r, a, b, c)]
  <2>1. From(r, a, b, c) \in 0 .. n_lines - 1
    BY <1>1, <1>2, <1>5, FromPermutes
  <2>2. r # a => index'.rows[r] = index.rows[From(r, a, b, c)]
    BY <1>1, <1>2, <1>5, TurnedFrom
  <2>3. From(a, a, b, c) = c
    BY DEF From
  <2> QED BY <1>1, <2>1, <2>2, <2>3
<1>6. InvWhole'
  <2> SUFFICES ASSUME NEW r, r \in 0 .. n_lines' - 1, index'.rows[r].key \in Keys
               PROVE  Whole(index'.rows[r], val')
    BY DEF InvWhole
  <2>1. r \in 0 .. n_lines - 1
    BY <1>1
  <2> QED BY <1>4, <1>5, <2>1, SameWhole
<1> QED BY <1>3, <1>4, <1>5, <1>6

\* The row that f_delete parks in the last row of the records: the deleted one
\* or, if a version of the key was parked before, the last of the SAFE region.
Behind(k, rev) ==
  IF rev /\ k \in chg_keys /\ SafeLine - 1 # n_records - 1 THEN SafeLine - 1 ELSE key_table[k]

\* f_delete only moves rows and the region line.
LEMMA DeleteInv ==
  ASSUME Inv, NEW k \in Keys, NEW rev \in BOOLEAN, Delete(k, rev)
  PROVE  /\ Inv' /\ Keeps({k}) /\ Value(k)' = NoVal
         /\ Moves(n_records - 1, key_table[k], Behind(k, rev))
<1> DEFINE row == key_table[k]
           old == index.rows[row]
           last == n_records - 1
           keep == rev /\ k \in chg_keys /\ SafeLine - 1 # last
           swap == IF row < last THEN CopyKey(index, last, row) ELSE index
           mover == index.rows[last].key
           end == IF keep THEN SafeLine - 1 ELSE row
<1>1. TypeOK /\ InvKeys /\ InvCache
  BY DEF Inv
<1>2. /\ index \in IndexType /\ n_records \in Nat /\ n_lines \in Nat /\ MaxRows \in Nat
      /\ hdr_lines \in Nat
      /\ n_records <= n_lines /\ n_lines <= MaxRows /\ hdr_lines <= n_lines
      /\ \A r \in 0 .. n_lines - 1 : r \in RowIds /\ index.rows[r] \in Rows
  BY <1>1, Basics
<1>3. /\ Exists(k)
      /\ index' = IF keep THEN WriteKey(CopyKey(swap, SafeLine - 1, last), last, SafeLine - 1, old)
                          ELSE WriteKey(swap, last, last, old)
      /\ n_records' = last
      /\ key_table' = [key_table EXCEPT ![mover] = row, ![k] = NoRow]
      /\ Touched
      /\ UNCHANGED <<val, used, n_lines, safe_line, chg_keys>>
  BY DEF Delete
<1>4. /\ row \in 0 .. n_records - 1 /\ row \in 0 .. n_lines - 1 /\ old.key = k
      /\ last \in Nat /\ last < n_records /\ last \in 0 .. n_lines - 1 /\ row <= last
  BY <1>2, <1>3, RecordRow
<1>5. /\ mover \in Keys /\ key_table[mover] = last
      /\ mover = k <=> row = last
  BY <1>1, <1>2, <1>4 DEF InvKeys, KeyTableMatches
<1>6. keep => SafeLine - 1 \in n_records .. n_lines - 1
  BY <1>1, <1>2, <1>4, Lines
<1>7. /\ swap \in IndexType /\ CacheIn(swap, last, n_lines)
      /\ row # last => swap.rows[row] = index.rows[last]
      /\ \A r \in RowIds : r # row => swap.rows[r] = index.rows[r]
      /\ row = last => swap.rows[row] = old
  <2>1. CacheIn(index, last, n_lines)
    BY <1>1, <1>2, <1>4, CacheGrows DEF InvCache
  <2>2. CASE row < last
    <3>1. swap = CopyKey(index, last, row)
      BY <2>2
    <3>2. swap \in IndexType /\ CacheIn(swap, last, n_lines)
      BY <1>2, <1>4, <2>1, <3>1, CopyKeyType, CopyKeyCache
    <3> QED BY <1>2, <1>4, <2>2, <3>1, <3>2 DEF CopyKey, IndexType
  <2>3. CASE ~(row < last)
    BY <1>2, <1>4, <2>1, <2>3
  <2> QED BY <2>2, <2>3
<1>20. end = Behind(k, rev) /\ row = key_table[k] /\ last = n_records - 1
  BY DEF Behind
<1> HIDE DEF swap, old, row, mover, keep
<1>8. /\ index' \in IndexType /\ CacheIn(index', last, n_lines)
      /\ index'.rows[last] = index.rows[end]
      /\ row # last => index'.rows[row] = index.rows[last]
      /\ end # last /\ end # row => index'.rows[end] = index.rows[row]
      /\ \A r \in RowIds : r \notin {last, row, end} => index'.rows[r] = index.rows[r]
  <2>1. old \in Rows /\ old = index.rows[row] /\ row \in RowIds /\ last \in RowIds
    BY <1>2, <1>4 DEF old
  <2>2. CASE keep
    <3>1. /\ SafeLine - 1 \in RowIds /\ SafeLine - 1 # last /\ SafeLine - 1 # row
          /\ SafeLine - 1 \in 0 .. n_lines - 1
      BY <1>2, <1>4, <1>6, <2>2
    <3>2. index' = WriteKey(CopyKey(swap, SafeLine - 1, last), last, SafeLine - 1, old)
      BY <1>3, <2>2
    <3>3. /\ CopyKey(swap, SafeLine - 1, last) \in IndexType
          /\ CacheIn(CopyKey(swap, SafeLine - 1, last), last, n_lines)
      BY <1>2, <1>4, <1>7, <2>1, <3>1, CopyKeyType, CopyKeyCache
    <3>4. index' \in IndexType /\ CacheIn(index', last, n_lines)
      BY <1>2, <1>4, <2>1, <3>1, <3>2, <3>3, WriteKeyType, WriteKeyCache
    <3>5. index'.rows = [swap.rows EXCEPT ![last] = swap.rows[SafeLine - 1], ![SafeLine - 1] = old]
      BY <3>2 DEF WriteKey, CopyKey
    <3>6. swap.rows[SafeLine - 1] = index.rows[SafeLine - 1]
      BY <1>7, <3>1
    <3>7. end = SafeLine - 1
      BY <2>2
    <3> HIDE DEF end
    <3> QED BY <1>2, <1>4, <1>7, <2>1, <3>1, <3>4, <3>5, <3>6, <3>7 DEF IndexType
  <2>3. CASE ~keep
    <3>1. index' = WriteKey(swap, last, last, old)
      BY <1>3, <2>3
    <3>2. index' \in IndexType /\ CacheIn(index', last, n_lines)
      BY <1>2, <1>4, <1>7, <2>1, <3>1, WriteKeyType, WriteKeyCache
    <3>3. index'.rows = [swap.rows EXCEPT ![last] = old]
      BY <3>1 DEF WriteKey
    <3>4. end = row
      BY <2>3
    <3> HIDE DEF end
    <3> QED BY <1>2, <1>4, <1>7, <2>1, <3>2, <3>3, <3>4 DEF IndexType
  <2> QED BY <2>2, <2>3
<1>9. /\ end \in 0 .. n_lines - 1 /\ (end = last => row = last)
      /\ end >= n_records \/ end = row
  BY <1>2, <1>4, <1>6 DEF keep
<1> HIDE DEF end
<1>10. Moves(last, row, end)
  <2>1. Turned(index.rows, index'.rows, n_lines, last, row, end)
    BY <1>2, <1>8 DEF Turned
  <2> QED BY <1>3, <1>4, <1>8, <1>9, <2>1 DEF Moves
<1>11. /\ InvSpace' /\ InvWhole'
       /\ \A s : Same(s)
       /\ \A r : r \in 0 .. n_lines - 1 => /\ From(r, last, row, end) \in 0 .. n_lines - 1
                                           /\ index'.rows[r] = index.rows[From(r, last, row, end)]
  BY <1>10, MovesKeeps
<1>12. /\ key_table' \in [Keys -> 0 .. MaxRows] /\ key_table'[k] = NoRow
       /\ row # last => key_table'[mover] = row
       /\ \A l \in Keys \ {k, mover} : key_table'[l] = key_table[l]
  <2>1. key_table \in [Keys -> 0 .. MaxRows] /\ row \in 0 .. MaxRows /\ NoRow \in 0 .. MaxRows
    BY <1>1, <1>2, <1>4 DEF TypeOK, NoRow
  <2> QED BY <1>3, <1>5, <2>1
<1>13. TypeOK'
  <2>1. n_records' \in 0 .. n_lines' /\ n_lines' \in 0 .. MaxRows /\ hdr_lines' \in 0 .. n_lines'
    BY <1>2, <1>3, <1>4 DEF Touched
  <2> QED BY <1>1, <1>3, <1>8, <1>12, <2>1 DEF TypeOK, Touched, IndexType
<1>14. InvCache'
  BY <1>3, <1>8 DEF InvCache
<1>15. ASSUME NEW l \in Keys \ {k}
       PROVE  /\ key_table'[l] < last <=> Exists(l)
              /\ Exists(l) => index'.rows[key_table'[l]] = index.rows[key_table[l]]
              /\ Exists(l) \/ key_table'[l] = NoRow
  <2>1. CASE Exists(l)
    <3>1. key_table[l] \in 0 .. n_records - 1 /\ index.rows[key_table[l]].key = l
          /\ key_table[l] \in RowIds
      BY <2>1, RecordRow
    <3>2. key_table[l] # row
      BY <1>4, <3>1 DEF old
    <3>3. CASE key_table[l] = last
      <4>1. l = mover /\ row # last
        BY <1>5, <3>1, <3>3 DEF mover
      <4> QED BY <1>4, <1>8, <1>12, <2>1, <3>3, <4>1
    <3>4. CASE key_table[l] # last
      <4>1. l # mover
        BY <1>5, <3>4
      <4>2. key_table[l] # end
        BY <1>2, <1>4, <1>9, <3>1, <3>2
      <4> QED BY <1>2, <1>8, <1>12, <2>1, <3>1, <3>2, <3>4, <4>1, <4>2
    <3> QED BY <3>3, <3>4
  <2>2. CASE ~Exists(l)
    <3>1. key_table[l] = NoRow
      BY <1>1, <2>2 DEF InvKeys
    <3>2. l # mover
      BY <1>2, <1>4, <1>5, <2>2 DEF Exists
    <3>3. ~(NoRow < last)
      BY <1>2, <1>4 DEF NoRow
    <3> QED BY <1>12, <2>2, <3>1, <3>2, <3>3
  <2> QED BY <2>1, <2>2
<1>16. Keeps({k})
  <2>1. ASSUME NEW r, r \in n_records' .. n_lines' - 1
        PROVE  \E s \in 0 .. n_lines - 1 :
                 /\ index'.rows[r] = index.rows[s] /\ Same(s)
                 /\ s >= n_records \/ \E l \in {k} : Exists(l) /\ s = key_table[l]
    <3>1. r \in 0 .. n_lines - 1 /\ r >= last
      BY <1>2, <1>3, <1>4, <2>1
    <3>2. From(r, last, row, end) >= n_records \/ From(r, last, row, end) = row
      BY <1>2, <1>4, <1>9, <3>1 DEF From
    <3> QED BY <1>3, <1>11, <3>1, <3>2 DEF row
  <2>2. ASSUME NEW l \in Keys \ {k}
        PROVE  /\ Exists(l)' <=> Exists(l)
               /\ Exists(l) => index'.rows[key_table'[l]] = index.rows[key_table[l]] /\ Same(key_table[l])
    BY <1>3, <1>11, <1>15 DEF Exists
  <2> QED BY <2>1, <2>2 DEF Keeps
<1>17. InvKeys'
  <2>1. ASSUME NEW r, r \in 0 .. n_records' - 1
        PROVE  index'.rows[r].key \in Keys /\ key_table'[index'.rows[r].key] = r
    <3>1. r \in 0 .. n_records - 1 /\ r < last /\ r \in RowIds
      BY <1>2, <1>3, <1>4, <2>1
    <3>2. CASE r = row
      BY <1>5, <1>8, <1>12, <3>1, <3>2 DEF mover
    <3>3. CASE r # row
      <4>1. r # end /\ r # last
        BY <1>2, <1>4, <1>9, <3>1, <3>3
      <4>2. index'.rows[r] = index.rows[r]
        BY <1>8, <3>1, <3>3, <4>1
      <4>3. index.rows[r].key \in Keys /\ key_table[index.rows[r].key] = r
        BY <1>1, <3>1 DEF InvKeys, KeyTableMatches
      <4>4. index.rows[r].key # k /\ index.rows[r].key # mover
        BY <1>5, <3>3, <4>1, <4>3 DEF row
      <4> QED BY <1>12, <4>2, <4>3, <4>4
    <3> QED BY <3>2, <3>3
  <2>2. ASSUME NEW l \in Keys
        PROVE  /\ key_table'[l] < n_records' => index'.rows[key_table'[l]].key = l
               /\ key_table'[l] < n_records' \/ key_table'[l] = NoRow
    <3>1. CASE l = k
      <4>1. ~(NoRow < last)
        BY <1>2, <1>4 DEF NoRow
      <4> QED BY <1>3, <1>12, <3>1, <4>1
    <3>2. CASE l # k
      <4>1. Exists(l) => index.rows[key_table[l]].key = l
        BY RecordRow
      <4> QED BY <1>3, <1>15, <3>2, <4>1
    <3> QED BY <3>1, <3>2
  <2> QED BY <2>1, <2>2 DEF InvKeys, KeyTableMatches, Exists
<1>18. Value(k)' = NoVal
  <2>1. ~(NoRow < last)
    BY <1>2, <1>4 DEF NoRow
  <2>2. ~(key_table'[k] < n_records')
    BY <1>3, <1>12, <2>1
  <2> QED BY <2>2 DEF Value, Exists
<1>21. Moves(n_records - 1, key_table[k], Behind(k, rev))
  BY <1>10, <1>20
<1> QED BY <1>11, <1>13, <1>14, <1>16, <1>17, <1>18, <1>21 DEF Inv

\* Reading a row by its number changes what the cache says of it and nothing else.
LEMMA ReadKeyKeeps ==
  ASSUME Inv, NEW r \in 0 .. n_lines - 1
  PROVE  /\ ReadKey(index, r) \in IndexType /\ ReadKey(index, r).rows = index.rows
         /\ CacheIn(ReadKey(index, r), n_records, n_lines)
<1>1. /\ index \in IndexType /\ n_records \in Nat /\ n_lines \in Nat
      /\ r \in RowIds /\ index.rows[r] \in Rows
  BY Basics DEF Inv
<1>2. NoExt \in Exts
  BY StoreBounds DEF NoExt, Exts
<1> DEFINE d == IF r >= n_records THEN Ext(index.rows[r]) ELSE NoExt
<1>3. ReadKey(index, r) = [rows |-> index.rows, dead |-> [index.dead EXCEPT ![r] = d]]
  BY <1>1 DEF ReadKey, IndexType
<1>4. d \in Exts
  BY <1>1, <1>2, ExtType
<1>5. r \in n_records .. n_lines - 1 \/ d = NoExt
  BY <1>1
<1> HIDE DEF d
<1>6. d = Ext(index.rows[r]) \/ d = NoExt
  BY DEF d
<1>7. ReadKey(index, r) \in IndexType
  BY <1>1, <1>3, <1>4 DEF IndexType
<1>8. CacheIn(index, n_records, n_lines)
  BY DEF Inv, InvCache
<1> QED BY <1>1, <1>3, <1>5, <1>6, <1>7, <1>8 DEF CacheIn, IndexType

\* The rows that undo may use are parked rows of the key, and hold a version.
LEMMA UndoRow ==
  ASSUME Inv, NEW k \in Keys, NEW r \in UndoRows(k), NEW ix \in Seen(r)
  PROVE  /\ r \in n_records .. n_lines - 1 /\ r \in 0 .. n_lines - 1 /\ r \in RowIds
         /\ index.rows[r].key = k /\ index.rows[r] \in Rows
         /\ \E v \in Vals : Reads(index.rows[r], val, v) /\ <<k, v>> \in Versions
         /\ ix \in IndexType /\ ix.rows = index.rows /\ CacheIn(ix, n_records, n_lines)
<1>1. /\ index \in IndexType /\ n_records \in Nat /\ n_lines \in Nat /\ hdr_lines \in Nat
      /\ hdr_lines <= n_lines
      /\ \A s \in 0 .. n_lines - 1 : s \in RowIds /\ index.rows[s] \in Rows
  BY Basics DEF Inv
<1>2. r \in Parked(k, hdr_lines) \/ r \in Parked(k, n_lines)
  BY DEF UndoRows, ScanRows
<1>3. r \in n_records .. n_lines - 1 /\ index.rows[r].key = k
  BY <1>1, <1>2 DEF Parked
<1>4. r \in 0 .. n_lines - 1
  BY <1>1, <1>3
<1>5. PICK v \in Vals : Reads(index.rows[r], val, v)
  BY <1>3, <1>4 DEF Inv, InvWhole, Whole
<1>6. <<k, v>> \in Versions
  <2>1. DecodeIn(index.rows[r], val) = v
    BY <1>1, <1>4, <1>5, ReadsDecode
  <2> QED BY <1>3, <2>1 DEF Versions, Decode, DecodeIn
<1>7. ix = index \/ ix = ReadKey(index, r)
  BY DEF Seen
<1>8. ix \in IndexType /\ ix.rows = index.rows /\ CacheIn(ix, n_records, n_lines)
  BY <1>1, <1>4, <1>7, ReadKeyKeeps DEF Inv, InvCache
<1> QED BY <1>1, <1>3, <1>4, <1>5, <1>6, <1>8

\* f_unwrite exchanges two rows of a key.
LEMMA UnwriteInv ==
  ASSUME Inv, NEW k \in Keys, NEW r \in UndoRows(k), Unwrite(k, r)
  PROVE  Inv' /\ Keeps({k}) /\ \E v \in Vals : <<k, v>> \in Versions /\ Value(k)' = v
<1> DEFINE row == key_table[k]
           old == index.rows[row]
           parked == index.rows[r]
<1>1. TypeOK /\ InvKeys
  BY DEF Inv
<1>2. /\ n_records \in Nat /\ n_lines \in Nat /\ n_records <= n_lines
      /\ \A s \in 0 .. n_lines - 1 : s \in RowIds /\ index.rows[s] \in Rows
  BY <1>1, Basics
<1>3. PICK ix \in Seen(r) :
        index' = WriteKey(WriteKey(ix, n_records, r, old), n_records, row, parked)
  BY DEF Unwrite
<1>4. /\ Exists(k) /\ chg_keys' = chg_keys \ {k} /\ Touched
      /\ UNCHANGED <<val, used, n_records, n_lines, key_table, safe_line>>
  BY DEF Unwrite
<1>5. /\ r \in n_records .. n_lines - 1 /\ r \in 0 .. n_lines - 1 /\ r \in RowIds
      /\ parked.key = k /\ parked \in Rows
      /\ ix \in IndexType /\ ix.rows = index.rows /\ CacheIn(ix, n_records, n_lines)
  BY UndoRow
<1>6. /\ row \in 0 .. n_records - 1 /\ row \in 0 .. n_lines - 1 /\ row \in RowIds
      /\ old.key = k /\ old \in Rows /\ row # r
  BY <1>2, <1>4, <1>5, RecordRow
<1>7. PICK v \in Vals : Reads(parked, val, v) /\ <<k, v>> \in Versions
  BY UndoRow
<1> HIDE DEF row, old, parked
<1>8. /\ index' \in IndexType /\ CacheIn(index', n_records, n_lines)
      /\ index'.rows = [index.rows EXCEPT ![r] = old, ![row] = parked]
  <2>1. /\ WriteKey(ix, n_records, r, old) \in IndexType
        /\ CacheIn(WriteKey(ix, n_records, r, old), n_records, n_lines)
    BY <1>2, <1>5, <1>6, WriteKeyType, WriteKeyCache
  <2>2. index' \in IndexType /\ CacheIn(index', n_records, n_lines)
    BY <1>2, <1>3, <1>5, <1>6, <2>1, WriteKeyType, WriteKeyCache
  <2> QED BY <1>3, <1>5, <2>2 DEF WriteKey
<1>9. /\ index'.rows[row] = parked /\ index'.rows[r] = old
      /\ \A s \in RowIds : s \notin {row, r} => index'.rows[s] = index.rows[s]
  BY <1>1, <1>5, <1>6, <1>8, Basics DEF IndexType
<1>10. Moves(row, r, r)
  <2>1. Turned(index.rows, index'.rows, n_lines, row, r, r)
    BY <1>2, <1>9 DEF Turned, old, parked
  <2> QED BY <1>4, <1>5, <1>6, <1>9, <2>1 DEF Moves, parked
<1>11. /\ InvSpace' /\ InvWhole' /\ \A s : Same(s)
  BY <1>10, MovesKeeps
<1>12. TypeOK'
  BY <1>1, <1>4, <1>8 DEF TypeOK, Touched, IndexType
<1>13. InvCache'
  BY <1>4, <1>8 DEF InvCache
<1>14. \A s \in 0 .. n_records - 1 : index'.rows[s].key = index.rows[s].key
  BY <1>2, <1>5, <1>6, <1>9 DEF old
<1>15. InvKeys'
  <2>1. \A l \in Keys : Exists(l) => key_table[l] \in 0 .. n_records - 1
    BY RecordRow
  <2> QED BY <1>1, <1>4, <1>14, <2>1 DEF InvKeys, KeyTableMatches, Exists
<1>16. Keeps({k})
  <2>1. ASSUME NEW s \in n_records .. n_lines - 1
        PROVE  \E x \in 0 .. n_lines - 1 :
                 /\ index'.rows[s] = index.rows[x] /\ Same(x)
                 /\ x >= n_records \/ \E l \in {k} : Exists(l) /\ x = key_table[l]
    <3>1. s \in 0 .. n_lines - 1 /\ s >= n_records /\ s # row
      BY <1>2, <1>6
    <3>2. CASE s = r
      BY <1>4, <1>6, <1>9, <1>11, <3>2 DEF old, row
    <3>3. CASE s # r
      BY <1>2, <1>9, <1>11, <3>1, <3>3
    <3> QED BY <3>2, <3>3
  <2>2. ASSUME NEW l \in Keys \ {k}, Exists(l)
        PROVE  index'.rows[key_table[l]] = index.rows[key_table[l]]
    <3>1. key_table[l] \in 0 .. n_records - 1 /\ key_table[l] \in RowIds /\ key_table[l] # row
      BY <1>6, <2>2, RecordRow DEF old
    <3> QED BY <1>2, <1>5, <1>9, <3>1
  <2> QED BY <1>4, <1>11, <2>1, <2>2 DEF Keeps, Exists
<1>17. Value(k)' = v
  <2>1. Puts(k, v)'
    BY <1>4, <1>7, <1>9 DEF Puts, Exists, row
  <2> QED BY <1>12, <2>1, PutsValue
<1> QED BY <1>7, <1>11, <1>12, <1>13, <1>15, <1>16, <1>17 DEF Inv

\* The row that takes in the first row after the records when f_undelete takes
\* row r: the end of the SAFE region or, if r is in the region, row r.
Making(r, rev) ==
  LET head == IF rev THEN SafeLine ELSE n_records IN IF r >= head THEN head ELSE r

\* f_undelete makes a parked row the last record.
LEMMA UndeleteInv ==
  ASSUME Inv, NEW k \in Keys, NEW r \in UndoRows(k), NEW rev \in BOOLEAN, Undelete(k, r, rev)
  PROVE  /\ Inv' /\ Keeps({k}) /\ \E v \in Vals : <<k, v>> \in Versions /\ Value(k)' = v
         /\ Moves(n_records, Making(r, rev), r)
<1> DEFINE head == IF rev THEN SafeLine ELSE n_records
           row == index.rows[r]
           way(ix) == IF r > head THEN CopyKey(ix, head, r) ELSE ix
           moved(ix) == IF r >= head
                          THEN IF head > n_records THEN CopyKey(way(ix), n_records, head) ELSE way(ix)
                          ELSE IF r > n_records THEN CopyKey(ix, n_records, r) ELSE ix
           mid == IF r >= head THEN head ELSE r
<1>1. TypeOK /\ InvKeys
  BY DEF Inv
<1>2. /\ n_records \in Nat /\ n_lines \in Nat /\ n_records <= n_lines
      /\ MaxRows \in Nat /\ n_lines <= MaxRows /\ hdr_lines \in Nat /\ hdr_lines <= n_lines
      /\ \A s \in 0 .. n_lines - 1 : s \in RowIds /\ index.rows[s] \in Rows
  BY <1>1, Basics
<1>3. PICK ix \in Seen(r) : index' = WriteKey(moved(ix), n_records, n_records, row)
  BY DEF Undelete
<1>4. /\ ~Exists(k) /\ n_records' = n_records + 1 /\ Touched
      /\ key_table' = [key_table EXCEPT ![k] = n_records]
      /\ UNCHANGED <<val, used, n_lines>>
      /\ chg_keys' \subseteq chg_keys \cup {k}
      /\ safe_line' \in {head + 1, n_records, safe_line}
  BY DEF Undelete
<1>5. /\ r \in n_records .. n_lines - 1 /\ r \in 0 .. n_lines - 1 /\ r \in RowIds
      /\ row.key = k /\ row \in Rows
      /\ ix \in IndexType /\ ix.rows = index.rows /\ CacheIn(ix, n_records, n_lines)
  BY UndoRow
<1>6. PICK v \in Vals : Reads(row, val, v) /\ <<k, v>> \in Versions
  BY UndoRow
<1>7. head \in n_records .. n_lines /\ head \in Nat
  BY <1>1, <1>2, Lines
<1>8. /\ mid \in n_records .. r /\ mid \in 0 .. n_lines - 1 /\ mid \in RowIds
      /\ n_records \in 0 .. n_lines - 1 /\ n_records \in RowIds /\ (r = n_records => mid = n_records)
  BY <1>2, <1>5, <1>7
<1>21. mid = Making(r, rev)
  BY DEF Making
<1> HIDE DEF row, head
<1>9. /\ moved(ix) \in IndexType /\ CacheIn(moved(ix), n_records, n_lines)
      /\ mid # n_records => moved(ix).rows[mid] = index.rows[n_records]
      /\ r # mid => moved(ix).rows[r] = index.rows[mid]
      /\ \A s \in RowIds : s \notin {n_records, mid, r} => moved(ix).rows[s] = index.rows[s]
  <2>1. CASE r >= head
    <3>1. mid = head
      BY <2>1
    <3>2. /\ way(ix) \in IndexType /\ CacheIn(way(ix), n_records, n_lines)
          /\ r # head => way(ix).rows[r] = index.rows[head]
          /\ \A s \in RowIds : s # r => way(ix).rows[s] = index.rows[s]
      <4>1. CASE r > head
        <5>1. way(ix) = CopyKey(ix, head, r)
          BY <4>1
        <5>2. way(ix) \in IndexType /\ CacheIn(way(ix), n_records, n_lines)
          BY <1>2, <1>5, <1>8, <3>1, <5>1, CopyKeyType, CopyKeyCache
        <5>3. way(ix).rows = [index.rows EXCEPT ![r] = index.rows[head]]
          BY <1>5, <5>1 DEF CopyKey
        <5> QED BY <1>1, <1>5, <5>2, <5>3, Basics DEF IndexType
      <4>2. CASE ~(r > head)
        <5>1. way(ix) = ix /\ r = head
          BY <1>2, <1>5, <1>7, <2>1, <4>2
        <5> QED BY <1>5, <5>1
      <4> QED BY <4>1, <4>2
    <3>3. CASE head > n_records
      <4>1. moved(ix) = CopyKey(way(ix), n_records, head)
        BY <2>1, <3>3
      <4> HIDE DEF moved, way, mid
      <4>2. moved(ix) \in IndexType /\ CacheIn(moved(ix), n_records, n_lines)
        BY <1>2, <1>8, <3>1, <3>2, <4>1, CopyKeyType, CopyKeyCache
      <4>3. moved(ix).rows = [way(ix).rows EXCEPT ![head] = way(ix).rows[n_records]]
        BY <4>1 DEF CopyKey
      <4>4. way(ix).rows[n_records] = index.rows[n_records]
        BY <1>2, <1>7, <1>8, <2>1, <3>2, <3>3
      <4> QED BY <1>8, <3>1, <3>2, <4>2, <4>3, <4>4 DEF IndexType
    <3>4. CASE ~(head > n_records)
      <4>1. moved(ix) = way(ix) /\ head = n_records
        BY <1>2, <1>7, <2>1, <3>4
      <4> HIDE DEF moved, way, mid
      <4> QED BY <1>5, <3>1, <3>2, <4>1
    <3> QED BY <3>3, <3>4
  <2>2. CASE ~(r >= head)
    <3>1. mid = r
      BY <2>2
    <3>2. CASE r > n_records
      <4>1. moved(ix) = CopyKey(ix, n_records, r)
        BY <2>2, <3>2
      <4> HIDE DEF moved, way, mid
      <4>2. moved(ix) \in IndexType /\ CacheIn(moved(ix), n_records, n_lines)
        BY <1>2, <1>5, <1>8, <4>1, CopyKeyType, CopyKeyCache
      <4>3. moved(ix).rows = [index.rows EXCEPT ![r] = index.rows[n_records]]
        BY <1>5, <4>1 DEF CopyKey
      <4> QED BY <1>1, <1>5, <3>1, <4>2, <4>3, Basics DEF IndexType
    <3>3. CASE ~(r > n_records)
      <4>1. moved(ix) = ix /\ r = n_records
        BY <1>2, <1>5, <2>2, <3>3
      <4> HIDE DEF moved, way, mid
      <4> QED BY <1>5, <3>1, <4>1
    <3> QED BY <3>2, <3>3
  <2> QED BY <2>1, <2>2
<1> HIDE DEF moved, way, mid
<1>10. /\ index' \in IndexType /\ CacheIn(index', n_records, n_lines)
       /\ index'.rows = [moved(ix).rows EXCEPT ![n_records] = row]
       /\ index'.dead = [moved(ix).dead EXCEPT ![n_records] = NoExt]
  <2>1. index'.dead = [moved(ix).dead EXCEPT ![n_records] = NoExt]
    BY <1>2, <1>3 DEF WriteKey
  <2>2. index'.rows = [moved(ix).rows EXCEPT ![n_records] = row]
    BY <1>3 DEF WriteKey
  <2>3. index' \in IndexType /\ CacheIn(index', n_records, n_lines)
    BY <1>2, <1>3, <1>5, <1>8, <1>9, WriteKeyType, WriteKeyCache
  <2> QED BY <2>1, <2>2, <2>3
<1>11. InvCache'
  <2>1. index'.dead[n_records] = NoExt
    BY <1>8, <1>9, <1>10 DEF IndexType
  <2>2. ASSUME NEW s \in RowIds, index'.dead[s] # NoExt
        PROVE  s \in n_records + 1 .. n_lines - 1 /\ index'.dead[s] = Ext(index'.rows[s])
    <3>1. s \in n_records .. n_lines - 1 /\ index'.dead[s] = Ext(index'.rows[s])
      BY <1>10, <2>2 DEF CacheIn
    <3> QED BY <1>2, <2>1, <2>2, <3>1
  <2> QED BY <1>4, <2>2 DEF InvCache, CacheIn
<1>12. /\ index'.rows[n_records] = row
       /\ mid # n_records => index'.rows[mid] = index.rows[n_records]
       /\ r # mid => index'.rows[r] = index.rows[mid]
       /\ \A s \in RowIds : s \notin {n_records, mid, r} => index'.rows[s] = index.rows[s]
  BY <1>2, <1>5, <1>8, <1>9, <1>10 DEF IndexType
<1>13. Moves(n_records, mid, r)
  <2>1. Turned(index.rows, index'.rows, n_lines, n_records, mid, r)
    BY <1>2, <1>12 DEF Turned, row
  <2> QED BY <1>4, <1>5, <1>8, <1>12, <2>1 DEF Moves, row
<1>14. /\ InvSpace' /\ InvWhole'
       /\ \A s : Same(s)
       /\ \A s : s \in 0 .. n_lines - 1 => /\ From(s, n_records, mid, r) \in 0 .. n_lines - 1
                                           /\ index'.rows[s] = index.rows[From(s, n_records, mid, r)]
  BY <1>13, MovesKeeps
<1>15. /\ key_table' \in [Keys -> 0 .. MaxRows] /\ key_table'[k] = n_records
       /\ \A l \in Keys \ {k} : key_table'[l] = key_table[l]
  BY <1>1, <1>2, <1>4 DEF TypeOK
<1>16. TypeOK'
  <2>1. n_records' \in 0 .. n_lines' /\ n_lines' \in 0 .. MaxRows /\ hdr_lines' \in 0 .. n_lines'
    BY <1>2, <1>4, <1>8 DEF Touched
  <2>2. safe_line' \in Nat /\ chg_keys' \subseteq Keys
    BY <1>1, <1>2, <1>4, <1>7 DEF TypeOK
  <2> QED BY <1>1, <1>4, <1>10, <1>15, <2>1, <2>2 DEF TypeOK, Touched, IndexType
<1>17. ASSUME NEW l \in Keys \ {k}
       PROVE  /\ key_table'[l] < n_records' <=> Exists(l)
              /\ Exists(l) => index'.rows[key_table'[l]] = index.rows[key_table[l]]
              /\ Exists(l) \/ key_table'[l] = NoRow
  <2>1. CASE Exists(l)
    <3>1. key_table[l] \in 0 .. n_records - 1 /\ key_table[l] \in RowIds
      BY <2>1, RecordRow
    <3>2. key_table[l] \notin {n_records, mid, r}
      BY <1>2, <1>5, <1>8, <3>1
    <3> QED BY <1>2, <1>4, <1>12, <1>15, <2>1, <3>1, <3>2
  <2>2. CASE ~Exists(l)
    <3>1. key_table[l] = NoRow
      BY <1>1, <2>2 DEF InvKeys
    <3>2. ~(NoRow < n_records + 1)
      BY <1>2, <1>8 DEF NoRow
    <3> QED BY <1>4, <1>15, <2>2, <3>1, <3>2
  <2> QED BY <2>1, <2>2
<1>18. Keeps({k})
  <2>1. ASSUME NEW s, s \in n_records' .. n_lines' - 1
        PROVE  \E x \in 0 .. n_lines - 1 : index'.rows[s] = index.rows[x] /\ Same(x) /\ x >= n_records
    <3>1. s \in 0 .. n_lines - 1 /\ s >= n_records /\ s # n_records
      BY <1>2, <1>4, <2>1
    <3>2. From(s, n_records, mid, r) >= n_records
      BY <1>2, <1>5, <1>8, <3>1 DEF From
    <3> QED BY <1>14, <3>1, <3>2
  <2>2. ASSUME NEW l \in Keys \ {k}
        PROVE  /\ Exists(l)' <=> Exists(l)
               /\ Exists(l) => index'.rows[key_table'[l]] = index.rows[key_table[l]] /\ Same(key_table[l])
    BY <1>14, <1>17 DEF Exists
  <2> QED BY <2>1, <2>2 DEF Keeps
<1>19. InvKeys'
  <2>1. ASSUME NEW s, s \in 0 .. n_records' - 1
        PROVE  index'.rows[s].key \in Keys /\ key_table'[index'.rows[s].key] = s
    <3>1. CASE s = n_records
      BY <1>5, <1>12, <1>15, <3>1
    <3>2. CASE s # n_records
      <4>1. s \in 0 .. n_records - 1 /\ s \in RowIds /\ s \notin {n_records, mid, r}
        BY <1>2, <1>4, <1>5, <1>8, <2>1, <3>2
      <4>2. index.rows[s].key \in Keys /\ key_table[index.rows[s].key] = s
        BY <1>1, <4>1 DEF InvKeys, KeyTableMatches
      <4>3. index.rows[s].key # k
        BY <1>2, <1>4, <4>1, <4>2 DEF Exists
      <4> QED BY <1>12, <1>15, <4>1, <4>2, <4>3
    <3> QED BY <3>1, <3>2
  <2>2. ASSUME NEW l \in Keys
        PROVE  /\ key_table'[l] < n_records' => index'.rows[key_table'[l]].key = l
               /\ key_table'[l] < n_records' \/ key_table'[l] = NoRow
    <3>1. CASE l = k
      BY <1>2, <1>4, <1>5, <1>12, <1>15, <3>1
    <3>2. CASE l # k
      <4>1. Exists(l) => index.rows[key_table[l]].key = l
        BY RecordRow
      <4> QED BY <1>17, <3>2, <4>1
    <3> QED BY <3>1, <3>2
  <2> QED BY <2>1, <2>2 DEF InvKeys, KeyTableMatches, Exists
<1>20. Value(k)' = v
  <2>1. Puts(k, v)'
    BY <1>2, <1>4, <1>6, <1>12, <1>15 DEF Puts, Exists
  <2> QED BY <1>16, <2>1, PutsValue
<1>22. Moves(n_records, Making(r, rev), r)
  BY <1>13, <1>21
<1> QED BY <1>6, <1>11, <1>14, <1>16, <1>18, <1>19, <1>20, <1>22 DEF Inv

\* f_rename changes the key in the row.
LEMMA RenameInv ==
  ASSUME Inv, NEW k \in Keys, NEW new \in Keys, Rename(k, new)
  PROVE  /\ Inv'
         /\ \A l \in Keys \ {k, new} : Value(l)' = Value(l)
         /\ Value(new)' = Value(k) /\ Value(k)' = NoVal
         /\ Versions' = Versions
         /\ Value(k) # NoVal /\ Value(new) = NoVal /\ k # new
<1> DEFINE row == key_table[k]
           old == index.rows[row]
           named == [old EXCEPT !.key = new]
<1>1. TypeOK /\ InvSpace /\ InvKeys /\ InvCache
  BY DEF Inv
<1>2. /\ n_records \in Nat /\ n_lines \in Nat /\ n_records <= n_lines /\ used \in Nat
      /\ index \in IndexType /\ MaxRows \in Nat /\ n_lines <= MaxRows
      /\ \A s \in 0 .. n_lines - 1 : s \in RowIds /\ index.rows[s] \in Rows
  BY <1>1, Basics
<1>3. /\ Exists(k) /\ ~Exists(new) /\ k # new
      /\ index' = WriteKey(index, n_records, row, named)
      /\ key_table' = [key_table EXCEPT ![k] = NoRow, ![new] = row]
      /\ Touched
      /\ UNCHANGED <<val, used, n_records, n_lines, safe_line, chg_keys>>
  BY DEF Rename
<1>4. /\ row \in 0 .. n_records - 1 /\ row \in 0 .. n_lines - 1 /\ row \in RowIds
      /\ old.key = k /\ old \in Rows
  BY <1>2, <1>3, RecordRow
<1>5. /\ named \in Rows /\ named.key = new /\ Ext(named) = Ext(old)
      /\ named.off = old.off /\ named.size = old.size /\ named.len = old.len
      /\ named.head = old.head
  BY <1>4 DEF Rows, Ext
<1> HIDE DEF row, old, named
<1>6. /\ index' \in IndexType /\ CacheIn(index', n_records, n_lines)
      /\ index'.rows[row] = named
      /\ \A s \in RowIds : s # row => index'.rows[s] = index.rows[s]
  <2>1. index' \in IndexType /\ CacheIn(index', n_records, n_lines)
    BY <1>1, <1>2, <1>3, <1>4, <1>5, WriteKeyType, WriteKeyCache DEF InvCache
  <2>2. index'.rows = [index.rows EXCEPT ![row] = named]
    BY <1>3 DEF WriteKey
  <2> QED BY <1>2, <1>4, <2>1, <2>2 DEF IndexType
<1>7. /\ key_table' \in [Keys -> 0 .. MaxRows] /\ key_table'[k] = NoRow /\ key_table'[new] = row
      /\ \A l \in Keys \ {k, new} : key_table'[l] = key_table[l]
      /\ ~(NoRow < n_records)
  BY <1>1, <1>2, <1>3, <1>4 DEF TypeOK, NoRow
<1>8. TypeOK'
  BY <1>1, <1>3, <1>6, <1>7 DEF TypeOK, Touched, IndexType
<1>9. InvSpace'
  <2>1. Turned(index.rows, index'.rows, n_lines, row, row, row)
    BY <1>2, <1>5, <1>6 DEF Turned, old
  <2>2. Divides(index'.rows, n_lines, used)
    BY <1>1, <1>2, <1>4, <2>1, TurnedDivides DEF InvSpace
  <2> QED BY <1>3, <2>2 DEF InvSpace
<1>10. InvCache'
  BY <1>3, <1>6 DEF InvCache
<1>11. ASSUME NEW l \in Keys \ {k, new}
       PROVE  /\ Exists(l)' <=> Exists(l)
              /\ Exists(l) => index'.rows[key_table'[l]] = index.rows[key_table[l]]
              /\ Exists(l) \/ key_table'[l] = NoRow
  <2>1. Exists(l) => key_table[l] \in RowIds /\ index.rows[key_table[l]].key = l
    BY RecordRow
  <2>2. Exists(l) => key_table[l] # row
    BY <1>4, <2>1 DEF old
  <2> QED BY <1>1, <1>3, <1>6, <1>7, <2>1, <2>2 DEF InvKeys, Exists
<1>12. \A s : Same(s)
  BY <1>3 DEF Same
<1>13. \A s \in n_records .. n_lines - 1 : index'.rows[s] = index.rows[s] /\ s \in 0 .. n_lines - 1
  BY <1>2, <1>4, <1>6
<1>14. Keeps({k, new})
  <2>1. ASSUME NEW s, s \in n_records' .. n_lines' - 1
        PROVE  \E x \in 0 .. n_lines - 1 : index'.rows[s] = index.rows[x] /\ Same(x) /\ x >= n_records
    <3>1. s \in n_records .. n_lines - 1
      BY <1>3, <2>1
    <3> QED BY <1>2, <1>12, <1>13, <3>1
  <2>2. ASSUME NEW l \in Keys \ {k, new}
        PROVE  /\ Exists(l)' <=> Exists(l)
               /\ Exists(l) => index'.rows[key_table'[l]] = index.rows[key_table[l]] /\ Same(key_table[l])
    BY <1>11, <1>12
  <2> QED BY <2>1, <2>2 DEF Keeps
<1>15. InvKeys'
  <2>1. ASSUME NEW s \in 0 .. n_records - 1
        PROVE  index'.rows[s].key \in Keys /\ key_table'[index'.rows[s].key] = s
    <3>1. CASE s = row
      BY <1>5, <1>6, <1>7, <3>1
    <3>2. CASE s # row
      <4>1. index.rows[s].key \in Keys /\ key_table[index.rows[s].key] = s
        BY <1>1 DEF InvKeys, KeyTableMatches
      <4>2. index.rows[s].key # k /\ index.rows[s].key # new
        BY <1>2, <1>3, <3>2, <4>1 DEF Exists, row
      <4>3. s \in RowIds
        BY <1>2
      <4> QED BY <1>6, <1>7, <3>2, <4>1, <4>2, <4>3
    <3> QED BY <3>1, <3>2
  <2>2. ASSUME NEW l \in Keys
        PROVE  /\ key_table'[l] < n_records => index'.rows[key_table'[l]].key = l
               /\ key_table'[l] < n_records \/ key_table'[l] = NoRow
    <3>1. CASE l = k
      BY <1>7, <3>1
    <3>2. CASE l = new
      BY <1>2, <1>4, <1>5, <1>6, <1>7, <3>2
    <3>3. CASE l \notin {k, new}
      <4>1. Exists(l) => index.rows[key_table[l]].key = l
        BY RecordRow
      <4> QED BY <1>3, <1>11, <3>3, <4>1 DEF Exists
    <3> QED BY <3>1, <3>2, <3>3
  <2> QED BY <1>3, <2>1, <2>2 DEF InvKeys, KeyTableMatches, Exists
<1>16. /\ Whole(named, val) /\ DecodeIn(named, val) = DecodeIn(old, val)
       /\ Value(k) = DecodeIn(old, val) /\ Value(k) \in Vals
  <2>1. Whole(old, val)
    BY <1>3, <1>4 DEF Inv, InvWhole, old
  <2>2. Whole(named, val)
    BY <1>5, <2>1 DEF Whole, Reads
  <2>3. DecodeIn(named, val) = DecodeIn(old, val)
    BY <1>5 DEF DecodeIn
  <2>4. Value(k) = DecodeIn(old, val) /\ Value(k) \in Vals
    BY <1>3, RecordRow DEF old, row
  <2> QED BY <2>2, <2>3, <2>4
<1>17. InvWhole'
  <2>1. NamedWhole({k, new})
    BY <1>3, <1>6, <1>7, <1>16 DEF NamedWhole
  <2> QED BY <1>8, <1>14, <1>15, <2>1, KeepsWhole
<1>18. Value(new)' = Value(k) /\ Value(k)' = NoVal
  <2>1. Value(new)' = DecodeIn(named, val)
    <3>1. key_table'[new] < n_records' /\ index'.rows[key_table'[new]] = named /\ val' = val
      BY <1>2, <1>3, <1>4, <1>6, <1>7
    <3> QED BY <3>1 DEF Value, Exists, Decode, DecodeIn
  <2>2. Value(k)' = NoVal
    BY <1>3, <1>7 DEF Value, Exists
  <2> QED BY <1>16, <2>1, <2>2
<1>19. Versions' = Versions
  <2>1. n_records' .. n_lines' - 1 = n_records .. n_lines - 1 /\ val' = val
    BY <1>3
  <2>2. /\ Versions' = {<<index'.rows[s].key, DecodeIn(index'.rows[s], val')>> :
                           s \in {x \in n_records' .. n_lines' - 1 : index'.rows[x].key \in Keys}}
        /\ Versions = {<<index.rows[s].key, DecodeIn(index.rows[s], val)>> :
                          s \in {x \in n_records .. n_lines - 1 : index.rows[x].key \in Keys}}
    BY DEF Versions, Decode, DecodeIn
  <2> QED BY <1>13, <2>1, <2>2
<1>20. \A l \in Keys \ {k, new} : Value(l)' = Value(l)
  BY <1>14, KeepsValues
<1>21. Value(k) # NoVal /\ Value(new) = NoVal
  BY <1>3, <1>16, NameAssumption DEF Value
<1> QED BY <1>3, <1>8, <1>9, <1>10, <1>15, <1>17, <1>18, <1>19, <1>20, <1>21 DEF Inv

\* The other steps change what the cache knows and the session, but no row and
\* no value.
LEMMA QuietInv ==
  ASSUME Inv, index' \in IndexType, index'.rows = index.rows, CacheIn(index', n_records, n_lines),
         UNCHANGED <<val, used, n_records, n_lines, key_table>>,
         hdr_lines' \in 0 .. n_lines, safe_line' \in Nat, chg_keys' \subseteq Keys,
         dirty' \in BOOLEAN, open' \in BOOLEAN
  PROVE  Inv' /\ (\A l \in Keys : Value(l)' = Value(l)) /\ Versions' = Versions
<1>1. TypeOK'
  BY DEF Inv, TypeOK, IndexType
<1>2. InvSpace' /\ InvCache' /\ InvKeys' /\ InvWhole'
  BY DEF Inv, InvSpace, InvCache, InvKeys, InvWhole, KeyTableMatches, Exists
<1>3. \A l \in Keys : Value(l)' = Value(l)
  BY DEF Value, Exists, Decode
<1>4. Versions' = Versions
  BY DEF Versions, Decode
<1> QED BY <1>1, <1>2, <1>3, <1>4 DEF Inv

-----------------------------------------------------------------------------
(* The dictionary *)

View == [l \in Keys |-> Value(l)]

\* What is read under all keys after a step that names one of them
LEMMA ViewStep ==
  ASSUME Inv, NEW k \in Keys, Keeps({k})
  PROVE  /\ View' = [View EXCEPT ![k] = Value(k)']
         /\ Versions' \in SUBSET (Versions \cup ({k} \X ({View[k]} \ {NoVal})))
<1>1. \A l \in Keys : l # k => Value(l)' = Value(l)
  BY KeepsValues
<1>2. View' = [View EXCEPT ![k] = Value(k)']
  BY <1>1 DEF View
<1>3. ASSUME NEW p \in Versions'
      PROVE  p \in Versions \cup ({k} \X ({View[k]} \ {NoVal}))
  <2>1. p \in Versions \/ (p = <<k, Value(k)>> /\ Value(k) \in Vals)
    BY KeepsValues
  <2> QED BY <2>1, NameAssumption DEF View
<1> QED BY <1>2, <1>3

LEMMA SetStep ==
  ASSUME Inv, NEW k \in Keys, NEW v \in Vals, Keeps({k}), Value(k)' = v
  PROVE  Dict!Set(k, v)
BY ViewStep DEF Dict!Set, Dict!Forgets, View

LEMMA UndoStep ==
  ASSUME Inv, NEW k \in Keys, NEW v \in Vals, Keeps({k}), Value(k)' = v, <<k, v>> \in Versions
  PROVE  Dict!Undo(k)
BY ViewStep DEF Dict!Undo, Dict!Forgets, View

LEMMA DeleteStep ==
  ASSUME Inv, NEW k \in Keys, Keeps({k}), Value(k)' = NoVal, Exists(k)
  PROVE  Dict!Delete(k)
<1>1. Value(k) \in Vals
  BY RecordRow
<1> QED BY <1>1, ViewStep, NameAssumption DEF Dict!Delete, Dict!Forgets, View

LEMMA RenameStep ==
  ASSUME Inv, NEW k \in Keys, NEW new \in Keys, Rename(k, new)
  PROVE  Dict!Rename(k, new)
<1>1. /\ \A l \in Keys \ {k, new} : Value(l)' = Value(l)
      /\ Value(new)' = Value(k) /\ Value(k)' = NoVal
      /\ Versions' = Versions
      /\ Value(k) # NoVal /\ Value(new) = NoVal /\ k # new
  BY RenameInv
<1>2. View' = [View EXCEPT ![new] = View[k], ![k] = NoVal]
  BY <1>1 DEF View
<1> QED BY <1>1, <1>2 DEF Dict!Rename, View

\* A step keeps the invariant, and it is a step of the dictionary or leaves the
\* dictionary as it is.
LEMMA OperationStep ==
  ASSUME Inv, NEW k \in Keys, Operation(k)
  PROVE  Inv' /\ Dict!Next
<1>1. ASSUME NEW v \in Vals, NEW rev \in Reverts, NEW sp \in Splits, Write(k, v, rev, sp)
      PROVE  Inv' /\ Dict!Next
  <2>1. rev \in BOOLEAN /\ sp \in BOOLEAN
    BY CallAssumption
  <2>2. Inv' /\ Keeps({k}) /\ Value(k)' = v
    BY <1>1, <2>1, OverwriteInv, ReplaceInv, AddInv DEF Write
  <2> QED BY <2>2, SetStep DEF Dict!Next
<1>2. ASSUME NEW v \in Vals, Append(k, v) PROVE Inv' /\ Dict!Next
  BY <1>2, AppendInv, SetStep DEF Dict!Next
<1>3. ASSUME NEW rev \in Reverts, Delete(k, rev) PROVE Inv' /\ Dict!Next
  <2>1. Inv' /\ Keeps({k}) /\ Value(k)' = NoVal
    BY <1>3, CallAssumption, DeleteInv
  <2>2. Exists(k)
    BY <1>3 DEF Delete
  <2> QED BY <2>1, <2>2, DeleteStep DEF Dict!Next
<1>4. ASSUME NEW r \in UndoRows(k), NEW rev \in Reverts, Undelete(k, r, rev)
      PROVE  Inv' /\ Dict!Next
  BY <1>4, CallAssumption, UndeleteInv, UndoStep DEF Dict!Next
<1>5. ASSUME NEW r \in UndoRows(k), Unwrite(k, r) PROVE Inv' /\ Dict!Next
  BY <1>5, UnwriteInv, UndoStep DEF Dict!Next
<1>6. ASSUME NEW new \in Keys, Rename(k, new) PROVE Inv' /\ Dict!Next
  BY <1>6, RenameInv, RenameStep DEF Dict!Next
<1> QED BY <1>1, <1>2, <1>3, <1>4, <1>5, <1>6 DEF Operation

LEMMA QuietStep ==
  ASSUME Inv, Open \/ Close \/ Nested \/ (\E r \in 0 .. n_lines - 1 : ReadRow(r))
              \/ UNCHANGED vars
  PROVE  Inv' /\ (\A l \in Keys : Value(l)' = Value(l)) /\ Versions' = Versions
<1>1. /\ TypeOK /\ index \in IndexType /\ CacheIn(index, n_records, n_lines)
      /\ n_records \in Nat /\ n_lines \in Nat
      /\ hdr_lines \in 0 .. n_lines /\ safe_line \in Nat /\ chg_keys \subseteq Keys
      /\ dirty \in BOOLEAN /\ open \in BOOLEAN
  BY Basics DEF Inv, InvCache, TypeOK
<1>2. ASSUME Save
      PROVE  /\ index' \in IndexType /\ index'.rows = index.rows /\ CacheIn(index', n_records, n_lines)
             /\ hdr_lines' \in 0 .. n_lines /\ dirty' \in BOOLEAN
             /\ UNCHANGED <<val, used, n_records, n_lines, key_table>>
  <2>1. hdr_lines' = n_lines /\ dirty' = FALSE
        /\ UNCHANGED <<val, used, n_records, n_lines, key_table>>
    BY <1>2 DEF Save
  <2>2. hdr_lines' \in 0 .. n_lines
    BY <1>1, <2>1
  <2>3. index' \in IndexType /\ index'.rows = index.rows /\ CacheIn(index', n_records, n_lines)
    <3>1. CASE dirty
      <4>1. index' = [index EXCEPT !.dead = [r \in RowIds |-> NoExt]]
        BY <1>2, <3>1 DEF Save
      <4>2. index' = [rows |-> index.rows, dead |-> [r \in RowIds |-> NoExt]]
        BY <1>1, <4>1 DEF IndexType
      <4>3. NoExt \in Exts
        BY StoreBounds DEF NoExt, Exts
      <4>4. index.rows \in [RowIds -> Rows]
        BY <1>1 DEF IndexType
      <4>5. index' \in IndexType
        BY <4>2, <4>3, <4>4 DEF IndexType
      <4>6. CacheIn(index', n_records, n_lines)
        BY <4>2 DEF CacheIn
      <4> QED BY <4>2, <4>5, <4>6
    <3>2. CASE ~dirty
      <4>1. index' = index
        BY <1>2, <3>2 DEF Save
      <4> QED BY <1>1, <4>1
    <3> QED BY <3>1, <3>2
  <2> QED BY <2>1, <2>2, <2>3
<1>3. CASE Open
  BY <1>1, <1>3, QuietInv DEF Open
<1>4. CASE Close
  BY <1>1, <1>2, <1>4, QuietInv DEF Close
<1>5. CASE Nested
  BY <1>1, <1>2, <1>5, QuietInv DEF Nested
<1>6. ASSUME NEW r \in 0 .. n_lines - 1, ReadRow(r)
      PROVE  Inv' /\ (\A l \in Keys : Value(l)' = Value(l)) /\ Versions' = Versions
  BY <1>1, <1>6, ReadKeyKeeps, QuietInv DEF ReadRow, session
<1>7. CASE UNCHANGED vars
  BY <1>1, <1>7, QuietInv DEF vars, session
<1> QED BY <1>3, <1>4, <1>5, <1>6, <1>7

LEMMA NextStep ==
  ASSUME Inv, [Next]_vars
  PROVE  Inv' /\ [Dict!Next]_<<View, Versions>>
<1>1. CASE Open \/ Close \/ Nested \/ (\E r \in 0 .. n_lines - 1 : ReadRow(r)) \/ UNCHANGED vars
  <2>1. Inv' /\ (\A l \in Keys : Value(l)' = Value(l)) /\ Versions' = Versions
    BY <1>1, QuietStep
  <2>2. View' = View
    BY <2>1 DEF View
  <2> QED BY <2>1, <2>2
<1>2. CASE \E k \in Keys : Operation(k)
  BY <1>2, OperationStep
<1> QED BY <1>1, <1>2 DEF Next

LEMMA InitInv == Init => Inv
<1> SUFFICES ASSUME Init PROVE Inv
  OBVIOUS
<1>1. /\ n_lines = 0 /\ n_records = 0 /\ used = 0 /\ hdr_lines = 0
      /\ index = [rows |-> [r \in RowIds |-> EmptyRow], dead |-> [r \in RowIds |-> NoExt]]
      /\ val = [c \in Cells |-> NoCell] /\ key_table = [k \in Keys |-> NoRow]
      /\ MaxRows \in Nat /\ MaxCells \in Nat
  BY StoreBounds DEF Init
<1>2. EmptyRow \in Rows /\ NoExt \in Exts
  BY StoreBounds DEF EmptyRow, NoExt, Rows, Exts
<1>3. NoCell \in (Vals \cup {NoVal}) \X Nat /\ NoRow \in 0 .. MaxRows
  BY <1>1 DEF NoCell, NoRow
<1>4. TypeOK
  <2>1. index \in [rows : [RowIds -> Rows], dead : [RowIds -> Exts]]
    BY <1>1, <1>2
  <2>2. val \in [Cells -> (Vals \cup {NoVal}) \X Nat] /\ key_table \in [Keys -> 0 .. MaxRows]
    BY <1>1, <1>3
  <2>3. /\ used \in 0 .. MaxCells /\ n_lines \in 0 .. MaxRows /\ n_records \in 0 .. n_lines
        /\ hdr_lines \in 0 .. n_lines
    BY <1>1
  <2>4. safe_line \in Nat /\ chg_keys \subseteq Keys /\ dirty \in BOOLEAN /\ open \in BOOLEAN
    BY DEF Init
  <2> QED BY <2>1, <2>2, <2>3, <2>4 DEF TypeOK
<1>5. InvSpace
  BY <1>1 DEF InvSpace, Divides
<1>6. InvKeys
  <2>1. \A k \in Keys : key_table[k] = NoRow
    BY <1>1
  <2>2. n_records = 0 /\ MaxRows \in Nat
    BY <1>1
  <2>3. ASSUME NEW k \in Keys PROVE ~Exists(k)
    <3>1. key_table[k] = MaxRows
      BY <2>1 DEF NoRow
    <3> QED BY <2>2, <3>1 DEF Exists
  <2>4. KeyTableMatches
    BY <2>2, <2>3 DEF KeyTableMatches
  <2> QED BY <2>1, <2>4 DEF InvKeys
<1>7. InvCache /\ InvWhole
  BY <1>1 DEF InvCache, CacheIn, InvWhole
<1> QED BY <1>4, <1>5, <1>6, <1>7 DEF Inv

-----------------------------------------------------------------------------
(* Theorems *)

LEMMA StoreInvariant == Spec => []Inv
<1>1. Inv /\ [Next]_vars => Inv'
  BY NextStep
<1> QED BY <1>1, InitInv, PTL DEF Spec

\* The regions stay in order and nothing leaves its range, whatever the
\* operations, flags and bounds.
THEOREM TypesKept == Spec => []TypeOK
<1>1. Inv => TypeOK
  BY DEF Inv
<1> QED BY <1>1, StoreInvariant, PTL

\* The extents of the rows divide the space of the VAL file: no operation gives
\* space to two rows, and none loses any.
THEOREM SpaceKept == Spec => []SpacePartitioned
<1>1. ASSUME Inv PROVE SpacePartitioned
  <2>1. /\ n_lines \in Nat /\ used \in Nat /\ MaxCells \in Nat /\ used <= MaxCells
        /\ \A r \in 0 .. n_lines - 1 : index.rows[r].off \in Nat /\ index.rows[r].size \in Nat
        /\ Divides(index.rows, n_lines, used)
    BY <1>1, Basics DEF Inv, InvSpace
  <2>2. \A r, c : c \in Extent(r) <=> c \in Cells /\ In(index.rows[r], c)
    BY DEF Extent, In
  <2>3. \A c \in Cells : c \in Nat
    BY DEF Cells
  <2>4. ExtentsDisjoint
    BY <2>1, <2>2, <2>3 DEF ExtentsDisjoint, Divides
  <2>5. ASSUME NEW c \in 0 .. used - 1 PROVE \E r \in 0 .. n_lines - 1 : c \in Extent(r)
    <3>1. c \in Nat /\ c < used /\ c \in Cells
      BY <2>1 DEF Cells
    <3> QED BY <2>1, <2>2, <3>1 DEF Divides
  <2>6. ASSUME NEW r \in 0 .. n_lines - 1, NEW c \in Extent(r) PROVE c \in 0 .. used - 1
    <3>1. c \in Nat /\ In(index.rows[r], c)
      BY <2>2, <2>3
    <3>2. index.rows[r].off + index.rows[r].size <= used
      BY <2>1 DEF Divides
    <3> QED BY <2>1, <3>1, <3>2 DEF In
  <2>7. NoSpaceLost
    BY <2>5, <2>6 DEF NoSpaceLost
  <2> QED BY <2>4, <2>7 DEF SpacePartitioned
<1> QED BY <1>1, StoreInvariant, PTL

\* The key table and the cache of free extents follow every move of a row.
THEOREM MemoryKept == Spec => []MemoryMatches
<1>1. Inv => MemoryMatches
  BY DEF Inv, InvKeys, InvCache, CacheIn, MemoryMatches, CacheFresh
<1> QED BY <1>1, StoreInvariant, PTL

\* The store implements the dictionary with undo: a step changes what is read
\* under the keys it names and under no other, and a version that undo can find
\* was the value of its key.
THEOREM StoreIsDictionary == Spec => IsDictionary
<1>1. Init => Dict!Init
  <2> SUFFICES ASSUME Init PROVE Dict!Init
    OBVIOUS
  <2>1. ASSUME NEW k \in Keys PROVE ~Exists(k)
    <3>1. n_records = 0 /\ key_table[k] = MaxRows
      BY DEF Init, NoRow
    <3> QED BY <3>1, StoreBounds DEF Exists
  <2>2. \A k \in Keys : Value(k) = NoVal
    BY <2>1 DEF Value
  <2>3. n_lines = 0 /\ n_records = 0
    BY DEF Init
  <2>4. Versions = {}
    BY <2>3 DEF Versions
  <2> QED BY <2>2, <2>4 DEF Dict!Init
<1>2. Inv /\ [Next]_vars => [Dict!Next]_<<View, Versions>>
  BY NextStep
<1>3. Inv /\ [Next]_vars => [Dict!Next]_Dict!dvars
  BY <1>2 DEF Dict!dvars, View
<1> QED BY <1>1, <1>3, StoreInvariant, PTL DEF Spec, IsDictionary, Dict!Spec
=============================================================================
