--------------------------- MODULE KeyTableProofs ---------------------------
(***************************************************************************)
(* Proofs about KeyTable, for any keys, filter bits and cache limit, when  *)
(* the application looks up only what an open iteration has yielded: a     *)
(* lookup answers as the file would, size counts the entries, and the      *)
(* sorted items are the records of the file.  The invariant ties the table *)
(* to the pairs of key and row in the file: its entries are some of these, *)
(* its cache is some of its entries, and the flag of a row that the file   *)
(* has says whether the row is entered.                                    *)
(***************************************************************************)
EXTENDS KeyTable, FiniteSetTheorems, SequenceTheorems, WellFoundedInduction, TLAPS

\* What the file says: each key with its row.
Pairs(fs) == {<<fs[r], r>> : r \in DOMAIN fs}

\* The same for some of the rows
PairsIn(fs, lo, hi) == {<<fs[r], r>> : r \in lo .. hi}

EntriesOf(s) == {s[i] : i \in DOMAIN s}

\* No key has two entries.
OneEach(s) == \A i, j \in DOMAIN s : s[i][1] = s[j][1] => i = j

\* A file as it can be: each key once
File(fs) == fs \in Seq(Keys) /\ IsInjective(fs)

Tables == [entries : Seq(Entries), size : Nat, found : SUBSET Nat, flags : SUBSET Nat,
           cache : Seq(Entries), limit : Nat]

\* Table t fits the pairs M of key and row.
Fits(t, M) ==
  /\ t \in Tables
  /\ t.size = Len(t.entries) /\ Len(t.cache) <= t.limit
  /\ OneEach(t.entries) /\ OneEach(t.cache)
  /\ EntriesOf(t.entries) \subseteq M
  /\ EntriesOf(t.cache) \subseteq EntriesOf(t.entries)
  /\ \A e \in EntriesOf(t.entries) : Bit[e[1]] \in t.flags
  /\ \A e \in M : e[2] \in t.found <=> e \in EntriesOf(t.entries)

\* The rows that an open iteration has passed are entered, and if it started on
\* an empty table no other is.
IterFits ==
  iter.open => /\ \A r \in 1 .. iter.row : r \in table.found
               /\ iter.is_empty => \A e \in EntriesOf(table.entries) : e[2] <= iter.row

TableInv ==
  /\ File(rows) /\ Fits(table, Pairs(rows))
  /\ iter \in [open : BOOLEAN, row : Nat, is_empty : BOOLEAN] /\ iter.row <= Len(rows)
  /\ changes \in 0 .. MaxChanges
  /\ ~iter.open => iter = NoIter
  /\ IterFits

-----------------------------------------------------------------------------
(* Sequences of entries *)

\* A set of numbers that is not empty has a smallest member.
LEMMA SmallestIs ==
  ASSUME NEW S, S \subseteq Nat, S # {}
  PROVE  \E i \in S : \A j \in S : i <= j
<1>1. IsWellFoundedOn(OpToRel(<, Nat), Nat)
  BY NatLessThanWellFounded
<1>2. PICK i \in S : \A j \in S : ~ (<<j, i>> \in OpToRel(<, Nat))
  BY <1>1, WFMin
<1>3. \A j \in S : ~ (j < i)
  BY <1>2 DEF OpToRel
<1> QED BY <1>3

\* What FindKey answers: where the key is, or 0.
LEMMA FindKeyIs ==
  ASSUME NEW s \in Seq(Entries), NEW k
  PROVE  /\ FindKey(s, k) \in 0 .. Len(s)
         /\ FindKey(s, k) = 0 => \A i \in DOMAIN s : s[i][1] # k
         /\ FindKey(s, k) > 0 => FindKey(s, k) \in DOMAIN s /\ s[FindKey(s, k)][1] = k
<1> DEFINE at == {i \in DOMAIN s : s[i][1] = k}
<1>1. CASE at = {}
  BY <1>1 DEF FindKey
<1>2. CASE at # {}
  <2>1. at \subseteq Nat
    OBVIOUS
  <2>2. \E i \in at : \A j \in at : i <= j
    BY <1>2, <2>1, SmallestIs
  <2>3. FindKey(s, k) = CHOOSE i \in at : \A j \in at : i <= j
    BY <1>2 DEF FindKey
  <2>4. FindKey(s, k) \in at
    BY <2>2, <2>3
  <2> QED BY <2>4
<1> QED BY <1>1, <1>2

\* A sequence without the entry at i
LEMMA RemoveAtIs ==
  ASSUME NEW s \in Seq(Entries), NEW i \in DOMAIN s
  PROVE  /\ RemoveAt(s, i) \in Seq(Entries) /\ Len(RemoveAt(s, i)) = Len(s) - 1
         /\ \A j \in 1 .. Len(s) - 1 : RemoveAt(s, i)[j] = IF j < i THEN s[j] ELSE s[j + 1]
<1> DEFINE a == SubSeq(s, 1, i - 1)
           b == SubSeq(s, i + 1, Len(s))
<1>1. i \in Nat /\ Len(s) \in Nat /\ 1 <= i /\ i <= Len(s)
  OBVIOUS
<1>2. a \in Seq(Entries) /\ Len(a) = i - 1 /\ \A j \in 1 .. i - 1 : a[j] = s[j]
  BY <1>1
<1>3. b \in Seq(Entries) /\ Len(b) = Len(s) - i /\ \A j \in 1 .. Len(s) - i : b[j] = s[i + j]
  BY <1>1
<1>4. RemoveAt(s, i) = a \o b
  BY DEF RemoveAt
<1> HIDE DEF a, b
<1>5. a \o b \in Seq(Entries) /\ Len(a \o b) = Len(s) - 1
  BY <1>1, <1>2, <1>3
<1>6. ASSUME NEW j \in 1 .. Len(s) - 1 PROVE (a \o b)[j] = IF j < i THEN s[j] ELSE s[j + 1]
  <2>1. CASE j < i
    BY <1>1, <1>2, <1>3, <2>1
  <2>2. CASE j >= i
    <3>1. (a \o b)[j] = b[j - Len(a)]
      <4>1. j \in 1 .. Len(a) + Len(b) /\ ~(j <= Len(a))
        BY <1>1, <1>2, <1>3, <2>2
      <4>2. (a \o b)[j] = IF j <= Len(a) THEN a[j] ELSE b[j - Len(a)]
        BY <1>2, <1>3, <4>1, ConcatProperties
      <4> QED BY <4>1, <4>2
    <3>2. j - Len(a) \in 1 .. Len(s) - i /\ i + (j - Len(a)) = j + 1
      BY <1>1, <1>2, <2>2
    <3>3. b[j - Len(a)] = s[j + 1]
      BY <1>3, <3>2
    <3>4. ~(j < i)
      BY <1>1, <2>2
    <3> QED BY <3>1, <3>3, <3>4
  <2>3. j < i \/ j >= i
    BY <1>1
  <2> QED BY <2>1, <2>2, <2>3, Zenon
<1> QED BY <1>4, <1>5, <1>6

\* Taking the only entry of a key away leaves the entries of the other keys.
LEMMA RemovedIs ==
  ASSUME NEW s \in Seq(Entries), OneEach(s), NEW i \in DOMAIN s
  PROVE  /\ OneEach(RemoveAt(s, i))
         /\ EntriesOf(RemoveAt(s, i)) = {e \in EntriesOf(s) : e[1] # s[i][1]}
<1> DEFINE u == RemoveAt(s, i)
           old(j) == IF j < i THEN j ELSE j + 1
<1>a. u \in Seq(Entries) /\ Len(u) = Len(s) - 1
      /\ \A j \in 1 .. Len(s) - 1 : u[j] = IF j < i THEN s[j] ELSE s[j + 1]
  BY RemoveAtIs
<1> HIDE DEF u
<1>1. u \in Seq(Entries) /\ Len(u) = Len(s) - 1
      /\ \A j \in DOMAIN u : u[j] = s[old(j)] /\ old(j) \in DOMAIN s /\ old(j) # i
  BY <1>a
<1>2. \A j1, j2 \in DOMAIN u : old(j1) = old(j2) => j1 = j2
  BY <1>1
<1> HIDE DEF u
<1>3. OneEach(u)
  BY <1>1, <1>2 DEF OneEach
<1>4. ASSUME NEW e \in EntriesOf(u) PROVE e \in EntriesOf(s) /\ e[1] # s[i][1]
  BY <1>1 DEF EntriesOf, OneEach
<1>5. ASSUME NEW j \in DOMAIN s, s[j][1] # s[i][1] PROVE s[j] \in EntriesOf(u)
  <2>1. j # i
    BY <1>5
  <2>2. CASE j < i
    <3>1. j \in DOMAIN u /\ old(j) = j
      BY <1>1, <2>2
    <3> QED BY <1>1, <3>1 DEF EntriesOf
  <2>3. CASE j > i
    <3>1. j - 1 \in DOMAIN u /\ old(j - 1) = j
      BY <1>1, <2>3
    <3> QED BY <1>1, <3>1 DEF EntriesOf
  <2> QED BY <2>1, <2>2, <2>3
<1>6. EntriesOf(u) = {e \in EntriesOf(s) : e[1] # s[i][1]}
  BY <1>4, <1>5 DEF EntriesOf
<1> QED BY <1>3, <1>6 DEF u

\* The same by key: nothing is taken away if the key has no entry.
LEMMA WithoutIs ==
  ASSUME NEW s \in Seq(Entries), OneEach(s), NEW k
  PROVE  /\ Without(s, k) \in Seq(Entries) /\ OneEach(Without(s, k))
         /\ EntriesOf(Without(s, k)) = {e \in EntriesOf(s) : e[1] # k}
         /\ Len(Without(s, k)) <= Len(s)
         /\ (\E e \in EntriesOf(s) : e[1] = k) => Len(Without(s, k)) = Len(s) - 1
<1> DEFINE i == FindKey(s, k)
<1>1. i \in 0 .. Len(s) /\ (i = 0 => \A j \in DOMAIN s : s[j][1] # k)
      /\ (i > 0 => i \in DOMAIN s /\ s[i][1] = k)
  BY FindKeyIs
<1>2. CASE i = 0
  <2>1. Without(s, k) = s
    BY <1>2 DEF Without
  <2> QED BY <1>1, <1>2, <2>1 DEF EntriesOf
<1>3. CASE i > 0
  <2>1. Without(s, k) = RemoveAt(s, i)
    BY <1>3 DEF Without
  <2>2. i \in DOMAIN s /\ s[i][1] = k
    BY <1>1, <1>3
  <2> HIDE DEF i
  <2>3. Without(s, k) \in Seq(Entries) /\ Len(Without(s, k)) = Len(s) - 1
    BY <2>1, <2>2, RemoveAtIs
  <2> QED BY <2>1, <2>2, <2>3, RemovedIs
<1> QED BY <1>1, <1>2, <1>3

\* The newest entries of a sequence
LEMMA NewestAre ==
  ASSUME NEW s \in Seq(Entries), OneEach(s), NEW m \in Nat, m <= Len(s)
  PROVE  LET u == SubSeq(s, m + 1, Len(s)) IN
         /\ u \in Seq(Entries) /\ Len(u) = Len(s) - m /\ OneEach(u)
         /\ EntriesOf(u) \subseteq EntriesOf(s)
<1> DEFINE u == SubSeq(s, m + 1, Len(s))
<1>1. u \in Seq(Entries) /\ Len(u) = Len(s) - m
  OBVIOUS
<1>2. \A i \in 1 .. Len(s) - m : u[i] = s[m + i]
  OBVIOUS
<1> HIDE DEF u
<1>3. \A i \in DOMAIN u : u[i] = s[m + i] /\ m + i \in DOMAIN s
  <2>1. DOMAIN u = 1 .. Len(s) - m
    BY <1>1
  <2>2. \A i \in 1 .. Len(s) - m : m + i \in DOMAIN s
    OBVIOUS
  <2> QED BY <1>2, <2>1, <2>2, Zenon
<1>4. OneEach(u)
  <2> SUFFICES ASSUME NEW i \in DOMAIN u, NEW j \in DOMAIN u, u[i][1] = u[j][1] PROVE i = j
    BY DEF OneEach
  <2>1. m + i = m + j
    BY <1>3 DEF OneEach
  <2>2. i \in Nat /\ j \in Nat
    BY <1>1
  <2> QED BY <2>1, <2>2
<1>5. EntriesOf(u) \subseteq EntriesOf(s)
  BY <1>3 DEF EntriesOf
<1> QED BY <1>1, <1>4, <1>5 DEF u

\* An entry for a key that has none, behind the others
LEMMA AppendedIs ==
  ASSUME NEW s \in Seq(Entries), OneEach(s), NEW e \in Entries,
         \A f \in EntriesOf(s) : f[1] # e[1]
  PROVE  /\ Append(s, e) \in Seq(Entries) /\ Len(Append(s, e)) = Len(s) + 1
         /\ OneEach(Append(s, e)) /\ EntriesOf(Append(s, e)) = EntriesOf(s) \cup {e}
<1> DEFINE u == Append(s, e)
<1>1. u \in Seq(Entries) /\ Len(u) = Len(s) + 1
  OBVIOUS
<1>2. u[Len(s) + 1] = e /\ \A i \in DOMAIN s : u[i] = s[i] /\ s[i] \in EntriesOf(s)
  BY DEF EntriesOf
<1> HIDE DEF u
<1>3. \A i \in DOMAIN u : i \in DOMAIN s \/ i = Len(s) + 1
  BY <1>1
<1>4. OneEach(u)
  <2>1. \A i \in DOMAIN s : u[i][1] # e[1]
    BY <1>2
  <2>2. \A i, j \in DOMAIN s : u[i][1] = u[j][1] => i = j
    BY <1>2 DEF OneEach
  <2> QED BY <1>2, <1>3, <2>1, <2>2 DEF OneEach
<1>5. EntriesOf(u) = EntriesOf(s) \cup {e}
  <2>1. ASSUME NEW f \in EntriesOf(u) PROVE f \in EntriesOf(s) \cup {e}
    BY <1>2, <1>3 DEF EntriesOf
  <2>2. ASSUME NEW i \in DOMAIN s PROVE s[i] \in EntriesOf(u)
    BY <1>1, <1>2 DEF EntriesOf
  <2>3. e \in EntriesOf(u)
    <3>1. Len(s) + 1 \in DOMAIN u
      BY <1>1
    <3> QED BY <1>2, <3>1 DEF EntriesOf
  <2> QED BY <2>1, <2>2, <2>3 DEF EntriesOf
<1> QED BY <1>1, <1>4, <1>5 DEF u

\* Another entry for the same key, in its place
LEMMA ReplacedIs ==
  ASSUME NEW s \in Seq(Entries), OneEach(s), NEW i \in DOMAIN s, NEW e \in Entries, s[i][1] = e[1]
  PROVE  /\ [s EXCEPT ![i] = e] \in Seq(Entries) /\ Len([s EXCEPT ![i] = e]) = Len(s)
         /\ OneEach([s EXCEPT ![i] = e])
         /\ EntriesOf([s EXCEPT ![i] = e]) = {f \in EntriesOf(s) : f[1] # e[1]} \cup {e}
<1> DEFINE u == [s EXCEPT ![i] = e]
<1>1. u \in Seq(Entries) /\ Len(u) = Len(s) /\ DOMAIN u = DOMAIN s
      /\ \A j \in DOMAIN s : u[j] = IF j = i THEN e ELSE s[j]
  OBVIOUS
<1> HIDE DEF u
<1>2. OneEach(u)
  BY <1>1 DEF OneEach
<1>3. ASSUME NEW f \in EntriesOf(u) PROVE f \in {g \in EntriesOf(s) : g[1] # e[1]} \cup {e}
  BY <1>1 DEF EntriesOf, OneEach
<1>4. e \in EntriesOf(u)
  BY <1>1 DEF EntriesOf
<1>5. ASSUME NEW j \in DOMAIN s, s[j][1] # e[1] PROVE s[j] \in EntriesOf(u)
  BY <1>1, <1>5 DEF EntriesOf
<1>6. EntriesOf(u) = {f \in EntriesOf(s) : f[1] # e[1]} \cup {e}
  <2>1. \A f \in EntriesOf(s) : f[1] # e[1] => f \in EntriesOf(u)
    BY <1>5 DEF EntriesOf
  <2> QED BY <1>3, <1>4, <2>1
<1> QED BY <1>1, <1>2, <1>6 DEF u

\* A key has one entry only.
LEMMA SameEntry ==
  ASSUME NEW s, OneEach(s), NEW e \in EntriesOf(s), NEW f \in EntriesOf(s), e[1] = f[1]
  PROVE  e = f
BY DEF OneEach, EntriesOf

-----------------------------------------------------------------------------
(* The methods of the table *)

\* The cache takes an entry of the table as its newest and keeps its limit.
LEMMA CachedFits ==
  ASSUME NEW t, NEW M, Fits(t, M), NEW k, NEW r, <<k, r>> \in EntriesOf(t.entries)
  PROVE  Fits(Cached(t, k, r), M) /\ \E c : Cached(t, k, r) = [t EXCEPT !.cache = c]
<1> DEFINE c == t.cache
           over == Len(c) - t.limit + 1
           room == IF over > 0 THEN SubSeq(c, over + 1, Len(c)) ELSE c
           new == Append(Without(room, k), <<k, r>>)
<1>1. c \in Seq(Entries) /\ OneEach(c) /\ Len(c) <= t.limit /\ t.limit \in Nat
      /\ EntriesOf(c) \subseteq EntriesOf(t.entries) /\ t \in Tables
  BY DEF Fits, Tables
<1>2. <<k, r>> \in Entries
  <2>1. PICK i \in DOMAIN t.entries : <<k, r>> = t.entries[i]
    BY Zenon DEF EntriesOf
  <2>2. t.entries \in Seq(Entries)
    BY DEF Fits, Tables
  <2>3. t.entries[i] \in Entries
    BY <2>1, <2>2
  <2> QED BY <2>1, <2>3
<1>3. CASE t.limit = 0
  <2>1. Cached(t, k, r) = t
    BY <1>3 DEF Cached
  <2>2. t = [t EXCEPT !.cache = t.cache]
    BY <1>1 DEF Tables
  <2> QED BY <2>1, <2>2
<1>4. CASE t.limit # 0
  <2>1. room \in Seq(Entries) /\ OneEach(room) /\ EntriesOf(room) \subseteq EntriesOf(c)
        /\ Len(room) < t.limit
    <3>1. CASE over > 0
      <4>1. over \in Nat /\ over <= Len(c) /\ Len(c) - over < t.limit
        BY <1>1, <1>4, <3>1
      <4>2. room = SubSeq(c, over + 1, Len(c))
        BY <3>1
      <4> HIDE DEF over, c, room
      <4> QED BY <1>1, <4>1, <4>2, NewestAre
    <3>2. CASE ~(over > 0)
      BY <1>1, <3>2
    <3> QED BY <3>1, <3>2
  <2> HIDE DEF c, room
  <2>2. Without(room, k) \in Seq(Entries) /\ OneEach(Without(room, k))
        /\ EntriesOf(Without(room, k)) = {e \in EntriesOf(room) : e[1] # k}
        /\ Len(Without(room, k)) < t.limit
    <3>1. Len(Without(room, k)) <= Len(room) /\ Without(room, k) \in Seq(Entries)
          /\ OneEach(Without(room, k))
          /\ EntriesOf(Without(room, k)) = {e \in EntriesOf(room) : e[1] # k}
      BY <2>1, WithoutIs
    <3> QED BY <1>1, <2>1, <3>1
  <2> DEFINE w == Without(room, k)
  <2>3. new \in Seq(Entries) /\ Len(new) = Len(w) + 1 /\ OneEach(new)
        /\ EntriesOf(new) = EntriesOf(w) \cup {<<k, r>>}
    <3>1. \A f \in EntriesOf(w) : f[1] # <<k, r>>[1]
      BY <2>2
    <3> HIDE DEF w
    <3>2. w \in Seq(Entries) /\ OneEach(w)
      BY <2>2 DEF w
    <3>3. new = Append(w, <<k, r>>)
      BY DEF w
    <3> HIDE DEF new
    <3> QED BY <1>2, <3>1, <3>2, <3>3, AppendedIs
  <2>4. Cached(t, k, r) = [t EXCEPT !.cache = new]
    BY <1>4 DEF Cached, c, room
  <2> HIDE DEF new
  <2>5. EntriesOf(new) \subseteq EntriesOf(t.entries) /\ Len(new) <= t.limit
    <3>1. EntriesOf(w) \subseteq EntriesOf(t.entries)
      BY <1>1, <2>1, <2>2
    <3>2. Len(w) \in Nat /\ Len(w) < t.limit
      BY <2>2
    <3> HIDE DEF w
    <3> QED BY <1>1, <2>3, <3>1, <3>2
  <2>6. [t EXCEPT !.cache = new] \in Tables
    BY <1>1, <2>3 DEF Tables
  <2> QED BY <1>1, <2>3, <2>4, <2>5, <2>6 DEF Fits, Tables
<1> QED BY <1>3, <1>4

\* The pairs after key k is put at row r
Moved(M, k, r) == {e \in M : e[1] # k} \cup {<<k, r>>}

\* The table with an entry more: the flag of its row is set, and whatever the
\* pairs say otherwise of its key no longer counts.
LEMMA EnteredFits ==
  ASSUME TableAssumption, NEW t, NEW M, Fits(t, M), NEW k \in Keys, NEW r \in Nat \ {0},
         \A e \in EntriesOf(t.entries) : e[1] # k,
         \A e \in M : e[1] # k => e[2] # r
  PROVE  /\ Fits(Entered(t, k, r), Moved(M, k, r))
         /\ EntriesOf(Entered(t, k, r).entries) = EntriesOf(t.entries) \cup {<<k, r>>}
         /\ Entered(t, k, r).found = t.found \cup {r}
<1> DEFINE u == Entered(t, k, r)
           new == Append(t.entries, <<k, r>>)
           N == {e \in M : e[1] # k} \cup {<<k, r>>}
<1>1. t \in Tables /\ t.entries \in Seq(Entries) /\ OneEach(t.entries)
  BY DEF Fits, Tables
<1>2. new \in Seq(Entries) /\ Len(new) = Len(t.entries) + 1 /\ OneEach(new)
      /\ EntriesOf(new) = EntriesOf(t.entries) \cup {<<k, r>>}
  <2>1. <<k, r>> \in Entries /\ \A f \in EntriesOf(t.entries) : f[1] # <<k, r>>[1]
    BY DEF Entries
  <2> QED BY <1>1, <2>1, AppendedIs
<1> HIDE DEF new
<1>3. u = [t EXCEPT !.entries = new, !.size = t.size + 1, !.found = t.found \cup {r},
                    !.flags = t.flags \cup {Bit[k]}]
  BY <1>1 DEF Entered, Tables, new
<1>4. Bit[k] \in Nat
  BY DEF TableAssumption
<1>5. u \in Tables
  <2>1. t.size + 1 \in Nat /\ t.found \cup {r} \in SUBSET Nat /\ t.flags \cup {Bit[k]} \in SUBSET Nat
    BY <1>1, <1>4 DEF Tables
  <2> HIDE DEF u
  <2> QED BY <1>1, <1>2, <1>3, <2>1 DEF Tables
<1>6. u.entries = new /\ u.size = t.size + 1 /\ u.found = t.found \cup {r}
      /\ u.flags = t.flags \cup {Bit[k]} /\ u.cache = t.cache /\ u.limit = t.limit
  BY <1>1, <1>3 DEF Tables
<1> HIDE DEF u
<1>7. EntriesOf(new) \subseteq N
  BY <1>2 DEF Fits
<1>8. \A e \in EntriesOf(new) : Bit[e[1]] \in u.flags
  BY <1>2, <1>6 DEF Fits
<1>9. ASSUME NEW e \in N PROVE e[2] \in u.found <=> e \in EntriesOf(new)
  <2>1. CASE e = <<k, r>>
    BY <1>2, <1>6, <2>1
  <2>2. CASE e \in M /\ e[1] # k
    <3>1. e[2] # r /\ e # <<k, r>>
      BY <2>2
    <3>2. e[2] \in t.found <=> e \in EntriesOf(t.entries)
      BY <2>2 DEF Fits
    <3> QED BY <1>2, <1>6, <3>1, <3>2
  <2> QED BY <2>1, <2>2
<1>10. Len(u.cache) <= u.limit /\ OneEach(u.cache) /\ EntriesOf(u.cache) \subseteq EntriesOf(new)
       /\ u.size = Len(new)
  BY <1>1, <1>2, <1>6 DEF Fits, Tables
<1>11. Fits(u, N)
  BY <1>2, <1>5, <1>6, <1>7, <1>8, <1>9, <1>10 DEF Fits
<1> QED BY <1>2, <1>6, <1>11 DEF u, Moved

\* What other pairs a table fits as well
LEMMA Refits ==
  ASSUME NEW t, NEW M, Fits(t, M), NEW N, EntriesOf(t.entries) \subseteq N,
         \A e \in N : e \in M \/ e[2] \notin t.found
  PROVE  Fits(t, N)
<1>1. ASSUME NEW e \in N PROVE e[2] \in t.found <=> e \in EntriesOf(t.entries)
  <2>1. CASE e \in M
    BY <2>1 DEF Fits
  <2>2. CASE e[2] \notin t.found
    BY <2>2 DEF Fits
  <2> QED BY <2>1, <2>2
<1> QED BY <1>1 DEF Fits

\* The cache without a key
LEMMA UncachedFits ==
  ASSUME NEW t, NEW M, Fits(t, M), NEW k
  PROVE  LET u == Uncached(t, k) IN
         /\ Fits(u, M)
         /\ u.entries = t.entries /\ u.found = t.found /\ u.size = t.size /\ u.limit = t.limit
         /\ u.flags = t.flags
         /\ EntriesOf(u.cache) = {e \in EntriesOf(t.cache) : e[1] # k}
         /\ Len(u.cache) <= Len(t.cache)
         /\ (\E e \in EntriesOf(t.cache) : e[1] = k) => Len(u.cache) = Len(t.cache) - 1
<1> DEFINE u == Uncached(t, k)
           w == Without(t.cache, k)
<1>1. t \in Tables /\ t.cache \in Seq(Entries) /\ OneEach(t.cache) /\ Len(t.cache) <= t.limit
      /\ t.limit \in Nat
  BY DEF Fits, Tables
<1>2. /\ w \in Seq(Entries) /\ OneEach(w)
      /\ EntriesOf(w) = {e \in EntriesOf(t.cache) : e[1] # k}
      /\ Len(w) <= Len(t.cache)
      /\ (\E e \in EntriesOf(t.cache) : e[1] = k) => Len(w) = Len(t.cache) - 1
  BY <1>1, WithoutIs
<1>3. u = [t EXCEPT !.cache = w]
  BY <1>1 DEF Uncached, Tables
<1> HIDE DEF u, w
<1>4. u \in Tables /\ u.cache = w /\ u.entries = t.entries /\ u.found = t.found
      /\ u.size = t.size /\ u.limit = t.limit /\ u.flags = t.flags
  BY <1>1, <1>2, <1>3 DEF Tables
<1>5. Len(w) <= t.limit
  BY <1>1, <1>2
<1>6. Fits(u, M)
  BY <1>2, <1>4, <1>5 DEF Fits
<1> QED BY <1>2, <1>4, <1>6 DEF u

\* The table with row r for key k, whose entry is the i-th
Replaced(t, i, k, r) == [t EXCEPT !.entries = [@ EXCEPT ![i] = <<k, r>>], !.found = @ \cup {r}]

\* The table with another row for a key that it has
LEMMA ReplacedFits ==
  ASSUME NEW t, NEW M, Fits(t, M), NEW k, NEW r \in Nat \ {0}, NEW i \in DOMAIN t.entries,
         t.entries[i][1] = k,
         \A e \in EntriesOf(t.cache) : e[1] = k => e = <<k, r>>,
         \A e \in M : e[1] # k => e[2] # r
  PROVE  /\ Fits(Replaced(t, i, k, r), {e \in M : e[1] # k} \cup {<<k, r>>})
         /\ <<k, r>> \in EntriesOf(Replaced(t, i, k, r).entries)
<1> DEFINE new == [t.entries EXCEPT ![i] = <<k, r>>]
           u == Replaced(t, i, k, r)
           N == {e \in M : e[1] # k} \cup {<<k, r>>}
<1>1. t \in Tables /\ t.entries \in Seq(Entries) /\ OneEach(t.entries)
  BY DEF Fits, Tables
<1>2. <<k, r>> \in Entries
  <2>1. t.entries[i] \in Entries
    BY <1>1
  <2> QED BY <2>1 DEF Entries
<1>3. new \in Seq(Entries) /\ Len(new) = Len(t.entries) /\ OneEach(new)
      /\ EntriesOf(new) = {f \in EntriesOf(t.entries) : f[1] # k} \cup {<<k, r>>}
  <2> DEFINE e == <<k, r>>
             s == t.entries
  <2>1. e \in Entries /\ s[i][1] = e[1] /\ e[1] = k
    BY <1>2
  <2>2. s \in Seq(Entries) /\ OneEach(s) /\ i \in DOMAIN s /\ new = [s EXCEPT ![i] = e]
    BY <1>1
  <2>3. new \in Seq(Entries) /\ Len(new) = Len(s) /\ OneEach(new)
        /\ EntriesOf(new) = {f \in EntriesOf(s) : f[1] # e[1]} \cup {e}
    <3> HIDE DEF e, s, new
    <3> QED BY <2>1, <2>2, ReplacedIs
  <2> QED BY <2>1, <2>3
<1>4. u = [t EXCEPT !.entries = new, !.found = t.found \cup {r}]
  BY <1>1 DEF Tables, Replaced
<1> HIDE DEF u, new
<1>5. u \in Tables
  <2>1. t.found \cup {r} \in SUBSET Nat /\ r \in Nat
    BY <1>1 DEF Tables
  <2>2. new \in Seq(Entries) /\ t \in Tables
    BY <1>1, <1>3
  <2> QED BY <1>4, <2>1, <2>2 DEF Tables
<1>6. u.entries = new /\ u.found = t.found \cup {r} /\ u.cache = t.cache
      /\ u.size = t.size /\ u.limit = t.limit /\ u.flags = t.flags
  BY <1>1, <1>4 DEF Tables
<1>7. EntriesOf(new) \subseteq N
  BY <1>3 DEF Fits
<1>8. EntriesOf(t.cache) \subseteq EntriesOf(new)
  BY <1>3 DEF Fits
<1>9. \A e \in EntriesOf(new) : Bit[e[1]] \in t.flags
  <2>1. t.entries[i] \in EntriesOf(t.entries)
    BY DEF EntriesOf
  <2>2. Bit[k] \in t.flags
    BY <2>1 DEF Fits
  <2> QED BY <1>3, <2>2 DEF Fits
<1>10. ASSUME NEW e \in N PROVE e[2] \in u.found <=> e \in EntriesOf(new)
  <2>1. CASE e = <<k, r>>
    BY <1>3, <1>6, <2>1
  <2>2. CASE e \in M /\ e[1] # k
    <3>1. e[2] # r /\ e # <<k, r>>
      BY <2>2
    <3>2. e[2] \in t.found <=> e \in EntriesOf(t.entries)
      BY <2>2 DEF Fits
    <3> QED BY <1>3, <1>6, <2>2, <3>1, <3>2
  <2> QED BY <2>1, <2>2
<1>11. u.size = Len(new) /\ Len(u.cache) <= u.limit /\ OneEach(u.cache)
  BY <1>3, <1>6 DEF Fits
<1>12. Fits(u, N)
  BY <1>3, <1>5, <1>6, <1>7, <1>8, <1>9, <1>10, <1>11 DEF Fits
<1>13. <<k, r>> \in EntriesOf(u.entries)
  BY <1>3, <1>6
<1> QED BY <1>12, <1>13 DEF u

\* A cached pair that is put again becomes the newest.
LEMMA HitFits ==
  ASSUME NEW t, NEW M, Fits(t, M), NEW k, NEW r, <<k, r>> \in EntriesOf(t.cache)
  PROVE  LET u == [Uncached(t, k) EXCEPT !.cache = Append(@, <<k, r>>)] IN
         Fits(u, M) /\ u.entries = t.entries
<1> DEFINE v == Uncached(t, k)
           e == <<k, r>>
           new == Append(v.cache, e)
           u == [v EXCEPT !.cache = Append(@, e)]
<1>1. /\ Fits(v, M) /\ v.entries = t.entries /\ v.limit = t.limit
      /\ EntriesOf(v.cache) = {f \in EntriesOf(t.cache) : f[1] # k}
      /\ (\E f \in EntriesOf(t.cache) : f[1] = k) => Len(v.cache) = Len(t.cache) - 1
  BY UncachedFits
<1>2. e \in EntriesOf(t.cache) /\ e[1] = k
  OBVIOUS
<1> HIDE DEF e, v
<1>3. t.cache \in Seq(Entries) /\ Len(t.cache) <= t.limit /\ t.limit \in Nat
      /\ EntriesOf(t.cache) \subseteq EntriesOf(t.entries)
  BY DEF Fits, Tables
<1>4. v \in Tables /\ v.cache \in Seq(Entries) /\ OneEach(v.cache)
  BY <1>1 DEF Fits, Tables
<1>5. e \in Entries
  BY <1>2, <1>3 DEF EntriesOf
<1>6. new \in Seq(Entries) /\ Len(new) = Len(v.cache) + 1 /\ OneEach(new)
      /\ EntriesOf(new) = EntriesOf(v.cache) \cup {e}
  <2>1. \A f \in EntriesOf(v.cache) : f[1] # e[1]
    BY <1>1, <1>2
  <2> HIDE DEF new
  <2>2. new = Append(v.cache, e)
    BY DEF new
  <2> QED BY <1>4, <1>5, <2>1, <2>2, AppendedIs
<1>7. Len(new) <= v.limit
  <2>1. Len(v.cache) = Len(t.cache) - 1
    BY <1>1, <1>2
  <2> QED BY <1>1, <1>3, <1>6, <2>1
<1>8. EntriesOf(new) \subseteq EntriesOf(v.entries)
  BY <1>1, <1>2, <1>3, <1>6
<1>9. u = [v EXCEPT !.cache = new]
  BY <1>4 DEF Tables
<1> HIDE DEF u, new
<1>10. u \in Tables /\ u.cache = new /\ u.entries = v.entries /\ u.found = v.found
       /\ u.size = v.size /\ u.limit = v.limit /\ u.flags = v.flags
  BY <1>4, <1>6, <1>9 DEF Tables
<1>11. Fits(u, M)
  BY <1>1, <1>6, <1>7, <1>8, <1>10 DEF Fits
<1> QED BY <1>1, <1>10, <1>11 DEF u, v, e

\* set: the table fits the pairs with the new one, and has it.
LEMMA PutFits ==
  ASSUME TableAssumption, NEW t, NEW M, Fits(t, M), NEW k \in Keys, NEW r \in Nat \ {0},
         \A e \in M : e[1] # k => e[2] # r
  PROVE  Fits(Put(t, k, r), Moved(M, k, r)) /\ <<k, r>> \in EntriesOf(Put(t, k, r).entries)
<1> DEFINE N == Moved(M, k, r)
           c == FindKey(t.cache, k)
           i == FindKey(t.entries, k)
           kept == IF t.entries[i][2] = r THEN t ELSE Uncached(t, k)
           entered == IF i > 0 THEN [kept EXCEPT !.entries[i] = <<k, r>>] ELSE Entered(t, k, r)
           flagged == [entered EXCEPT !.found = @ \cup {r}]
<1>1. t \in Tables /\ t.entries \in Seq(Entries) /\ t.cache \in Seq(Entries)
      /\ OneEach(t.entries) /\ EntriesOf(t.entries) \subseteq M
      /\ EntriesOf(t.cache) \subseteq EntriesOf(t.entries)
  BY DEF Fits, Tables
<1>2. /\ i \in 0 .. Len(t.entries)
      /\ i = 0 => \A j \in DOMAIN t.entries : t.entries[j][1] # k
      /\ i > 0 => i \in DOMAIN t.entries /\ t.entries[i][1] = k
  BY <1>1, FindKeyIs
<1>3. /\ c > 0 => c \in DOMAIN t.cache /\ t.cache[c][1] = k
  BY <1>1, FindKeyIs
<1>4. CASE c > 0 /\ t.cache[c][2] = r
  <2>1. Put(t, k, r) = [Uncached(t, k) EXCEPT !.cache = Append(@, <<k, r>>)]
    BY <1>4 DEF Put
  <2>2. <<k, r>> \in EntriesOf(t.cache)
    <3>1. t.cache[c] \in Entries /\ t.cache[c] \in EntriesOf(t.cache)
      BY <1>1, <1>3, <1>4 DEF EntriesOf
    <3>2. t.cache[c] = <<k, r>>
      BY <1>3, <1>4, <3>1 DEF Entries
    <3> QED BY <3>1, <3>2
  <2>3. Fits(t, N)
    <3>1. <<k, r>> \in EntriesOf(t.entries)
      BY <1>1, <2>2
    <3>2. \A e \in EntriesOf(t.entries) : e[1] = k => e = <<k, r>>
      <4>1. <<k, r>>[1] = k
        OBVIOUS
      <4> QED BY <1>1, <3>1, <4>1, SameEntry
    <3>3. EntriesOf(t.entries) \subseteq N
      BY <1>1, <3>2 DEF Moved
    <3>4. N \subseteq M
      BY <1>1, <3>1 DEF Moved
    <3> HIDE DEF N
    <3> QED BY <3>3, <3>4, Refits
  <2>4. Fits(Put(t, k, r), N) /\ Put(t, k, r).entries = t.entries
    <3> DEFINE u == [Uncached(t, k) EXCEPT !.cache = Append(@, <<k, r>>)]
    <3>1. Fits(u, N) /\ u.entries = t.entries
      <4> HIDE DEF N
      <4> QED BY <2>2, <2>3, HitFits, Zenon
    <3> HIDE DEF N, u
    <3> QED BY <2>1, <3>1 DEF u
  <2> QED BY <1>1, <2>2, <2>4
<1>5. CASE ~(c > 0 /\ t.cache[c][2] = r)
  <2>1. Put(t, k, r) = Cached(flagged, k, r)
    BY <1>5 DEF Put
  <2>2. Fits(flagged, N) /\ <<k, r>> \in EntriesOf(flagged.entries)
    <3>1. CASE i > 0
      <4>1. i \in DOMAIN t.entries /\ t.entries[i][1] = k
        BY <1>2, <3>1
      <4>2. /\ Fits(kept, M) /\ kept.entries = t.entries
            /\ \A e \in EntriesOf(kept.cache) : e[1] = k => e = <<k, r>>
        <5>1. CASE t.entries[i][2] = r
          <6>1. t.entries[i] = <<k, r>>
            BY <1>1, <4>1, <5>1 DEF Entries
          <6>2. \A e \in EntriesOf(t.entries) : e[1] = k => e = <<k, r>>
            <7>1. <<k, r>>[1] = k
              OBVIOUS
            <7>2. <<k, r>> \in EntriesOf(t.entries)
              BY <4>1, <6>1 DEF EntriesOf
            <7> QED BY <1>1, <7>1, <7>2, SameEntry
          <6> QED BY <1>1, <5>1, <6>2
        <5>2. CASE t.entries[i][2] # r
          BY <5>2, UncachedFits
        <5> QED BY <5>1, <5>2
      <4>3. flagged = Replaced(kept, i, k, r)
        <5>1. kept \in Tables
          BY <4>2 DEF Fits
        <5> HIDE DEF kept, i
        <5> QED BY <3>1, <5>1 DEF Tables, Replaced
      <4> HIDE DEF kept, i, flagged, N
      <4>4. Fits(flagged, {e \in M : e[1] # k} \cup {<<k, r>>}) /\ <<k, r>> \in EntriesOf(flagged.entries)
        <5>1. i \in DOMAIN kept.entries /\ kept.entries[i][1] = k
          BY <4>1, <4>2
        <5> QED BY <4>2, <4>3, <5>1, ReplacedFits
      <4> QED BY <4>4 DEF N, Moved
    <3>2. CASE ~(i > 0)
      <4>1. \A e \in EntriesOf(t.entries) : e[1] # k
        BY <1>2, <3>2 DEF EntriesOf
      <4>2. entered = Entered(t, k, r)
        BY <3>2
      <4> HIDE DEF entered
      <4>3. Fits(entered, N) /\ EntriesOf(entered.entries) = EntriesOf(t.entries) \cup {<<k, r>>}
            /\ entered.found = t.found \cup {r}
        BY <4>1, <4>2, EnteredFits DEF N
      <4>4. flagged = entered
        <5>1. entered \in Tables
          BY <4>3 DEF Fits
        <5>2. entered.found \cup {r} = entered.found
          BY <4>3
        <5> QED BY <5>1, <5>2 DEF Tables
      <4> QED BY <4>3, <4>4
    <3> QED BY <3>1, <3>2
  <2> HIDE DEF flagged, N
  <2>3. Fits(Cached(flagged, k, r), N) /\ \E d : Cached(flagged, k, r) = [flagged EXCEPT !.cache = d]
    BY <2>2, CachedFits
  <2>4. Cached(flagged, k, r).entries = flagged.entries
    <3>1. PICK d : Cached(flagged, k, r) = [flagged EXCEPT !.cache = d]
      BY <2>3
    <3>2. flagged \in Tables
      BY <2>2 DEF Fits
    <3> QED BY <3>1, <3>2 DEF Tables
  <2> QED BY <2>1, <2>2, <2>3, <2>4 DEF N
<1> QED BY <1>4, <1>5

-----------------------------------------------------------------------------
(* Rows read from the file *)

\* The tables that scanning the rows lo..n gives, one after each row
Scans(g, t, fs, is_empty, lo, n) ==
  g = [r \in lo - 1 .. n |-> IF r < lo THEN t ELSE Scanned(g[r - 1], fs, is_empty, r)]

\* There are such tables.
LEMMA ScansExist ==
  ASSUME NEW t, NEW fs, NEW is_empty, NEW lo \in Nat \ {0}, NEW hi \in Nat, lo <= hi + 1
  PROVE  \E g : Scans(g, t, fs, is_empty, lo, hi)
<1> DEFINE T == {n \in Nat : lo - 1 <= n /\ n <= hi /\ ~ \E g : Scans(g, t, fs, is_empty, lo, n)}
<1>1. SUFFICES ASSUME T # {} PROVE FALSE
  <2>1. hi \notin T => \E g : Scans(g, t, fs, is_empty, lo, hi)
    OBVIOUS
  <2> QED BY <1>1, <2>1
<1>2. PICK n \in T : \A j \in T : n <= j
  <2>1. T \subseteq Nat
    OBVIOUS
  <2> HIDE DEF T
  <2> QED BY <1>1, <2>1, SmallestIs
<1>3. n \in Nat /\ lo - 1 <= n /\ n <= hi /\ ~ \E g : Scans(g, t, fs, is_empty, lo, n)
  OBVIOUS
<1>4. CASE n < lo
  <2> DEFINE g == [r \in lo - 1 .. n |-> t]
  <2>1. \A r \in lo - 1 .. n : r < lo
    BY <1>3, <1>4
  <2>2. g = [r \in lo - 1 .. n |-> IF r < lo THEN t ELSE Scanned(g[r - 1], fs, is_empty, r)]
    BY <2>1
  <2>3. Scans(g, t, fs, is_empty, lo, n)
    BY <2>2 DEF Scans
  <2> QED BY <1>3, <2>3
<1>5. CASE n >= lo
  <2>1. n - 1 \in Nat /\ lo - 1 <= n - 1 /\ n - 1 <= hi /\ ~(n <= n - 1)
    BY <1>3, <1>5
  <2>2. n - 1 \notin T
    BY <1>2, <2>1
  <2>3. PICK g : Scans(g, t, fs, is_empty, lo, n - 1)
    BY <2>1, <2>2
  <2> DEFINE h == [r \in lo - 1 .. n |-> IF r = n THEN Scanned(g[n - 1], fs, is_empty, n) ELSE g[r]]
             body == [r \in lo - 1 .. n |-> IF r < lo THEN t ELSE Scanned(h[r - 1], fs, is_empty, r)]
  <2>4. ASSUME NEW r \in lo - 1 .. n PROVE h[r] = body[r]
    <3>1. CASE r = n
      <4>1. n - 1 \in lo - 1 .. n /\ n - 1 # n /\ ~(n < lo)
        BY <1>3, <1>5
      <4>2. h[n - 1] = g[n - 1]
        BY <4>1
      <4>3. h[n] = Scanned(g[n - 1], fs, is_empty, n)
        BY <3>1
      <4>4. body[n] = Scanned(h[n - 1], fs, is_empty, n)
        BY <3>1, <4>1
      <4> QED BY <3>1, <4>2, <4>3, <4>4
    <3>2. CASE r # n
      <4>1. r \in lo - 1 .. n - 1
        BY <1>3, <3>2
      <4>2. h[r] = g[r]
        BY <3>2
      <4>3. g[r] = IF r < lo THEN t ELSE Scanned(g[r - 1], fs, is_empty, r)
        BY <2>3, <4>1 DEF Scans
      <4>4. CASE r < lo
        BY <4>2, <4>3, <4>4
      <4>5. CASE ~(r < lo)
        <5>1. r - 1 \in lo - 1 .. n /\ r - 1 # n
          BY <1>3, <4>1, <4>5
        <5>2. h[r - 1] = g[r - 1]
          BY <5>1
        <5> QED BY <4>2, <4>3, <4>5, <5>2
      <4> QED BY <4>4, <4>5
    <3> QED BY <3>1, <3>2
  <2>5. h = body
    <3> HIDE DEF h, body
    <3>1. h = [r \in lo - 1 .. n |-> h[r]]
      BY DEF h
    <3>2. body = [r \in lo - 1 .. n |-> body[r]]
      BY DEF body
    <3> QED BY <2>4, <3>1, <3>2
  <2>6. Scans(h, t, fs, is_empty, lo, n)
    BY <2>5 DEF Scans
  <2> QED BY <1>3, <2>6
<1> QED BY <1>3, <1>4, <1>5

\* Indexed is the last of such tables.
LEMMA IndexedIs ==
  ASSUME NEW t, NEW fs, NEW is_empty, NEW lo \in Nat \ {0}, NEW hi \in Nat, lo <= hi + 1
  PROVE  \E g : Scans(g, t, fs, is_empty, lo, hi) /\ Indexed(t, fs, is_empty, lo, hi) = g[hi]
<1> DEFINE f == CHOOSE g : Scans(g, t, fs, is_empty, lo, hi)
<1>1. Scans(f, t, fs, is_empty, lo, hi)
  BY ScansExist
<1>2. Indexed(t, fs, is_empty, lo, hi) = f[hi]
  BY DEF Indexed, Scans
<1> QED BY <1>1, <1>2

\* The pairs of a file: each row has one key, each key one row.
LEMMA PairsOne ==
  ASSUME NEW fs, File(fs), NEW e \in Pairs(fs)
  PROVE  /\ e = <<fs[e[2]], e[2]>> /\ e[2] \in DOMAIN fs /\ e[2] \in Nat \ {0}
         /\ e[1] = fs[e[2]] /\ e[1] \in Keys
         /\ \A d \in Pairs(fs) : e[1] = d[1] \/ e[2] = d[2] => e = d
<1>1. PICK r \in DOMAIN fs : e = <<fs[r], r>>
  BY DEF Pairs
<1>2. e[1] = fs[r] /\ e[2] = r /\ fs[r] \in Keys /\ r \in Nat \ {0}
  BY <1>1 DEF File
<1>3. ASSUME NEW d \in Pairs(fs), e[1] = d[1] \/ e[2] = d[2] PROVE e = d
  <2>1. PICK q \in DOMAIN fs : d = <<fs[q], q>>
    BY DEF Pairs
  <2>2. d[1] = fs[q] /\ d[2] = q
    BY <2>1
  <2>3. fs[r] = fs[q] => r = q
    BY DEF File, IsInjective
  <2> QED BY <1>1, <1>2, <1>3, <2>1, <2>2, <2>3
<1> QED BY <1>1, <1>2, <1>3

\* A row whose flag is not set is entered.
LEMMA ScannedFits ==
  ASSUME TableAssumption, NEW fs, File(fs), NEW t, Fits(t, Pairs(fs)), NEW r \in DOMAIN fs,
         NEW is_empty, is_empty => r \notin t.found
  PROVE  /\ Fits(Scanned(t, fs, is_empty, r), Pairs(fs))
         /\ Scanned(t, fs, is_empty, r).found = t.found \cup {r}
         /\ EntriesOf(Scanned(t, fs, is_empty, r).entries) = EntriesOf(t.entries) \cup {<<fs[r], r>>}
<1> DEFINE k == fs[r]
           e == <<k, r>>
           M == Pairs(fs)
<1>1. e \in M /\ e[1] = k /\ e[2] = r
  BY DEF Pairs
<1>2. k \in Keys /\ r \in Nat \ {0}
  BY DEF File
<1>3. r \in t.found <=> e \in EntriesOf(t.entries)
  BY <1>1 DEF Fits
<1>4. CASE r \in t.found
  <2>1. Scanned(t, fs, is_empty, r) = t
    BY <1>4 DEF Scanned
  <2> QED BY <1>3, <1>4, <2>1
<1>5. CASE r \notin t.found
  <2>1. Scanned(t, fs, is_empty, r) = Entered(t, k, r)
    BY <1>5 DEF Scanned
  <2>2. \A d \in M : d[1] = k \/ d[2] = r => d = e
    BY <1>1, PairsOne
  <2>3. \A d \in EntriesOf(t.entries) : d[1] # k
    <3> SUFFICES ASSUME NEW d \in EntriesOf(t.entries), d[1] = k PROVE FALSE
      OBVIOUS
    <3>1. d \in M
      BY DEF Fits
    <3> QED BY <1>3, <1>5, <2>2, <3>1
  <2>4. {d \in M : d[1] # k} \cup {e} = M
    BY <1>1, <2>2
  <2>5. \A d \in M : d[1] # k => d[2] # r
    BY <1>1, <2>2
  <2>6. Fits(t, M)
    OBVIOUS
  <2> HIDE DEF k, M, e
  <2>7. Fits(Entered(t, k, r), Moved(M, k, r))
        /\ EntriesOf(Entered(t, k, r).entries) = EntriesOf(t.entries) \cup {<<k, r>>}
        /\ Entered(t, k, r).found = t.found \cup {r}
    BY <1>2, <2>3, <2>5, <2>6, EnteredFits
  <2> QED BY <2>1, <2>4, <2>7 DEF k, M, e, Moved
<1> QED BY <1>4, <1>5

\* _item_iter enters the rows that it reads and no other.
LEMMA IndexedFits ==
  ASSUME TableAssumption, NEW fs, File(fs), NEW t, Fits(t, Pairs(fs)), NEW is_empty,
         NEW lo \in Nat \ {0}, NEW hi \in Nat, lo <= hi + 1, hi <= Len(fs),
         is_empty => \A e \in EntriesOf(t.entries) : e[2] < lo
  PROVE  /\ Fits(Indexed(t, fs, is_empty, lo, hi), Pairs(fs))
         /\ Indexed(t, fs, is_empty, lo, hi).found = t.found \cup lo .. hi
         /\ EntriesOf(Indexed(t, fs, is_empty, lo, hi).entries)
              = EntriesOf(t.entries) \cup PairsIn(fs, lo, hi)
<1>1. PICK g : Scans(g, t, fs, is_empty, lo, hi) /\ Indexed(t, fs, is_empty, lo, hi) = g[hi]
  BY IndexedIs
<1> DEFINE Right(n) ==
             /\ Fits(g[n], Pairs(fs))
             /\ g[n].found = t.found \cup lo .. n
             /\ EntriesOf(g[n].entries) = EntriesOf(t.entries) \cup PairsIn(fs, lo, n)
           T == {n \in Nat : lo - 1 <= n /\ n <= hi /\ ~Right(n)}
<1>2. SUFFICES ASSUME T # {} PROVE FALSE
  <2>1. Right(hi)
    BY <1>2
  <2> QED BY <1>1, <2>1
<1>3. PICK n \in T : \A j \in T : n <= j
  <2>1. T \subseteq Nat
    OBVIOUS
  <2> HIDE DEF T
  <2> QED BY <1>2, <2>1, SmallestIs
<1>4. n \in Nat /\ lo - 1 <= n /\ n <= hi /\ ~Right(n)
  OBVIOUS
<1>5. \A m \in lo - 1 .. hi : g[m] = IF m < lo THEN t ELSE Scanned(g[m - 1], fs, is_empty, m)
  BY <1>1 DEF Scans
<1>6. CASE n < lo
  <2>1. n = lo - 1 /\ lo .. n = {}
    BY <1>4, <1>6
  <2>2. g[n] = t
    BY <1>4, <1>5, <1>6
  <2>3. PairsIn(fs, lo, n) = {}
    BY <2>1 DEF PairsIn
  <2>4. Right(n)
    BY <2>1, <2>2, <2>3
  <2> QED BY <1>4, <2>4
<1>7. CASE n >= lo
  <2>1. n - 1 \in Nat /\ lo - 1 <= n - 1 /\ n - 1 <= hi /\ ~(n <= n - 1) /\ n \in DOMAIN fs
    BY <1>4, <1>7 DEF File
  <2>2. n - 1 \notin T
    BY <1>3, <2>1
  <2>3. Right(n - 1)
    BY <2>1, <2>2
  <2> DEFINE v == g[n - 1]
  <2>4. g[n] = Scanned(v, fs, is_empty, n)
    BY <1>4, <1>5, <1>7
  <2>5. is_empty => n \notin v.found
    <3> SUFFICES ASSUME is_empty, n \in v.found PROVE FALSE
      OBVIOUS
    <3>1. n \in t.found
      BY <1>4, <2>3
    <3>2. <<fs[n], n>> \in Pairs(fs)
      BY <2>1 DEF Pairs
    <3>3. <<fs[n], n>> \in EntriesOf(t.entries)
      <4>1. <<fs[n], n>>[2] \in t.found <=> <<fs[n], n>> \in EntriesOf(t.entries)
        BY <3>2 DEF Fits
      <4> QED BY <3>1, <4>1
    <3>4. <<fs[n], n>>[2] < lo
      BY <3>3
    <3> QED BY <1>4, <1>7, <3>4
  <2> HIDE DEF v, T, Right
  <2>6. Fits(v, Pairs(fs))
    BY <2>3 DEF Right, v
  <2>7. /\ Fits(g[n], Pairs(fs)) /\ g[n].found = v.found \cup {n}
        /\ EntriesOf(g[n].entries) = EntriesOf(v.entries) \cup {<<fs[n], n>>}
    BY <2>1, <2>4, <2>5, <2>6, ScannedFits
  <2>8. lo .. n = (lo .. n - 1) \cup {n}
    BY <1>4, <1>7
  <2>9. PairsIn(fs, lo, n) = PairsIn(fs, lo, n - 1) \cup {<<fs[n], n>>}
    BY <2>8 DEF PairsIn
  <2>10. v.found = t.found \cup lo .. n - 1
         /\ EntriesOf(v.entries) = EntriesOf(t.entries) \cup PairsIn(fs, lo, n - 1)
    BY <2>3 DEF Right, v
  <2>11. g[n].found = t.found \cup lo .. n
    BY <2>7, <2>8, <2>10
  <2>12. EntriesOf(g[n].entries) = EntriesOf(t.entries) \cup PairsIn(fs, lo, n)
    BY <2>7, <2>9, <2>10
  <2>13. Right(n)
    BY <2>7, <2>11, <2>12 DEF Right
  <2> QED BY <1>4, <2>13
<1> QED BY <1>4, <1>6, <1>7

-----------------------------------------------------------------------------
(* Searches *)

\* The row of a key in the file
LEMMA RowOfIs ==
  ASSUME NEW fs, File(fs), NEW k
  PROVE  /\ RowOf(fs, k) = 0 => \A e \in Pairs(fs) : e[1] # k
         /\ RowOf(fs, k) # 0 => RowOf(fs, k) \in DOMAIN fs /\ fs[RowOf(fs, k)] = k
                                /\ <<k, RowOf(fs, k)>> \in Pairs(fs)
         /\ \A e \in Pairs(fs) : e[1] = k => e[2] = RowOf(fs, k)
         /\ RowOf(fs, k) \in 0 .. Len(fs)
<1>1. DOMAIN fs = 1 .. Len(fs) /\ Len(fs) \in Nat
  BY DEF File
<1>2. CASE \E r \in DOMAIN fs : fs[r] = k
  <2>1. RowOf(fs, k) \in DOMAIN fs /\ fs[RowOf(fs, k)] = k
    BY <1>2 DEF RowOf
  <2>2. <<k, RowOf(fs, k)>> \in Pairs(fs)
    BY <2>1 DEF Pairs
  <2>3. ASSUME NEW e \in Pairs(fs), e[1] = k PROVE e[2] = RowOf(fs, k)
    <3>1. <<k, RowOf(fs, k)>>[1] = k /\ <<k, RowOf(fs, k)>>[2] = RowOf(fs, k)
      OBVIOUS
    <3> QED BY <2>2, <2>3, <3>1, PairsOne
  <2> QED BY <1>1, <2>1, <2>2, <2>3
<1>3. CASE ~ \E r \in DOMAIN fs : fs[r] = k
  <2>1. RowOf(fs, k) = 0
    BY <1>3 DEF RowOf
  <2>2. \A e \in Pairs(fs) : e[1] # k
    BY <1>3, PairsOne
  <2> QED BY <1>1, <2>1, <2>2
<1> QED BY <1>2, <1>3

\* As many entries as the file has records are all of them.
LEMMA CompleteIs ==
  ASSUME NEW fs, File(fs), NEW t, Fits(t, Pairs(fs)), InSync(t, Len(fs))
  PROVE  EntriesOf(t.entries) = Pairs(fs)
<1> DEFINE n == Len(fs)
           s == t.entries
           f == [i \in 1 .. n |-> s[i][2]]
<1>1. s \in Seq(Entries) /\ n \in Nat /\ Len(s) = n /\ DOMAIN s = 1 .. n /\ DOMAIN fs = 1 .. n
  <2>1. s \in Seq(Entries) /\ t.size = Len(s)
    BY DEF Fits, Tables
  <2>2. n \in Nat /\ DOMAIN fs = 1 .. n
    BY DEF File
  <2> QED BY <2>1, <2>2 DEF InSync
<1>2. \A i \in 1 .. n : s[i] \in Pairs(fs)
  BY <1>1 DEF Fits, EntriesOf
<1>3. ASSUME NEW i \in 1 .. n PROVE s[i][2] \in 1 .. n /\ s[i] = <<fs[s[i][2]], s[i][2]>>
  <2>1. s[i] \in Pairs(fs)
    BY <1>2
  <2> QED BY <1>1, <2>1, PairsOne
<1>4. f \in Injection(1 .. n, 1 .. n)
  <2>1. f \in [1 .. n -> 1 .. n]
    BY <1>3
  <2>2. ASSUME NEW i \in 1 .. n, NEW j \in 1 .. n, f[i] = f[j] PROVE i = j
    <3>1. s[i] = s[j]
      BY <1>3, <2>2
    <3> QED BY <1>1, <3>1 DEF Fits, OneEach
  <2> HIDE DEF f
  <2> QED BY <2>1, <2>2 DEF Injection, IsInjective
<1>5. f \in Surjection(1 .. n, 1 .. n)
  <2>1. IsFiniteSet(1 .. n)
    BY <1>1, FS_Interval
  <2> HIDE DEF f, n
  <2> QED BY <1>4, <2>1, FS_Injection
<1>6. ASSUME NEW e \in Pairs(fs) PROVE e \in EntriesOf(s)
  <2>1. e[2] \in 1 .. n /\ e = <<fs[e[2]], e[2]>>
    BY <1>1, PairsOne
  <2>2. PICK i \in 1 .. n : f[i] = e[2]
    BY <1>5, <2>1 DEF Surjection
  <2>3. s[i] = e
    BY <1>3, <2>1, <2>2
  <2> QED BY <1>1, <2>3 DEF EntriesOf
<1> QED BY <1>6 DEF Fits

\* get_both answers as the file does; a key that it finds has an entry then, and
\* if the key had one before, no row is read.
LEMMA GetFits ==
  ASSUME TableAssumption, NEW fs, File(fs), NEW t, Fits(t, Pairs(fs)), NEW k
  PROVE  LET g == Get(t, fs, k) IN
         /\ g.row = RowOf(fs, k)
         /\ Fits(g.table, Pairs(fs))
         /\ RowOf(fs, k) # 0 => <<k, RowOf(fs, k)>> \in EntriesOf(g.table.entries)
         /\ <<k, RowOf(fs, k)>> \in EntriesOf(t.entries)
              => g.table.entries = t.entries /\ g.table.found = t.found
<1> DEFINE n == Len(fs)
           c == FindKey(t.cache, k)
           i == FindKey(t.entries, k)
           r == RowOf(fs, k)
           g == Get(t, fs, k)
           Right(row, u) ==
             /\ row = r
             /\ Fits(u, Pairs(fs))
             /\ r # 0 => <<k, r>> \in EntriesOf(u.entries)
             /\ <<k, r>> \in EntriesOf(t.entries) => u.entries = t.entries /\ u.found = t.found
<1>1. /\ t \in Tables /\ t.entries \in Seq(Entries) /\ t.cache \in Seq(Entries)
      /\ EntriesOf(t.entries) \subseteq Pairs(fs) /\ EntriesOf(t.cache) \subseteq EntriesOf(t.entries)
  BY DEF Fits, Tables
<1>2. /\ c \in 0 .. Len(t.cache)
      /\ c > 0 => c \in DOMAIN t.cache /\ t.cache[c][1] = k
      /\ i \in 0 .. Len(t.entries)
      /\ i > 0 => i \in DOMAIN t.entries /\ t.entries[i][1] = k
      /\ i = 0 => \A j \in DOMAIN t.entries : t.entries[j][1] # k
  BY <1>1, FindKeyIs
<1>3. /\ r = 0 => \A e \in Pairs(fs) : e[1] # k
      /\ r # 0 => r \in DOMAIN fs /\ fs[r] = k /\ <<k, r>> \in Pairs(fs)
      /\ \A e \in Pairs(fs) : e[1] = k => e[2] = r
      /\ r \in 0 .. n /\ n \in Nat
  BY RowOfIs DEF File
<1>4. ASSUME NEW e \in EntriesOf(t.entries), e[1] = k PROVE e[2] = r /\ e = <<k, r>> /\ r # 0
  <2>1. e \in Pairs(fs) /\ e[2] = r
    BY <1>1, <1>3, <1>4
  <2>2. e = <<fs[r], r>> /\ e[1] = fs[r] /\ r \in Nat \ {0}
    BY <2>1, PairsOne
  <2> QED BY <1>4, <2>1, <2>2
<1>5. InSync(t, n) => EntriesOf(t.entries) = Pairs(fs)
  BY CompleteIs
<1> HIDE DEF g
<1>6. ASSUME NEW row, NEW u, g = Got(row, u), Right(row, u) PROVE Right(g.row, g.table)
  <2>1. g.row = row /\ g.table = u
    BY <1>6 DEF Got
  <2> HIDE DEF Right
  <2> QED BY <1>6, <2>1
<1> SUFFICES Right(g.row, g.table)
  BY DEF g
<1>7. CASE InSync(t, n) /\ Bit[k] \notin t.flags
  <2>1. g = Got(0, t)
    BY <1>7 DEF Get, g
  <2>2. r = 0
    <3> SUFFICES ASSUME r # 0 PROVE FALSE
      OBVIOUS
    <3>1. <<k, r>> \in EntriesOf(t.entries) /\ <<k, r>>[1] = k
      BY <1>3, <1>5, <1>7
    <3>2. Bit[<<k, r>>[1]] \in t.flags
      BY <3>1 DEF Fits
    <3> QED BY <1>7, <3>1, <3>2
  <2>3. Right(0, t)
    BY <2>2
  <2> HIDE DEF Right
  <2> QED BY <1>6, <2>1, <2>3
<1>8. CASE ~(InSync(t, n) /\ Bit[k] \notin t.flags) /\ c > 0
  <2>1. g = Got(t.cache[c][2], t)
    BY <1>8 DEF Get, g
  <2>2. t.cache[c] \in EntriesOf(t.entries) /\ t.cache[c][1] = k
    BY <1>1, <1>2, <1>8 DEF EntriesOf
  <2>3. t.cache[c][2] = r /\ <<k, r>> \in EntriesOf(t.entries)
    BY <1>4, <2>2
  <2>4. Right(t.cache[c][2], t)
    <3> HIDE DEF r, c
    <3> QED BY <2>3
  <2> HIDE DEF Right
  <2> QED BY <1>6, <2>1, <2>4
<1>9. CASE ~(InSync(t, n) /\ Bit[k] \notin t.flags) /\ ~(c > 0) /\ i > 0
  <2>1. g = Got(t.entries[i][2], Cached(t, k, t.entries[i][2]))
    BY <1>9 DEF Get, g
  <2>2. t.entries[i] \in EntriesOf(t.entries) /\ t.entries[i][1] = k
    BY <1>2, <1>9 DEF EntriesOf
  <2>3. t.entries[i][2] = r /\ <<k, r>> \in EntriesOf(t.entries)
    BY <1>4, <2>2
  <2> HIDE DEF r, i
  <2>4. Fits(Cached(t, k, r), Pairs(fs))
    BY <2>3, CachedFits
  <2>5. PICK d : Cached(t, k, r) = [t EXCEPT !.cache = d]
    BY <2>3, CachedFits
  <2>6. Cached(t, k, r).entries = t.entries /\ Cached(t, k, r).found = t.found
    BY <1>1, <2>5 DEF Tables
  <2>7. Right(t.entries[i][2], Cached(t, k, t.entries[i][2]))
    BY <2>3, <2>4, <2>6
  <2> HIDE DEF Right
  <2> QED BY <1>6, <2>1, <2>7
<1>10. CASE ~(InSync(t, n) /\ Bit[k] \notin t.flags) /\ ~(c > 0) /\ ~(i > 0)
  <2>1. \A e \in EntriesOf(t.entries) : e[1] # k
    BY <1>2, <1>10 DEF EntriesOf
  <2>2. CASE InSync(t, n)
    <3>1. g = Got(0, t)
      BY <1>10, <2>2 DEF Get, g
    <3>2. r = 0
      <4>1. <<k, r>>[1] = k
        OBVIOUS
      <4> QED BY <1>3, <1>5, <2>1, <2>2, <4>1
    <3>3. Right(0, t)
      BY <3>2
    <3> HIDE DEF Right
    <3> QED BY <1>6, <3>1, <3>3
  <2>3. <<k, r>> \notin EntriesOf(t.entries)
    <3>1. <<k, r>>[1] = k
      OBVIOUS
    <3> QED BY <2>1, <3>1
  <2>4. \A lo : t.size = 0 => \A e \in EntriesOf(t.entries) : e[2] < lo
    <3>1. t.size = Len(t.entries)
      BY DEF Fits
    <3>2. t.size = 0 => DOMAIN t.entries = {}
      <4> DEFINE z == t.entries
      <4>1. z \in Seq(Entries)
        BY <1>1
      <4> HIDE DEF z
      <4>2. Len(z) = 0 => DOMAIN z = {}
        BY <4>1
      <4> QED BY <3>1, <4>2 DEF z
    <3> QED BY <3>2 DEF EntriesOf
  <2>5. CASE ~InSync(t, n) /\ r = 0
    <3>1. g = Got(0, Indexed(t, fs, t.size = 0, 1, n))
      BY <1>10, <2>5 DEF Get, g
    <3>2. Fits(Indexed(t, fs, t.size = 0, 1, n), Pairs(fs))
      <4> DEFINE b == t.size = 0
      <4>1. 1 <= n + 1 /\ n <= Len(fs) /\ n \in Nat /\ 1 \in Nat \ {0}
            /\ (b => \A e \in EntriesOf(t.entries) : e[2] < 1)
        BY <1>3, <2>4
      <4> HIDE DEF n, b
      <4>2. Fits(Indexed(t, fs, b, 1, n), Pairs(fs))
        BY <4>1, IndexedFits
      <4> QED BY <4>2 DEF b
    <3>3. Right(0, Indexed(t, fs, t.size = 0, 1, n))
      <4> HIDE DEF r, n
      <4> QED BY <2>3, <2>5, <3>2
    <3> HIDE DEF Right
    <3> QED BY <1>6, <3>1, <3>3
  <2>6. CASE ~InSync(t, n) /\ r # 0
    <3> DEFINE u == Indexed(t, fs, t.size = 0, 1, r)
    <3>1. g = Got(r, Cached(u, k, r))
      BY <1>10, <2>6 DEF Get, g
    <3>2. Fits(u, Pairs(fs)) /\ EntriesOf(u.entries) = EntriesOf(t.entries) \cup PairsIn(fs, 1, r)
      <4> DEFINE b == t.size = 0
      <4>1. 1 <= r + 1 /\ r <= Len(fs) /\ r \in Nat /\ 1 \in Nat \ {0}
            /\ (b => \A e \in EntriesOf(t.entries) : e[2] < 1)
        BY <1>3, <2>4
      <4> HIDE DEF r, b
      <4>2. Fits(Indexed(t, fs, b, 1, r), Pairs(fs))
        BY <4>1, IndexedFits
      <4>3. EntriesOf(Indexed(t, fs, b, 1, r).entries) = EntriesOf(t.entries) \cup PairsIn(fs, 1, r)
        BY <4>1, IndexedFits
      <4> QED BY <4>2, <4>3 DEF b
    <3>3. <<k, r>> \in EntriesOf(u.entries)
      <4>1. r \in 1 .. r /\ fs[r] = k
        BY <1>3, <2>6
      <4>2. <<k, r>> \in PairsIn(fs, 1, r)
        BY <4>1 DEF PairsIn
      <4> QED BY <3>2, <4>2
    <3> HIDE DEF u, r
    <3>4. Fits(Cached(u, k, r), Pairs(fs))
      BY <3>2, <3>3, CachedFits
    <3>5. PICK d : Cached(u, k, r) = [u EXCEPT !.cache = d]
      BY <3>2, <3>3, CachedFits
    <3>6. Cached(u, k, r).entries = u.entries
      <4>1. u \in Tables
        BY <3>2 DEF Fits
      <4> QED BY <3>5, <4>1 DEF Tables
    <3>7. Right(r, Cached(u, k, r))
      BY <2>3, <3>3, <3>4, <3>6
    <3> HIDE DEF Right
    <3> QED BY <1>6, <3>1, <3>7
  <2> QED BY <2>2, <2>5, <2>6
<1> QED BY <1>2, <1>7, <1>8, <1>9, <1>10

-----------------------------------------------------------------------------
(* Removal of a key *)

\* No two of the pairs share a key or a row.
OnePair(M) == \A d, e \in M : d[1] = e[1] \/ d[2] = e[2] => d = e

OtherPairs(M, k) == {e \in M : e[1] # k}

\* The table without entry i
LEMMA DroppedFits ==
  ASSUME NEW t, NEW M, Fits(t, M), OnePair(M), NEW i \in DOMAIN t.entries, NEW k, t.entries[i][1] = k,
         \A e \in EntriesOf(t.cache) : e[1] # k
  PROVE  /\ Fits(Dropped(t, i), OtherPairs(M, k))
         /\ EntriesOf(Dropped(t, i).entries) = OtherPairs(EntriesOf(t.entries), k)
         /\ Dropped(t, i).found = t.found \ {t.entries[i][2]}
<1> DEFINE u == Dropped(t, i)
           new == RemoveAt(t.entries, i)
           q == t.entries[i][2]
           N == OtherPairs(M, k)
<1>1. t \in Tables /\ t.entries \in Seq(Entries) /\ OneEach(t.entries)
  BY DEF Fits, Tables
<1>2. t.entries[i] \in EntriesOf(t.entries) /\ t.entries[i] \in M
  BY DEF Fits, EntriesOf
<1>3. new \in Seq(Entries) /\ Len(new) = Len(t.entries) - 1
  BY <1>1, RemoveAtIs
<1>4. OneEach(new) /\ EntriesOf(new) = OtherPairs(EntriesOf(t.entries), k)
  <2>1. OneEach(new) /\ EntriesOf(new) = {e \in EntriesOf(t.entries) : e[1] # t.entries[i][1]}
    BY <1>1, RemovedIs
  <2> QED BY <2>1 DEF OtherPairs
<1> HIDE DEF new, q
<1>5. u = [t EXCEPT !.entries = new, !.size = t.size - 1, !.found = t.found \ {q}]
  BY <1>1 DEF Dropped, Tables, new, q
<1>6. t.size - 1 \in Nat /\ t.size - 1 = Len(new)
  <2>1. t.size = Len(t.entries) /\ Len(t.entries) \in Nat /\ Len(new) \in Nat
    BY <1>1, <1>3 DEF Fits
  <2> QED BY <1>3, <2>1
<1>7. u \in Tables
  <2>1. t.found \ {q} \in SUBSET Nat
    BY <1>1 DEF Tables
  <2> HIDE DEF u
  <2> QED BY <1>1, <1>3, <1>5, <1>6, <2>1 DEF Tables
<1>8. u.entries = new /\ u.size = t.size - 1 /\ u.found = t.found \ {q}
      /\ u.flags = t.flags /\ u.cache = t.cache /\ u.limit = t.limit
  BY <1>1, <1>5 DEF Tables
<1> HIDE DEF u
<1>9. EntriesOf(new) \subseteq N /\ EntriesOf(u.cache) \subseteq EntriesOf(new)
  BY <1>4, <1>8 DEF Fits, OtherPairs
<1>10. \A e \in EntriesOf(new) : Bit[e[1]] \in u.flags
  BY <1>4, <1>8 DEF Fits, OtherPairs
<1>11. ASSUME NEW e \in N PROVE e[2] \in u.found <=> e \in EntriesOf(new)
  <2>1. e \in M /\ e[1] # k
    BY DEF OtherPairs
  <2>2. e[2] # q
    <3>1. e # t.entries[i]
      BY <2>1
    <3> QED BY <1>2, <2>1, <3>1 DEF OnePair, q
  <2>3. e[2] \in t.found <=> e \in EntriesOf(t.entries)
    BY <2>1 DEF Fits
  <2> QED BY <1>4, <1>8, <2>1, <2>2, <2>3 DEF OtherPairs
<1>12. Len(u.cache) <= u.limit /\ OneEach(u.cache)
  BY <1>8 DEF Fits
<1>13. Fits(u, N)
  BY <1>3, <1>4, <1>6, <1>7, <1>8, <1>9, <1>10, <1>11, <1>12 DEF Fits
<1> QED BY <1>4, <1>8, <1>13 DEF u, q

\* What pop leaves when it need not search the file
Rest(t, k) ==
  LET u == Uncached(t, k)
      i == FindKey(u.entries, k)
  IN IF i > 0 THEN Dropped(u, i) ELSE u

\* It has neither entry nor flag for the key.
LEMMA RestFits ==
  ASSUME NEW t, NEW M, Fits(t, M), OnePair(M), NEW k
  PROVE  /\ Fits(Rest(t, k), OtherPairs(M, k))
         /\ EntriesOf(Rest(t, k).entries) = OtherPairs(EntriesOf(t.entries), k)
         /\ \A e \in EntriesOf(t.entries) : e[1] = k => e[2] \notin Rest(t, k).found
<1> DEFINE u == Uncached(t, k)
           i == FindKey(u.entries, k)
<1>1. /\ Fits(u, M) /\ u.entries = t.entries /\ u.found = t.found
      /\ EntriesOf(u.cache) = {e \in EntriesOf(t.cache) : e[1] # k}
  BY UncachedFits
<1> HIDE DEF u
<1>2. u.entries \in Seq(Entries) /\ OneEach(u.entries) /\ EntriesOf(u.entries) \subseteq M
  BY <1>1 DEF Fits, Tables
<1>3. /\ i \in 0 .. Len(u.entries)
      /\ i = 0 => \A j \in DOMAIN u.entries : u.entries[j][1] # k
      /\ i > 0 => i \in DOMAIN u.entries /\ u.entries[i][1] = k
  BY <1>2, FindKeyIs
<1>4. Rest(t, k) = IF i > 0 THEN Dropped(u, i) ELSE u
  BY DEF Rest, u
<1> HIDE DEF i
<1>5. CASE i > 0
  <2>1. /\ Fits(Dropped(u, i), OtherPairs(M, k))
        /\ EntriesOf(Dropped(u, i).entries) = OtherPairs(EntriesOf(u.entries), k)
        /\ Dropped(u, i).found = u.found \ {u.entries[i][2]}
    BY <1>1, <1>3, <1>5, DroppedFits
  <2>2. ASSUME NEW e \in EntriesOf(t.entries), e[1] = k PROVE e[2] = u.entries[i][2]
    <3>1. u.entries[i] \in EntriesOf(u.entries) /\ u.entries[i][1] = k
      BY <1>3, <1>5 DEF EntriesOf
    <3> QED BY <1>1, <1>2, <2>2, <3>1, SameEntry
  <2> QED BY <1>1, <1>4, <1>5, <2>1, <2>2
<1>6. CASE ~(i > 0)
  <2>1. \A e \in EntriesOf(u.entries) : e[1] # k
    BY <1>3, <1>6 DEF EntriesOf
  <2>2. EntriesOf(u.entries) = OtherPairs(EntriesOf(u.entries), k)
        /\ EntriesOf(u.entries) \subseteq OtherPairs(M, k)
    BY <1>2, <2>1 DEF OtherPairs
  <2>3. \A e \in OtherPairs(M, k) : e \in M \/ e[2] \notin u.found
    BY DEF OtherPairs
  <2>4. Fits(u, OtherPairs(M, k))
    BY <1>1, <2>2, <2>3, Refits
  <2> QED BY <1>1, <1>4, <1>6, <2>1, <2>2, <2>4
<1> QED BY <1>5, <1>6

\* pop of a key whose entry says where the file has it, or had it until now
LEMMA PopKnown ==
  ASSUME NEW t, NEW M, Fits(t, M), NEW k, NEW r, <<k, r>> \in EntriesOf(t.entries), NEW fs, NEW tail,
         r <= Len(fs) + Len(tail), (fs \o tail)[r] = k
  PROVE  Pop(t, fs, tail, k) = Rest(t, k)
<1> DEFINE u == Uncached(t, k)
           i == FindKey(u.entries, k)
<1>1. Fits(u, M) /\ u.entries = t.entries /\ u.flags = t.flags
  BY UncachedFits
<1>2. Bit[k] \in u.flags
  <2>1. <<k, r>>[1] = k
    OBVIOUS
  <2> HIDE DEF u
  <2> QED BY <1>1, <2>1 DEF Fits
<1>3. i > 0 /\ u.entries[i][2] = r
  <2> HIDE DEF u
  <2>1. u.entries \in Seq(Entries) /\ OneEach(u.entries)
    BY <1>1 DEF Fits, Tables
  <2>2. /\ i \in 0 .. Len(u.entries)
        /\ i = 0 => \A j \in DOMAIN u.entries : u.entries[j][1] # k
        /\ i > 0 => i \in DOMAIN u.entries /\ u.entries[i][1] = k
    BY <2>1, FindKeyIs
  <2> HIDE DEF i
  <2>3. <<k, r>> \in EntriesOf(u.entries) /\ <<k, r>>[1] = k /\ <<k, r>>[2] = r
    BY <1>1
  <2>4. i > 0
    BY <2>2, <2>3 DEF EntriesOf
  <2>5. u.entries[i] \in EntriesOf(u.entries)
    BY <2>2, <2>4, SMTT(30) DEF EntriesOf
  <2> QED BY <2>1, <2>2, <2>3, <2>4, <2>5, SameEntry
<1>4. Pop(t, fs, tail, k) = IF i > 0 THEN Dropped(u, i) ELSE u
  BY <1>2, <1>3 DEF Pop
<1> QED BY <1>4 DEF Rest

\* pop of a key that the file no longer has: the table fits the file whether or
\* not it is searched.
LEMMA PopSearched ==
  ASSUME TableAssumption, NEW t, NEW M, Fits(t, M), OnePair(M), NEW k, NEW fs, File(fs), NEW tail,
         RowOf(fs, k) = 0, OtherPairs(M, k) \subseteq Pairs(fs),
         \A e \in Pairs(fs) : e \in M \/ e[2] \notin Rest(t, k).found
  PROVE  Fits(Pop(t, fs, tail, k), Pairs(fs))
<1> DEFINE n == Len(fs)
           u == Uncached(t, k)
           i == FindKey(u.entries, k)
           rest == Rest(t, k)
           b == rest.size = 0
           searched == Indexed(rest, fs, b, 1, n)
<1>1. /\ Fits(rest, OtherPairs(M, k))
      /\ EntriesOf(rest.entries) = OtherPairs(EntriesOf(t.entries), k)
  BY RestFits
<1>2. Fits(u, M) /\ u.entries = t.entries
  BY UncachedFits
<1> HIDE DEF rest
<1>3. Fits(rest, Pairs(fs))
  <2>1. EntriesOf(rest.entries) \subseteq Pairs(fs)
    BY <1>1 DEF Fits
  <2>2. ASSUME NEW e \in Pairs(fs) PROVE e \in OtherPairs(M, k) \/ e[2] \notin rest.found
    <3>1. e[1] # k
      BY RowOfIs
    <3> QED BY <3>1 DEF OtherPairs, rest
  <2> QED BY <1>1, <2>1, <2>2, Refits
<1>4. Fits(searched, Pairs(fs))
  <2>1. n \in Nat /\ 1 <= n + 1 /\ n <= Len(fs) /\ 1 \in Nat \ {0}
    BY DEF File
  <2>2. b => \A e \in EntriesOf(rest.entries) : e[2] < 1
    <3> DEFINE z == rest.entries
    <3>1. z \in Seq(Entries) /\ rest.size = Len(z)
      BY <1>3 DEF Fits, Tables
    <3> HIDE DEF z
    <3>2. Len(z) = 0 => DOMAIN z = {}
      BY <3>1
    <3> QED BY <3>1, <3>2 DEF EntriesOf, z
  <2> HIDE DEF n, b
  <2> QED BY <1>3, <2>1, <2>2, IndexedFits
<1>5. rest = IF i > 0 THEN Dropped(u, i) ELSE u
  BY DEF rest, Rest
<1>6. CASE InSync(u, n) /\ Bit[k] \notin u.flags
  <2>1. Pop(t, fs, tail, k) = u
    BY <1>6 DEF Pop
  <2>2. ~(i > 0)
    <3> SUFFICES ASSUME i > 0 PROVE FALSE
      OBVIOUS
    <3> HIDE DEF u
    <3>1. u.entries \in Seq(Entries)
      BY <1>2 DEF Fits, Tables
    <3>2. i \in DOMAIN u.entries /\ u.entries[i][1] = k
      BY <3>1, FindKeyIs
    <3>3. u.entries[i] \in EntriesOf(u.entries)
      BY <3>2 DEF EntriesOf
    <3> QED BY <1>2, <1>6, <3>2, <3>3 DEF Fits
  <2>3. rest = u
    BY <1>5, <2>2
  <2> QED BY <1>3, <2>1, <2>3
<1>7. CASE ~(InSync(u, n) /\ Bit[k] \notin u.flags)
  <2>1. Pop(t, fs, tail, k) = rest \/ Pop(t, fs, tail, k) = searched
    BY <1>5, <1>7 DEF Pop
  <2> HIDE DEF searched
  <2> QED BY <1>3, <1>4, <2>1
<1> QED BY <1>6, <1>7

-----------------------------------------------------------------------------
(* Changes to the file *)

\* The pairs of a file do not share a key or a row.
LEMMA PairsOnePair ==
  ASSUME NEW fs, File(fs)
  PROVE  OnePair(Pairs(fs))
BY PairsOne DEF OnePair

\* Another key in a row
LEMMA FileSet ==
  ASSUME NEW fs, File(fs), NEW r \in DOMAIN fs, NEW k \in Keys, \A q \in DOMAIN fs \ {r} : fs[q] # k
  PROVE  /\ File([fs EXCEPT ![r] = k]) /\ Len([fs EXCEPT ![r] = k]) = Len(fs)
         /\ Pairs([fs EXCEPT ![r] = k]) = {e \in Pairs(fs) : e[2] # r} \cup {<<k, r>>}
<1> DEFINE f == [fs EXCEPT ![r] = k]
<1>1. f \in Seq(Keys) /\ Len(f) = Len(fs) /\ DOMAIN f = DOMAIN fs
      /\ \A q \in DOMAIN fs : f[q] = IF q = r THEN k ELSE fs[q]
  BY DEF File
<1> HIDE DEF f
<1>2. File(f)
  BY <1>1 DEF File, IsInjective
<1>3. ASSUME NEW e \in Pairs(f) PROVE e \in {d \in Pairs(fs) : d[2] # r} \cup {<<k, r>>}
  BY <1>1 DEF Pairs
<1>4. <<k, r>> \in Pairs(f)
  BY <1>1 DEF Pairs
<1>5. ASSUME NEW e \in Pairs(fs), e[2] # r PROVE e \in Pairs(f)
  <2>1. PICK q \in DOMAIN fs : e = <<fs[q], q>>
    BY DEF Pairs
  <2>2. q # r
    BY <1>5, <2>1
  <2> QED BY <1>1, <2>1, <2>2 DEF Pairs
<1> QED BY <1>1, <1>2, <1>3, <1>4, <1>5 DEF f

\* One row less
LEMMA FileFront ==
  ASSUME NEW fs, File(fs), Len(fs) > 0
  PROVE  /\ File(Front(fs)) /\ Len(Front(fs)) = Len(fs) - 1
         /\ Pairs(Front(fs)) = {e \in Pairs(fs) : e[2] # Len(fs)}
         /\ \A q \in 1 .. Len(fs) - 1 : Front(fs)[q] = fs[q]
         /\ DOMAIN Front(fs) = 1 .. Len(fs) - 1
<1> DEFINE f == Front(fs)
<1>1. fs \in Seq(Keys) /\ Len(fs) \in Nat /\ DOMAIN fs = 1 .. Len(fs)
  BY DEF File
<1>2. f \in Seq(Keys) /\ Len(f) = Len(fs) - 1 /\ \A q \in 1 .. Len(fs) - 1 : f[q] = fs[q]
  BY <1>1 DEF Front
<1> HIDE DEF f
<1>3. DOMAIN f = 1 .. Len(fs) - 1
  BY <1>2
<1>4. File(f)
  <2> SUFFICES ASSUME NEW p \in DOMAIN f, NEW q \in DOMAIN f, f[p] = f[q] PROVE p = q
    BY <1>2 DEF File, IsInjective
  <2>1. p \in DOMAIN fs /\ q \in DOMAIN fs /\ fs[p] = fs[q]
    BY <1>1, <1>2, <1>3
  <2> QED BY <2>1 DEF File, IsInjective
<1>5. ASSUME NEW e \in Pairs(f) PROVE e \in Pairs(fs) /\ e[2] # Len(fs)
  <2>1. PICK q \in DOMAIN f : e = <<f[q], q>>
    BY DEF Pairs
  <2>2. q \in DOMAIN fs /\ q # Len(fs) /\ f[q] = fs[q]
    BY <1>1, <1>2, <1>3
  <2> QED BY <2>1, <2>2 DEF Pairs
<1>6. ASSUME NEW e \in Pairs(fs), e[2] # Len(fs) PROVE e \in Pairs(f)
  <2>1. PICK q \in DOMAIN fs : e = <<fs[q], q>>
    BY DEF Pairs
  <2>2. q \in DOMAIN f /\ f[q] = fs[q]
    BY <1>1, <1>2, <1>3, <1>6, <2>1
  <2> QED BY <2>1, <2>2 DEF Pairs
<1> QED BY <1>2, <1>3, <1>4, <1>5, <1>6 DEF f

\* One row more
LEMMA FileAppend ==
  ASSUME NEW fs, File(fs), NEW k \in Keys, \A q \in DOMAIN fs : fs[q] # k
  PROVE  /\ File(Append(fs, k)) /\ Len(Append(fs, k)) = Len(fs) + 1
         /\ Pairs(Append(fs, k)) = Pairs(fs) \cup {<<k, Len(fs) + 1>>}
         /\ Append(fs, k)[Len(fs) + 1] = k
         /\ \A q \in DOMAIN fs : Append(fs, k)[q] = fs[q]
<1> DEFINE f == Append(fs, k)
<1>1. fs \in Seq(Keys) /\ Len(fs) \in Nat /\ DOMAIN fs = 1 .. Len(fs)
  BY DEF File
<1>2. /\ f \in Seq(Keys) /\ Len(f) = Len(fs) + 1 /\ f[Len(fs) + 1] = k
      /\ \A q \in DOMAIN fs : f[q] = fs[q]
  BY <1>1
<1> HIDE DEF f
<1>3. \A q \in DOMAIN f : q \in DOMAIN fs \/ q = Len(fs) + 1
  BY <1>1, <1>2
<1>4. DOMAIN fs \subseteq DOMAIN f /\ Len(fs) + 1 \in DOMAIN f /\ Len(fs) + 1 \notin DOMAIN fs
  BY <1>1, <1>2
<1>5. File(f)
  BY <1>2, <1>3, <1>4 DEF File, IsInjective
<1>6. Pairs(f) = Pairs(fs) \cup {<<k, Len(fs) + 1>>}
  <2>1. ASSUME NEW e \in Pairs(f) PROVE e \in Pairs(fs) \cup {<<k, Len(fs) + 1>>}
    BY <1>2, <1>3 DEF Pairs
  <2>2. Pairs(fs) \subseteq Pairs(f)
    BY <1>2, <1>4 DEF Pairs
  <2>3. <<k, Len(fs) + 1>> \in Pairs(f)
    BY <1>2, <1>4 DEF Pairs
  <2> QED BY <2>1, <2>2, <2>3
<1> QED BY <1>2, <1>5, <1>6 DEF f

-----------------------------------------------------------------------------
(* The operations *)

\* A table without entries has none.
LEMMA EmptyIs ==
  ASSUME NEW t, NEW M, Fits(t, M)
  PROVE  t.size = 0 => EntriesOf(t.entries) = {}
<1> DEFINE z == t.entries
<1>1. z \in Seq(Entries) /\ t.size = Len(z)
  BY DEF Fits, Tables
<1> HIDE DEF z
<1>2. Len(z) = 0 => DOMAIN z = {}
  BY <1>1
<1> QED BY <1>1, <1>2 DEF EntriesOf, z

\* The table that no key is in yet
LEMMA NewFits ==
  ASSUME NEW limit \in Nat, NEW M
  PROVE  Fits(NewTable(limit), M) /\ EntriesOf(NewTable(limit).entries) = {}
<1> DEFINE t == NewTable(limit)
<1>1. /\ t.entries = <<>> /\ t.cache = <<>> /\ t.size = 0 /\ t.found = {} /\ t.flags = {} /\ t.limit = limit
      /\ t \in Tables
  BY DEF NewTable, Tables
<1>2. EntriesOf(<<>>) = {} /\ OneEach(<<>>) /\ Len(<<>>) = 0
  BY DEF EntriesOf, OneEach
<1> HIDE DEF t
<1>3. Fits(t, M)
  BY <1>1, <1>2 DEF Fits
<1> QED BY <1>1, <1>2, <1>3 DEF t

\* clear: the table has no entry, and no flag for a row that the file had.
LEMMA ClearFits ==
  ASSUME NEW t, NEW M, Fits(t, M), NEW N, \A e \in N : \E d \in M : d[2] = e[2]
  PROVE  Fits(Clear(t), N)
<1>1. CASE t.size = 0
  <2>1. Clear(t) = t
    BY <1>1 DEF Clear
  <2>2. EntriesOf(t.entries) = {}
    BY <1>1, EmptyIs
  <2>3. \A d \in M : d[2] \notin t.found
    BY <2>2 DEF Fits
  <2>4. \A e \in N : e[2] \notin t.found
    BY <2>3
  <2> QED BY <2>1, <2>2, <2>4, Refits
<1>2. CASE t.size # 0
  <2>1. t.limit \in Nat /\ Clear(t) = NewTable(t.limit)
    BY <1>2 DEF Clear, Fits, Tables
  <2> QED BY <2>1, NewFits
<1> QED BY <1>1, <1>2

\* load_keys, when it starts at the last row or behind it
LEMMA LoadedIs ==
  ASSUME NEW t, NEW fs, NEW first \in Nat \ {0}, Len(fs) = first - 1 \/ Len(fs) = first
  PROVE  Loaded(t, fs, first) = IF Len(fs) < first THEN Clear(t) ELSE Put(Clear(t), fs[first], first)
<1> DEFINE n == Len(fs)
           loads(g) == g = [r \in first - 1 .. n |-> IF r < first THEN Clear(t) ELSE Put(g[r - 1], fs[r], r)]
           h == [r \in first - 1 .. n |-> IF r < first THEN Clear(t) ELSE Put(Clear(t), fs[r], r)]
           f == CHOOSE g : loads(g)
<1>1. \A r \in first - 1 .. n : ~(r < first) => r = first /\ r - 1 \in first - 1 .. n /\ r - 1 < first
  OBVIOUS
<1>2. \A r \in first - 1 .. n : ~(r < first) => h[r - 1] = Clear(t)
  BY <1>1
<1>3. loads(h)
  <2> DEFINE body == [r \in first - 1 .. n |-> IF r < first THEN Clear(t) ELSE Put(h[r - 1], fs[r], r)]
  <2>1. \A r \in first - 1 .. n : h[r] = body[r]
    BY <1>2
  <2>2. h = body
    <3> HIDE DEF h, body
    <3>1. h = [r \in first - 1 .. n |-> h[r]] /\ body = [r \in first - 1 .. n |-> body[r]]
      BY DEF h, body
    <3> QED BY <2>1, <3>1
  <2> QED BY <2>2
<1>4. loads(f)
  BY <1>3
<1>5. Loaded(t, fs, first) = f[n]
  BY DEF Loaded
<1> HIDE DEF f
<1>6. \A r \in first - 1 .. n : f[r] = IF r < first THEN Clear(t) ELSE Put(f[r - 1], fs[r], r)
  BY <1>4
<1>7. CASE n = first - 1
  <2>1. n \in first - 1 .. n /\ n < first
    BY <1>7
  <2> QED BY <1>5, <1>6, <2>1
<1>8. CASE n = first
  <2>1. n \in first - 1 .. n /\ ~(n < first) /\ n - 1 \in first - 1 .. n /\ n - 1 < first
    BY <1>8
  <2>2. f[n - 1] = Clear(t)
    BY <1>6, <2>1
  <2>3. f[n] = Put(f[n - 1], fs[n], n)
    BY <1>6, <2>1
  <2> QED BY <1>5, <1>8, <2>1, <2>2, <2>3
<1> QED BY <1>7, <1>8

\* What the invariant says once the iterations are left out
LEMMA ChangedFits ==
  ASSUME TableInv, ~iter.open, File(rows'), Fits(table', Pairs(rows')), iter' = iter,
         changes' \in 0 .. MaxChanges
  PROVE  TableInv'
<1>1. iter = NoIter /\ iter.row = 0 /\ ~iter.open
  BY DEF TableInv, NoIter
<1>2. Len(rows') \in Nat
  BY DEF File
<1>3. iter'.row <= Len(rows') /\ ~iter'.open /\ iter' = NoIter
  BY <1>1, <1>2
<1>4. iter' \in [open : BOOLEAN, row : Nat, is_empty : BOOLEAN]
  BY DEF TableInv
<1>5. IterFits'
  BY <1>3 DEF IterFits
<1> QED BY <1>3, <1>4, <1>5 DEF TableInv

\* The first state
LEMMA InitInv ==
  ASSUME TableAssumption, Init
  PROVE  TableInv
<1>1. rows = <<>> /\ iter = NoIter /\ changes = 0
  BY DEF Init
<1>2. PICK limit \in Limits : table = NewTable(limit)
  BY DEF Init
<1>3. limit \in Nat /\ 0 \in 0 .. MaxChanges
  BY DEF TableAssumption
<1>4. File(<<>>) /\ Len(<<>>) = 0
  BY DEF File, IsInjective
<1>5. Fits(table, Pairs(rows))
  BY <1>2, <1>3, NewFits
<1>6. NoIter \in [open : BOOLEAN, row : Nat, is_empty : BOOLEAN] /\ NoIter.row = 0 /\ ~NoIter.open
  BY DEF NoIter
<1> QED BY <1>1, <1>3, <1>4, <1>5, <1>6 DEF TableInv, IterFits

\* A lookup, during an iteration of a key that the iteration has yielded
LEMMA LookupStep ==
  ASSUME TableAssumption, ~Mixed, TableInv, NEW k \in Keys, Lookup(k)
  PROVE  TableInv'
<1> DEFINE g == Get(table, rows, k)
           r == RowOf(rows, k)
<1>1. File(rows) /\ Fits(table, Pairs(rows))
  BY DEF TableInv
<1>2. /\ Fits(g.table, Pairs(rows))
      /\ <<k, r>> \in EntriesOf(table.entries)
           => g.table.entries = table.entries /\ g.table.found = table.found
  BY <1>1, GetFits
<1> HIDE DEF r, g
<1>3. table' = g.table /\ rows' = rows /\ iter' = iter /\ changes' = changes
  BY DEF Lookup, g
<1>4. Fits(table', Pairs(rows'))
  BY <1>2, <1>3
<1>5. IterFits'
  <2>1. CASE ~iter.open
    BY <1>3, <2>1 DEF IterFits
  <2>2. CASE iter.open
    <3>1. PICK q \in 1 .. iter.row : k = rows[q]
      BY <2>2 DEF Lookup
    <3>2. q \in DOMAIN rows /\ q \in table.found
      <4>1. q \in table.found
        BY <2>2 DEF TableInv, IterFits
      <4>2. iter.row \in Nat /\ iter.row <= Len(rows) /\ DOMAIN rows = 1 .. Len(rows) /\ Len(rows) \in Nat
        BY DEF TableInv, File
      <4> QED BY <4>1, <4>2
    <3>3. <<k, q>> \in Pairs(rows) /\ <<k, q>>[2] = q /\ <<k, q>>[1] = k
      BY <3>1, <3>2 DEF Pairs
    <3>4. <<k, q>> \in EntriesOf(table.entries)
      BY <1>1, <3>2, <3>3 DEF Fits
    <3>5. q = r
      <4>1. \A e \in Pairs(rows) : e[1] = k => e[2] = r
        BY <1>1, RowOfIs DEF r
      <4> QED BY <3>3, <4>1
    <3>6. table'.entries = table.entries /\ table'.found = table.found
      BY <1>2, <1>3, <3>4, <3>5
    <3> QED BY <1>3, <2>2, <3>6 DEF TableInv, IterFits
  <2> QED BY <2>1, <2>2
<1> QED BY <1>3, <1>4, <1>5 DEF TableInv

\* Every change needs that no iteration is open, and is counted.
LEMMA ChangingIs ==
  ASSUME TableAssumption, TableInv, Changing
  PROVE  ~iter.open /\ iter' = iter /\ changes' \in 0 .. MaxChanges
<1>1. ~iter.open /\ iter' = iter /\ changes' = changes + 1 /\ changes < MaxChanges
  BY DEF Changing
<1>2. changes \in 0 .. MaxChanges /\ MaxChanges \in Nat
  BY DEF TableInv, TableAssumption
<1> QED BY <1>1, <1>2

\* f_write
LEMMA WriteStep ==
  ASSUME TableAssumption, TableInv, NEW k \in Keys, Write(k)
  PROVE  TableInv'
<1> DEFINE g == Get(table, rows, k)
           n == Len(rows)
           r == IF g.row = 0 THEN n + 1 ELSE g.row
           m == IF g.row = 0 THEN n + 1 ELSE n
<1>1. File(rows) /\ Fits(table, Pairs(rows))
  BY DEF TableInv
<1>2. g.row = RowOf(rows, k) /\ Fits(g.table, Pairs(rows))
  BY <1>1, GetFits
<1> HIDE DEF g
<1>3. /\ rows' = [q \in 1 .. m |-> IF q = r THEN k ELSE rows[q]]
      /\ table' = Put(g.table, k, r)
      /\ Changing
  BY DEF Write, g
<1>4. rows \in Seq(Keys) /\ n \in Nat /\ DOMAIN rows = 1 .. n
  BY <1>1 DEF File
<1>5. File(rows') /\ Pairs(rows') = Moved(Pairs(rows), k, r) /\ r \in Nat \ {0}
      /\ \A e \in Pairs(rows) : e[1] # k => e[2] # r
  <2>1. CASE g.row = 0
    <3>1. \A e \in Pairs(rows) : e[1] # k
      BY <1>1, <1>2, <2>1, RowOfIs
    <3>2. \A q \in DOMAIN rows : rows[q] # k
      <4> SUFFICES ASSUME NEW q \in DOMAIN rows, rows[q] = k PROVE FALSE
        OBVIOUS
      <4>1. <<k, q>> \in Pairs(rows) /\ <<k, q>>[1] = k
        BY DEF Pairs
      <4> QED BY <3>1, <4>1
    <3>3. rows' = Append(rows, k)
      <4>1. rows' = [q \in 1 .. n + 1 |-> IF q = n + 1 THEN k ELSE rows[q]]
        BY <1>3, <2>1
      <4> DEFINE f == Append(rows, k)
      <4>2. f \in Seq(Keys) /\ Len(f) = n + 1
        BY <1>4
      <4>3. \A q \in 1 .. n + 1 : f[q] = IF q = n + 1 THEN k ELSE rows[q]
        BY <1>4
      <4> HIDE DEF f, n, r, m
      <4>4. DOMAIN f = 1 .. n + 1
        BY <4>2
      <4>5. f = [q \in 1 .. n + 1 |-> f[q]]
        BY <4>2, <4>4
      <4>6. f = [q \in 1 .. n + 1 |-> IF q = n + 1 THEN k ELSE rows[q]]
        BY <4>3, <4>5
      <4> QED BY <4>1, <4>6 DEF f
    <3>4. File(Append(rows, k)) /\ Pairs(Append(rows, k)) = Pairs(rows) \cup {<<k, Len(rows) + 1>>}
      BY <1>1, <3>2, FileAppend
    <3>5. Moved(Pairs(rows), k, r) = Pairs(rows) \cup {<<k, n + 1>>}
      BY <2>1, <3>1 DEF Moved
    <3>6. \A e \in Pairs(rows) : e[2] # n + 1
      <4> SUFFICES ASSUME NEW e \in Pairs(rows), e[2] = n + 1 PROVE FALSE
        OBVIOUS
      <4>1. e[2] \in DOMAIN rows
        BY <1>1, PairsOne
      <4> QED BY <1>4, <4>1
    <3> QED BY <1>4, <2>1, <3>3, <3>4, <3>5, <3>6
  <2>2. CASE g.row # 0
    <3>1. r = RowOf(rows, k) /\ r # 0
      BY <1>2, <2>2
    <3> HIDE DEF r
    <3>2. /\ r \in DOMAIN rows /\ rows[r] = k /\ <<k, r>> \in Pairs(rows)
          /\ \A e \in Pairs(rows) : e[1] = k => e[2] = r
      BY <1>1, <3>1, RowOfIs
    <3>3. rows' = rows
      <4>1. rows' = [q \in 1 .. n |-> IF q = r THEN k ELSE rows[q]]
        BY <1>3, <2>2
      <4>2. rows = [q \in 1 .. n |-> rows[q]]
        BY <1>4
      <4> QED BY <3>2, <4>1, <4>2
    <3>4. ASSUME NEW e \in Pairs(rows), e[1] = k \/ e[2] = r PROVE e = <<k, r>>
      <4>1. <<k, r>>[1] = k /\ <<k, r>>[2] = r
        OBVIOUS
      <4> QED BY <1>1, <3>2, <3>4, <4>1, PairsOne
    <3>5. Moved(Pairs(rows), k, r) = Pairs(rows)
      BY <3>2, <3>4 DEF Moved
    <3> QED BY <1>1, <1>4, <3>2, <3>3, <3>4, <3>5
  <2> QED BY <2>1, <2>2
<1> HIDE DEF r
<1>6. Fits(table', Pairs(rows'))
  BY <1>2, <1>3, <1>5, PutFits
<1>7. ~iter.open /\ iter' = iter /\ changes' \in 0 .. MaxChanges
  BY <1>3, ChangingIs
<1> QED BY <1>5, <1>6, <1>7, ChangedFits

\* The file is its front and its last row.
LEMMA FrontAndLast ==
  ASSUME NEW fs, File(fs), Len(fs) > 0
  PROVE  Front(fs) \o <<fs[Len(fs)]>> = fs
<1> DEFINE f == Front(fs)
           e == <<fs[Len(fs)]>>
           n == Len(fs)
<1>1. fs \in Seq(Keys) /\ n \in Nat /\ n \in DOMAIN fs
  BY DEF File
<1>2. f \in Seq(Keys) /\ Len(f) = n - 1 /\ \A q \in 1 .. n - 1 : f[q] = fs[q]
  BY FileFront DEF File
<1>3. e \in Seq(Keys) /\ Len(e) = 1 /\ e[1] = fs[n]
  <2>1. fs[n] \in Keys
    BY <1>1
  <2> QED BY <2>1
<1> HIDE DEF f, e
<1> HIDE DEF n
<1>4. f \o e \in Seq(Keys) /\ Len(f \o e) = n
      /\ \A q \in 1 .. n : (f \o e)[q] = IF q <= n - 1 THEN f[q] ELSE e[q - (n - 1)]
  <2>1. /\ f \o e \in Seq(Keys) /\ Len(f \o e) = Len(f) + Len(e)
        /\ \A q \in 1 .. Len(f) + Len(e) :
             (f \o e)[q] = IF q <= Len(f) THEN f[q] ELSE e[q - Len(f)]
    BY <1>2, <1>3, ConcatProperties
  <2>2. Len(f) + Len(e) = n
    BY <1>1, <1>2, <1>3
  <2> QED BY <1>2, <2>1, <2>2
<1>5. ASSUME NEW q \in 1 .. n PROVE (f \o e)[q] = fs[q]
  <2>1. CASE q <= n - 1
    BY <1>1, <1>2, <1>4, <2>1
  <2>2. CASE ~(q <= n - 1)
    <3>1. q = n /\ q - (n - 1) = 1
      BY <1>1, <2>2
    <3> QED BY <1>3, <1>4, <2>2, <3>1
  <2> QED BY <2>1, <2>2
<1> DEFINE s == f \o e
<1>6. s \in Seq(Keys) /\ Len(s) = Len(fs) /\ \A q \in 1 .. Len(s) : s[q] = fs[q]
  BY <1>4, <1>5 DEF n
<1> HIDE DEF s
<1>7. s = fs
  BY <1>1, <1>6, SeqEqual
<1> QED BY <1>7 DEF s, f, e, n

\* pop of a key in a file whose last row is not counted any more
LEMMA PopCounted ==
  ASSUME NEW t, NEW M, Fits(t, M), NEW fs, File(fs), Len(fs) > 0, NEW k, NEW r \in DOMAIN fs,
         fs[r] = k, <<k, r>> \in EntriesOf(t.entries)
  PROVE  Pop(t, Front(fs), <<fs[Len(fs)]>>, k) = Rest(t, k)
<1> DEFINE fewer == Front(fs)
           tail == <<fs[Len(fs)]>>
<1>1. fewer \o tail = fs
  BY FrontAndLast
<1>2. Len(tail) = 1
  OBVIOUS
<1>3. Len(fewer) = Len(fs) - 1
  BY FileFront
<1>4. r \in 1 .. Len(fs) /\ Len(fs) \in Nat
  BY DEF File
<1> HIDE DEF fewer, tail
<1>5. r <= Len(fewer) + Len(tail) /\ (fewer \o tail)[r] = k
  BY <1>1, <1>2, <1>3, <1>4
<1>6. Pop(t, fewer, tail, k) = Rest(t, k)
  BY <1>5, PopKnown
<1> QED BY <1>6 DEF fewer, tail

\* f_delete
LEMMA DeleteStep ==
  ASSUME TableAssumption, TableInv, NEW k \in Keys, Delete(k)
  PROVE  TableInv'
<1> DEFINE g == Get(table, rows, k)
           r == g.row
           n == Len(rows)
           last == rows[n]
           fewer == Front(rows)
           t == Pop(g.table, fewer, <<last>>, k)
           moved == [fewer EXCEPT ![r] = last]
           M == Pairs(rows)
<1>1. File(rows) /\ Fits(table, M) /\ OnePair(M)
  BY PairsOnePair DEF TableInv
<1>2. r = RowOf(rows, k) /\ Fits(g.table, M) /\ (r # 0 => <<k, r>> \in EntriesOf(g.table.entries))
  BY <1>1, GetFits
<1> HIDE DEF g
<1>3. /\ Changing /\ r > 0 /\ rows[r] = k
      /\ IF r < n
         THEN rows' = moved /\ table' = Pop(Put(t, last, r), moved, <<k>>, k)
         ELSE rows' = fewer /\ table' = Pop(g.table, fewer, <<k>>, k)
  BY DEF Delete, g
<1>4. r \in 1 .. n /\ n \in Nat /\ DOMAIN rows = 1 .. n /\ n > 0 /\ rows \in Seq(Keys) /\ last \in Keys
  <2>1. r \in 0 .. n /\ n \in Nat /\ r # 0 /\ DOMAIN rows = 1 .. n /\ rows \in Seq(Keys)
    BY <1>1, <1>2, <1>3, RowOfIs DEF File
  <2>2. r \in 1 .. n /\ n > 0 /\ n \in DOMAIN rows
    BY <2>1
  <2> QED BY <2>1, <2>2
<1>a. (r < n /\ r # n) \/ (~(r < n) /\ r = n)
  <2> HIDE DEF r, n
  <2>1. \A i \in 1 .. n : n \in Nat => (i < n /\ i # n) \/ (~(i < n) /\ i = n)
    OBVIOUS
  <2> QED BY <1>4, <2>1
<1>5. <<k, r>> \in EntriesOf(g.table.entries)
  BY <1>2, <1>4, SMTT(30)
<1>6. /\ File(fewer) /\ Len(fewer) = n - 1 /\ DOMAIN fewer = 1 .. n - 1
      /\ Pairs(fewer) = {e \in M : e[2] # n}
      /\ \A q \in 1 .. n - 1 : fewer[q] = rows[q]
  BY <1>1, <1>4, FileFront
<1>7. t = Rest(g.table, k)
  <2> HIDE DEF M, r
  <2>1. r \in DOMAIN rows /\ Len(rows) > 0
    BY <1>4
  <2> QED BY <1>1, <1>2, <1>3, <1>5, <2>1, PopCounted
<1>8. <<k, r>> \in M /\ \A e \in M : e[1] = k \/ e[2] = r => e = <<k, r>>
  <2>1. <<k, r>> \in M
    BY <1>3, <1>4 DEF Pairs
  <2>2. <<k, r>>[1] = k /\ <<k, r>>[2] = r
    OBVIOUS
  <2> QED BY <1>1, <2>1, <2>2 DEF OnePair
<1>9. Fits(t, OtherPairs(M, k))
  BY <1>1, <1>2, <1>7, RestFits
<1>10. ~iter.open /\ iter' = iter /\ changes' \in 0 .. MaxChanges
  BY <1>3, ChangingIs
<1> HIDE DEF M, fewer, r
<1>11. CASE ~(r < n)
  <2>1. r = n
    BY <1>a, <1>11
  <2>2. last = k
    BY <1>3, <2>1
  <2>3. rows' = fewer /\ table' = t
    BY <1>3, <1>11, <2>2
  <2>4. OtherPairs(M, k) = Pairs(fewer)
    BY <1>6, <1>8, <2>1 DEF OtherPairs
  <2>5. Fits(table', Pairs(rows')) /\ File(rows')
    BY <1>6, <1>9, <2>3, <2>4
  <2> QED BY <1>10, <2>5, ChangedFits
<1>12. CASE r < n
  <2>1. rows' = moved /\ table' = Pop(Put(t, last, r), moved, <<k>>, k)
    BY <1>3, <1>12
  <2>4. <<last, n>> \in M /\ (\A e \in M : e[1] = last \/ e[2] = n => e = <<last, n>>)
    <3>1. <<last, n>> \in M
      BY <1>4 DEF Pairs, M
    <3>2. <<last, n>>[1] = last /\ <<last, n>>[2] = n
      OBVIOUS
    <3> HIDE DEF last, n
    <3> QED BY <1>1, <3>1, <3>2 DEF OnePair
  <2> HIDE DEF t, last, moved
  <2>5. \A e \in OtherPairs(M, k) : e[1] # last => e[2] # r
    BY <1>8 DEF OtherPairs
  <2>6. Fits(Put(t, last, r), Moved(OtherPairs(M, k), last, r))
    <3>1. r \in Nat \ {0}
      BY <1>4
    <3> QED BY <1>4, <1>9, <2>5, <3>1, PutFits
  <2>7. r \in DOMAIN fewer /\ \A q \in DOMAIN fewer \ {r} : fewer[q] # last
    <3>1. r \in DOMAIN fewer
      BY <1>4, <1>6, <1>12
    <3>2. ASSUME NEW q \in DOMAIN fewer, fewer[q] = last PROVE FALSE
      <4>1. q \in DOMAIN rows /\ q # n /\ rows[q] = last /\ n \in DOMAIN rows
        BY <1>4, <1>6, <3>2
      <4> QED BY <1>1, <4>1 DEF File, IsInjective, last
    <3> QED BY <3>1, <3>2
  <2>8. File(moved) /\ Pairs(moved) = {e \in Pairs(fewer) : e[2] # r} \cup {<<last, r>>}
    BY <1>4, <1>6, <2>7, FileSet DEF moved
  <2>9. Moved(OtherPairs(M, k), last, r) = Pairs(moved)
    <3>1. ASSUME NEW e \in M PROVE (e[1] # k /\ e[1] # last) <=> (e[2] # n /\ e[2] # r)
      <4>1. e[1] = k \/ e[2] = r => e[1] = k /\ e[2] = r
        BY <1>8
      <4>2. e[1] = last \/ e[2] = n => e[1] = last /\ e[2] = n
        BY <2>4
      <4> QED BY <4>1, <4>2
    <3> QED BY <1>6, <2>8, <3>1 DEF Moved, OtherPairs
  <2> DEFINE p == Put(t, last, r)
  <2>10. Fits(p, Pairs(moved)) /\ OnePair(Pairs(moved))
    BY <2>6, <2>8, <2>9, PairsOnePair
  <2>11. \A e \in Pairs(moved) : e[1] # k
    <3>1. last # k
      <4>1. n # r
        BY <1>a, <1>12
      <4>2. <<last, n>>[1] = last /\ <<last, n>>[2] = n /\ <<k, r>>[2] = r
        OBVIOUS
      <4> QED BY <1>8, <2>4, <4>1, <4>2
    <3>2. ASSUME NEW e \in Pairs(moved) PROVE e[1] # k
      <4>1. CASE e = <<last, r>>
        BY <3>1, <4>1
      <4>2. CASE e \in M /\ e[2] # r
        BY <1>8, <4>2
      <4> QED BY <1>6, <2>8, <4>1, <4>2
    <3> QED BY <3>2
  <2>12. RowOf(moved, k) = 0
    <3>1. RowOf(moved, k) # 0 => <<k, RowOf(moved, k)>> \in Pairs(moved)
      BY <2>8, RowOfIs
    <3>2. <<k, RowOf(moved, k)>>[1] = k
      OBVIOUS
    <3> QED BY <2>11, <3>1, <3>2
  <2>13. Fits(Pop(p, moved, <<k>>, k), Pairs(moved))
    <3>1. OtherPairs(Pairs(moved), k) \subseteq Pairs(moved)
      BY DEF OtherPairs
    <3> HIDE DEF p
    <3> QED BY <2>8, <2>10, <2>12, <3>1, PopSearched
  <2> QED BY <1>10, <2>1, <2>8, <2>13, ChangedFits
<1> QED BY <1>11, <1>12

\* f_rename
LEMMA RenameStep ==
  ASSUME TableAssumption, TableInv, NEW k \in Keys, NEW new \in Keys, Rename(k, new)
  PROVE  TableInv'
<1> DEFINE f == Get(table, rows, new)
           g == Get(f.table, rows, k)
           r == g.row
           renamed == [rows EXCEPT ![r] = new]
           M == Pairs(rows)
           N == Pairs(renamed)
           p == Pop(g.table, renamed, <<>>, k)
<1>1. File(rows) /\ Fits(table, M) /\ OnePair(M)
  BY PairsOnePair DEF TableInv
<1>2. f.row = RowOf(rows, new) /\ Fits(f.table, M)
  BY <1>1, GetFits
<1> HIDE DEF f
<1>3. r = RowOf(rows, k) /\ Fits(g.table, M) /\ (r # 0 => <<k, r>> \in EntriesOf(g.table.entries))
  BY <1>1, <1>2, GetFits, ZenonT(60)
<1> HIDE DEF g
<1>4. /\ Changing /\ k # new /\ f.row = 0 /\ r > 0
      /\ rows' = renamed /\ table' = Put(p, new, r)
  BY DEF Rename, f, g
<1>5. r # 0
  BY <1>1, <1>3, <1>4, RowOfIs
<1> HIDE DEF r
<1>6. /\ r \in DOMAIN rows /\ rows[r] = k /\ <<k, r>> \in M /\ <<k, r>> \in EntriesOf(g.table.entries)
      /\ r \in Nat \ {0}
  <2>1. r \in DOMAIN rows /\ rows[r] = k /\ <<k, r>> \in M
    BY <1>1, <1>3, <1>5, RowOfIs
  <2>2. DOMAIN rows = 1 .. Len(rows) /\ Len(rows) \in Nat
    BY <1>1 DEF File
  <2>3. r \in Nat \ {0}
    BY <2>1, <2>2
  <2> QED BY <1>3, <1>5, <2>1, <2>3
<1>7. \A e \in M : e[1] # new
  BY <1>1, <1>2, <1>4, RowOfIs
<1>8. \A e \in M : e[1] = k \/ e[2] = r => e = <<k, r>>
  <2>1. <<k, r>>[1] = k /\ <<k, r>>[2] = r
    OBVIOUS
  <2> HIDE DEF M
  <2> QED BY <1>1, <1>6, <2>1 DEF OnePair
<1>9. \A q \in DOMAIN rows : rows[q] # new
  <2> SUFFICES ASSUME NEW q \in DOMAIN rows, rows[q] = new PROVE FALSE
    OBVIOUS
  <2>1. <<new, q>> \in M /\ <<new, q>>[1] = new
    BY DEF Pairs
  <2> QED BY <1>7, <2>1
<1>10. File(renamed) /\ N = {e \in M : e[2] # r} \cup {<<new, r>>}
  BY <1>1, <1>6, <1>9, FileSet
<1> HIDE DEF M, N, renamed
<1>11. \A e \in N : e[1] # k
  <2>1. <<new, r>>[1] = new
    OBVIOUS
  <2>2. \A e \in M : e[2] # r => e[1] # k
    <3>1. <<k, r>>[2] = r
      OBVIOUS
    <3> QED BY <1>8, <3>1
  <2> QED BY <1>4, <1>10, <2>1, <2>2
<1>12. RowOf(renamed, k) = 0
  <2>1. RowOf(renamed, k) # 0 => <<k, RowOf(renamed, k)>> \in N
    BY <1>10, RowOfIs DEF N
  <2>2. <<k, RowOf(renamed, k)>>[1] = k
    OBVIOUS
  <2> QED BY <1>11, <2>1, <2>2
<1>13. OtherPairs(M, k) \subseteq N
  <2>1. \A e \in M : e[1] # k => e[2] # r
    <3>1. <<k, r>>[1] = k
      OBVIOUS
    <3> QED BY <1>8, <3>1
  <2> QED BY <1>10, <2>1 DEF OtherPairs
<1>14. \A e \in N : e \in M \/ e[2] \notin Rest(g.table, k).found
  <2>1. \A e \in EntriesOf(g.table.entries) : e[1] = k => e[2] \notin Rest(g.table, k).found
    BY <1>1, <1>3, RestFits
  <2>2. <<k, r>>[1] = k /\ <<k, r>>[2] = r /\ <<new, r>>[2] = r
    OBVIOUS
  <2>3. r \notin Rest(g.table, k).found
    BY <1>6, <2>1, <2>2
  <2> QED BY <1>10, <2>2, <2>3
<1>15. Fits(p, N)
  <2> DEFINE none == <<>>
  <2> HIDE DEF none
  <2>1. Fits(Pop(g.table, renamed, none, k), Pairs(renamed))
    BY <1>1, <1>3, <1>10, <1>12, <1>13, <1>14, PopSearched DEF N
  <2> QED BY <2>1 DEF N, none
<1> HIDE DEF p
<1>16. Moved(N, new, r) = N /\ \A e \in N : e[1] # new => e[2] # r
  <2>1. <<new, r>>[1] = new /\ <<new, r>>[2] = r
    OBVIOUS
  <2>2. \A e \in N : e = <<new, r>> \/ (e[1] # new /\ e[2] # r)
    BY <1>7, <1>10
  <2>3. <<new, r>> \in N
    BY <1>10
  <2> QED BY <2>1, <2>2, <2>3 DEF Moved
<1>17. Fits(table', Pairs(rows'))
  <2>1. Fits(Put(p, new, r), Moved(N, new, r))
    BY <1>6, <1>15, <1>16, PutFits
  <2> QED BY <1>4, <1>16, <2>1 DEF N
<1>18. ~iter.open /\ iter' = iter /\ changes' \in 0 .. MaxChanges
  BY <1>4, ChangingIs
<1> QED BY <1>4, <1>10, <1>17, <1>18, ChangedFits

\* A cleared table fits any file that is not longer.
LEMMA ClearedFits ==
  ASSUME NEW fs, File(fs), NEW t, Fits(t, Pairs(fs)), NEW gs, File(gs), Len(gs) <= Len(fs)
  PROVE  Fits(Clear(t), Pairs(gs))
<1>1. \A e \in Pairs(gs) : \E d \in Pairs(fs) : d[2] = e[2]
  <2> SUFFICES ASSUME NEW e \in Pairs(gs) PROVE \E d \in Pairs(fs) : d[2] = e[2]
    OBVIOUS
  <2>1. e[2] \in DOMAIN gs
    BY PairsOne
  <2> DEFINE r == e[2]
  <2> HIDE DEF r
  <2>2. r \in DOMAIN fs
    <3>1. /\ DOMAIN fs = 1 .. Len(fs) /\ Len(fs) \in Nat
          /\ DOMAIN gs = 1 .. Len(gs) /\ Len(gs) \in Nat
      BY DEF File
    <3> QED BY <2>1, <3>1 DEF r
  <2>3. <<fs[r], r>> \in Pairs(fs) /\ <<fs[r], r>>[2] = r
    BY <2>2 DEF Pairs
  <2> QED BY <2>3 DEF r
<1> QED BY <1>1, ClearFits

\* set of a key in the row that the file has it in
LEMMA PutOwn ==
  ASSUME TableAssumption, NEW fs, File(fs), NEW t, Fits(t, Pairs(fs)), NEW r \in DOMAIN fs
  PROVE  Fits(Put(t, fs[r], r), Pairs(fs))
<1> DEFINE k == fs[r]
           M == Pairs(fs)
<1>1. <<k, r>> \in M /\ <<k, r>>[1] = k /\ <<k, r>>[2] = r
  BY DEF Pairs
<1>2. k \in Keys /\ r \in Nat \ {0}
  BY <1>1, PairsOne
<1>3. \A e \in M : e[1] = k \/ e[2] = r => e = <<k, r>>
  BY <1>1, PairsOnePair DEF OnePair
<1> HIDE DEF k, M
<1>4. Moved(M, k, r) = M /\ \A e \in M : e[1] # k => e[2] # r
  BY <1>1, <1>3 DEF Moved
<1>5. Fits(Put(t, k, r), Moved(M, k, r))
  BY <1>2, <1>4, PutFits DEF M
<1> QED BY <1>4, <1>5 DEF k, M

\* Another handle adds a record: load_keys starts at its row.
LEMMA AddedStep ==
  ASSUME TableAssumption, TableInv, NEW k \in Keys, \A q \in DOMAIN rows : rows[q] # k,
         rows' = Append(rows, k), table' = Loaded(table, rows', Len(rows) + 1)
  PROVE  File(rows') /\ Fits(table', Pairs(rows'))
<1> DEFINE n == Len(rows)
           r == n + 1
           M == Pairs(rows)
           fs == Append(rows, k)
<1>1. File(rows) /\ Fits(table, M)
  BY DEF TableInv
<1>2. /\ File(fs) /\ Len(fs) = r /\ Pairs(fs) = M \cup {<<k, r>>} /\ fs[r] = k
  BY <1>1, FileAppend
<1>3. r \in Nat \ {0} /\ n \in Nat /\ DOMAIN rows = 1 .. n
  BY <1>1 DEF File
<1>4. \A e \in M : e[1] # k /\ e[2] # r
  <2> SUFFICES ASSUME NEW e \in M PROVE e[1] # k /\ e[2] # r
    OBVIOUS
  <2>1. e[2] \in DOMAIN rows /\ e[1] = rows[e[2]]
    BY <1>1, PairsOne
  <2>2. e[2] # r
    BY <1>3, <2>1
  <2> QED BY <2>1, <2>2
<1>5. Fits(Clear(table), M)
  BY <1>1, <1>3, ClearedFits
<1> HIDE DEF M, fs, r
<1>6. Fits(Put(Clear(table), k, r), Moved(M, k, r))
  BY <1>3, <1>4, <1>5, PutFits
<1>7. Moved(M, k, r) = Pairs(fs)
  BY <1>2, <1>4 DEF Moved
<1>8. Loaded(table, fs, r) = Put(Clear(table), k, r)
  <2>1. ~(Len(fs) < r)
    BY <1>2, <1>3
  <2> QED BY <1>2, <1>3, <2>1, LoadedIs
<1>9. rows' = fs /\ table' = Loaded(table, fs, r)
  BY DEF fs, r
<1> QED BY <1>2, <1>6, <1>7, <1>8, <1>9

\* Another handle deletes the last record: load_keys starts at the last that is left.
LEMMA ShortenedStep ==
  ASSUME TableAssumption, TableInv, Len(rows) > 0, rows' = Front(rows),
         table' = Loaded(table, rows', IF Len(rows) > 2 THEN Len(rows) - 1 ELSE 1)
  PROVE  File(rows') /\ Fits(table', Pairs(rows'))
<1> DEFINE n == Len(rows)
           first == IF n > 2 THEN n - 1 ELSE 1
           fs == Front(rows)
<1>1. File(rows) /\ Fits(table, Pairs(rows))
  BY DEF TableInv
<1>2. File(fs) /\ Len(fs) = n - 1 /\ DOMAIN fs = 1 .. n - 1
  BY <1>1, FileFront
<1>3. n \in Nat /\ n > 0
  BY <1>1 DEF File
<1> HIDE DEF fs
<1>4. Len(fs) <= Len(rows)
  BY <1>2, <1>3
<1>5. Fits(Clear(table), Pairs(fs))
  BY <1>1, <1>2, <1>4, ClearedFits
<1> HIDE DEF n
<1>6. first \in Nat \ {0} /\ (Len(fs) = first - 1 \/ Len(fs) = first)
  BY <1>2, <1>3
<1>7. ~(Len(fs) < first) => first \in DOMAIN fs
  BY <1>2, <1>3
<1> HIDE DEF first
<1>8. Loaded(table, fs, first) = IF Len(fs) < first THEN Clear(table)
                                 ELSE Put(Clear(table), fs[first], first)
  BY <1>6, LoadedIs
<1>9. Fits(Loaded(table, fs, first), Pairs(fs))
  <2>1. CASE Len(fs) < first
    BY <1>5, <1>8, <2>1
  <2>2. CASE ~(Len(fs) < first)
    <3>1. Fits(Put(Clear(table), fs[first], first), Pairs(fs))
      BY <1>2, <1>5, <1>7, <2>2, PutOwn
    <3> QED BY <1>8, <2>2, <3>1
  <2> QED BY <2>1, <2>2
<1>10. rows' = fs /\ table' = Loaded(table, fs, first)
  BY DEF fs, first, n
<1> QED BY <1>2, <1>9, <1>10

\* Another handle adds a record, deletes one or renames one.
LEMMA OtherHandleStep ==
  ASSUME TableAssumption, TableInv, OtherHandle
  PROVE  TableInv'
<1> DEFINE n == Len(rows)
<1>1. File(rows) /\ Fits(table, Pairs(rows))
  BY DEF TableInv
<1>2. n \in Nat /\ DOMAIN rows = 1 .. n /\ rows \in Seq(Keys)
  BY <1>1 DEF File
<1>3. ~iter.open /\ iter' = iter /\ changes' \in 0 .. MaxChanges
  BY ChangingIs DEF OtherHandle
<1>4. File(rows') /\ Fits(table', Pairs(rows'))
  <2>1. ASSUME NEW k \in Keys \ {rows[r] : r \in 1 .. n}, rows' = Append(rows, k),
               table' = Loaded(table, rows', n + 1)
        PROVE  File(rows') /\ Fits(table', Pairs(rows'))
    <3>1. \A q \in DOMAIN rows : rows[q] # k
      BY <1>2
    <3> QED BY <2>1, <3>1, AddedStep
  <2>2. ASSUME n > 0, rows' = Front(rows),
               table' = Loaded(table, rows', IF n > 2 THEN n - 1 ELSE 1)
        PROVE  File(rows') /\ Fits(table', Pairs(rows'))
    BY <2>2, ShortenedStep
  <2>3. ASSUME NEW r \in 1 .. n - 1, rows' = [Front(rows) EXCEPT ![r] = rows[n]],
               table' = Clear(table)
        PROVE  File(rows') /\ Fits(table', Pairs(rows'))
    <3> DEFINE fs == Front(rows)
               last == rows[n]
    <3>1. n > 0 /\ n \in DOMAIN rows /\ last \in Keys
      BY <1>2
    <3>2. /\ File(fs) /\ Len(fs) = n - 1 /\ DOMAIN fs = 1 .. n - 1
          /\ \A q \in 1 .. n - 1 : fs[q] = rows[q]
      BY <1>1, <3>1, FileFront
    <3>3. \A q \in DOMAIN fs : fs[q] # last
      <4> SUFFICES ASSUME NEW q \in DOMAIN fs, fs[q] = last PROVE FALSE
        OBVIOUS
      <4>1. q \in DOMAIN rows /\ q # n /\ rows[q] = rows[n]
        BY <1>2, <3>2
      <4> QED BY <1>1, <3>1, <4>1 DEF File, IsInjective
    <3> HIDE DEF fs, last
    <3>4. File([fs EXCEPT ![r] = last]) /\ Len([fs EXCEPT ![r] = last]) = n - 1
      BY <3>1, <3>2, <3>3, FileSet, ZenonT(60)
    <3>5. rows' = [fs EXCEPT ![r] = last]
      BY <2>3 DEF fs, last
    <3>6. File(rows') /\ Len(rows') <= Len(rows)
      BY <1>2, <3>4, <3>5
    <3> QED BY <1>1, <2>3, <3>6, ClearedFits
  <2>4. ASSUME NEW r \in 1 .. n, NEW k \in Keys \ {rows[q] : q \in 1 .. n},
               rows' = [rows EXCEPT ![r] = k], table' = Clear(table)
        PROVE  File(rows') /\ Fits(table', Pairs(rows'))
    <3>1. r \in DOMAIN rows /\ k \in Keys /\ \A q \in DOMAIN rows \ {r} : rows[q] # k
      BY <1>2
    <3>2. File(rows') /\ Len(rows') = Len(rows)
      <4>1. File([rows EXCEPT ![r] = k]) /\ Len([rows EXCEPT ![r] = k]) = Len(rows)
        BY <1>1, <3>1, FileSet
      <4> QED BY <2>4, <4>1
    <3>3. Len(rows') <= Len(rows)
      BY <1>2, <3>2
    <3>4. Fits(Clear(table), Pairs(rows'))
      BY <1>1, <3>2, <3>3, ClearedFits
    <3>5. table' = Clear(table)
      BY <2>4
    <3> QED BY <3>2, <3>4, <3>5
  <2> QED BY <2>1, <2>2, <2>3, <2>4 DEF OtherHandle
<1> QED BY <1>3, <1>4, ChangedFits

\* The table after row h was read
LEMMA ReadFits ==
  ASSUME TableAssumption, NEW fs, File(fs), NEW t, Fits(t, Pairs(fs)), NEW b, NEW h \in Nat \ {0},
         h <= Len(fs), b => (\A e \in EntriesOf(t.entries) : e[2] < h)
  PROVE  /\ Fits(Indexed(t, fs, b, h, h), Pairs(fs))
         /\ Indexed(t, fs, b, h, h).found = t.found \cup h .. h
         /\ EntriesOf(Indexed(t, fs, b, h, h).entries) = EntriesOf(t.entries) \cup PairsIn(fs, h, h)
<1> DEFINE hi == h
           u == Indexed(t, fs, b, h, hi)
<1>1. hi \in Nat /\ h <= hi + 1 /\ hi <= Len(fs)
  OBVIOUS
<1>2. hi = h
  OBVIOUS
<1> HIDE DEF hi
<1>3. Fits(u, Pairs(fs))
  BY <1>1, IndexedFits
<1>4. u.found = t.found \cup h .. hi
  BY <1>1, IndexedFits, SMTT(30)
<1>5. EntriesOf(u.entries) = EntriesOf(t.entries) \cup PairsIn(fs, h, hi)
  BY <1>1, IndexedFits, SMTT(30)
<1> HIDE DEF u
<1>6. /\ Fits(u, Pairs(fs)) /\ u.found = t.found \cup h .. h
      /\ EntriesOf(u.entries) = EntriesOf(t.entries) \cup PairsIn(fs, h, h)
  BY <1>2, <1>3, <1>4, <1>5
<1>7. u = Indexed(t, fs, b, h, h)
  BY <1>2 DEF u
<1> QED BY <1>6, <1>7, Zenon

\* An iteration, new or not, reads row h of the file.
LEMMA ReadStep ==
  ASSUME TableAssumption, TableInv, NEW b, b \in BOOLEAN, NEW h \in Nat \ {0}, h <= Len(rows),
         b => (\A e \in EntriesOf(table.entries) : e[2] < h),
         \A r \in 1 .. h - 1 : r \in table.found,
         iter' = [open |-> TRUE, row |-> h, is_empty |-> b],
         table' = Indexed(table, rows, b, h, h), rows' = rows, changes' = changes
  PROVE  TableInv'
<1>1. File(rows) /\ Fits(table, Pairs(rows))
  BY DEF TableInv
<1>2. /\ Fits(table', Pairs(rows)) /\ table'.found = table.found \cup h .. h
      /\ EntriesOf(table'.entries) = EntriesOf(table.entries) \cup PairsIn(rows, h, h)
  <2> DEFINE u == Indexed(table, rows, b, h, h)
  <2>1. /\ Fits(u, Pairs(rows)) /\ u.found = table.found \cup h .. h
        /\ EntriesOf(u.entries) = EntriesOf(table.entries) \cup PairsIn(rows, h, h)
    BY <1>1, ReadFits
  <2> HIDE DEF u
  <2>2. table' = u
    BY DEF u
  <2> QED BY <2>1, <2>2
<1>3. iter'.open /\ iter'.row = h /\ iter'.is_empty = b
      /\ iter' \in [open : BOOLEAN, row : Nat, is_empty : BOOLEAN]
  OBVIOUS
<1>4. \A r \in 1 .. h : r \in table'.found
  BY <1>2
<1>5. b => \A e \in EntriesOf(table'.entries) : e[2] <= h
  <2> SUFFICES ASSUME b, NEW e \in EntriesOf(table'.entries) PROVE e[2] <= h
    OBVIOUS
  <2>1. CASE e \in EntriesOf(table.entries)
    <3>1. e \in Pairs(rows)
      BY <1>1, <2>1 DEF Fits
    <3>2. e[2] \in Nat
      BY <1>1, <3>1, PairsOne
    <3>3. e[2] < h
      BY <2>1
    <3> QED BY <3>2, <3>3
  <2>2. CASE e \in PairsIn(rows, h, h)
    <3>1. PICK r \in h .. h : e = <<rows[r], r>>
      BY <2>2 DEF PairsIn
    <3> QED BY <3>1
  <2> QED BY <1>2, <2>1, <2>2
<1>6. IterFits'
  BY <1>3, <1>4, <1>5 DEF IterFits
<1>7. changes' \in 0 .. MaxChanges /\ File(rows') /\ Fits(table', Pairs(rows')) /\ iter'.row <= Len(rows')
  BY <1>1, <1>2, <1>3 DEF TableInv
<1> QED BY <1>3, <1>6, <1>7 DEF TableInv

\* A generator starts.
LEMMA IterOpenStep ==
  ASSUME TableAssumption, TableInv, IterOpen
  PROVE  TableInv'
<1> DEFINE b == table.size = 0
<1>1. /\ rows # <<>> /\ rows' = rows /\ changes' = changes
      /\ iter' = [open |-> TRUE, row |-> 1, is_empty |-> b]
      /\ table' = Indexed(table, rows, b, 1, 1)
  BY DEF IterOpen
<1>2. 1 <= Len(rows)
  <2>1. rows \in Seq(Keys)
    BY DEF TableInv, File
  <2> QED BY <1>1, <2>1
<1>3. b => (\A e \in EntriesOf(table.entries) : e[2] < 1)
  <2>1. Fits(table, Pairs(rows))
    BY DEF TableInv
  <2>2. b => EntriesOf(table.entries) = {}
    BY <2>1, EmptyIs
  <2> QED BY <2>2
<1>4. b \in BOOLEAN /\ 1 \in Nat \ {0} /\ \A r \in 1 .. 1 - 1 : r \in table.found
  OBVIOUS
<1> HIDE DEF b
<1> QED BY <1>1, <1>2, <1>3, <1>4, ReadStep

\* It goes on by a row.
LEMMA IterNextStep ==
  ASSUME TableAssumption, TableInv, IterNext
  PROVE  TableInv'
<1> DEFINE b == iter.is_empty
           h == iter.row + 1
<1>1. /\ iter.open /\ iter.row < Len(rows) /\ rows' = rows /\ changes' = changes
      /\ table' = Indexed(table, rows, b, h, h)
      /\ iter' = [iter EXCEPT !.row = @ + 1]
  BY DEF IterNext
<1>2. iter \in [open : BOOLEAN, row : Nat, is_empty : BOOLEAN] /\ Len(rows) \in Nat
      /\ File(rows) /\ Fits(table, Pairs(rows)) /\ IterFits
  BY DEF TableInv, File
<1>3. iter' = [open |-> TRUE, row |-> h, is_empty |-> b]
  BY <1>1, <1>2
<1>4. b \in BOOLEAN /\ h \in Nat \ {0} /\ h <= Len(rows)
  BY <1>1, <1>2
<1>5. \A r \in 1 .. h - 1 : r \in table.found
  BY <1>1, <1>2 DEF IterFits
<1>6. b => (\A e \in EntriesOf(table.entries) : e[2] < h)
  <2> SUFFICES ASSUME b, NEW e \in EntriesOf(table.entries) PROVE e[2] < h
    OBVIOUS
  <2>1. e \in Pairs(rows)
    BY <1>2 DEF Fits
  <2>2. e[2] \in Nat
    BY <1>2, <2>1, PairsOne
  <2>3. e[2] <= iter.row
    BY <1>1, <1>2 DEF IterFits
  <2> QED BY <1>2, <2>2, <2>3
<1> HIDE DEF b, h
<1> QED BY <1>1, <1>3, <1>4, <1>5, <1>6, ReadStep

\* It is given up.
LEMMA IterCloseStep ==
  ASSUME TableInv, IterClose
  PROVE  TableInv'
<1>1. iter' = NoIter /\ rows' = rows /\ table' = table /\ changes' = changes
  BY DEF IterClose
<1>2. NoIter \in [open : BOOLEAN, row : Nat, is_empty : BOOLEAN] /\ NoIter.row = 0 /\ ~NoIter.open
  BY DEF NoIter
<1>3. 0 <= Len(rows)
  BY DEF TableInv, File
<1> QED BY <1>1, <1>2, <1>3 DEF TableInv, IterFits

\* Every step
LEMMA NextStep ==
  ASSUME TableAssumption, ~Mixed, TableInv, [Next]_vars
  PROVE  TableInv'
<1>1. ASSUME NEW k \in Keys, Lookup(k) PROVE TableInv'
  BY <1>1, LookupStep
<1>2. ASSUME NEW k \in Keys, Write(k) PROVE TableInv'
  BY <1>2, WriteStep
<1>3. ASSUME NEW k \in Keys, Delete(k) PROVE TableInv'
  BY <1>3, DeleteStep
<1>4. ASSUME NEW k \in Keys, NEW new \in Keys, Rename(k, new) PROVE TableInv'
  BY <1>4, RenameStep
<1>5. CASE OtherHandle
  BY <1>5, OtherHandleStep
<1>6. CASE IterOpen
  BY <1>6, IterOpenStep
<1>7. CASE IterNext
  BY <1>7, IterNextStep
<1>8. CASE IterClose
  BY <1>8, IterCloseStep
<1>9. CASE UNCHANGED vars
  BY <1>9 DEF vars, TableInv, IterFits
<1> QED BY <1>1, <1>2, <1>3, <1>4, <1>5, <1>6, <1>7, <1>8, <1>9 DEF Next

\* The invariant holds as long as only yielded keys are looked up during an
\* iteration.  Without that a row that a lookup entered is entered again by an
\* iteration that started on an empty table.
THEOREM TableAlways == ASSUME ~Mixed PROVE Spec => []TableInv
<1>1. Init => TableInv
  BY TableAssumption, InitInv DEF TableAssumption
<1>2. TableInv /\ [Next]_vars => TableInv'
  BY TableAssumption, NextStep DEF TableAssumption
<1> QED BY <1>1, <1>2, PTL DEF Spec

-----------------------------------------------------------------------------
(* What the invariant gives *)

\* Each key is in the file once, and the cache keeps its limit, which is the
\* sequence of cached entries after every get_both, set and pop.
THEOREM TypeCorrect == ASSUME ~Mixed PROVE Spec => []TypeOK
<1>1. TableInv => TypeOK
  <2> SUFFICES ASSUME TableInv PROVE TypeOK
    OBVIOUS
  <2>1. rows \in Seq(Keys) /\ IsInjective(rows) /\ Len(rows) \in Nat /\ changes \in 0 .. MaxChanges
    BY DEF TableInv, File
  <2>2. /\ table.entries \in Seq(Entries) /\ table.size \in Nat
        /\ table.cache \in Seq(Entries) /\ Len(table.cache) <= table.limit
    BY DEF TableInv, Fits, Tables
  <2>3. iter.row \in Nat /\ iter.row <= Len(rows)
    BY DEF TableInv
  <2>4. iter.row \in 0 .. Len(rows)
    BY <2>1, <2>3
  <2> QED BY <2>1, <2>2, <2>4 DEF TypeOK
<1> QED BY <1>1, TableAlways, PTL

\* get_both answers as the file would, whatever part of the file the table knows.
THEOREM LookupsAsInFile == ASSUME ~Mixed PROVE Spec => []LookupsRight
<1>1. TableInv => LookupsRight
  <2> SUFFICES ASSUME TableInv, NEW k \in Keys PROVE Get(table, rows, k).row = RowOf(rows, k)
    BY DEF LookupsRight
  <2>1. File(rows) /\ Fits(table, Pairs(rows)) /\ TableAssumption
    BY TableAssumption DEF TableInv, TableAssumption
  <2> QED BY <2>1, GetFits
<1> QED BY <1>1, TableAlways, PTL

-----------------------------------------------------------------------------
(* The items in the order of their rows *)

\* The first m records of a file
FirstRows(fs, m) == [r \in 1 .. m |-> <<fs[r], r>>]

\* The entries that wait when the rows in seen have come and p is the next row
Waiting(fs, seen, p) == {<<fs[r], r>> : r \in {q \in seen : q > p}}

\* The state of the loop of sorted_key_table_items when p is the next row
Sorting(fs, seen, p) ==
  [row |-> p, lut |-> Waiting(fs, seen, p), out |-> FirstRows(fs, p - 1)]

\* What the loop keeps: p is the first row that has not
\* come, the rows before it were yielded, and those behind it wait.
SortedUpTo(acc, fs, n, seen) ==
  \E p \in 1 .. n + 1 :
    /\ p \notin seen /\ 1 .. p - 1 \subseteq seen
    /\ acc = Sorting(fs, seen, p)

\* Nothing waits: nothing is put in order.
LEMMA NoneInOrder == InRowOrder({}) = <<>>
<1>1. Cardinality({}) = 0 /\ 1 .. 0 = {}
  BY FS_EmptySet
<1> DEFINE s == InRowOrder({})
<1>2. s = [i \in 1 .. 0 |-> s[i]]
  BY <1>1 DEF InRowOrder
<1> HIDE DEF s
<1>3. s = <<>>
  BY <1>1, <1>2
<1> QED BY <1>3 DEF s

\* The first records, one more, and those that waited behind it
LEMMA RowsJoined ==
  ASSUME NEW fs, NEW p \in Nat \ {0}, NEW m \in Nat, p < m
  PROVE  Append(FirstRows(fs, p - 1), <<fs[p], p>>) \o [i \in 1 .. m - p - 1 |-> <<fs[p + i], p + i>>]
           = FirstRows(fs, m - 1)
<1> DEFINE V == {<<fs[r], r>> : r \in Nat}
           a == FirstRows(fs, p - 1)
           e == <<fs[p], p>>
           b == Append(a, e)
           c == [i \in 1 .. m - p - 1 |-> <<fs[p + i], p + i>>]
           d == FirstRows(fs, m - 1)
<1>1. /\ a \in Seq(V) /\ Len(a) = p - 1 /\ \A r \in 1 .. p - 1 : a[r] = <<fs[r], r>>
      /\ e \in V
  <2>1. a = [r \in 1 .. p - 1 |-> <<fs[r], r>>]
    BY DEF FirstRows
  <2>2. \A r \in 1 .. p - 1 : <<fs[r], r>> \in V
    OBVIOUS
  <2>3. p - 1 \in Nat /\ e \in V
    OBVIOUS
  <2> HIDE DEF a, V
  <2>4. a \in Seq(V)
    BY <2>1, <2>2, <2>3
  <2> QED BY <2>1, <2>3, <2>4
<1>2. c \in Seq(V) /\ Len(c) = m - p - 1 /\ \A i \in 1 .. m - p - 1 : c[i] = <<fs[p + i], p + i>>
  <2>1. \A i \in 1 .. m - p - 1 : <<fs[p + i], p + i>> \in V
    OBVIOUS
  <2>2. m - p - 1 \in Nat
    OBVIOUS
  <2> HIDE DEF V
  <2> QED BY <2>1, <2>2
<1>3. d \in Seq(V) /\ Len(d) = m - 1 /\ \A r \in 1 .. m - 1 : d[r] = <<fs[r], r>>
  <2>1. d = [r \in 1 .. m - 1 |-> <<fs[r], r>>]
    BY DEF FirstRows
  <2>2. \A r \in 1 .. m - 1 : <<fs[r], r>> \in V
    OBVIOUS
  <2>3. m - 1 \in Nat
    OBVIOUS
  <2> HIDE DEF d, V
  <2> QED BY <2>1, <2>2, <2>3
<1> HIDE DEF a, c, d, V
<1>4. b \in Seq(V) /\ Len(b) = p /\ \A r \in 1 .. p : b[r] = <<fs[r], r>>
  <2>1. b \in Seq(V) /\ Len(b) = p
    BY <1>1
  <2>2. b[p] = e /\ \A r \in 1 .. p - 1 : b[r] = a[r]
    BY <1>1
  <2> HIDE DEF b
  <2>3. ASSUME NEW r \in 1 .. p PROVE b[r] = <<fs[r], r>>
    <3>1. CASE r = p
      BY <2>2, <3>1
    <3>2. CASE r # p
      <4>1. r \in 1 .. p - 1
        BY <3>2
      <4> QED BY <1>1, <2>2, <4>1
    <3> QED BY <3>1, <3>2
  <2> QED BY <2>1, <2>3
<1> HIDE DEF b
<1>5. /\ b \o c \in Seq(V) /\ Len(b \o c) = m - 1
      /\ \A r \in 1 .. m - 1 : (b \o c)[r] = IF r <= p THEN b[r] ELSE c[r - p]
  <2>1. /\ b \o c \in Seq(V) /\ Len(b \o c) = Len(b) + Len(c)
        /\ \A r \in 1 .. Len(b) + Len(c) : (b \o c)[r] = IF r <= Len(b) THEN b[r] ELSE c[r - Len(b)]
    BY <1>2, <1>4, ConcatProperties
  <2>2. Len(b) + Len(c) = m - 1
    BY <1>2, <1>4
  <2> QED BY <1>4, <2>1, <2>2
<1>6. ASSUME NEW r \in 1 .. m - 1 PROVE (b \o c)[r] = d[r]
  <2>1. CASE r <= p
    <3>1. r \in 1 .. p
      BY <2>1
    <3> QED BY <1>3, <1>4, <1>5, <2>1, <3>1
  <2>2. CASE ~(r <= p)
    <3>1. r - p \in 1 .. m - p - 1 /\ p + (r - p) = r
      BY <2>2
    <3> QED BY <1>2, <1>3, <1>5, <2>2, <3>1
  <2> QED BY <2>1, <2>2
<1> DEFINE s == b \o c
<1>7. s \in Seq(V) /\ Len(s) = Len(d) /\ \A r \in 1 .. Len(s) : s[r] = d[r]
  BY <1>3, <1>5, <1>6
<1> HIDE DEF s
<1>8. s = d
  BY <1>3, <1>7, SeqEqual
<1> QED BY <1>8 DEF s, b, c, d, a

\* An entry that does not come next waits.
LEMMA SortWaits ==
  ASSUME NEW fs, NEW n \in Nat, NEW seen \in SUBSET (1 .. n), NEW p \in 1 .. n + 1,
         1 .. p - 1 \subseteq seen, NEW q \in 1 .. n, q \notin seen, q # p
  PROVE  SortStep(Sorting(fs, seen, p), <<fs[q], q>>, n) = Sorting(fs, seen \cup {q}, p)
<1> DEFINE out == FirstRows(fs, p - 1)
           lut == Waiting(fs, seen, p)
           acc == [row |-> p, lut |-> lut, out |-> out]
           e == <<fs[q], q>>
<1>1. q > p
  <2> SUFFICES ASSUME ~(q > p) PROVE FALSE
    OBVIOUS
  <2>1. q \in 1 .. p - 1
    OBVIOUS
  <2> QED BY <2>1
<1>2. {f \in lut : f[2] # q} = lut
  <2> SUFFICES ASSUME NEW f \in lut PROVE f[2] # q
    OBVIOUS
  <2>1. PICK r \in {x \in seen : x > p} : f = <<fs[r], r>>
    BY DEF Waiting
  <2> QED BY <2>1
<1>3. Waiting(fs, seen \cup {q}, p) = lut \cup {e}
  BY <1>1 DEF Waiting
<1>4. e[2] = q /\ acc.row = p /\ acc.lut = lut
  OBVIOUS
<1>5. SortStep(acc, e, n) = [acc EXCEPT !.lut = {f \in @ : f[2] # e[2]} \cup {e}]
  <2>1. e[2] = acc.row <=> q = p
    BY <1>4
  <2>2. e[2] \in 1 .. n
    BY <1>4
  <2> HIDE DEF acc, e
  <2> QED BY <2>1, <2>2 DEF SortStep
<1>6. [acc EXCEPT !.lut = {f \in @ : f[2] # e[2]} \cup {e}] = [row |-> p, lut |-> lut \cup {e}, out |-> out]
  <2>1. {f \in acc.lut : f[2] # e[2]} = lut
    BY <1>2, <1>4
  <2> HIDE DEF lut, e, out
  <2>2. [acc EXCEPT !.lut = lut \cup {e}] = [row |-> p, lut |-> lut \cup {e}, out |-> out]
    OBVIOUS
  <2> HIDE DEF acc
  <2>3. [acc EXCEPT !.lut = {f \in @ : f[2] # e[2]} \cup {e}] = [acc EXCEPT !.lut = lut \cup {e}]
    BY <2>1
  <2> QED BY <2>2, <2>3
<1>7. acc = Sorting(fs, seen, p)
  BY DEF Sorting
<1>8. Sorting(fs, seen \cup {q}, p) = [row |-> p, lut |-> lut \cup {e}, out |-> out]
  BY <1>3 DEF Sorting
<1> QED BY <1>5, <1>6, <1>7, <1>8

\* After the entry of row p, which comes next, row m is the next
Yielded(fs, n, seen, p, m) ==
  /\ m \notin seen /\ p + 1 .. m - 1 \subseteq seen
  /\ SortStep(Sorting(fs, seen, p), <<fs[p], p>>, n) = Sorting(fs, seen \cup {p}, m)

\* The entry that comes next is yielded, with all that waited for it.
LEMMA SortYields ==
  ASSUME NEW fs, NEW n \in Nat, NEW seen \in SUBSET (1 .. n), NEW p \in 1 .. n,
         p \notin seen, 1 .. p - 1 \subseteq seen
  PROVE  \E m \in p + 1 .. n + 1 : Yielded(fs, n, seen, p, m)
<1> DEFINE lut == Waiting(fs, seen, p)
           acc == [row |-> p, lut |-> lut, out |-> FirstRows(fs, p - 1)]
           e == <<fs[p], p>>
           waits(q) == \E f \in lut : f[2] = q
           ends(q) == ~waits(q) /\ \A x \in p + 1 .. q - 1 : waits(x)
           m == CHOOSE q \in p + 1 .. n + 1 : ends(q)
           later == {f \in lut : f[2] \notin p + 1 .. m - 1}
           tail == [i \in 1 .. m - p - 1 |-> CHOOSE f \in lut : f[2] = p + i]
<1>1. \A f \in lut : f[2] \in seen /\ f[2] > p /\ f = <<fs[f[2]], f[2]>>
  BY DEF Waiting
<1>2. \A r \in seen : r > p => <<fs[r], r>> \in lut
  BY DEF Waiting
<1>3. \A q \in Nat : q > p => (waits(q) <=> q \in seen)
  <2> SUFFICES ASSUME NEW q \in Nat, q > p PROVE waits(q) <=> q \in seen
    OBVIOUS
  <2>1. waits(q) => q \in seen
    BY <1>1
  <2>2. q \in seen => <<fs[q], q>> \in lut /\ <<fs[q], q>>[2] = q
    BY <1>2
  <2> QED BY <2>1, <2>2
<1> HIDE DEF lut, waits
<1>4. \E q \in p + 1 .. n + 1 : ends(q)
  <2> DEFINE S == {q \in p + 1 .. n + 1 : q \notin seen}
  <2>1. n + 1 \in S /\ S \subseteq Nat
    OBVIOUS
  <2> HIDE DEF S
  <2>2. PICK q \in S : \A x \in S : q <= x
    BY <2>1, SmallestIs
  <2>3. q \in p + 1 .. n + 1 /\ q \notin seen /\ \A x \in p + 1 .. n + 1 : x \notin seen => q <= x
    BY <2>2 DEF S
  <2>4. ~waits(q)
    BY <1>3, <2>3
  <2>5. \A x \in p + 1 .. q - 1 : waits(x)
    BY <1>3, <2>3
  <2> QED BY <2>3, <2>4, <2>5
<1>5. m \in p + 1 .. n + 1 /\ ends(m)
  <2> HIDE DEF ends
  <2> QED BY <1>4
<1> HIDE DEF m
<1>6. m \in Nat /\ m > p /\ m \notin seen
  BY <1>3, <1>5
<1>7. p + 1 .. m - 1 \subseteq seen
  BY <1>3, <1>5
<1>8. later = Waiting(fs, seen \cup {p}, m)
  <2>1. ASSUME NEW f \in later PROVE f \in Waiting(fs, seen \cup {p}, m)
    <3>1. f[2] \in seen /\ f[2] > p /\ f = <<fs[f[2]], f[2]>> /\ f[2] \notin p + 1 .. m - 1
      BY <1>1
    <3> DEFINE r == f[2]
    <3>a. r \in seen /\ r > p /\ r \notin p + 1 .. m - 1
      BY <3>1
    <3> HIDE DEF r
    <3>2. r \in seen /\ r > p /\ r \notin p + 1 .. m - 1 /\ r \in Nat
      BY <3>a
    <3>3. r > m
      BY <1>6, <3>2
    <3> QED BY <3>1, <3>2, <3>3 DEF Waiting, r
  <2>2. ASSUME NEW f \in Waiting(fs, seen \cup {p}, m) PROVE f \in later
    <3>1. PICK r \in {q \in seen \cup {p} : q > m} : f = <<fs[r], r>>
      BY <2>2 DEF Waiting
    <3>2. r \in seen /\ r > p /\ r \notin p + 1 .. m - 1
      BY <1>6, <3>1
    <3> QED BY <1>2, <3>1, <3>2
  <2> QED BY <2>1, <2>2
<1>9. tail = [i \in 1 .. m - p - 1 |-> <<fs[p + i], p + i>>]
  <2> SUFFICES ASSUME NEW i \in 1 .. m - p - 1
               PROVE  (CHOOSE f \in lut : f[2] = p + i) = <<fs[p + i], p + i>>
    OBVIOUS
  <2> DEFINE r == p + i
  <2>1. r \in seen /\ r > p
    BY <1>6, <1>7
  <2> HIDE DEF r
  <2>2. <<fs[r], r>> \in lut /\ <<fs[r], r>>[2] = r
    BY <1>2, <2>1
  <2>3. \A f \in lut : f[2] = r => f = <<fs[r], r>>
    BY <1>1
  <2>4. (CHOOSE f \in lut : f[2] = r) = <<fs[r], r>>
    BY <2>2, <2>3
  <2> QED BY <2>4 DEF r
<1>10. Append(FirstRows(fs, p - 1), e) \o tail = FirstRows(fs, m - 1)
  <2>1. p \in Nat \ {0}
    OBVIOUS
  <2> QED BY <1>6, <1>9, <2>1, RowsJoined
<1>11. SortStep(acc, e, n) = [row |-> m, lut |-> later, out |-> Append(FirstRows(fs, p - 1), e) \o tail]
  <2>1. e[2] = p
    OBVIOUS
  <2> HIDE DEF e
  <2> QED BY <2>1 DEF SortStep, m, waits
<1> HIDE DEF later, tail
<1>12. SortStep(acc, e, n) = Sorting(fs, seen \cup {p}, m)
  BY <1>8, <1>10, <1>11 DEF Sorting
<1>13. acc = Sorting(fs, seen, p)
  BY DEF Sorting, lut
<1> HIDE DEF acc
<1>14. SortStep(Sorting(fs, seen, p), <<fs[p], p>>, n) = Sorting(fs, seen \cup {p}, m)
  BY <1>12, <1>13
<1> QED BY <1>5, <1>6, <1>7, <1>14 DEF Yielded

\* A step of the loop keeps what the loop keeps.
LEMMA SortStepFits ==
  ASSUME NEW fs, NEW n \in Nat, NEW seen \in SUBSET (1 .. n),
         NEW acc, SortedUpTo(acc, fs, n, seen), NEW q \in 1 .. n, q \notin seen
  PROVE  SortedUpTo(SortStep(acc, <<fs[q], q>>, n), fs, n, seen \cup {q})
<1>1. PICK p \in 1 .. n + 1 : p \notin seen /\ 1 .. p - 1 \subseteq seen /\ acc = Sorting(fs, seen, p)
  BY DEF SortedUpTo
<1> DEFINE new == SortStep(acc, <<fs[q], q>>, n)
           now == seen \cup {q}
<1>2. CASE q # p
  <2>1. SortStep(Sorting(fs, seen, p), <<fs[q], q>>, n) = Sorting(fs, now, p)
    BY <1>1, <1>2, SortWaits
  <2>2. p \notin now /\ 1 .. p - 1 \subseteq now
    BY <1>1, <1>2
  <2>3. new = Sorting(fs, now, p)
    BY <1>1, <2>1
  <2> HIDE DEF new, now
  <2>4. SortedUpTo(new, fs, n, now)
    BY <2>2, <2>3 DEF SortedUpTo
  <2> QED BY <2>4 DEF new, now
<1>3. CASE q = p
  <2>1. p \in 1 .. n /\ p \notin seen /\ 1 .. p - 1 \subseteq seen
    BY <1>1, <1>3
  <2>a. PICK m \in p + 1 .. n + 1 : Yielded(fs, n, seen, p, m)
    BY <2>1, SortYields
  <2>2. /\ m \notin seen /\ p + 1 .. m - 1 \subseteq seen
        /\ SortStep(Sorting(fs, seen, p), <<fs[p], p>>, n) = Sorting(fs, seen \cup {p}, m)
    BY <2>a DEF Yielded
  <2>3. new = Sorting(fs, now, m)
    BY <1>1, <1>3, <2>2
  <2>4. m \in 1 .. n + 1 /\ m \notin now
    BY <1>3, <2>1, <2>2
  <2>5. 1 .. m - 1 \subseteq now
    <3> SUFFICES ASSUME NEW r \in 1 .. m - 1 PROVE r \in now
      OBVIOUS
    <3>1. r \in 1 .. p - 1 \/ r = p \/ r \in p + 1 .. m - 1
      BY <2>1, <2>2
    <3> QED BY <1>1, <1>3, <2>2, <3>1
  <2> HIDE DEF new, now
  <2>6. SortedUpTo(new, fs, n, now)
    BY <2>3, <2>4, <2>5 DEF SortedUpTo
  <2> QED BY <2>6 DEF new, now
<1> QED BY <1>2, <1>3

\* What the loop starts with
SortStart == [row |-> 1, lut |-> {}, out |-> <<>>]

\* The states of the loop over the first m of the items s, for a file of n records
Sorts(g, s, n, m) ==
  g = [i \in 0 .. m |-> IF i = 0 THEN SortStart ELSE SortStep(g[i - 1], s[i], n)]

\* There are such states.
LEMMA SortsExist ==
  ASSUME NEW s, NEW n, NEW m \in Nat
  PROVE  \E g : Sorts(g, s, n, m)
<1> DEFINE T == {i \in Nat : ~ \E g : Sorts(g, s, n, i)}
<1>1. SUFFICES ASSUME T # {} PROVE FALSE
  OBVIOUS
<1>2. PICK i \in T : \A j \in T : i <= j
  <2>1. T \subseteq Nat
    OBVIOUS
  <2> HIDE DEF T
  <2> QED BY <1>1, <2>1, SmallestIs
<1>3. i \in Nat /\ ~ \E g : Sorts(g, s, n, i)
  OBVIOUS
<1>4. CASE i = 0
  <2> DEFINE g == [j \in 0 .. i |-> SortStart]
  <2>1. \A j \in 0 .. i : j = 0
    BY <1>4
  <2>2. g = [j \in 0 .. i |-> IF j = 0 THEN SortStart ELSE SortStep(g[j - 1], s[j], n)]
    BY <2>1
  <2>3. Sorts(g, s, n, i)
    BY <2>2 DEF Sorts
  <2> QED BY <1>3, <2>3
<1>5. CASE i # 0
  <2>1. i - 1 \in Nat /\ ~(i <= i - 1)
    BY <1>3, <1>5
  <2>2. i - 1 \notin T
    BY <1>2, <2>1
  <2>3. PICK g : Sorts(g, s, n, i - 1)
    BY <2>1, <2>2
  <2> DEFINE h == [j \in 0 .. i |-> IF j = i THEN SortStep(g[i - 1], s[i], n) ELSE g[j]]
             body == [j \in 0 .. i |-> IF j = 0 THEN SortStart ELSE SortStep(h[j - 1], s[j], n)]
  <2>4. ASSUME NEW j \in 0 .. i PROVE h[j] = body[j]
    <3>1. CASE j = i
      <4>1. i - 1 \in 0 .. i /\ i - 1 # i
        BY <1>3, <1>5
      <4>2. h[i - 1] = g[i - 1]
        BY <4>1
      <4>3. h[i] = SortStep(g[i - 1], s[i], n)
        BY <3>1
      <4>4. body[i] = SortStep(h[i - 1], s[i], n)
        BY <1>5, <3>1
      <4> QED BY <3>1, <4>2, <4>3, <4>4
    <3>2. CASE j # i
      <4>1. j \in 0 .. i - 1
        BY <1>3, <3>2
      <4>2. h[j] = g[j]
        BY <3>2
      <4>3. g[j] = IF j = 0 THEN SortStart ELSE SortStep(g[j - 1], s[j], n)
        BY <2>3, <4>1 DEF Sorts
      <4>4. CASE j = 0
        BY <4>2, <4>3, <4>4
      <4>5. CASE j # 0
        <5>1. j - 1 \in 0 .. i /\ j - 1 # i
          BY <1>3, <4>1, <4>5
        <5>2. h[j - 1] = g[j - 1]
          BY <5>1
        <5> QED BY <4>2, <4>3, <4>5, <5>2
      <4> QED BY <4>4, <4>5
    <3> QED BY <3>1, <3>2
  <2>5. h = body
    <3> HIDE DEF h, body
    <3>1. h = [j \in 0 .. i |-> h[j]]
      BY DEF h
    <3>2. body = [j \in 0 .. i |-> body[j]]
      BY DEF body
    <3> QED BY <2>4, <3>1, <3>2
  <2>6. Sorts(h, s, n, i)
    BY <2>5 DEF Sorts
  <2> QED BY <1>3, <2>6
<1> QED BY <1>4, <1>5

\* Sequence s has every pair of the file once.
Enumerates(s, fs) ==
  /\ Len(s) \in Nat /\ DOMAIN s = 1 .. Len(s)
  /\ EntriesOf(s) = Pairs(fs)
  /\ \A i, j \in DOMAIN s : s[i] = s[j] => i = j

\* The first records are a sequence.
LEMMA FirstRowsAre ==
  ASSUME NEW fs, NEW m \in Nat
  PROVE  /\ FirstRows(fs, m) \in Seq({<<fs[r], r>> : r \in Nat}) /\ Len(FirstRows(fs, m)) = m
         /\ DOMAIN FirstRows(fs, m) = 1 .. m
         /\ \A r \in 1 .. m : FirstRows(fs, m)[r] = <<fs[r], r>>
<1> DEFINE V == {<<fs[r], r>> : r \in Nat}
           a == FirstRows(fs, m)
<1>1. a = [r \in 1 .. m |-> <<fs[r], r>>]
  BY DEF FirstRows
<1>2. \A r \in 1 .. m : <<fs[r], r>> \in V
  OBVIOUS
<1> HIDE DEF a, V
<1>3. a \in Seq(V)
  BY <1>1, <1>2
<1>4. Len(a) = m /\ DOMAIN a = 1 .. m /\ \A r \in 1 .. m : a[r] = <<fs[r], r>>
  BY <1>1
<1> QED BY <1>3, <1>4 DEF a, V

\* items: every pair of the file once, from the table or from the file
LEMMA ItemsAre ==
  ASSUME NEW fs, File(fs), NEW t, Fits(t, Pairs(fs))
  PROVE  Enumerates(Items(t, fs), fs)
<1> DEFINE n == Len(fs)
<1>1. CASE InSync(t, n)
  <2> DEFINE s == t.entries
  <2>1. s \in Seq(Entries) /\ OneEach(s)
    BY DEF Fits, Tables
  <2>2. EntriesOf(s) = Pairs(fs)
    BY <1>1, CompleteIs
  <2>3. Items(t, fs) = s
    BY <1>1 DEF Items
  <2> HIDE DEF s
  <2>4. Len(s) \in Nat /\ DOMAIN s = 1 .. Len(s)
    BY <2>1
  <2>5. \A i, j \in DOMAIN s : s[i] = s[j] => i = j
    BY <2>1 DEF OneEach
  <2> QED BY <2>2, <2>3, <2>4, <2>5 DEF Enumerates
<1>2. CASE ~InSync(t, n)
  <2> DEFINE s == FirstRows(fs, n)
  <2>1. Items(t, fs) = s
    BY <1>2 DEF Items, FirstRows
  <2>2. n \in Nat /\ DOMAIN fs = 1 .. n
    BY DEF File
  <2>3. Len(s) = n /\ DOMAIN s = 1 .. n /\ \A r \in 1 .. n : s[r] = <<fs[r], r>>
    BY <2>2, FirstRowsAre
  <2> HIDE DEF s, n
  <2>4. EntriesOf(s) = Pairs(fs)
    <3>1. EntriesOf(s) = {s[r] : r \in 1 .. n}
      BY <2>3 DEF EntriesOf
    <3>2. Pairs(fs) = {<<fs[r], r>> : r \in 1 .. n}
      BY <2>2 DEF Pairs
    <3> QED BY <2>3, <3>1, <3>2
  <2>5. \A i, j \in DOMAIN s : s[i] = s[j] => i = j
    BY <2>3
  <2> QED BY <2>1, <2>2, <2>3, <2>4, <2>5 DEF Enumerates
<1> QED BY <1>1, <1>2

\* The rows of the first i items
RowsSeen(s, i) == {s[j][2] : j \in 1 .. i}

\* sorted_key_table_items of a table that fits the file: every record in its row
LEMMA SortedItemsAre ==
  ASSUME NEW fs, File(fs), NEW t, Fits(t, Pairs(fs))
  PROVE  SortedItems(t, fs) = FirstRows(fs, Len(fs))
<1> DEFINE n == Len(fs)
           s == Items(t, fs)
           m == Len(s)
           sorts(g) == g = [i \in 0 .. m |-> IF i = 0 THEN [row |-> 1, lut |-> {}, out |-> <<>>]
                                             ELSE SortStep(g[i - 1], s[i], n)]
           up == CHOOSE g : sorts(g)
           Bad == {i \in 0 .. m : ~SortedUpTo(up[i], fs, n, RowsSeen(s, i))}
<1>1. SortedItems(t, fs) = up[m].out \o InRowOrder(up[m].lut)
  BY DEF SortedItems
<1>2. Enumerates(s, fs)
  BY ItemsAre
<1> HIDE DEF s
<1>3. n \in Nat /\ DOMAIN fs = 1 .. n /\ m \in Nat /\ DOMAIN s = 1 .. m
  BY <1>2 DEF Enumerates, File
<1> HIDE DEF n, m
<1>4. \E g : sorts(g)
  <2>1. \E g : Sorts(g, s, n, m)
    BY <1>3, SortsExist
  <2> QED BY <2>1 DEF Sorts, SortStart
<1>5. sorts(up)
  <2> HIDE DEF sorts
  <2> QED BY <1>4
<1> HIDE DEF up
<1>6. up[0] = [row |-> 1, lut |-> {}, out |-> <<>>]
      /\ \A i \in 1 .. m : up[i] = SortStep(up[i - 1], s[i], n)
  <2>1. \A i \in 0 .. m : up[i] = IF i = 0 THEN [row |-> 1, lut |-> {}, out |-> <<>>]
                                 ELSE SortStep(up[i - 1], s[i], n)
    BY <1>5
  <2>2. 0 \in 0 .. m /\ \A i \in 1 .. m : i \in 0 .. m /\ i # 0
    BY <1>3
  <2>3. up[0] = [row |-> 1, lut |-> {}, out |-> <<>>]
    BY <2>1, <2>2
  <2> QED BY <2>1, <2>2, <2>3
<1> HIDE DEF sorts
<1>7. ASSUME NEW i \in 1 .. m
      PROVE  s[i][2] \in 1 .. n /\ s[i] = <<fs[s[i][2]], s[i][2]>>
  <2>1. s[i] \in Pairs(fs)
    BY <1>2, <1>3 DEF Enumerates, EntriesOf
  <2> QED BY <1>3, <2>1, PairsOne
<1>8. Bad = {}
  <2> SUFFICES ASSUME Bad # {} PROVE FALSE
    OBVIOUS
  <2>1. PICK i \in Bad : \A j \in Bad : i <= j
    <3>1. Bad \subseteq Nat
      BY <1>3
    <3> HIDE DEF Bad
    <3> QED BY <3>1, SmallestIs
  <2>2. i \in 0 .. m /\ ~SortedUpTo(up[i], fs, n, RowsSeen(s, i))
    BY <2>1
  <2>3. i # 0
    <3> SUFFICES SortedUpTo(up[0], fs, n, RowsSeen(s, 0))
      BY <2>2
    <3>1. RowsSeen(s, 0) = {}
      BY DEF RowsSeen
    <3>2. Waiting(fs, {}, 1) = {}
      BY DEF Waiting
    <3>3. FirstRows(fs, 1 - 1) = <<>>
      <4> DEFINE a == FirstRows(fs, 0)
      <4>1. a = [r \in 1 .. 0 |-> <<fs[r], r>>]
        BY DEF FirstRows
      <4> QED BY <4>1
    <3>4. up[0] = Sorting(fs, {}, 1)
      BY <1>6, <3>2, <3>3 DEF Sorting
    <3>5. 1 \in 1 .. n + 1 /\ 1 \notin {} /\ 1 .. 1 - 1 \subseteq {}
      BY <1>3
    <3> QED BY <3>1, <3>4, <3>5 DEF SortedUpTo
  <2>4. i \in 1 .. m /\ i - 1 \in 0 .. m /\ ~(i <= i - 1) /\ i \in Nat
    BY <1>3, <2>2, <2>3
  <2>5. SortedUpTo(up[i - 1], fs, n, RowsSeen(s, i - 1))
    BY <2>1, <2>4
  <2> DEFINE q == s[i][2]
             seen == RowsSeen(s, i - 1)
  <2>6. q \in 1 .. n /\ s[i] = <<fs[q], q>>
    BY <1>7, <2>4
  <2>7. RowsSeen(s, i) = seen \cup {q}
    <3>1. \A j \in 1 .. i : j \in 1 .. i - 1 \/ j = i
      BY <2>4
    <3>2. \A j \in 1 .. i - 1 : j \in 1 .. i
      BY <2>4
    <3>3. i \in 1 .. i
      BY <2>4
    <3> QED BY <3>1, <3>2, <3>3 DEF RowsSeen
  <2>8. \A j \in 1 .. i - 1 : j \in 1 .. m /\ j # i
    BY <1>3, <2>4
  <2>9. seen \in SUBSET (1 .. n) /\ q \notin seen
    <3>1. \A j \in 1 .. i - 1 : s[j][2] \in 1 .. n
      BY <1>7, <2>8
    <3>2. ASSUME NEW j \in 1 .. i - 1, s[j][2] = s[i][2] PROVE FALSE
      <4>1. s[j] = s[i]
        BY <1>7, <2>4, <2>8, <3>2
      <4> QED BY <1>2, <1>3, <2>4, <2>8, <4>1 DEF Enumerates
    <3> QED BY <3>1, <3>2 DEF RowsSeen
  <2> HIDE DEF q, seen
  <2>10. SortedUpTo(SortStep(up[i - 1], <<fs[q], q>>, n), fs, n, seen \cup {q})
    BY <1>3, <2>5, <2>6, <2>9, SortStepFits DEF seen
  <2>11. up[i] = SortStep(up[i - 1], <<fs[q], q>>, n)
    BY <1>6, <2>4, <2>6
  <2> QED BY <2>2, <2>7, <2>10, <2>11
<1>9. RowsSeen(s, m) = 1 .. n
  <2>1. ASSUME NEW r \in 1 .. n PROVE r \in RowsSeen(s, m)
    <3>1. <<fs[r], r>> \in EntriesOf(s) /\ <<fs[r], r>>[2] = r
      BY <1>2, <1>3 DEF Enumerates, Pairs
    <3>2. PICK i \in 1 .. m : <<fs[r], r>> = s[i]
      BY <1>3, <3>1 DEF EntriesOf
    <3> QED BY <3>1, <3>2 DEF RowsSeen
  <2> QED BY <1>7, <2>1 DEF RowsSeen
<1>10. SortedUpTo(up[m], fs, n, 1 .. n)
  BY <1>3, <1>8, <1>9
<1>11. PICK p \in 1 .. n + 1 : p \notin 1 .. n /\ up[m] = Sorting(fs, 1 .. n, p)
  BY <1>10 DEF SortedUpTo
<1>12. p = n + 1 /\ p - 1 = n
  BY <1>3, <1>11
<1>13. Waiting(fs, 1 .. n, p) = {}
  BY <1>3, <1>12 DEF Waiting
<1>14. up[m].lut = {} /\ up[m].out = FirstRows(fs, n)
  BY <1>11, <1>12, <1>13 DEF Sorting
<1>15. FirstRows(fs, n) \o <<>> = FirstRows(fs, n)
  <2> DEFINE V == {<<fs[r], r>> : r \in Nat}
             a == FirstRows(fs, n)
  <2>1. a \in Seq(V)
    BY <1>3, FirstRowsAre
  <2> HIDE DEF a, V
  <2>2. a \o <<>> = a
    BY <2>1
  <2> QED BY <2>2 DEF a
<1> QED BY <1>1, <1>14, <1>15, NoneInOrder DEF n

\* size counts the entries, of which no two are the same, and iterating over the
\* table in the order of the rows gives the records of the file: the number of
\* the entries is a proof of completeness.
THEOREM TableAsFile == ASSUME ~Mixed PROVE Spec => []TableAccurate
<1>1. TableInv => TableAccurate
  <2> SUFFICES ASSUME TableInv PROVE TableAccurate
    OBVIOUS
  <2>1. File(rows) /\ Fits(table, Pairs(rows))
    BY DEF TableInv
  <2>2. SizeCounts
    <3> DEFINE s == table.entries
    <3>1. table.size = Len(s) /\ OneEach(s)
      BY <2>1 DEF Fits
    <3> HIDE DEF s
    <3>2. \A i, j \in DOMAIN s : i # j => s[i] # s[j]
      BY <3>1 DEF OneEach
    <3> QED BY <3>1, <3>2 DEF SizeCounts, s
  <2>3. SortedByRow
    <3>1. SortedItems(table, rows) = FirstRows(rows, Len(rows))
      BY <2>1, SortedItemsAre
    <3> QED BY <3>1 DEF SortedByRow, FirstRows
  <2> QED BY <2>2, <2>3 DEF TableAccurate
<1> QED BY <1>1, TableAlways, PTL
=============================================================================
