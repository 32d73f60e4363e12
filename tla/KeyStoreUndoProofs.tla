------------------------- MODULE KeyStoreUndoProofs -------------------------
(***************************************************************************)
(* Proofs about KeyStoreUndo: in a session whose calls carry REVERT the    *)
(* value a key had at the start of the session is never lost, and every    *)
(* version that undo finds was once a value of its key.                    *)
(***************************************************************************)
EXTENDS KeyStoreUndo, KeyStoreProofs

-----------------------------------------------------------------------------
(* Versions are genuine *)

\* The values of the keys and the versions were all values of their keys.
Genuine ==
  /\ \A k \in Keys : Exists(k) => <<k, Value(k)>> \in had
  /\ Versions \subseteq had

LEMMA GenuineStep ==
  ASSUME Inv, Genuine, [UNext]_uvars
  PROVE  Inv' /\ Genuine'
<1>1. CASE UNCHANGED uvars
  <2>1. UNCHANGED vars /\ had' = had
    BY <1>1 DEF uvars
  <2>2. Inv'
    BY <2>1, QuietStep
  <2>3. \A k \in Keys : Value(k)' = Value(k) /\ Exists(k)' = Exists(k)
    BY <2>1, QuietStep DEF vars, Exists
  <2>4. Versions' = Versions
    BY <2>1, QuietStep
  <2>5. Genuine'
    BY <2>1, <2>3, <2>4 DEF Genuine
  <2> QED BY <2>2, <2>5
<1>2. CASE UNext
  <2>1. Next /\ had' = had \cup {<<k, Value(k)'>> : k \in {l \in Keys : Exists(l)'}}
    BY <1>2 DEF UNext
  <2>2. Inv' /\ [Dict!Next]_<<View, Versions>>
    BY <2>1, NextStep
  <2>3. ASSUME NEW k \in Keys, Exists(k)' PROVE <<k, Value(k)'>> \in had'
    BY <2>1, <2>3
  <2>4. Versions' \subseteq had'
    <3>1. CASE UNCHANGED <<View, Versions>>
      BY <2>1, <3>1 DEF Genuine
    <3>2. CASE Dict!Next
      <4>1. PICK k \in Keys :
              \/ Versions' \in SUBSET (Versions \cup ({k} \X ({View[k]} \ {NoVal})))
              \/ Versions' = Versions
        BY <3>2 DEF Dict!Next, Dict!Set, Dict!Delete, Dict!Undo, Dict!Rename, Dict!Forgets, View
      <4>2. View[k] = Value(k)
        BY DEF View
      <4>3. Value(k) # NoVal => <<k, Value(k)>> \in had
        BY DEF Genuine, Value
      <4> QED BY <2>1, <4>1, <4>2, <4>3 DEF Genuine
    <3> QED BY <2>2, <3>1, <3>2
  <2> QED BY <2>2, <2>3, <2>4 DEF Genuine
<1> QED BY <1>1, <1>2

\* No parked version decodes to a value that its key never had, whatever the
\* calls and flags: history, f_undelete and f_unwrite show the past as it was.
THEOREM VersionsAreGenuine == USpec => []VersionsGenuine
<1>1. UInit => Inv /\ Genuine
  <2> SUFFICES ASSUME UInit PROVE Inv /\ Genuine
    OBVIOUS
  <2>1. Inv
    BY InitInv DEF UInit
  <2>2. ASSUME NEW k \in Keys PROVE ~Exists(k)
    <3>1. n_records = 0 /\ key_table[k] = MaxRows
      BY DEF UInit, Init, NoRow
    <3> QED BY <3>1, StoreBounds DEF Exists
  <2>3. Versions = {}
    BY DEF UInit, Init, Versions
  <2> QED BY <2>1, <2>2, <2>3 DEF Genuine
<1>2. Inv /\ Genuine /\ [UNext]_uvars => (Inv /\ Genuine)'
  BY GenuineStep
<1>3. Genuine => VersionsGenuine
  BY DEF Genuine, VersionsGenuine
<1> QED BY <1>1, <1>2, <1>3, PTL DEF USpec

-----------------------------------------------------------------------------
(* The start of the session is kept *)

\* Every call carries REVERT and goes to records that allow it, and none of the
\* calls is one that REVERT does not cover: f_append writes without it, f_unwrite
\* exchanges versions and f_rename gives the row to another key.
RevertOnly ==
  /\ Reverts = {TRUE} /\ NoRevert = {} /\ ~Again
  /\ Ops \cap {"append", "unwrite", "rename"} = {}

\* The value at the start of the session is parked in the SAFE region.
SafeParked(l) == \E r \in Parked(l, SafeLine) : Decode(index.rows[r]) = start[l]

\* A key that is not in chg_keys may have its start only as its value; from then
\* on Overwrite destroys what the record holds, so that it must be parked.
Shielded(l) ==
  \/ start[l] = NoVal
  \/ l \notin chg_keys /\ Value(l) = start[l]
  \/ SafeParked(l)

\* safe_line may not fall behind the records: f_delete leaves it where it is and
\* relies on it to cover the row that it frees.
InvStart ==
  open => safe_line >= n_records /\ \A l \in Keys : Shielded(l)

\* What the SAFE region holds for key l is still there after the step.
Stays(l) ==
  \A s \in Parked(l, SafeLine) :
    \E r \in n_records' .. SafeLine' - 1 : index'.rows[r] = index.rows[s] /\ Same(s)

LEMMA InRange ==
  ASSUME NEW a \in Nat, NEW b \in Nat, NEW s \in Nat, s >= a, s < b
  PROVE  s \in a .. b - 1
OBVIOUS

LEMMA SafeRow ==
  ASSUME Inv, NEW l \in Keys, NEW s \in Parked(l, SafeLine)
  PROVE  /\ s \in n_records .. SafeLine - 1 /\ s \in 0 .. n_lines - 1 /\ s \in RowIds
         /\ index.rows[s].key = l /\ SafeLine \in n_records .. n_lines
<1>1. SafeLine \in n_records .. n_lines /\ n_records \in Nat /\ n_lines \in Nat
      /\ 0 .. n_lines - 1 \subseteq RowIds
  BY Lines, Basics DEF Inv
<1>2. s \in n_records .. SafeLine - 1 /\ index.rows[s].key = l
  BY DEF Parked
<1> QED BY <1>1, <1>2

\* A row of a key that is kept decodes to what it did.
LEMMA DecodesAs ==
  ASSUME Inv, NEW s \in 0 .. n_lines - 1, index.rows[s].key \in Keys, Same(s),
         NEW r, index'.rows[r] = index.rows[s]
  PROVE  Decode(index.rows[r])' = Decode(index.rows[s])
<1>1. DecodeIn(index.rows[s], val') = DecodeIn(index.rows[s], val)
  BY SameWhole
<1> QED BY <1>1 DEF Decode, DecodeIn

LEMMA StaysParked ==
  ASSUME Inv, NEW l \in Keys, SafeParked(l), Stays(l), start' = start
  PROVE  SafeParked(l)'
<1>1. PICK s \in Parked(l, SafeLine) : Decode(index.rows[s]) = start[l]
  BY DEF SafeParked
<1>2. PICK r \in n_records' .. SafeLine' - 1 : index'.rows[r] = index.rows[s] /\ Same(s)
  BY DEF Stays
<1>3. s \in 0 .. n_lines - 1 /\ index.rows[s].key = l
  BY SafeRow
<1>4. Decode(index.rows[r])' = start[l]
  BY <1>1, <1>2, <1>3, DecodesAs
<1>5. r \in Parked(l, SafeLine)'
  BY <1>2, <1>3 DEF Parked
<1> QED BY <1>4, <1>5 DEF SafeParked

\* A key that the step does not name keeps its shield.
LEMMA OthersShielded ==
  ASSUME Inv, NEW k \in Keys, Keeps({k}), NEW l \in Keys, l # k, Shielded(l), Stays(l),
         start' = start, chg_keys' \subseteq chg_keys \cup {k}
  PROVE  Shielded(l)'
<1>1. Value(l)' = Value(l)
  BY KeepsValues
<1>2. SafeParked(l) => SafeParked(l)'
  BY StaysParked
<1> QED BY <1>1, <1>2 DEF Shielded

\* One that it names has its start parked, or takes it back.
LEMMA StepShields ==
  ASSUME Inv, NEW k \in Keys, Keeps({k}), \A l \in Keys : Shielded(l) /\ (l # k => Stays(l)),
         start' = start, chg_keys' \subseteq chg_keys \cup {k}, safe_line' >= n_records',
         Shielded(k)'
  PROVE  InvStart'
<1>1. ASSUME NEW l \in Keys PROVE Shielded(l)'
  BY OthersShielded
<1> QED BY <1>1 DEF InvStart

\* Overwrite touches records only, and one whose start is parked.
LEMMA OverwriteShields ==
  ASSUME Inv, NoRevert = {}, NEW k \in Keys, NEW v \in Vals, NEW rev, rev = TRUE,
         Overwrite(k, v, rev), open, InvStart, start' = start
  PROVE  InvStart'
<1>1. /\ Keeps({k})
      /\ \A r \in n_records .. n_lines - 1 : index'.rows[r] = index.rows[r] /\ Same(r)
  BY OverwriteInv
<1>2. /\ k \in chg_keys
      /\ UNCHANGED <<n_records, n_lines, safe_line, chg_keys>>
  BY DEF Overwrite
<1>3. safe_line >= n_records /\ \A l \in Keys : Shielded(l)
  BY DEF InvStart
<1>4. SafeLine' = SafeLine
  BY <1>2 DEF SafeLine
<1>5. ASSUME NEW l \in Keys PROVE Stays(l)
  <2>1. ASSUME NEW s \in Parked(l, SafeLine)
        PROVE  \E r \in n_records' .. SafeLine' - 1 : index'.rows[r] = index.rows[s] /\ Same(s)
    <3>1. s \in n_records .. SafeLine - 1 /\ s \in 0 .. n_lines - 1 /\ n_records \in Nat
      BY SafeRow, Basics DEF Inv
    <3>2. s \in n_records .. n_lines - 1
      BY <3>1, Basics DEF Inv
    <3> QED BY <1>1, <1>2, <1>4, <3>1, <3>2
  <2> QED BY <2>1 DEF Stays
<1>6. Shielded(k)'
  BY <1>2, <1>3, <1>5, StaysParked DEF Shielded
<1> QED BY <1>1, <1>2, <1>3, <1>5, <1>6, StepShields

\* The search for space starts at the end of the SAFE region or behind it.
LEMMA StartsBehind ==
  ASSUME TypeOK, NEW rev \in BOOLEAN, rev = TRUE
  PROVE  /\ StartLine(rev) \in n_records .. n_lines /\ StartLine(rev) \in Nat
         /\ SafeLine \in n_records .. n_lines /\ SafeLine \in Nat
         /\ SafeLine <= StartLine(rev)
BY CallAssumption DEF TypeOK, StartLine, SafeLine, Smaller, Larger

\* Replace parks the value of a key that is displaced for the first time at the
\* end of the SAFE region; what is parked already is out of reach.
LEMMA ReplaceShields ==
  ASSUME Inv, NEW k \in Keys, NEW v \in Vals, NEW rev \in BOOLEAN, rev = TRUE,
         NEW sp \in BOOLEAN, Replace(k, v, rev, sp), open, InvStart, start' = start
  PROVE  InvStart'
<1>0. PICK row, line : row = key_table[k] /\ line = StartLine(rev)
  OBVIOUS
<1>1. Inv' /\ Keeps({k}) /\ Below(line, row)
  BY <1>0, ReplaceInv
<1>2. /\ Exists(k) /\ n_records' = n_records
      /\ chg_keys' = chg_keys \cup {k}
      /\ safe_line' = IF k \notin chg_keys THEN line + 1 ELSE safe_line
  BY <1>0 DEF Replace, NoteKey
<1>3. safe_line >= n_records /\ \A l \in Keys : Shielded(l)
  BY DEF InvStart
<1>4. /\ line \in n_records .. n_lines /\ line \in Nat
      /\ SafeLine \in n_records .. n_lines /\ SafeLine \in Nat /\ SafeLine <= line
      /\ n_records \in Nat /\ n_lines \in Nat /\ safe_line \in Nat
  BY <1>0, StartsBehind, Basics DEF Inv, TypeOK
<1>5. row \in 0 .. n_records - 1 /\ row \in 0 .. n_lines - 1 /\ index.rows[row].key = k
      /\ Value(k) = DecodeIn(index.rows[row], val)
  BY <1>0, <1>2, RecordRow
<1>6. n_lines' \in Nat
  BY <1>1 DEF Inv, TypeOK
<1>7. /\ n_lines <= n_lines' /\ line < n_lines'
      /\ \A s \in 0 .. line - 1 : Same(s) /\ index'.rows[IF s = row THEN line ELSE s] = index.rows[s]
  BY <1>1 DEF Below
<1>8. /\ n_records' = n_records
      /\ SafeLine' >= SafeLine /\ SafeLine' \in Nat /\ safe_line' >= n_records'
      /\ k \notin chg_keys => line < SafeLine'
  BY <1>2, <1>3, <1>4, <1>6, <1>7 DEF SafeLine, Smaller, Larger
<1>9. ASSUME NEW l \in Keys PROVE Stays(l)
  <2>1. ASSUME NEW s \in Parked(l, SafeLine)
        PROVE  \E r \in n_records' .. SafeLine' - 1 : index'.rows[r] = index.rows[s] /\ Same(s)
    <3>1. s \in n_records .. SafeLine - 1
      BY SafeRow
    <3>2. s \in Nat /\ s >= n_records /\ s < SafeLine
      BY <1>4, <3>1
    <3>3. s \in 0 .. line - 1 /\ s # row
      BY <1>4, <1>5, <3>2
    <3>4. s \in n_records' .. SafeLine' - 1
      <4>1. n_records' \in Nat /\ SafeLine' \in Nat /\ s >= n_records' /\ s < SafeLine'
        BY <1>4, <1>8, <3>2
      <4> QED BY <3>2, <4>1, InRange
    <3> QED BY <1>7, <3>3, <3>4
  <2> QED BY <2>1 DEF Stays
<1>10. Shielded(k)'
  <2>1. CASE start[k] = NoVal \/ SafeParked(k)
    BY <1>9, <2>1, StaysParked DEF Shielded
  <2>2. CASE k \notin chg_keys /\ Value(k) = start[k]
    <3>1. row \in 0 .. line - 1 /\ line \in n_records' .. SafeLine' - 1
      BY <1>2, <1>4, <1>5, <1>8, <2>2
    <3>2. index'.rows[line] = index.rows[row] /\ Same(row)
      BY <1>7, <3>1
    <3>3. Decode(index.rows[line])' = Decode(index.rows[row])
      BY <1>5, <3>2, DecodesAs
    <3>4. Decode(index.rows[row]) = start[k]
      BY <1>5, <2>2 DEF Decode, DecodeIn
    <3>5. index'.rows[line].key = k
      BY <1>5, <3>2
    <3> QED BY <3>1, <3>3, <3>4, <3>5 DEF Shielded, SafeParked, Parked
  <2> QED BY <1>3, <2>1, <2>2 DEF Shielded
<1> QED BY <1>1, <1>2, <1>3, <1>8, <1>9, <1>10, StepShields

\* Add makes room for the record in front of the SAFE region: the row that was
\* there goes to its end.
LEMMA AddShields ==
  ASSUME Inv, NEW k \in Keys, NEW v \in Vals, NEW rev \in BOOLEAN, rev = TRUE,
         NEW sp \in BOOLEAN, Add(k, v, rev, sp), k \notin chg_keys, InvStart, open, start' = start
  PROVE  InvStart'
<1>0. PICK row, line : row = n_records /\ line = StartLine(rev)
  OBVIOUS
<1>1. Inv' /\ Keeps({k}) /\ Below(line, row)
  BY <1>0, AddInv
<1>2. /\ ~Exists(k) /\ n_records' = n_records + 1
      /\ chg_keys' = chg_keys \cup {k}
      /\ safe_line' = line + 1
  BY <1>0 DEF Add
<1>3. safe_line >= n_records /\ \A l \in Keys : Shielded(l)
  BY DEF InvStart
<1>4. /\ line \in n_records .. n_lines /\ line \in Nat
      /\ SafeLine \in n_records .. n_lines /\ SafeLine \in Nat /\ SafeLine <= line
      /\ n_records \in Nat /\ n_lines \in Nat /\ row \in Nat
  BY <1>0, StartsBehind, Basics DEF Inv
<1>5. n_lines' \in Nat
  BY <1>1 DEF Inv, TypeOK
<1>6. /\ n_lines <= n_lines' /\ line < n_lines'
      /\ \A s \in 0 .. line - 1 : Same(s) /\ index'.rows[IF s = row THEN line ELSE s] = index.rows[s]
  BY <1>1 DEF Below
<1>7. /\ n_records' = n_records + 1
      /\ SafeLine' = line + 1 /\ SafeLine' \in Nat /\ safe_line' >= n_records'
  BY <1>2, <1>4, <1>5, <1>6 DEF SafeLine, Smaller, Larger
<1>8. ASSUME NEW l \in Keys PROVE Stays(l)
  <2>1. ASSUME NEW s \in Parked(l, SafeLine)
        PROVE  \E r \in n_records' .. SafeLine' - 1 : index'.rows[r] = index.rows[s] /\ Same(s)
    <3>1. s \in n_records .. SafeLine - 1
      BY SafeRow
    <3>2. s \in Nat /\ s >= n_records /\ s < SafeLine
      BY <1>4, <3>1
    <3>3. PICK r : r = IF s = row THEN line ELSE s
      OBVIOUS
    <3>4. s \in 0 .. line - 1
      BY <1>4, <3>2
    <3>5. n_records' \in Nat /\ r \in Nat /\ r >= n_records' /\ r < SafeLine'
      <4>1. n_records' = n_records + 1 /\ row = n_records /\ SafeLine' = line + 1
        BY <1>0, <1>7
      <4>2. CASE s = row
        BY <1>4, <3>2, <3>3, <4>1, <4>2
      <4>3. CASE s # row
        BY <1>4, <3>2, <3>3, <4>1, <4>3
      <4> QED BY <4>2, <4>3
    <3>6. r \in n_records' .. SafeLine' - 1
      BY <1>7, <3>5, InRange
    <3> QED BY <1>6, <3>3, <3>4, <3>6
  <2> QED BY <2>1 DEF Stays
<1>9. Shielded(k)'
  <2>1. start[k] = NoVal \/ SafeParked(k)
    BY <1>2, <1>3 DEF Shielded, Value
  <2> QED BY <1>8, <2>1, StaysParked DEF Shielded
<1> QED BY <1>1, <1>2, <1>3, <1>7, <1>8, <1>9, StepShields

\* Where a row goes when rows are moved
LEMMA MovedTo ==
  ASSUME Inv, NEW a, NEW b, NEW c, Moves(a, b, c), NEW s \in 0 .. n_lines - 1
  PROVE  /\ Same(s)
         /\ index'.rows[IF s = c THEN a ELSE IF s = b THEN c ELSE IF s = a THEN b ELSE s] = index.rows[s]
<1>1. Same(s)
  BY MovesKeeps
<1>2. /\ a = c => b = a
      /\ Turned(index.rows, index'.rows, n_lines, a, b, c)
      /\ index'.rows[a] = index.rows[c]
  BY DEF Moves
<1>3. /\ a # b => index'.rows[b] = index.rows[a]
      /\ c # a /\ c # b => index'.rows[c] = index.rows[b]
      /\ s \notin {a, b, c} => index'.rows[s] = index.rows[s]
  BY <1>2 DEF Turned
<1>4. CASE s = c
  BY <1>1, <1>2, <1>4
<1>5. CASE s # c /\ s = b
  BY <1>1, <1>2, <1>3, <1>5
<1>6. CASE s # c /\ s # b /\ s = a
  BY <1>1, <1>2, <1>3, <1>6
<1>7. CASE s \notin {a, b, c}
  BY <1>1, <1>3, <1>7
<1> QED BY <1>4, <1>5, <1>6, <1>7

\* The deleted row becomes a row of the SAFE region, at its front or, when a
\* version of the key is parked already, at its end.
LEMMA DeleteShields ==
  ASSUME Inv, NEW k \in Keys, NEW rev \in BOOLEAN, rev = TRUE, Delete(k, rev),
         InvStart, open, start' = start
  PROVE  InvStart'
<1>0. PICK row, last, end : row = key_table[k] /\ last = n_records - 1 /\ end = Behind(k, rev)
  OBVIOUS
<1>1. Inv' /\ Keeps({k}) /\ Moves(last, row, end) /\ Value(k)' = NoVal
  BY <1>0, DeleteInv
<1>2. Exists(k) /\ n_records' = last /\ UNCHANGED <<n_lines, safe_line, chg_keys>>
  BY <1>0 DEF Delete
<1>3. safe_line >= n_records /\ \A l \in Keys : Shielded(l)
  BY DEF InvStart
<1>4. /\ SafeLine \in n_records .. n_lines /\ SafeLine \in Nat
      /\ n_records \in Nat /\ n_lines \in Nat /\ safe_line \in Nat
  BY Lines, Basics DEF Inv, TypeOK
<1>5. /\ row \in 0 .. n_records - 1 /\ row \in 0 .. n_lines - 1 /\ index.rows[row].key = k
      /\ Value(k) = DecodeIn(index.rows[row], val)
  BY <1>0, <1>2, RecordRow
<1>6. last \in Nat /\ last = n_records - 1 /\ row <= last /\ row \in Nat
  BY <1>0, <1>4, <1>5
<1>7. SafeLine' = SafeLine /\ n_records' = last /\ last < SafeLine' /\ safe_line' >= n_records'
  BY <1>2, <1>3, <1>4, <1>6 DEF SafeLine, Smaller, Larger

<1>8. end = row \/ (end = SafeLine - 1 /\ end >= n_records)
  BY <1>0, <1>4, <1>6 DEF Behind
<1>9. ASSUME NEW s \in 0 .. n_lines - 1, s >= n_records \/ s = row, s < SafeLine
      PROVE  \E r \in n_records' .. SafeLine' - 1 : index'.rows[r] = index.rows[s] /\ Same(s)
  <2>1. PICK r : r = IF s = end THEN last ELSE IF s = row THEN end ELSE IF s = last THEN row ELSE s
    OBVIOUS
  <2>2. index'.rows[r] = index.rows[s] /\ Same(s)
    BY <1>1, <2>1, MovedTo
  <2>3. r \in Nat /\ r >= last /\ r < SafeLine
    <3>1. CASE s = end
      BY <1>4, <1>6, <1>7, <2>1, <3>1
    <3>2. CASE s # end /\ s = row
      BY <1>4, <1>6, <1>7, <1>8, <2>1, <3>2
    <3>3. CASE s # end /\ s # row
      BY <1>4, <1>6, <1>7, <1>9, <2>1, <3>3
    <3> QED BY <3>1, <3>2, <3>3
  <2>4. r \in n_records' .. SafeLine' - 1
    BY <1>4, <1>6, <1>7, <2>3, InRange
  <2> QED BY <2>2, <2>4
<1>10. ASSUME NEW l \in Keys PROVE Stays(l)
  <2>1. ASSUME NEW s \in Parked(l, SafeLine)
        PROVE  \E r \in n_records' .. SafeLine' - 1 : index'.rows[r] = index.rows[s] /\ Same(s)
    <3>1. s \in n_records .. SafeLine - 1 /\ s \in 0 .. n_lines - 1
      BY SafeRow
    <3>2. s >= n_records /\ s < SafeLine
      BY <1>4, <3>1
    <3> QED BY <1>9, <3>1, <3>2
  <2> QED BY <2>1 DEF Stays
<1>11. Shielded(k)'
  <2>1. CASE start[k] = NoVal \/ SafeParked(k)
    BY <1>10, <2>1, StaysParked DEF Shielded
  <2>2. CASE Value(k) = start[k]
    <3>1. row < SafeLine
      BY <1>4, <1>6
    <3>2. PICK r \in n_records' .. SafeLine' - 1 : index'.rows[r] = index.rows[row] /\ Same(row)
      BY <1>5, <1>9, <3>1
    <3>3. Decode(index.rows[r])' = Decode(index.rows[row])
      BY <1>5, <3>2, DecodesAs
    <3>4. Decode(index.rows[row]) = start[k]
      BY <1>5, <2>2 DEF Decode, DecodeIn
    <3>5. index'.rows[r].key = k
      BY <1>5, <3>2
    <3>6. r \in Parked(k, SafeLine)'
      BY <3>2, <3>5 DEF Parked
    <3> QED BY <3>3, <3>4, <3>6 DEF Shielded, SafeParked
  <2> QED BY <1>3, <2>1, <2>2 DEF Shielded
<1> QED BY <1>1, <1>2, <1>3, <1>7, <1>10, <1>11, StepShields

\* The undeleted row leaves the SAFE region for the records; what it held is the
\* value of the key again.
LEMMA UndeleteShields ==
  ASSUME Inv, NEW k \in Keys, NEW t \in UndoRows(k), NEW rev \in BOOLEAN, rev = TRUE,
         Undelete(k, t, rev), InvStart, open, start' = start
  PROVE  InvStart'
<1>0. PICK n, mid : n = n_records /\ mid = Making(t, rev)
  OBVIOUS
<1>1. Inv' /\ Keeps({k}) /\ Moves(n, mid, t)
  BY <1>0, UndeleteInv
<1>2. /\ ~Exists(k) /\ n_records' = n + 1 /\ UNCHANGED n_lines
      /\ key_table' = [key_table EXCEPT ![k] = n]
      /\ chg_keys' \subseteq chg_keys \cup {k}
      /\ safe_line' = IF t >= SafeLine THEN SafeLine + 1 ELSE safe_line
      /\ ~(t >= SafeLine) => k \notin chg_keys'
  BY <1>0 DEF Undelete
<1>3. safe_line >= n_records /\ \A l \in Keys : Shielded(l)
  BY DEF InvStart
<1>4. /\ SafeLine \in n .. n_lines /\ SafeLine \in Nat
      /\ n \in Nat /\ n_lines \in Nat /\ safe_line \in Nat /\ MaxRows \in Nat
      /\ key_table \in [Keys -> 0 .. MaxRows]
  BY <1>0, Lines, Basics DEF Inv, TypeOK
<1>5. PICK ix : ix \in Seen(t)
  BY DEF Seen
<1>6. /\ t \in n .. n_lines - 1 /\ t \in 0 .. n_lines - 1 /\ t \in Nat
      /\ index.rows[t].key = k
  BY <1>0, <1>4, <1>5, UndoRow
<1>7. mid = IF t >= SafeLine THEN SafeLine ELSE t
  BY <1>0 DEF Making
<1>8. /\ SafeLine' = (IF t >= SafeLine THEN SafeLine + 1 ELSE SafeLine) /\ SafeLine' \in Nat
      /\ safe_line' >= n_records' /\ n_records' = n + 1
  BY <1>0, <1>2, <1>3, <1>4, <1>6 DEF SafeLine, Smaller, Larger
<1>9. ASSUME NEW s \in 0 .. n_lines - 1, s >= n, s < SafeLine, s # t
      PROVE  \E r \in n_records' .. SafeLine' - 1 : index'.rows[r] = index.rows[s] /\ Same(s)
  <2>1. PICK r : r = IF s = t THEN n ELSE IF s = mid THEN t ELSE IF s = n THEN mid ELSE s
    OBVIOUS
  <2>2. index'.rows[r] = index.rows[s] /\ Same(s)
    BY <1>1, <2>1, MovedTo
  <2>3. r \in Nat /\ r >= n + 1 /\ r < SafeLine'
    BY <1>4, <1>6, <1>7, <1>8, <1>9, <2>1
  <2>4. r \in n_records' .. SafeLine' - 1
    BY <1>4, <1>8, <2>3, InRange
  <2> QED BY <2>2, <2>4
<1>10. index'.rows[n] = index.rows[t] /\ Same(t)
  BY <1>1, <1>6, MovedTo
<1>11. Value(k)' = Decode(index.rows[t])
  <2>1. Decode(index.rows[n])' = Decode(index.rows[t])
    BY <1>6, <1>10, DecodesAs
  <2>2. key_table'[k] = n /\ key_table'[k] < n_records'
    BY <1>2, <1>4
  <2>3. Value(k)' = Decode(index.rows[key_table[k]])'
    BY <2>2 DEF Value, Exists
  <2>4. Value(k)' = DecodeIn(index'.rows[n], val') /\ Decode(index.rows[n])' = DecodeIn(index'.rows[n], val')
    BY <2>2, <2>3 DEF Decode, DecodeIn
  <2> QED BY <2>1, <2>4
<1>12. ASSUME NEW l \in Keys, l # k PROVE Stays(l)
  <2>1. ASSUME NEW s \in Parked(l, SafeLine)
        PROVE  \E r \in n_records' .. SafeLine' - 1 : index'.rows[r] = index.rows[s] /\ Same(s)
    <3>1. s \in n_records .. SafeLine - 1 /\ s \in 0 .. n_lines - 1 /\ index.rows[s].key = l
      BY SafeRow
    <3>2. s >= n /\ s < SafeLine /\ s # t
      BY <1>0, <1>4, <1>6, <1>12, <3>1
    <3> QED BY <1>9, <3>1, <3>2
  <2> QED BY <2>1 DEF Stays

<1>13. Shielded(k)'
  <2>1. CASE start[k] = NoVal
    BY <2>1 DEF Shielded
  <2>2. CASE SafeParked(k)
    <3>1. PICK s \in Parked(k, SafeLine) : Decode(index.rows[s]) = start[k]
      BY <2>2 DEF SafeParked
    <3>2. s \in n_records .. SafeLine - 1 /\ s \in 0 .. n_lines - 1 /\ index.rows[s].key = k
      BY SafeRow
    <3>3. s >= n /\ s < SafeLine
      BY <1>0, <1>4, <3>2
    <3>4. CASE s = t
      <4>1. k \notin chg_keys'
        BY <1>2, <1>4, <1>6, <3>3, <3>4
      <4> QED BY <1>11, <3>1, <3>4, <4>1 DEF Shielded
    <3>5. CASE s # t
      <4>1. PICK r \in n_records' .. SafeLine' - 1 : index'.rows[r] = index.rows[s] /\ Same(s)
        BY <1>9, <3>2, <3>3, <3>5
      <4>2. Decode(index.rows[r])' = start[k]
        BY <3>1, <3>2, <4>1, DecodesAs
      <4>3. r \in Parked(k, SafeLine)'
        BY <3>2, <4>1 DEF Parked
      <4> QED BY <4>2, <4>3 DEF Shielded, SafeParked
    <3> QED BY <3>4, <3>5
  <2>3. start[k] = NoVal \/ SafeParked(k)
    BY <1>2, <1>3 DEF Shielded, Value
  <2> QED BY <2>1, <2>2, <2>3
<1> QED BY <1>1, <1>2, <1>3, <1>8, <1>12, <1>13, StepShields

\* Sessions and reads leave the rows and the VAL file alone.
LEMMA RowsAlone ==
  ASSUME Inv, Open \/ Close \/ Nested \/ (\E r \in 0 .. n_lines - 1 : ReadRow(r))
              \/ UNCHANGED vars
  PROVE  index'.rows = index.rows /\ UNCHANGED <<val, n_records, n_lines>>
<1>1. index.rows = [index EXCEPT !.dead = [r \in RowIds |-> NoExt]].rows
  BY Basics DEF Inv, IndexType
<1>2. Save => index'.rows = index.rows /\ UNCHANGED <<val, n_records, n_lines>>
  BY <1>1 DEF Save
<1>3. \A r \in 0 .. n_lines - 1 : ReadKey(index, r).rows = index.rows
  BY ReadKeyKeeps
<1> QED BY <1>2, <1>3 DEF Open, Close, Nested, ReadRow, vars, session

\* A session starts with the values as they are; a step that leaves the rows
\* alone leaves the shields where they are.
LEMMA QuietShields ==
  ASSUME Inv, InvStart, [UNext]_uvars,
         Open \/ Close \/ Nested \/ (\E r \in 0 .. n_lines - 1 : ReadRow(r)) \/ UNCHANGED vars
  PROVE  InvStart'
<1>1. /\ \A l \in Keys : Value(l)' = Value(l)
      /\ index'.rows = index.rows /\ UNCHANGED <<val, n_records, n_lines>>
  BY QuietStep, RowsAlone
<1>2. start' = IF open' /\ ~open THEN [l \in Keys |-> Value(l)] ELSE start
  <2>1. CASE UNext
    BY <2>1 DEF UNext
  <2>2. CASE UNCHANGED uvars
    <3>1. start' = start /\ open' = open
      BY <2>2 DEF uvars, vars, session
    <3> QED BY <3>1
  <2> QED BY <2>1, <2>2
<1>3. CASE Open
  <2>1. safe_line' = n_records' /\ chg_keys' = {} /\ start' = [l \in Keys |-> Value(l)]
    BY <1>1, <1>2, <1>3 DEF Open
  <2>2. n_records \in Nat
    BY Basics DEF Inv
  <2> QED BY <1>1, <2>1, <2>2 DEF InvStart, Shielded
<1>4. CASE Close
  BY <1>4 DEF Close, InvStart
<1>5. CASE Nested \/ (\E r \in 0 .. n_lines - 1 : ReadRow(r)) \/ UNCHANGED vars
  <2>1. UNCHANGED <<safe_line, chg_keys, open>>
    BY <1>5 DEF Nested, ReadRow, vars, session
  <2>2. start' = start
    BY <1>2, <2>1
  <2>3. SafeLine' = SafeLine
    BY <1>1, <2>1 DEF SafeLine
  <2>4. ASSUME NEW l \in Keys PROVE SafeParked(l)' <=> SafeParked(l)
    BY <1>1, <2>2, <2>3 DEF SafeParked, Parked, Decode
  <2> QED BY <1>1, <2>1, <2>2, <2>4 DEF InvStart, Shielded
<1> QED BY <1>3, <1>4, <1>5

LEMMA StartStep ==
  ASSUME RevertOnly, Inv, InvStart, [UNext]_uvars
  PROVE  Inv' /\ InvStart'
<1>1. CASE Open \/ Close \/ Nested \/ (\E r \in 0 .. n_lines - 1 : ReadRow(r)) \/ UNCHANGED vars
  BY <1>1, QuietStep, QuietShields
<1>2. ASSUME NEW k \in Keys, open, Operation(k), UNext
      PROVE  Inv' /\ InvStart'
  <2>1. Inv'
    BY <1>2, OperationStep
  <2>2. Reverts = {TRUE} /\ NoRevert = {} /\ Reverts \subseteq BOOLEAN /\ Splits \subseteq BOOLEAN
    BY CallAssumption DEF RevertOnly
  <2>3. start' = IF open' /\ ~open THEN [l \in Keys |-> Value(l)] ELSE start
    BY <1>2 DEF UNext
  <2>4. start' = start
    BY <1>2, <2>3
  <2>5. ASSUME NEW v \in Vals, NEW rev \in Reverts, NEW sp \in Splits, Write(k, v, rev, sp)
        PROVE  InvStart'
    <3>1. rev \in BOOLEAN /\ rev = TRUE /\ sp \in BOOLEAN
      BY <2>2
    <3>2. CASE Overwrite(k, v, rev)
      BY <1>2, <2>2, <2>4, <3>1, <3>2, OverwriteShields
    <3>3. CASE Replace(k, v, rev, sp)
      BY <1>2, <2>4, <3>1, <3>3, ReplaceShields
    <3>4. CASE Add(k, v, rev, sp)
      <4>1. ~Exists(k) /\ n_records' = n_records + 1
            /\ key_table' = [key_table EXCEPT ![k] = n_records]
        BY <3>4 DEF Add
      <4>2. key_table \in [Keys -> 0 .. MaxRows] /\ n_records \in Nat
        BY Basics DEF Inv, TypeOK
      <4>3. key_table'[k] < n_records'
        BY <4>1, <4>2
      <4>4. k \in chg_keys => Exists(k) \/ ~(Exists(k)')
        BY <1>2 DEF UNext, RevertOnly
      <4>5. k \notin chg_keys
        BY <4>1, <4>3, <4>4 DEF Exists
      <4> QED BY <1>2, <2>4, <3>1, <3>4, <4>5, AddShields
    <3> QED BY <2>5, <3>2, <3>3, <3>4 DEF Write
  <2>6. ASSUME NEW rev \in Reverts, Delete(k, rev) PROVE InvStart'
    BY <1>2, <2>2, <2>4, <2>6, DeleteShields
  <2>7. ASSUME NEW r \in UndoRows(k), NEW rev \in Reverts, Undelete(k, r, rev) PROVE InvStart'
    BY <1>2, <2>2, <2>4, <2>7, UndeleteShields
  <2> QED BY <1>2, <2>1, <2>5, <2>6, <2>7 DEF Operation, RevertOnly
<1>3. CASE UNext /\ ~(Open \/ Close \/ Nested \/ (\E r \in 0 .. n_lines - 1 : ReadRow(r)) \/ UNCHANGED vars)
  <2>1. open /\ \E k \in Keys : Operation(k)
    BY <1>3 DEF UNext, Next
  <2> QED BY <1>2, <1>3, <2>1
<1>4. CASE UNCHANGED uvars
  BY <1>1, <1>4 DEF uvars
<1> QED BY <1>1, <1>3, <1>4

\* f_write, f_delete and f_undelete with REVERT: whatever calls a session makes,
\* f_unremove and f_unmodify find the value of each key as the session found it.
THEOREM StartIsKept ==
  ASSUME RevertOnly
  PROVE  USpec => []StartKept
<1>1. UInit => Inv /\ InvStart
  BY InitInv DEF UInit, Init, InvStart
<1>2. Inv /\ InvStart /\ [UNext]_uvars => (Inv /\ InvStart)'
  BY StartStep
<1>3. InvStart => StartKept
  BY DEF InvStart, Shielded, SafeParked, StartKept
<1> QED BY <1>1, <1>2, <1>3, PTL DEF USpec
=============================================================================
