----------------------------- MODULE QueryFind -----------------------------
(***************************************************************************)
(* What find does with the records that match (jdb_query.py, jdb_lite.py): *)
(* sorted_by_rules, grouped_by_rules, and the paging of find_iter over the *)
(* records of a database and of the groups in it.                          *)
(*                                                                         *)
(* A row is [key, val, cdate, mdate, mod]; a path is the sequence of its   *)
(* parts as in Query, the root <<"id">>, <<"date">> or <<"whole">> where   *)
(* the source has '_id', '_date' and ''.                                   *)
(***************************************************************************)
EXTENDS Query

-----------------------------------------------------------------------------
(* sorted_by_rules *)

\* The tuple of dates, as a list.
Dates(row) == List(<<<<"date", row.cdate>>, <<"date", row.mdate>>, Number(row.mod)>>)
Sortable(v) == v[1] \in {"str", "int", "bool", "date"}

Root(row, part, dates) ==
  CASE part[1] = "id" -> [ok |-> TRUE, val |-> row.key]
    [] part[1] = "date" -> [ok |-> TRUE, val |-> dates]
    [] part[1] = "whole" -> [ok |-> TRUE, val |-> row.val]
    [] part[1] = "field" -> Lookup(row.val, part)
    [] OTHER -> [ok |-> FALSE, val |-> None]

\* One part below the root; no commands, and no wildcards.
Below(s, part) ==
  IF ~s.ok THEN s
  ELSE IF part[1] = "op" THEN LET t == ApplyTransform(part[3], s.val) IN [ok |-> t # None, val |-> t]
  ELSE Lookup(s.val, part)

ResolveSortValue(row, parts) ==
  LET s == FoldLeft(Below, Root(row, Head(parts), Dates(row)), Tail(parts)) IN
  [s EXCEPT !.ok = @ /\ (Sortable(s.val) \/ (parts = <<<<"date">>>>))]

\* list.sort: stable, also when reversed.
StableSort(s, Less(_, _), reverse) ==
  LET before(p, q) ==
        IF Less(p[2], q[2]) THEN ~reverse
        ELSE IF Less(q[2], p[2]) THEN reverse
        ELSE p[1] < q[1]
      paired == SortSeq([i \in DOMAIN s |-> <<i, s[i]>>], before)
  IN [i \in DOMAIN s |-> paired[i][2]]

\* A tuple in the key counts by its items.
SortKey(row, specs) ==
  LET items(v) == IF v[1] = "list" THEN v[2] ELSE <<v>>
  IN List(FlattenSeq([i \in DOMAIN specs |-> items(ResolveSortValue(row, specs[i]).val)]))
HasSortKey(row, specs) == \A i \in DOMAIN specs : ResolveSortValue(row, specs[i]).ok
KeyTexts(k) == List([i \in DOMAIN k[2] |-> Text(k[2][i])])

SortedByRules(rows, specs, reverse) ==
  LET keyed == SelectSeq(rows, LAMBDA row : HasSortKey(row, specs))
      missing == SelectSeq(rows, LAMBDA row : ~HasSortKey(row, specs))
      keys == [i \in DOMAIN keyed |-> SortKey(keyed[i], specs)]
      sortKey(row) == IF Orderable(keys) THEN SortKey(row, specs) ELSE KeyTexts(SortKey(row, specs))
  IN IF Len(rows) < 2 \/ specs = <<>> THEN rows
     ELSE StableSort(keyed, LAMBDA a, b : PyLess(sortKey(a), sortKey(b)), reverse)
          \o StableSort(missing, LAMBDA a, b : PyLess(a.key, b.key), reverse)

-----------------------------------------------------------------------------
(* grouped_by_rules *)

ResolveGroupPath(row, parts) ==
  LET root == Head(parts)
      start == IF root[1] = "op" THEN Below([ok |-> TRUE, val |-> row.val], root)
               ELSE Root(row, root, List(<<<<"date", row.cdate>>, <<"date", row.mdate>>>>))
  IN IF parts = <<>> THEN [ok |-> TRUE, val |-> row.val] ELSE FoldLeft(Below, start, Tail(parts))

\* What has no hash stands for itself as text.
GroupKey(row, keyPaths) ==
  LET one(parts) == LET s == ResolveGroupPath(row, parts) IN IF s.ok THEN s.val ELSE None
      all == [i \in DOMAIN keyPaths |-> one(keyPaths[i])]
      hashed == \A i \in DOMAIN all : Hashable(all[i])
  IN IF hashed THEN all ELSE <<Str(ToString(all))>>

SameKey(s, t) == Len(s) = Len(t) /\ \A i \in DOMAIN s : PyEq(s[i], t[i])

\* Faulty variant of AddToGroups: the dates of the last row.
AddToGroupsLast(groups, row, gkey) ==
  LET D == {i \in DOMAIN groups : SameKey(groups[i].gkey, gkey)}
      i == CHOOSE j \in D : TRUE
  IN IF D = {}
     THEN Append(groups, [gkey |-> gkey, rows |-> <<row>>, cdate |-> row.cdate, mdate |-> row.mdate, mod |-> row.mod])
     ELSE [groups EXCEPT ![i] = [@ EXCEPT !.rows = Append(@, row), !.cdate = row.cdate, !.mdate = row.mdate, !.mod = row.mod]]

\* The groups in the order of their first row; earliest creation, latest
\* change and highest modification number of its rows.
AddToGroups(groups, row, gkey) ==
  LET D == {i \in DOMAIN groups : SameKey(groups[i].gkey, gkey)}
      i == CHOOSE j \in D : TRUE
      g == groups[i]
      Later(m, n) == IF n > m THEN n ELSE m
  IN IF D = {}
     THEN Append(groups, [gkey |-> gkey, rows |-> <<row>>, cdate |-> row.cdate, mdate |-> row.mdate, mod |-> row.mod])
     ELSE [groups EXCEPT ![i] = [g EXCEPT !.rows = Append(@, row),
                                          !.cdate = IF row.cdate < @ THEN row.cdate ELSE @,
                                          !.mdate = Later(@, row.mdate), !.mod = Later(@, row.mod)]]
Groups(rows, keyPaths) == FoldLeft(LAMBDA gs, row : AddToGroups(gs, row, GroupKey(row, keyPaths)), <<>>, rows)

Collapse(op, s) == IF op = "$list" THEN List(s) ELSE ApplyTransform(op, List(s))

\* With field specs: the values of each path, or what the operation makes of
\* them.
FieldValues(rows, parts) ==
  LET found == SelectSeq(rows, LAMBDA row : ResolveGroupPath(row, parts).ok)
  IN [i \in DOMAIN found |-> ResolveGroupPath(found[i], parts).val]
GroupedFields(rows, fieldSpecs) ==
  [i \in DOMAIN fieldSpecs |-> Collapse(fieldSpecs[i].op, FieldValues(rows, fieldSpecs[i].parts))]

\* Without: every field of the rows but the key fields; a value that is no
\* dictionary is the field _val, and alone the whole result.
Excluded(keyPaths) == {keyPaths[i][1][2] : i \in {j \in DOMAIN keyPaths :
                          Len(keyPaths[j]) = 1 /\ keyPaths[j][1][1] = "field"}}
FieldsOf(v) == IF v[1] = "dict" THEN v[2] ELSE [f \in {"_val"} |-> v]
GroupedAll(rows, keyPaths, op) ==
  LET has(row, f) == f \in DOMAIN FieldsOf(row.val)
      all == UNION {DOMAIN FieldsOf(rows[i].val) : i \in DOMAIN rows} \ Excluded(keyPaths)
      values(f) == LET s == SelectSeq(rows, LAMBDA row : has(row, f))
                   IN [i \in DOMAIN s |-> FieldsOf(s[i].val)[f]]
      out == [f \in all |-> Collapse(op, values(f))]
  IN IF all = {} THEN None ELSE IF all = {"_val"} THEN out["_val"] ELSE Dict(out)

-----------------------------------------------------------------------------
(* find_iter.  A database is a sequence of entries: a record or a group,  *)
(* which names a database db; hit is the verdict of the rules on it, or of  *)
(* the key rules on the name of the group.                                  *)

RECURSIVE FindIter(_, _, _, _), FindIn(_, _, _)
\* One turn of the loop; s is [out, skipped], and count is Len(s.out).
FindIn(s, entry, q) ==
  LET n == Len(s.out)
      groupLimit == IF q.limit > 0 THEN q.limit - n ELSE 0
      take(t, path) ==
        IF Len(t.out) >= q.limit /\ q.limit > 0 THEN t
        ELSE IF t.skipped < q.skip THEN [t EXCEPT !.skipped = @ + 1]
        ELSE [t EXCEPT !.out = Append(@, path)]
      inGroup == FindIter(entry.db, groupLimit, 0, q.reverse)
  IN IF (q.limit > 0 /\ n >= q.limit) \/ ~entry.hit THEN s
     ELSE IF entry.group THEN FoldLeft(take, s, [i \in DOMAIN inGroup |-> <<entry.key>> \o inGroup[i]])
     ELSE take(s, <<entry.key>>)

FindIter(db, limit, skip, reverse) ==
  FoldLeft(LAMBDA s, entry : FindIn(s, entry, [limit |-> limit, skip |-> skip, reverse |-> reverse]),
           [out |-> <<>>, skipped |-> 0], IF reverse THEN Reverse(db) ELSE db).out
=============================================================================
