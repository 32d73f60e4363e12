------------------------------ MODULE QueryRef ------------------------------
(***************************************************************************)
(* Reference definitions for the query language, and what matching,        *)
(* sorting, grouping and paging have to agree with.  A condition is the    *)
(* sequence of the items of a rule; Vals and Recs are the values and the   *)
(* records it is tried on.                                                 *)
(***************************************************************************)
EXTENDS QueryFind

CONSTANTS Vals, Recs, Partners   \* Partners: conditions to combine with

M(rec, v, c) == MatchVal(rec, v, Rule(c), "self")
Field(f) == <<"field", f>>
Op(cmd) == <<"op", FALSE, cmd>>
OnPath(parts, r) == <<Item(FALSE, "path", <<"path", parts, r>>)>>
Negated(c) == <<[c[1] EXCEPT !.neg = ~@]>>

\* Conditions built with &, | and ~ say what the operators say, however they
\* were nested (Condition flattens what it combines).
BuilderAgrees(c) ==
  \A rec \in Recs, v \in Vals, d \in Partners :
    LET mc == M(rec, v, c)
        md == M(rec, v, d)
    IN /\ M(rec, v, CondAnd(c, d)) = (mc /\ md) /\ M(rec, v, CondAnd(d, c)) = (mc /\ md)
       /\ M(rec, v, CondOr(c, d)) = (mc \/ md) /\ M(rec, v, CondOr(d, c)) = (mc \/ md)
       /\ M(rec, v, CondNot(c)) = ~mc
       /\ M(rec, v, CondAnd(CondNot(CondOr(c, d)), d)) = FALSE

\* A command and its negation never both match, and of $not, $and, $or, $any
\* and $all and their negations one always does.
Total == Connectives \cup {"$any", "$all"}
NegationAgrees(c) ==
  Len(c) = 1 =>
    \A rec \in Recs, v \in Vals :
      LET a == M(rec, v, c)
          b == M(rec, v, Negated(c))
      IN ~(a /\ b) /\ (Base(c[1].cmd) \in Total => a # b)

\* The nodes on the way down to the scalars of v: $all asks that one of them
\* matches on each way.
RECURSIVE Ways(_)
Ways(v) == IF ~IsContainer(v) THEN {<<v>>}
           ELSE UNION {{<<v>> \o w : w \in Ways(Children(v)[i])} : i \in DOMAIN Children(v)}

\* $any is some node below the value, $all one on each way down; a value that
\* has nothing below it, or whose own field the rule names, counts itself.
QuantifiersAgree(c) ==
  Len(c) = 1 =>
    \A rec \in Recs, v \in Vals :
      LET named == c[1].cmd = "path" /\ v[1] = "dict" /\ c[1].arg[2] \in {<<Field(f)>> : f \in DOMAIN v[2]}
          itself == (~IsContainer(v) \/ named) /\ M(rec, v, c)
          below == Tail(AllNodes(v))
          ways == IF IsContainer(v) THEN {Tail(w) : w \in Ways(v)} ELSE {<<v>>}
      IN /\ M(rec, v, One("$any", Rule(c))) = (itself \/ \E i \in DOMAIN below : M(rec, below[i], c))
         /\ M(rec, v, One("$all", Rule(c))) =
               (itself \/ \A w \in ways : \E i \in DOMAIN w : M(rec, w[i], c))

\* A path is the rules of its fields one in the other; a wildcard is some
\* child, or some node; a command or a transformation at the end of a path
\* without wildcards is a rule on the value the path leads to.
PathsAgree(c) ==
  \A rec \in Recs, v \in {w \in Vals : w[1] = "dict"} :
    LET r == Rule(c)
        sub(w, f) == Lookup(w, Field(f)).ok /\ M(rec, Lookup(w, Field(f)).val, c)
        child == Children(v)
        node == AllNodes(v)
    IN /\ \A f, g \in {"a", "b"} :
            /\ M(rec, v, OnPath(<<Field(f), Field(g)>>, r)) = M(rec, v, OnPath(<<Field(f)>>, Rule(OnPath(<<Field(g)>>, r))))
            /\ M(rec, v, OnPath(<<<<"any">>, Field(g)>>, r)) = \E i \in DOMAIN child : sub(child[i], g)
            /\ M(rec, v, OnPath(<<<<"deep">>, Field(g)>>, r)) = \E i \in DOMAIN node : sub(node[i], g)
            /\ \A op \in {"$len", "$first", "$not", "$any"} :
                  M(rec, v, OnPath(<<Field(f), Op(op)>>, r)) = M(rec, v, OnPath(<<Field(f)>>, Rule(One(op, r))))
       /\ M(rec, v, OnPath(<<<<"any">>>>, r)) = \E i \in DOMAIN child : M(rec, child[i], c)
       /\ M(rec, v, OnPath(<<<<"any">>, Op("$not")>>, r)) = \E i \in DOMAIN child : ~M(rec, child[i], c)

\* Rules of keys and dates are the rules of values: a key and its string, a
\* date and its day number, answer the same to the commands they share.
DayCmds == OrderCmds \cup {"$eq", "$ne", "$between", "$near"}
RECURSIVE Shared(_, _), Dated(_, _)
Shared(c, cmds) ==
  \A i \in DOMAIN c :
    CASE c[i].cmd \in {"$not"} -> Shared(c[i].arg[2], cmds)
      [] c[i].cmd \in {"$and", "$or", "$nand", "$nor"} -> \A j \in DOMAIN c[i].arg[2] : Shared(c[i].arg[2][j][2], cmds)
      [] OTHER -> c[i].cmd \in cmds
Dated(tag, c) ==
  LET day(a) == <<tag, a[2]>>
      pair(a, cmd) == List(<<day(a[2][1]), IF cmd = "$near" THEN a[2][2] ELSE day(a[2][2])>>)
      arg(item) ==
        CASE item.cmd = "$not" -> Rule(Dated(tag, item.arg[2]))
          [] item.cmd \in {"$and", "$or", "$nand", "$nor"} ->
                <<"rules", [j \in DOMAIN item.arg[2] |-> Rule(Dated(tag, item.arg[2][j][2]))]>>
          [] item.cmd \in {"$between", "$near"} -> pair(item.arg, item.cmd)
          [] OTHER -> day(item.arg)
  IN [i \in DOMAIN c |-> [c[i] EXCEPT !.arg = arg(c[i])]]

RECURSIVE IntArgs(_)
IntArgs(c) ==
  \A i \in DOMAIN c :
    CASE c[i].cmd = "$not" -> IntArgs(c[i].arg[2])
      [] c[i].cmd \in {"$and", "$or", "$nand", "$nor"} -> \A j \in DOMAIN c[i].arg[2] : IntArgs(c[i].arg[2][j][2])
      [] c[i].cmd \in {"$between", "$near"} -> \A j \in 1..2 : c[i].arg[2][j][1] = "int"
      [] OTHER -> c[i].arg[1] = "int"

SubjectsAgree(c) ==
  \A rec \in Recs :
    /\ Shared(c, OrderCmds \cup {"$eq", "$ne", "$in", "$nin", "$anyin", "$has", "$nhas", "$size"}) =>
          MatchKey(rec.key, Rule(c)) = M(rec, rec.key, c)
    /\ Shared(c, DayCmds) /\ IntArgs(c) =>
          /\ MatchDate(rec, Rule(Dated("date", c))) = M(rec, Number(rec.mdate), c)
          /\ MatchDate(rec, Rule(Dated("datetime", c))) = M(rec, Number(rec.cdate), c)

-----------------------------------------------------------------------------
\* What find sorts by: paths, several of them, a transformation.
SortSpecs == {<<<<Field("a")>>>>, <<<<Field("a")>>, <<Field("b")>>>>, <<<<<<"date">>>>>>, <<<<<<"id">>>>>>,
              <<<<Field("b"), Op("$len")>>, <<<<"id">>>>>>, <<<<<<"whole">>>>>>}

\* The result is the same rows; those with all sort values come first and in
\* order, rows that tie stay as they were, also when reversed; the others
\* follow in the order of their keys.
SortAgrees(rows) ==
  \A specs \in SortSpecs, reverse \in BOOLEAN :
    LET out == SortedByRules(rows, specs, reverse)
        at(row) == CHOOSE i \in DOMAIN rows : rows[i] = row
        full(row) == HasSortKey(row, specs)
        keys == SelectSeq(rows, full)
        texts == ~Orderable([i \in DOMAIN keys |-> SortKey(keys[i], specs)])
        key(row) == IF texts THEN KeyTexts(SortKey(row, specs)) ELSE SortKey(row, specs)
        first(x, y) == IF reverse THEN PyLess(y, x) ELSE PyLess(x, y)
    IN /\ ToSet(out) = ToSet(rows) /\ Len(out) = Len(rows)
       /\ \A i, j \in DOMAIN out : i < j =>
            /\ full(out[j]) => full(out[i])
            /\ full(out[j]) => ~first(key(out[j]), key(out[i]))
            /\ full(out[j]) /\ ~first(key(out[i]), key(out[j])) => at(out[i]) < at(out[j])
            /\ Len(rows) > 1 /\ ~full(out[i]) /\ ~full(out[j]) => first(out[i].key, out[j].key)

GroupPaths == {<<<<Field("a")>>>>, <<<<Field("a")>>, <<Field("b")>>>>, <<<<Field("b"), Op("$first")>>>>, <<<<<<"date">>>>>>}

\* Each row is in one group, the group of its key, and the groups and their
\* rows keep the order of the rows; dates are the earliest and the latest.
\* Every value of a field that is no key is in its group's list, once, and a
\* sum over groups is the sum over rows.
GroupAgrees(rows) ==
  \A paths \in GroupPaths :
    LET gs == Groups(rows, paths)
        key(i) == GroupKey(rows[i], paths)
        mine(g) == {i \in DOMAIN rows : SameKey(key(i), g.gkey)}
        at(row) == CHOOSE i \in DOMAIN rows : rows[i] = row
        numbers == FieldValues(rows, <<Field("b"), Op("$len")>>)
        sum(s) == FoldLeft(LAMBDA n, x : n + x[2], 0, s)
        sums == [i \in DOMAIN gs |->
                   GroupedFields(gs[i].rows, <<[parts |-> <<Field("b"), Op("$len")>>, op |-> "$sum"]>>)[1]]
    IN /\ \A i \in DOMAIN rows : Cardinality({k \in DOMAIN gs : SameKey(gs[k].gkey, key(i))}) = 1
       /\ \A k \in DOMAIN gs :
            LET g == gs[k] IN
            /\ {at(g.rows[i]) : i \in DOMAIN g.rows} = mine(g) /\ Len(g.rows) = Cardinality(mine(g))
            /\ \A i, j \in DOMAIN g.rows : i < j => at(g.rows[i]) < at(g.rows[j])
            /\ k > 1 => at(gs[k - 1].rows[1]) < at(g.rows[1])
            /\ g.cdate \in {rows[i].cdate : i \in mine(g)} /\ g.mdate \in {rows[i].mdate : i \in mine(g)}
            /\ \A i \in mine(g) : g.cdate <= rows[i].cdate /\ g.mdate >= rows[i].mdate /\ g.mod >= rows[i].mod
            /\ LET out == GroupedAll(g.rows, paths, "$list")
                   values == FieldValues(g.rows, <<Field("c")>>)
               IN values # <<>> => out[2]["c"] = List(values)
       /\ sum(sums) = sum(numbers)

RECURSIVE AllHits(_)
AllHits(db) ==
  FlattenSeq([i \in DOMAIN db |->
    IF ~db[i].hit THEN <<>>
    ELSE IF ~db[i].group THEN <<<<db[i].key>>>>
    ELSE LET s == AllHits(db[i].db) IN [j \in DOMAIN s |-> <<db[i].key>> \o s[j]]])
NoGroups(db) == \A i \in DOMAIN db : ~db[i].group

\* limit and skip cut a window out of what is found without them, in both
\* directions.  (With groups skip has no such meaning: a group is cut to the
\* limit before its records are skipped.)
PageAgrees(db) ==
  \A limit \in 0..3, skip \in 0..3 :
    LET all == AllHits(db)
        end == IF limit = 0 THEN Len(all) ELSE skip + limit
        some(n) == SubSeq(all, skip + 1, IF end < n THEN end ELSE n)
    IN /\ NoGroups(db) \/ skip = 0 => FindIter(db, limit, skip, FALSE) = some(Len(all))
       /\ NoGroups(db) => FindIter(db, limit, skip, TRUE) =
                            LET back == Reverse(all) IN SubSeq(back, skip + 1, IF end < Len(all) THEN end ELSE Len(all))
=============================================================================
