------------------------------- MODULE Query -------------------------------
(***************************************************************************)
(* The query language (jdb_query.py): when a value matches a rule, how     *)
(* rows are sorted and grouped, and how find_iter pages through records    *)
(* and groups of records.                                                  *)
(*                                                                         *)
(* A value is a pair of its type and its content: <<"int", 3>>,            *)
(* <<"bool", 1>>, <<"str", "a">>, <<"none", 0>>, <<"list", s>> with a      *)
(* sequence s of values, <<"dict", f>> with a function f from field names  *)
(* to values.  Strings have one character; the fields of a dictionary are  *)
(* in the order of their names.                                            *)
(*                                                                         *)
(* A rule is the sequence of its items, as a dictionary keeps them:        *)
(* [neg |-> the command has a "!", cmd |-> command, arg |-> argument].     *)
(* The argument is a value, a rule or a sequence of rules, as the command  *)
(* has it.  A field or a path is the command "path" with its parts.        *)
(* Regular expressions and functions are left out: nothing but the         *)
(* application says what they match.                                       *)
(***************************************************************************)
EXTENDS Integers, Sequences, FiniteSets, SequencesExt

CONSTANTS Rank,   \* the order of the characters
          Digits, \* the characters that are digits, with their number
          Today   \* the number of the day

None == <<"none", 0>>
Number(n) == <<"int", n>>
Str(c) == <<"str", c>>
List(s) == <<"list", s>>
Dict(f) == <<"dict", f>>

IsNum(v) == v[1] \in {"int", "bool"}
IsContainer(v) == v[1] \in {"list", "dict"}
Iterable(v) == v[1] \in {"str", "list", "dict"}
Hashable(v) == ~IsContainer(v)

\* isinstance(val, type(rule)), and the numbers among each other
IsInstance(v, type) == v[1] = type \/ (v[1] = "bool" /\ type = "int")
SameType(v, w) == IsInstance(v, w[1]) \/ (IsNum(v) /\ IsNum(w))

Names(f) == SetToSortSeq(DOMAIN f, LAMBDA a, b : Rank[a] < Rank[b])

\* The values of a dictionary, the items of a list
Children(v) ==
  IF v[1] = "dict" THEN [i \in 1 .. Cardinality(DOMAIN v[2]) |-> v[2][Names(v[2])[i]]] ELSE v[2]

\* What Python iterates over: the keys of a dictionary
Elements(v) ==
  CASE v[1] = "dict" -> [i \in 1 .. Cardinality(DOMAIN v[2]) |-> Str(Names(v[2])[i])]
    [] v[1] = "list" -> v[2]
    [] OTHER -> <<v>>

PyEq(v, w) == IF IsNum(v) /\ IsNum(w) THEN v[2] = w[2] ELSE v = w

\* The order of two values, where Python has one
Scalar(v, w) == (IsNum(v) /\ IsNum(w)) \/ (v[1] = w[1] /\ v[1] \in {"str", "date"})
ScalarLess(v, w) == IF v[1] = "str" THEN Rank[v[2]] < Rank[w[2]] ELSE v[2] < w[2]

FirstDiff(s, t) ==
  LET n == IF Len(s) < Len(t) THEN Len(s) ELSE Len(t)
      D == {i \in 1 .. n : ~PyEq(s[i], t[i])}
  IN IF D = {} THEN 0 ELSE CHOOSE i \in D : \A j \in D : i <= j

Comparable(v, w) ==
  \/ Scalar(v, w)
  \/ /\ v[1] = "list" /\ w[1] = "list"
     /\ LET i == FirstDiff(v[2], w[2]) IN i > 0 => Scalar(v[2][i], w[2][i])

PyLess(v, w) ==
  IF Scalar(v, w) THEN ScalarLess(v, w)
  ELSE LET i == FirstDiff(v[2], w[2]) IN
       IF i = 0 THEN Len(v[2]) < Len(w[2]) ELSE ScalarLess(v[2][i], w[2][i])

-----------------------------------------------------------------------------
(* Transformations; None when the value has no such transformation *)

Transforms == {"$abs", "$neg", "$len", "$first", "$last", "$min", "$max", "$sum", "$mid",
               "$sort", "$unique", "$flat"}

Least(s) == CHOOSE v \in ToSet(s) : \A w \in ToSet(s) : ~PyLess(w, v)
Greatest(s) == CHOOSE v \in ToSet(s) : \A w \in ToSet(s) : ~PyLess(v, w)
Orderable(s) == \A i, j \in DOMAIN s : i # j => Comparable(s[i], s[j])
AllNum(s) == \A i \in DOMAIN s : IsNum(s[i])

\* an aggregate of the numbers or values of a list; a single value is its own
Aggregate(v, good, result) ==
  IF v[1] # "list" THEN IF Hashable(v) THEN v ELSE None
  ELSE IF good THEN result ELSE None

\* float(v) reads the strings of digits too
ReadsAsNum(v) == IsNum(v) \/ (v[1] = "str" /\ v[2] \in DOMAIN Digits)
AsNum(v) == IF IsNum(v) THEN v[2] ELSE Digits[v[2]]

EachNum(v, f(_)) ==
  LET s == Elements(v) IN
  IF IsNum(v) THEN Number(f(v[2]))
  ELSE IF Iterable(v) /\ \A i \in DOMAIN s : ReadsAsNum(s[i])
       THEN List([i \in DOMAIN s |-> Number(f(AsNum(s[i])))]) ELSE None

FirstSeen(s) == SelectSeq([i \in DOMAIN s |-> <<i, s[i]>>],
                          LAMBDA e : \A j \in 1 .. e[1] - 1 : ~PyEq(s[j], e[2]))

ApplyTransform(op, v) ==
  LET s == v[2] IN
  CASE op = "$abs" -> EachNum(v, LAMBDA n : IF n < 0 THEN -n ELSE n)
    [] op = "$neg" -> IF v[1] = "str" /\ ReadsAsNum(v) THEN Number(-AsNum(v)) ELSE EachNum(v, LAMBDA n : -n)
    [] op = "$len" -> IF Iterable(v) THEN Number(Len(Elements(v))) ELSE None
    [] op = "$first" -> IF Iterable(v) /\ Elements(v) # <<>> THEN Elements(v)[1] ELSE None
    [] op = "$last" -> IF Iterable(v) /\ Elements(v) # <<>> THEN Last(Elements(v)) ELSE None
    [] op = "$min" -> Aggregate(v, s # <<>> /\ Orderable(s), Least(s))
    [] op = "$max" -> Aggregate(v, s # <<>> /\ Orderable(s), Greatest(s))
    [] op = "$sum" -> Aggregate(v, AllNum(s), Number(FoldLeft(LAMBDA a, e : a + e[2], 0, s)))
    [] op = "$mid" -> Aggregate(v, s # <<>>, s[(Len(s) \div 2) + 1])
    [] op = "$sort" -> IF v[1] = "list" /\ Orderable(s)
                       THEN List(SortSeq(s, LAMBDA a, b : PyLess(a, b))) ELSE None
    [] op = "$unique" -> IF v[1] = "dict" THEN v
                         ELSE IF v[1] = "list" /\ \A i \in DOMAIN s : Hashable(s[i])
                         THEN List([i \in DOMAIN FirstSeen(s) |-> FirstSeen(s)[i][2]]) ELSE None
    [] op = "$flat" -> IF v[1] # "list" THEN None
                       ELSE List(FlattenSeq([i \in DOMAIN s |->
                                               IF s[i][1] = "list" THEN s[i][2] ELSE <<s[i]>>]))

-----------------------------------------------------------------------------
(* Commands that compare a value with their argument.  Each says whether it *)
(* applies to the value at all, and what it says if it does.                *)

No == [applies |-> FALSE, holds |-> FALSE]
Yes(b) == [applies |-> TRUE, holds |-> b]

OrderCmds == {"$gt", "$ge", "$lt", "$le"}
InOrder(cmd, v, r) ==
  CASE cmd = "$gt" -> PyLess(r, v) [] cmd = "$ge" -> ~PyLess(v, r)
    [] cmd = "$lt" -> PyLess(v, r) [] cmd = "$le" -> ~PyLess(r, v)
Order(cmd, v, r) == IF SameType(v, r) /\ Comparable(v, r) THEN Yes(InOrder(cmd, v, r)) ELSE No

Equal(v, r) == IF SameType(v, r) THEN Yes(PyEq(v, r)) ELSE No

Between(v, r) ==
  LET low == r[2][1]
      high == r[2][2]
      same == \/ IsInstance(v, low[1]) /\ IsInstance(v, high[1])
              \/ IsInstance(high, low[1]) /\ IsNum(v) /\ IsNum(high)
  IN IF same /\ Comparable(low, v) /\ Comparable(v, high)
     THEN Yes(~PyLess(v, low) /\ ~PyLess(high, v)) ELSE No

IsNear(n, target, tol) == n - target <= tol /\ target - n <= tol
Near(v, r) == IF AllNum(<<v>> \o r[2]) THEN Yes(IsNear(v[2], r[2][1][2], r[2][2][2])) ELSE No
Modulo(v, r) == IF AllNum(<<v>> \o r[2]) THEN Yes(v[2] % r[2][1][2] = r[2][2][2]) ELSE No

\* some element of s is w
Among(w, s) == \E i \in DOMAIN s : PyEq(s[i], w)
SubsetOf(s, t) == \A i \in DOMAIN s : Among(s[i], t)
AllHashable(s) == \A i \in DOMAIN s : Hashable(s[i])

\* $in: a single value is in the list; a list or a dictionary has all of it
Member(v, r) ==
  IF Hashable(v) THEN Yes(Among(v, r[2]))
  ELSE IF AllHashable(Elements(v)) THEN Yes(SubsetOf(r[2], Elements(v))) ELSE No

AnyMember(v, r) ==
  IF Hashable(v) THEN Yes(Among(v, r[2]))
  ELSE IF AllHashable(Elements(v)) THEN Yes(\E i \in DOMAIN r[2] : Among(r[2][i], Elements(v))) ELSE No

\* $has: the list or dictionary has the values, the string has the substring
HasAll(v, r) ==
  LET s == IF r[1] = "list" THEN r[2] ELSE <<r>> IN
  IF IsContainer(v)
  THEN IF AllHashable(s) /\ AllHashable(Elements(v)) THEN Yes(SubsetOf(s, Elements(v))) ELSE No
  ELSE IF v[1] = "str" /\ r[1] = "str" THEN Yes(v = r) ELSE No

LengthIs(n, r) ==
  IF IsNum(r) THEN Yes(n = r[2]) ELSE IF r[1] = "list" THEN Yes(Among(Number(n), r[2])) ELSE No
SizeIs(v, r) == IF Iterable(v) THEN LengthIs(Len(Elements(v)), r) ELSE No

\* the argument of $type is the name of a type; a bool is no int here
TypeIs(v, r) == Yes(v[1] = r[2])
FieldsExist(v, r) ==
  IF v[1] = "dict" THEN Yes(\A i \in DOMAIN r[2] : r[2][i][2] \in DOMAIN v[2]) ELSE No

Compares == OrderCmds \cup {"$eq", "$between", "$near", "$mod", "$in", "$anyin", "$has", "$size",
                            "$type", "$exists"}
Connectives == {"$not", "$and", "$or"}

Compare(cmd, v, r) ==
  CASE cmd \in OrderCmds -> Order(cmd, v, r)
    [] cmd = "$eq" -> Equal(v, r)
    [] cmd = "$between" -> Between(v, r)
    [] cmd = "$near" -> Near(v, r)
    [] cmd = "$mod" -> Modulo(v, r)
    [] cmd = "$in" -> Member(v, r)
    [] cmd = "$anyin" -> AnyMember(v, r)
    [] cmd = "$has" -> HasAll(v, r)
    [] cmd = "$size" -> SizeIs(v, r)
    [] cmd = "$type" -> TypeIs(v, r)
    [] cmd = "$exists" -> FieldsExist(v, r)

\* A key is a string, or what a transformation made of one.

BetweenKey(k, low, high) ==
  IF low[1] = "str" /\ high[1] = "str"
  THEN IF k[1] = "str" THEN Yes(~PyLess(k, low) /\ ~PyLess(high, k)) ELSE No
  ELSE IF AllNum(<<low, high>>) /\ ReadsAsNum(k) THEN Yes(low[2] <= AsNum(k) /\ AsNum(k) <= high[2]) ELSE No

CompareKey(cmd, k, r) ==
  CASE cmd \in OrderCmds -> IF IsInstance(k, r[1]) THEN Yes(InOrder(cmd, k, r)) ELSE No
    [] cmd = "$eq" -> IF IsInstance(k, r[1]) THEN Yes(PyEq(k, r)) ELSE No
    [] cmd = "$between" -> BetweenKey(k, r[2][1], r[2][2])
    [] cmd = "$near" -> IF AllNum(r[2]) /\ ReadsAsNum(k)
                        THEN Yes(IsNear(AsNum(k), r[2][1][2], r[2][2][2])) ELSE No
    [] cmd = "$mod" -> IF AllNum(r[2]) /\ ReadsAsNum(k)
                       THEN Yes(AsNum(k) % r[2][1][2] = r[2][2][2]) ELSE No
    [] cmd \in {"$in", "$anyin"} -> Yes(Among(k, r[2]))
    [] cmd = "$has" -> IF r[1] = "str" THEN Yes(k = r) ELSE No
    [] cmd = "$size" -> LengthIs(1, r)
    [] OTHER -> No

\* A record has two dates; a datetime asks for the day it was created, a date
\* for the day it was modified, an ISO string for either.
PickDate(rec, r) == IF r[1] = "datetime" THEN rec.cdate ELSE rec.mdate
OnDays(days, s) == \E d \in days : Among(<<"date", d>>, s) \/ Among(<<"iso", d>>, s)

CompareDate(cmd, rec, r) ==
  LET dated == r[1] \in {"date", "datetime"}
      pair == r[2]
  IN
  CASE cmd \in OrderCmds -> IF dated THEN Yes(InOrder(cmd, Number(PickDate(rec, r)), Number(r[2]))) ELSE No
    [] cmd = "$eq" -> IF dated THEN Yes(PickDate(rec, r) = r[2]) ELSE No
    [] cmd = "$between" -> IF pair[1][1] = pair[2][1] /\ pair[1][1] \in {"date", "datetime"}
                           THEN Yes(pair[1][2] <= PickDate(rec, pair[1]) /\ PickDate(rec, pair[1]) <= pair[2][2])
                           ELSE No
    [] cmd = "$near" -> IF pair[1][1] \in {"date", "datetime"} /\ IsNum(pair[2])
                        THEN Yes(IsNear(PickDate(rec, pair[1]), pair[1][2], pair[2][2])) ELSE No
    [] cmd = "$mod" -> IF AllNum(pair) THEN Yes(rec.mdate % pair[1][2] = pair[2][2]) ELSE No
    [] cmd = "$in" -> Yes(OnDays({IF r[1] = "set" THEN rec.mdate ELSE rec.cdate}, r[2]))
    [] cmd = "$anyin" -> Yes(OnDays({rec.cdate, rec.mdate}, r[2]))
    [] cmd = "$has" -> IF dated \/ r[1] = "iso" THEN Yes(r[2] \in {rec.cdate, rec.mdate}) ELSE No
    [] OTHER -> No

-----------------------------------------------------------------------------
(* Rules.  A rule that is not a dictionary stands for one command. *)

Item(neg, cmd, arg) == [neg |-> neg, cmd |-> cmd, arg |-> arg]
Rule(items) == <<"rule", items>>
One(cmd, arg) == <<Item(FALSE, cmd, arg)>>
Text(v) ==
  CASE v[1] = "str" -> v
    [] v[1] = "bool" -> Str(IF v[2] = 1 THEN "True" ELSE "False")
    [] OTHER -> Str(ToString(v[2]))

ValItems(r) == IF r[1] = "rule" THEN r[2] ELSE IF r[1] = "list" THEN One("$in", r) ELSE One("$eq", r)
KeyItems(r) ==
  IF r[1] = "rule" THEN r[2]
  ELSE IF r[1] = "list" THEN One("$in", List([i \in DOMAIN r[2] |-> Text(r[2][i])]))
  ELSE One("$eq", Text(r))
DateItems(r) ==
  LET upto(low, high) == One("$between", List(<<<<"date", low>>, <<"date", high>>>>)) IN
  CASE r[1] = "rule" -> r[2]
    [] r[1] \in {"date", "datetime"} -> One("$eq", r)
    [] r[1] \in {"list", "set"} -> One("$anyin", r)
    [] r[1] = "iso" -> One("$has", r)
    [] IsNum(r) -> IF r[2] = 0 THEN One("$eq", <<"date", Today>>)
                   ELSE IF r[2] > 0 THEN upto(Today, Today + r[2]) ELSE upto(Today + r[2], Today)

\* _lower_cmd, and the commands whose name is the negation of another
Base(cmd) ==
  CASE cmd = "$ne" -> "$eq" [] cmd = "$nin" -> "$in" [] cmd = "$nhas" -> "$has"
    [] cmd = "$nor" -> "$or" [] cmd = "$nand" -> "$and" [] cmd = "$none" -> "$any"
    [] OTHER -> cmd
Reversed(item) == item.neg # (Base(item.cmd) # item.cmd)
Flip(item, b) == b # Reversed(item)
Judge(item, verdict) == verdict.applies /\ Flip(item, verdict.holds)

\* $and breaks off at the first rule that fails, $or at the first that
\* holds; without rules neither was matched
AllOf(s, Holds(_)) == s # <<>> /\ \A i \in DOMAIN s : Holds(s[i])
AnyOf(s, Holds(_)) == \E i \in DOMAIN s : Holds(s[i])

Connect(item, Holds(_)) ==
  CASE Base(item.cmd) = "$not" -> Flip(item, ~Holds(item.arg))
    [] Base(item.cmd) = "$and" -> Flip(item, AllOf(item.arg[2], Holds))
    [] Base(item.cmd) = "$or" -> Flip(item, AnyOf(item.arg[2], Holds))

\* The parts of a path: <<"field", name>>, <<"index", i>>, <<"any">> for *,
\* <<"deep">> for ** and <<"op", negated, command>>.
Wild(parts) == \E i \in DOMAIN parts : parts[i][1] \in {"any", "deep"}
Lookup(v, part) ==
  CASE part[1] = "field" /\ v[1] = "dict" /\ part[2] \in DOMAIN v[2] -> [ok |-> TRUE, val |-> v[2][part[2]]]
    [] part[1] = "index" /\ v[1] = "list" /\ part[2] < Len(v[2]) -> [ok |-> TRUE, val |-> v[2][part[2] + 1]]
    [] OTHER -> [ok |-> FALSE, val |-> None]

\* One part of a path without wildcards: a transformation, a field or an
\* index, or, as the last part, the command that the rule is for.
WalkPart(s, part, last) ==
  IF ~s.ok THEN s
  ELSE IF part[1] # "op" THEN LET l == Lookup(s.val, part) IN [s EXCEPT !.ok = l.ok, !.val = l.val]
  ELSE LET flipped == [s EXCEPT !.flip = @ # part[2]]
           t == ApplyTransform(part[3], s.val)
       IN IF part[3] \in Transforms THEN [flipped EXCEPT !.val = t, !.ok = t # None]
          ELSE IF last THEN [flipped EXCEPT !.rule = Rule(One(part[3], @))]
          ELSE [s EXCEPT !.ok = FALSE]
Walk(v, parts, rule) ==
  FoldLeft(LAMBDA s, i : WalkPart(s, parts[i], i = Len(parts)),
           [ok |-> TRUE, val |-> v, flip |-> FALSE, rule |-> rule], [i \in DOMAIN parts |-> i])

RECURSIVE MatchKey(_, _)
MatchKey(k, r) ==
  LET holds(item) ==
        LET a == item.arg
            sub(rule) == MatchKey(k, rule)
            t == ApplyTransform(item.cmd, k)
            w == Walk(k, a[2], a[3])
        IN CASE Base(item.cmd) \in Compares -> Judge(item, CompareKey(Base(item.cmd), k, a))
             [] Base(item.cmd) \in Connectives -> Connect(item, sub)
             [] item.cmd \in Transforms -> t # None /\ Flip(item, MatchKey(t, a))
             [] item.cmd = "ops" -> w.ok /\ Flip(item, MatchKey(w.val, w.rule) # w.flip)
             [] item.cmd = "_id" -> Flip(item, sub(a))
             [] OTHER -> FALSE
  IN r # None /\ \A i \in DOMAIN KeyItems(r) : holds(KeyItems(r)[i])

RECURSIVE MatchDate(_, _)
MatchDate(rec, r) ==
  LET sub(rule) == MatchDate(rec, rule)
      holds(item) ==
        CASE Base(item.cmd) \in Compares -> Judge(item, CompareDate(Base(item.cmd), rec, item.arg))
          [] Base(item.cmd) \in Connectives -> Connect(item, sub)
          [] item.cmd = "_date" -> Flip(item, sub(item.arg))
          [] OTHER -> FALSE
  IN r # None /\ \A i \in DOMAIN DateItems(r) : holds(DateItems(r)[i])

RECURSIVE AllNodes(_)
\* _iter_all_node: the value and everything in it
AllNodes(v) ==
  <<v>> \o (IF IsContainer(v) THEN FlattenSeq([i \in DOMAIN Children(v) |-> AllNodes(Children(v)[i])]) ELSE <<>>)

RECURSIVE MatchVal(_, _, _, _), MatchItem(_, _, _), MatchPath(_, _, _, _)

\* match_VAL_rules; mode says whether the children of v may ("any") or must
\* ("all") match in its place.
MatchVal(rec, v, r, mode) ==
  LET c == Children(v)
      items == ValItems(r)
  IN \/ mode = "any" /\ IsContainer(v) /\ \E i \in DOMAIN c : MatchVal(rec, c[i], r, "any")
     \/ mode = "all" /\ IsContainer(v) /\ \A i \in DOMAIN c : MatchVal(rec, c[i], r, "all")
     \/ r # None /\ \A i \in DOMAIN items : MatchItem(rec, v, items[i])

\* The last resort of $any and $all: the items of the rule that name a field
\* of v, each for itself.
MatchFields(rec, v, r, any) ==
  LET named(item) == v[1] = "dict" /\ item.cmd = "path" /\ Len(item.arg[2]) = 1 /\ Lookup(v, item.arg[2][1]).ok
      s == IF r[1] = "rule" THEN SelectSeq(r[2], named) ELSE <<>>
      holds(item) == MatchVal(rec, Lookup(v, item.arg[2][1]).val, item.arg[3], "self") # item.neg
  IN IF any THEN AnyOf(s, holds) ELSE AllOf(s, holds)

\* Faulty variant of MatchInside: nothing below is no match for $all.
MatchInsideSome(rec, v, r, any) ==
  LET mode == IF any THEN "any" ELSE "all"
      inside(w) == MatchVal(rec, w, r, mode)
  IN \/ IF ~IsContainer(v) THEN MatchVal(rec, v, r, "self")
        ELSE IF any THEN AnyOf(Children(v), inside) ELSE AllOf(Children(v), inside)
     \/ MatchFields(rec, v, r, any)

MatchInside(rec, v, r, any) ==
  LET c == Children(v)
      mode == IF any THEN "any" ELSE "all"
      inside(w) == MatchVal(rec, w, r, mode)
  IN \/ IF ~IsContainer(v) THEN MatchVal(rec, v, r, "self")
        ELSE IF any THEN AnyOf(c, inside) ELSE c = <<>> \/ AllOf(c, inside)
     \/ MatchFields(rec, v, r, any)

MatchItem(rec, v, item) ==
  LET cmd == Base(item.cmd)
      a == item.arg
      sub(rule) == MatchVal(rec, v, rule, "self")
      on(w, rule) == Flip(item, MatchVal(rec, w, rule, "self"))
      t == ApplyTransform(cmd, v)
      w == Walk(v, a[2], a[3])
      l == Lookup(v, a[2][1])
  IN CASE cmd \in Compares -> Judge(item, Compare(cmd, v, a))
       [] cmd \in Connectives -> Connect(item, sub)
       [] cmd \in {"$any", "$all"} -> Flip(item, MatchInside(rec, v, a, cmd = "$any"))
       [] cmd \in Transforms -> t # None /\ on(t, a)
       [] cmd = "ops" -> w.ok /\ on(w.val, w.rule) # w.flip
       [] cmd = "_id" -> Flip(item, MatchKey(rec.key, a))
       [] cmd = "_date" -> Flip(item, MatchDate(rec, a))
       [] cmd = "index" -> l.ok /\ on(l.val, a[3])
       [] cmd = "path" /\ v[1] = "dict" /\ Len(a[2]) = 1 /\ l.ok -> on(l.val, a[3])
       [] cmd = "path" /\ v[1] = "dict" /\ Wild(a[2]) -> Flip(item, MatchPath(rec, a[2], v, a[3]))
       [] cmd = "path" /\ v[1] = "dict" /\ Len(a[2]) > 1 -> w.ok /\ on(w.val, w.rule) # w.flip
       [] OTHER -> FALSE

\* _match_PATH.  A transformation as the last part is applied, and then again
\* by the rule that is made of it.
MatchPath(rec, parts, v, r) ==
  IF parts = <<>> THEN MatchVal(rec, v, r, "self")
  ELSE
  LET part == Head(parts)
      rest == Tail(parts)
      further(w) == MatchPath(rec, rest, w, r)
      t == IF part[3] \in Transforms THEN ApplyTransform(part[3], v) ELSE v
      l == Lookup(v, part)
  IN CASE part[1] = "deep" -> AnyOf(AllNodes(v), further)
       [] part[1] = "any" -> IsContainer(v) /\ AnyOf(Children(v), further)
       [] part[1] = "op" -> /\ part[3] \in Transforms => t # None
                            /\ rest = <<>>
                            /\ MatchVal(rec, t, Rule(<<Item(part[2], part[3], r)>>), "self")
       [] OTHER -> l.ok /\ further(l.val)

-----------------------------------------------------------------------------
(* Conditions: dictionaries with operators, as Query builds them *)

Compared(path, cmd, val) == IF path = <<>> THEN One(cmd, val)
                            ELSE <<Item(FALSE, "path", <<"path", path, Rule(One(cmd, val))>>)>>

Parts(cmd, c) == IF Len(c) = 1 /\ ~c[1].neg /\ c[1].cmd = cmd THEN c[1].arg[2] ELSE <<Rule(c)>>
CondAnd(c, d) == One("$and", <<"rules", Parts("$and", c) \o Parts("$and", d)>>)
CondOr(c, d) == One("$or", <<"rules", Parts("$or", c) \o Parts("$or", d)>>)
CondNot(c) == One("$not", Rule(c))
=============================================================================
