------------------------------- MODULE SqlOps -------------------------------
(***************************************************************************)
(* What SQL expressions evaluate to in query.rs.  Texts are members of a   *)
(* small lexicon whose order and numerals are given by constants; numbers  *)
(* are integral.  Division and AVG are left out.                           *)
(***************************************************************************)
EXTENDS Query

CONSTANTS
  Collation,   \* all texts, in code-point order
  Numerals,    \* the texts that are numbers, as a function to what they spell
  Spelling     \* the numbers, as a function to their text

Null         == [type |-> "null"]
Bool(b)      == [type |-> "bool", bool |-> b]
Number(t, n) == [type |-> t, number |-> n]   \* t is "int", "float" or "decimal"
Text(t)      == [type |-> "text", text |-> t]
Nested       == [type |-> "nested"]          \* an array or an object

IsNumber(v) == v.type \in {"int", "float", "decimal"}
Truthy(v)   == v # Null /\ v # Bool(FALSE)

Stringify(v) ==
  CASE v.type = "text" -> v.text
    [] IsNumber(v)     -> Spelling[v.number]
    [] v.type = "bool" -> IF v.bool THEN "true" ELSE "false"
    [] OTHER           -> ""

ValuesEqual(u, v) == u = v \/ Stringify(u) = Stringify(v)

Place(text) == CHOOSE i \in DOMAIN Collation : Collation[i] = text

\* values_cmp is Less.
Less(u, v) ==
  IF IsNumber(u) /\ IsNumber(v) THEN u.number < v.number
  ELSE Place(Stringify(u)) < Place(Stringify(v))

\* value_f64: a number, or Failure for a text that is none.
AsNumber(v) ==
  CASE IsNumber(v)     -> Number("float", v.number)
    [] v.type = "text" -> IF v.text \in DOMAIN Numerals THEN Number("float", Numerals[v.text])
                          ELSE Failure
    [] OTHER           -> Number("float", 0)

-----------------------------------------------------------------------------
Compare(op, u, v) ==
  CASE op = "="  -> ValuesEqual(u, v)
    [] op = "<>" -> ~ValuesEqual(u, v)
    [] op = ">"  -> Less(v, u)
    [] op = "<"  -> Less(u, v)
    [] op = ">=" -> ~Less(u, v)
    [] op = "<=" -> ~Less(v, u)

Arithmetic(op, m, n) ==
  CASE op = "+" -> m + n [] op = "-" -> m - n [] op = "*" -> m * n

\* eval_binary_values, of operands that may have failed.
Binary(op, u, v) ==
  CASE Failure \in {u, v} -> Failure
    [] Failure \notin {u, v} /\ op \in {"=", "<>", ">", "<", ">=", "<="} -> Bool(Compare(op, u, v))
    [] Failure \notin {u, v} /\ op = "and" -> Bool(Truthy(u) /\ Truthy(v))
    [] Failure \notin {u, v} /\ op = "or"  -> Bool(Truthy(u) \/ Truthy(v))
    [] Failure \notin {u, v} /\ op \in {"+", "-", "*"} ->
         IF Failure \in {AsNumber(u), AsNumber(v)} THEN Failure
         ELSE Number("float", Arithmetic(op, AsNumber(u).number, AsNumber(v).number))

Lookup(row, name) == IF name \in DOMAIN row THEN row[name] ELSE Null

\* lookup_qualified and lookup_unqualified (whose table is "").
Column(column, left, right, rightName) ==
  IF column.table = rightName \/ (column.table = "" /\ column.name \notin DOMAIN left)
  THEN Lookup(right, column.name) ELSE Lookup(left, column.name)

\* eval_join_expr, and eval_expr with no right row.  An aggregate is an error
\* in both, as is every kind of expression the code does not know.
RECURSIVE EvalOn(_, _, _, _)
EvalOn(e, left, right, rightName) ==
  CASE e.expr = "column"  -> Column(e, left, right, rightName)
    [] e.expr = "literal" -> e.value
    [] e.expr = "binary"  -> Binary(e.op, EvalOn(e.left, left, right, rightName),
                                          EvalOn(e.right, left, right, rightName))
    [] OTHER              -> Failure

NoRow == [column \in {} |-> Null]
Eval(e, row) == EvalOn(e, row, NoRow, "no table")

\* eval_bool and eval_join_bool, where an error counts as false.
Holds(v) == v # Failure /\ Truthy(v)
JoinHolds(on, left, right, rightName) == Holds(EvalOn(on, left, right, rightName))
WhereHolds(where, row) == Holds(Eval(where, row))

-----------------------------------------------------------------------------
(* The select list: items are expressions with the name they give, which   *)
(* is an alias or expr_name, or a wildcard.                                *)
Wildcard == [expr |-> "wildcard"]

\* A name that occurs twice keeps the last value.
Insert(row, item, value) ==
  IF item.expr = Wildcard THEN value @@ row ELSE (item.name :> value) @@ row

Collected(items, values) ==
  IF \E i \in DOMAIN items : values[i] = Failure THEN Failure
  ELSE FoldLeft(LAMBDA row, i : Insert(row, items[i], values[i]), NoRow,
                [i \in DOMAIN items |-> i])

ProjectOne(items, row) ==
  Collected(items, [i \in DOMAIN items |->
    IF items[i].expr = Wildcard THEN row ELSE Eval(items[i].expr, row)])

Json(v) == IF v.type = "decimal" THEN Text(Stringify(v)) ELSE v

\* Mutant: the key is that of the last expression.
KeyOfLast(keys, row) ==
  LET parts == [k \in DOMAIN keys |-> Eval(keys[k], row)]
  IN  IF \E k \in DOMAIN keys : parts[k] = Failure THEN Failure
      ELSE [kind |-> "key", parts |-> [k \in DOMAIN keys |-> Json(parts[Len(keys)])]]

KeyOf(keys, row) ==
  LET parts == [k \in DOMAIN keys |-> Eval(keys[k], row)]
  IN  IF \E k \in DOMAIN keys : parts[k] = Failure THEN Failure
      ELSE [kind |-> "key", parts |-> [k \in DOMAIN keys |-> Json(parts[k])]]

\* fold_nums; COUNT(*) and the like have no argument.
NoArgument == [expr |-> "none"]
Numbers(arg, members) ==
  [i \in DOMAIN members |->
     LET v == Eval(arg, members[i])
     IN  IF arg = NoArgument THEN Number("float", 1)
         ELSE IF v = Failure THEN Failure ELSE AsNumber(v)]

Folded(function, numbers) ==
  CASE function = "sum" -> FoldLeft(LAMBDA m, n : m + n, 0, numbers)
    [] function = "min" -> FoldLeft(LAMBDA m, n : IF n < m THEN n ELSE m, Head(numbers), numbers)
    [] function = "max" -> FoldLeft(LAMBDA m, n : IF n > m THEN n ELSE m, Head(numbers), numbers)

Aggregate(e, members) ==
  LET values == Numbers(e.arg, members)
  IN  CASE e.function = "count" -> Number("int", Len(members))
        [] e.function \in {"sum", "min", "max"} ->
             IF Failure \in ToSet(values) THEN Failure
             ELSE Number("float", Folded(e.function, [i \in DOMAIN values |-> values[i].number]))

ProjectAll(items, members) ==
  Collected(items, [i \in DOMAIN items |->
    CASE items[i].expr = Wildcard           -> Failure
      [] items[i].expr.expr = "aggregate"   -> Aggregate(items[i].expr, members)
      [] OTHER                              -> Eval(items[i].expr, Head(members))])

-----------------------------------------------------------------------------
\* ORDER BY: a key that fails is null.
SortKey(key, row) == IF Eval(key.by, row) = Failure THEN Null ELSE Eval(key.by, row)

KeyLess(key, u, v) ==
  IF key.descending THEN Less(SortKey(key, v), SortKey(key, u))
  ELSE Less(SortKey(key, u), SortKey(key, v))

ComesBefore(order, u, v) ==
  \E k \in DOMAIN order :
    /\ KeyLess(order[k], u, v)
    /\ \A j \in 1 .. k - 1 : ~KeyLess(order[j], u, v) /\ ~KeyLess(order[j], v, u)

=============================================================================
