------------------------------ MODULE MCEngine ------------------------------
(***************************************************************************)
(* Small plans and record sequences for the executor: every plan of up to  *)
(* two of eleven operations, and a few longer ones, under each policy.     *)
(***************************************************************************)
EXTENDS Engine, RecordOps

MCNumerals  == [t \in {"7", "007", "2", "-1", "0"} |->
                  CASE t \in {"7", "007"} -> 7 [] t = "2" -> 2 [] t = "-1" -> -1 [] t = "0" -> 0]
MCPadded    == {"007"}
MCCollation == <<"-1", "0", "007", "2", "7", "X", "false", "true", "x">>
MCUppercase == [t \in ToSet(MCCollation) |-> IF t = "x" THEN "X" ELSE t]

Long(n)  == Number("int", n)
Path(n) == <<[field |-> n]>>
Deep    == <<[field |-> "items"], [index |-> 0]>>
Get(p)  == [expr |-> "field", path |-> p]
CastTo(e, target, policy) == [expr |-> "cast", of |-> e, target |-> target, policy |-> policy]

MapOp(rest) == [kind |-> "map"] @@ rest
CastN(target, policy) ==
  MapOp([op |-> "cast", path |-> Path("n"), target |-> target, policy |-> policy])
SortN(order, nulls) ==
  [kind |-> "sort", op |-> "sort",
   keys |-> <<[path |-> Path("n"), order |-> order, nulls |-> nulls]>>]
Explode(outer) ==
  [kind |-> "explode", op |-> "explode", path |-> Path("items"), to |-> {"n"}, outer |-> outer]
Filter(e) == [kind |-> "filter", op |-> "filter", predicate |-> e]

Default == MapOp([op |-> "coalesce", field |-> "n", exprs |-> <<
           [expr |-> "call", function |-> "null_if",
            args |-> <<Get(Path("n")), [expr |-> "literal", value |-> Text("2")]>>],
           [expr |-> "literal", value |-> Long(2)]>>])
Reshape == MapOp([op |-> "map", names |-> <<"n", "items">>, exprs |-> <<
             CastTo(Get(Path("n")), "int64", "lossy"),
             [expr |-> "listMap", input |-> Path("items"),
              item |-> CastTo(Get(<<>>), "int64", "lossy")]>>])
First   == MapOp([op |-> "object", names |-> <<"n">>, exprs |-> <<Get(Deep)>>])
Keep    == MapOp([op |-> "project", paths |-> <<Path("n")>>])
Lose    == MapOp([op |-> "drop", paths |-> <<Path("items")>>])
Alike   == MapOp([op |-> "literal", field |-> "n", value |-> Long(2)])
Renamed == MapOp([op |-> "rename", mapping |-> <<[from |-> "m", to |-> "n"],
                                                 [from |-> "n", to |-> "m"]>>])
IsTrue  == Filter(CastTo(Get(Path("n")), "bool", "strict"))
NotNull == Filter([expr |-> "call", function |-> "null_if",
                   args |-> <<[expr |-> "call", function |-> "is_null", args |-> <<Get(Path("n"))>>],
                              [expr |-> "literal", value |-> Bool(TRUE)]>>])
IsTextual == Filter([expr |-> "call", function |-> "upper", args |-> <<Get(Path("n"))>>])

\* Operations validate_op refuses.
NoKeys == [kind |-> "sort", op |-> "sort", keys |-> <<>>]
Float  == CastN("float64", "strict")

Common == {CastN("int64", "strict"), CastN("string", "lossy"), Reshape, Lose, Renamed, IsTrue,
           IsTextual, SortN("asc", "last"), SortN("desc", "first"), Explode(TRUE), Explode(FALSE)}

Pairs == {<<op1, op2>> : op1 \in Common, op2 \in Common}
Chosen ==
  { <<>>, <<NoKeys>>, <<Lose, Float>>,
    <<Default, IsTextual, CastN("float64", "lossy"), SortN("desc", "last")>>,
    <<CastN("int64", "strict"), Explode(FALSE), CastN("int64", "strict"), SortN("asc", "last")>>,
    <<NotNull, First, CastN("decimal", "try"), SortN("asc", "last")>>,
    <<Explode(TRUE), Alike, SortN("asc", "last"), Keep>>,
    <<CastN("int64", "try"), SortN("desc", "last")>>,
    <<SortN("asc", "first"), IsTextual, Reshape, CastN("int64", "strict")>> }
OpSequences == {<<op>> : op \in Common} \union Pairs \union Chosen

Obj1(n)        == Object([n |-> n])
Obj2(n, items) == Object([n |-> n, items |-> items])

EngineInputs ==
  { <<>>,
    <<Obj1(Long(7)), Obj1(Text("x")), Obj1(Null)>>,
    <<Obj2(Text("x"), Array(<<Long(7), Text("x"), Null>>)), Obj2(Text("007"), Null),
      Obj2(Null, Array(<<>>))>>,
    <<Obj2(Bool(TRUE), Array(<<Text("2")>>)), Obj1(Bool(FALSE)),
      Obj2(Long(-1), Array(<<Bool(TRUE), Text("7")>>))>>,
    <<Obj2(Text("2"), Array(<<Long(2)>>)), Obj2(Long(-1), Long(2)), Obj2(Text("2"), Null)>>,
    <<Obj2(Text("7"), Null), Long(7), Obj1(Text("7"))>> }

EnginePlans == [ops: OpSequences, policy: Policies]

-----------------------------------------------------------------------------
\* Every value the operations make of the records of the inputs.
AllOps == UNION {ToSet(ops) : ops \in OpSequences}
Made(op, v) ==
  CASE op.kind = "sort" \/ FaultOf(op, v) # NoError -> {}
    [] op.kind = "map" /\ FaultOf(op, v) = NoError -> {ApplyRecordOp(op, v)}
    [] op.kind = "filter" /\ FaultOf(op, v) = NoError -> {v}
    [] op.kind = "explode" /\ FaultOf(op, v) = NoError -> ToSet(ExplodeOne(op, v))

RECURSIVE Closure(_, _)
Closure(done, new) ==
  IF new = {} THEN done
  ELSE LET made == UNION {Made(op, v) : op \in AllOps, v \in new}
       IN  Closure(done \union new, made \ (done \union new))

ClosedValues == Closure({}, UNION {ToSet(values) : values \in EngineInputs})

ErrorCodes ==
  {"empty_plan", "invalid_sort", "lossy_cast_required", "cast_failed", "leading_zero", "null_arg",
   "bad_args", "list_map_type", "explode_type", "not_an_object"}
EngineErrors == {Failure(code) : code \in ErrorCodes}

\* Overrides of the configuration are evaluated at each use; these are not.
MCInputs == EngineInputs
MCPlans  == EnginePlans
MCValues == ClosedValues
MCErrors == EngineErrors

\* compare_records is a strict weak order on the keys that occur, as sort_by
\* requires of it.
SortKeysSeen == {ReadPath(v, Path("n")) : v \in ClosedValues}
ASSUME OrderAssumption ==
  \A op \in {o \in AllOps : o.kind = "sort"} :
    LET before == [k \in SortKeysSeen, l \in SortKeysSeen |-> ComesBefore(op, Obj1(k), Obj1(l))]
    IN  \A u, v, w \in SortKeysSeen :
          /\ ~(before[u, v] /\ before[v, u])
          /\ before[u, w] => before[u, v] \/ before[v, w]

-----------------------------------------------------------------------------
(***************************************************************************)
(* What the documents say of an execution.                                 *)
(***************************************************************************)
\* docs/schemas/transformation-plan.v1alpha1.json:66: a cast with policy "try"
\* gives null on failure, so it rejects no record.
TryNeverRejects ==
  \A i \in DOMAIN rejects :
    LET op == plan.ops[rejects[i].step]
    IN  ~(op.op = "cast" /\ op.policy = "try" /\ rejects[i].error.code = "cast_failed")

=============================================================================
