----------------------------- MODULE RecordOps ------------------------------
(***************************************************************************)
(* What the operations of a plan do to one record (engine.rs, functions.rs *)
(* and the checks of plan.rs).  A text is a string of a small lexicon      *)
(* whose spelling is given by constants; floats and decimals have integral *)
(* values; uint, binary, date and timestamp values are left out, as are    *)
(* the JSON texts of arrays and objects (as sort keys, or cast to string). *)
(***************************************************************************)
EXTENDS Operations, Documents, TLC

CONSTANTS
  Numerals,   \* the texts that are numbers, as a function to what they spell
  Padded,     \* those with a leading zero and more than one character
  Collation,  \* all texts in code-point order, none before a padded negative number
  Uppercase   \* str::to_uppercase, as a function on texts

-----------------------------------------------------------------------------
(* Failures, and reading by a path.                                        *)
Numeric == {"int", "float", "decimal"}
IsFailure(r) == "code" \in DOMAIN r
FailedAt(results) == {i \in DOMAIN results : IsFailure(results[i])}
AnyFailure(results) == FailedAt(results) # {}
FirstFailure(results) == results[Min(FailedAt(results))]

\* A path is a sequence of segments [field |-> name] and [index |-> n].
SimpleName(path) == Len(path) = 1 /\ "field" \in DOMAIN path[1]

Member(v, segment) ==
  CASE "field" \in DOMAIN segment /\ v.type = "object" /\ segment.field \in DOMAIN v.fields
         -> v.fields[segment.field]
    [] "index" \in DOMAIN segment /\ v.type = "array" /\ segment.index < Len(v.items)
         -> v.items[segment.index + 1]
    [] OTHER -> Null

ReadPath(v, path) == FoldLeft(Member, v, path)

-----------------------------------------------------------------------------
(* Casts.                                                                  *)
CastTargets ==
  {"null", "bool", "int64", "int32", "uint64", "float64", "float32", "decimal", "string",
   "binary", "date", "timestamp"}
IntTargets   == {"int64", "int32", "uint64"}
FloatTargets == {"float64", "float32"}

Stringify(v) ==
  CASE v.type \in Numeric ->
         Text(CHOOSE t \in DOMAIN Numerals \ Padded : Numerals[t] = v.number)
    [] v.type = "bool" -> Text(IF v.bool THEN "true" ELSE "false")
    [] v.type = "text" -> v

Parsed(type, text, otherwise) ==
  IF text \in DOMAIN Numerals THEN Number(type, Numerals[text]) ELSE otherwise

\* Unlike the other casts of a text, parse_int has no case for "try".
ParseInt(text, policy) ==
  IF policy = "strict" /\ text \in Padded THEN Failure("leading_zero")
  ELSE Parsed("int", text, Failure("cast_failed"))

ParseFloat(text, policy) ==
  CASE policy = "lossy"  -> Parsed("float", text, Failure("cast_failed"))
    [] policy = "try"    -> Parsed("float", text, Null)
    [] policy = "strict" -> Failure("lossy_cast_required")

CastValue(v, target, policy) ==
  CASE v = Null -> Null
    [] v # Null /\ target \notin CastTargets -> Failure("unknown_cast_target")
    [] target = "string" /\ v # Null -> Stringify(v)
    [] target \in IntTargets /\ v.type = "int" -> v
    [] target \in IntTargets /\ v.type = "text" -> ParseInt(v.text, policy)
    [] target \in FloatTargets /\ v.type \in {"int", "float"} -> Number("float", v.number)
    [] target \in FloatTargets /\ v.type = "decimal" ->
         IF policy = "lossy" THEN Number("float", v.number) ELSE Failure("lossy_cast_required")
    [] target \in FloatTargets /\ v.type = "text" -> ParseFloat(v.text, policy)
    [] target = "decimal" /\ v.type = "decimal" -> v
    [] target = "decimal" /\ v.type = "text" ->
         Parsed("decimal", v.text, Failure("cast_failed"))
    [] target = "bool" /\ v.type = "bool" -> v
    [] OTHER -> IF policy = "try" THEN Null ELSE Failure("cast_failed")

-----------------------------------------------------------------------------
(* Expressions.                                                            *)
Call(function, args) ==
  CASE function = "is_null"  -> Bool(args = <<>> \/ args[1] = Null)
    [] function = "null_if"  ->
         IF Len(args) # 2 THEN Failure("bad_args")
         ELSE IF args[1] = args[2] THEN Null ELSE args[1]
    [] function = "upper"    ->
         CASE Len(args) = 1 /\ args[1].type = "text" -> Text(Uppercase[args[1].text])
           [] Len(args) = 1 /\ args[1] = Null        -> Failure("null_arg")
           [] OTHER                                  -> Failure("bad_args")
    [] OTHER -> Failure("unknown_function")

\* The first result that is not null; a failure before it is returned.
Coalesce(results) ==
  LET set == {i \in DOMAIN results : results[i] # Null}
  IN  IF set = {} THEN Null ELSE results[Min(set)]

NoFields == [n \in {} |-> Null]
With(fields, name, x) == (name :> x) @@ fields

Assemble(names, results) ==
  IF AnyFailure(results) THEN FirstFailure(results)
  ELSE Object(FoldLeft(LAMBDA fields, i : With(fields, names[i], results[i]), NoFields,
                       [i \in DOMAIN names |-> i]))

RECURSIVE Eval(_, _)
Eval(v, e) ==
  CASE e.expr = "field"    -> ReadPath(v, e.path)
    [] e.expr = "literal"  -> e.value
    [] e.expr = "cast"     ->
         LET inner == Eval(v, e.of)
         IN  IF IsFailure(inner) THEN inner ELSE CastValue(inner, e.target, e.policy)
    [] e.expr = "coalesce" -> Coalesce([i \in DOMAIN e.exprs |-> Eval(v, e.exprs[i])])
    [] e.expr = "call"     ->
         LET args == [i \in DOMAIN e.args |-> Eval(v, e.args[i])]
         IN  IF AnyFailure(args) THEN FirstFailure(args) ELSE Call(e.function, args)
    [] e.expr = "object"   ->
         Assemble(e.names, [i \in DOMAIN e.exprs |-> Eval(v, e.exprs[i])])
    [] e.expr = "listMap"  ->
         LET list    == ReadPath(v, e.input)
             results == FoldLeft(LAMBDA done, item :
                                   Append(done, IF item = Null THEN Null ELSE Eval(item, e.item)),
                                 <<>>, list.items)
         IN  CASE list.type = "null"  -> Null
               [] list.type = "array" ->
                    IF AnyFailure(results) THEN FirstFailure(results) ELSE Array(results)
               [] OTHER               -> Failure("list_map_type")

Truthy(v) == v # Null /\ v # Bool(FALSE)

-----------------------------------------------------------------------------
(* Operations on one record.                                               *)
InsertField(v, name, x) ==
  IF v.type = "object" THEN Object(With(v.fields, name, x)) ELSE Failure("not_an_object")

\* One pair of the mapping; a field already called rename.to is overwritten.
RenameOne(fields, rename) ==
  IF rename.from \in DOMAIN fields
  THEN With([n \in DOMAIN fields \ {rename.from} |-> fields[n]], rename.to, fields[rename.from])
  ELSE fields

Rename(v, mapping) ==
  IF v.type = "object" THEN Object(FoldLeft(RenameOne, v.fields, mapping))
  ELSE Failure("not_an_object")

DropFields(v, paths) ==
  LET dropped == {p[1].field : p \in {q \in ToSet(paths) : SimpleName(q)}}
  IN  IF v.type = "object" THEN Object([n \in DOMAIN v.fields \ dropped |-> v.fields[n]])
      ELSE Failure("not_an_object")

Project(v, paths) ==
  IF \A i \in DOMAIN paths : SimpleName(paths[i])
  THEN Assemble([i \in DOMAIN paths |-> paths[i][1].field],
                [i \in DOMAIN paths |-> ReadPath(v, paths[i])])
  ELSE Failure("project_path")

CastField(v, path, target, policy) ==
  LET casted == CastValue(ReadPath(v, path), target, policy)
  IN  CASE IsFailure(casted) -> casted
        [] ~IsFailure(casted) /\ ~SimpleName(path) -> Failure("cast_path")
        [] ~IsFailure(casted) /\ SimpleName(path) -> InsertField(v, path[1].field, casted)

ApplyRecordOp(op, v) ==
  CASE op.op = "project"  -> Project(v, op.paths)
    [] op.op = "rename"   -> Rename(v, op.mapping)
    [] op.op = "drop"     -> DropFields(v, op.paths)
    [] op.op = "literal"  -> InsertField(v, op.field, op.value)
    [] op.op = "cast"     -> CastField(v, op.path, op.target, op.policy)
    [] op.op = "coalesce" ->
         LET resolved == Coalesce([i \in DOMAIN op.exprs |-> Eval(v, op.exprs[i])])
         IN  IF IsFailure(resolved) THEN resolved ELSE InsertField(v, op.field, resolved)
    [] op.op \in {"object", "map"} ->
         Assemble(op.names, [i \in DOMAIN op.exprs |-> Eval(v, op.exprs[i])])

PredicateHolds(op, v) == Truthy(Eval(v, op.predicate))

\* with_exploded for every item; op.to is a set of at most one name.
ExplodeOne(op, v) ==
  LET list  == ReadPath(v, op.path)
      items == CASE list.type = "array"         -> list.items
                 [] list = Null /\ op.outer     -> <<Null>>
                 [] OTHER                       -> <<>>
      dest  == op.to \union (IF op.to = {} /\ SimpleName(op.path) THEN {op.path[1].field} ELSE {})
  IN  [i \in DOMAIN items |->
         IF dest = {} THEN Failure("explode_to")
         ELSE InsertField(v, CHOOSE name \in dest : TRUE, items[i])]

\* The error an operation gives for a record; a sort gives none.
FaultOf(op, v) ==
  LET results == CASE op.kind = "map"     -> <<ApplyRecordOp(op, v)>>
                   [] op.kind = "filter"  -> <<Eval(v, op.predicate)>>
                   [] op.kind = "explode" -> ExplodeOne(op, v)
                   [] op.kind = "sort"    -> <<>>
  IN  IF op.kind = "explode" /\ ReadPath(v, op.path).type \notin {"array", "null"}
      THEN Failure("explode_type")
      ELSE IF AnyFailure(results) THEN FirstFailure(results) ELSE NoError

-----------------------------------------------------------------------------
(* Sort keys.                                                              *)
(* rank_value compares texts: a zero-padded negative number starts with a  *)
(* minus sign, a float has its point where an integer still has zeros, and *)
(* decimals are not padded: of texts, those of a negative number and of 0  *)
(* come before the padded numbers that are not negative, the others after. *)
(* Null comes before or after all of them.                                 *)
BeforePadded(text) == text \in DOMAIN Numerals /\ Numerals[text] <= 0

RankOfFloat(n) == CASE n < 0 -> <<2, -n>> [] n = 0 -> <<4, 0>> [] n > 0 -> <<6, n>>

RankOfText(text) ==
  <<IF BeforePadded(text) THEN 3 ELSE 7, CHOOSE i \in DOMAIN Collation : Collation[i] = text>>

Rank(v, nulls) ==
  CASE v.type = "null"  -> <<IF nulls = "first" THEN 0 ELSE 8, 0>>
    [] v.type = "int"   -> IF v.number < 0 THEN <<1, -v.number>> ELSE <<5, v.number>>
    [] v.type = "float" -> RankOfFloat(v.number)
    [] v.type \in {"text", "bool", "decimal"} -> RankOfText(Stringify(v).text)

Less(a, b) == a[1] < b[1] \/ (a[1] = b[1] /\ a[2] < b[2])

\* compare_records is Less: the first key whose ranks differ decides, and "desc"
\* reverses its verdict, nulls included.
ComesBefore(op, u, v) ==
  LET rank(w, i) == Rank(ReadPath(w, op.keys[i].path), op.keys[i].nulls)
  IN  \E i \in DOMAIN op.keys :
        /\ IF op.keys[i].order = "desc" THEN Less(rank(v, i), rank(u, i))
                                        ELSE Less(rank(u, i), rank(v, i))
        /\ \A j \in 1 .. i - 1 : rank(u, j) = rank(v, j)

-----------------------------------------------------------------------------
(* validate_op.                                                            *)
CastTargetError(target, policy) ==
  CASE target \notin CastTargets -> Failure("unknown_cast_target")
    [] target \in FloatTargets /\ policy = "strict" -> Failure("lossy_cast_required")
    [] OTHER -> NoError

FirstError(errors) ==
  LET bad == {i \in DOMAIN errors : errors[i] # NoError}
  IN  IF bad = {} THEN NoError ELSE errors[Min(bad)]

RECURSIVE ExprError(_)
ExprError(e) ==
  CASE e.expr = "cast" -> FirstError(<<CastTargetError(e.target, e.policy), ExprError(e.of)>>)
    [] e.expr \in {"coalesce", "object"} ->
         FirstError([i \in DOMAIN e.exprs |-> ExprError(e.exprs[i])])
    [] e.expr = "call"    -> FirstError([i \in DOMAIN e.args |-> ExprError(e.args[i])])
    [] e.expr = "listMap" -> ExprError(e.item)
    [] e.expr \in {"field", "literal"} -> NoError

ValidateOp(op) ==
  CASE op.op = "sort" /\ op.keys = <<>>     -> Failure("invalid_sort")
    [] op.op = "map" /\ op.exprs = <<>>     -> Failure("invalid_map")
    [] op.op = "project" /\ op.paths = <<>> -> Failure("invalid_project")
    [] op.op = "cast"   -> CastTargetError(op.target, op.policy)
    [] op.op \in {"object", "coalesce"} \/ (op.op = "map" /\ op.exprs # <<>>) ->
         FirstError([i \in DOMAIN op.exprs |-> ExprError(op.exprs[i])])
    [] op.op = "filter" -> ExprError(op.predicate)
    [] OTHER -> NoError

=============================================================================
