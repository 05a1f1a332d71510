--------------------------- MODULE MCApplication ----------------------------
(***************************************************************************)
(* Calls of the application operations on samples of up to two records     *)
(* (three where a limit is exceeded), with scalars, nested records and     *)
(* lists of records, planned for targets that differ from them.            *)
(***************************************************************************)
EXTENDS Application

MCNumerals  == [t \in {"1"} |-> 1]
MCPadded    == {}
MCCollation == <<"1", "false", "true", "x">>
MCUppercase == [t \in {"1", "false", "true", "x"} |-> t]

MCKeyOrder  == <<"id", "name", "customer", "customer_id", "lines", "sku">>
MCNames     == {"id", "name", "customer", "customer_id", "lines", "sku", "Sku", "Lines"}
MCDotted    == [n \in MCNames |-> <<n>>]
MCWords     ==
  [n \in MCNames |-> CASE n = "customer_id" -> <<"customer", "id">>
                       [] n = "Sku" -> <<"sku">> [] n = "Lines" -> <<"lines">>
                       [] OTHER -> <<n>>]

-----------------------------------------------------------------------------
(* Records.                                                                *)
Long == Number("int", 1)
X    == Text("x")
Scalars == {Null, Long, X, Bool(TRUE), Number("float", 1), Number("decimal", 1)}

One(name, v) == Object(name :> v)
Line(v) == One("sku", v)
Lists == {Array(<<>>), Array(<<Line(Long)>>), Array(<<Line(X), Null>>),
          Array(<<Null, Line(X)>>), Array(<<Line(Long), Line(X)>>), Array(<<Long, X>>),
          Array(<<Line(Array(<<Line(Long)>>)), Line(Array(<<Line(Long), Null>>))>>),
          Array(<<Line(Array(<<Line(Long)>>)), Line(X)>>)}

Ids       == {One("id", v) : v \in Scalars}
Customers == {One("customer", v) : v \in {Null, X, One("id", Null), One("id", Long), One("id", X)}}
Carts    == {One("lines", v) : v \in Lists \union {Null, X}}
Mixed     == {Object("id" :> Long @@ "name" :> X), Object("id" :> X @@ "customer" :> One("id", Long)),
              Object("id" :> Long @@ "customer_id" :> Long), Long}

RECURSIVE Wrapped(_)
Wrapped(n) == IF n = 0 THEN Long ELSE One("customer", Wrapped(n - 1))
Deep == Wrapped(6)
Single  == BoundedSeq(Ids \union Customers \union Carts \union Mixed, 1)
Samples == Single \union UNION {[1 .. 2 -> family] : family \in {Ids, Customers, Carts, Mixed}}
Odd == {<<Deep>>, <<One("id", Long), One("id", X), One("id", Bool(TRUE))>>,
        <<One("id", Long), One("id", X), One("id", Bool(TRUE)), One("id", X)>>}

(* Targets.                                                                *)
F(name, ty)    == [name |-> name, ty |-> ty, nullable |-> FALSE, aliases |-> {}]
Opt(name, ty)  == [F(name, ty) EXCEPT !.nullable = TRUE]
RecordType(fs)     == [kind |-> "record", fields |-> fs]
List(ty)       == [kind |-> "list", element |-> ty, elementNullable |-> TRUE]
Of(kind)       == [kind |-> kind]
Union(a, b)    == [kind |-> "union", variants |-> <<Of(a), Of(b)>>]

Targets ==
  {RecordType(<<F("id", ty)>>) : ty \in {Of("string"), Of("int"), Of("float"), Of("decimal"), Of("any"),
                                    Union("int", "bool")}}
  \union {RecordType(<<Opt("id", Of("int")), Opt("customer_id", Of("int"))>>),
          RecordType(<<F("customer", RecordType(<<Opt("id", Of("string")), Opt("name", Of("string"))>>))>>),
          RecordType(<<Opt("Lines", List(RecordType(<<Opt("Sku", Of("int"))>>)))>>),
          RecordType(<<Opt("Lines", List(RecordType(<<F("Sku", Of("string"))>>)))>>),
          RecordType(<<Opt("Lines", List(RecordType(<<F("Sku", List(RecordType(<<Opt("Sku", Of("int"))>>)))>>)))>>),
          RecordType(<<F("lines", List(Of("int")))>>)}

(* Plans.                                                                  *)
Get(name) == [expr |-> "field", path |-> <<[field |-> name]>>]
CastId == [kind |-> "map", op |-> "cast", path |-> <<[field |-> "id"]>>, target |-> "int64",
           policy |-> "strict"]
Unwrap == [kind |-> "explode", op |-> "explode", path |-> <<[field |-> "lines"]>>, to |-> {},
           outer |-> FALSE]
Some   == [kind |-> "filter", op |-> "filter", predicate |-> Get("id")]
NoMap  == [kind |-> "map", op |-> "map", names |-> <<>>, exprs |-> <<>>]
GivenPlans ==
  [ops: {<<CastId>>, <<Some, CastId>>, <<Unwrap>>, <<NoMap>>}, validation: {"none", "required"}]

(* Calls.                                                                  *)
Call0 == [op |-> "inspect", records |-> <<>>, plan |-> NoPlan, target |-> NoTarget,
          mode |-> "smart", infer |-> "conservative", policy |-> "fail", format |-> "json"]

Inspections == {[Call0 EXCEPT !.records = rs, !.infer = m] :
                  rs \in Samples \union Odd, m \in {"conservative", "aggressive"}}
Plannings == {[Call0 EXCEPT !.op = "plan", !.records = rs, !.target = t] :
                rs \in Single, t \in Targets}
Transforms == {[Call0 EXCEPT !.op = "transform", !.records = rs, !.target = t, !.infer = m,
                             !.format = IF m = "aggressive" THEN "csv" ELSE "json"] :
                 rs \in Samples \union Odd, t \in Targets, m \in {"conservative", "aggressive"}}
Executions == {[Call0 EXCEPT !.op = "transform", !.records = rs, !.target = t, !.plan = p,
                             !.policy = policy] :
                 rs \in Single \union Odd, t \in {NoTarget, RecordType(<<F("id", Of("int"))>>)},
                 p \in GivenPlans, policy \in Policies}
Conversions == {[Call0 EXCEPT !.op = "convert", !.records = rs, !.format = f] :
                  rs \in Samples, f \in {"json", "csv"}}
Validations == {[Call0 EXCEPT !.op = "validate", !.records = rs, !.target = t] :
                  rs \in Single \union Odd, t \in Targets}

AllCalls ==
  Inspections \union Plannings \union Transforms \union Executions \union Conversions
    \union Validations

MCCalls == AllCalls
NoInputs == {}
MCErrors == {EmptyPlan}
=============================================================================
