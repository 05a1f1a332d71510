----------------------------- MODULE MCSchemas ------------------------------
(***************************************************************************)
(* JSON Schema documents of up to three levels with two definitions that   *)
(* may refer to each other, chains of definitions about as long as the     *)
(* stack, core schemas, and samples of up to three records over two names. *)
(***************************************************************************)
EXTENDS Schemas

Long == Number("int", 1)
Word == Text("x")
Half == Number("float", 1)
Whole == Number("float", 2)
Longer == Text("xxx")

Flat  == {Null, Long, Word, Half}
Pairs == {Object(f) : f \in [{"a", "b"} -> {Null, Long, Word}]}
Ones(values) == {Object("a" :> v) : v \in values}
NoKeys == Object([name \in {} |-> Null])
Arrays == {Array(<<>>), Array(<<Long>>), Array(<<Word>>), Array(<<Long, Null>>)}
Unusual == {Whole, Longer, Array(<<Word, Long>>), Array(<<Long, Whole>>)}

MCTestValues ==
  Unusual \union Ones(Unusual) \union Flat \union Pairs \union Ones(Flat \union Arrays \union Ones(Flat)) \union {NoKeys}
    \union Arrays \union {Object("b" :> v) : v \in {Long, Word}} \union {Array(<<NoKeys>>)}

-----------------------------------------------------------------------------
(* Documents.                                                              *)
T(name) == [type |-> name]
Ref(name) == [ref |-> [table |-> "defs", name |-> name]]
Plain == [title |-> "x"]
P(name, node) == [name |-> name, spec |-> node]
Obj(properties, required) ==
  [type |-> "object", properties |-> properties, required |-> required]
Untagged(properties) == [properties |-> properties]
OneOf(m, n) == [oneOf |-> <<m, n>>]
AnyOf(m, n) == [anyOf |-> <<m, n>>]
AllOf(m, n) == [allOf |-> <<m, n>>]
OneA(node) == Obj(<<P("a", node)>>, {"a"})

Leaves == {T("string"), T("integer"), Plain, Ref("a"), Ref("b")}
Others == {T("number"), T("null"), T("boolean"), T("object"), T("array"), T("date"),
           [ref |-> [table |-> "elsewhere", name |-> "a"]], Ref("c"),
           [ref |-> [table |-> "definitions", name |-> "c"]],
           [ref |-> [table |-> "properties", name |-> "a"]] @@ Untagged(<<P("a", T("string"))>>),
           [types |-> <<"string", "null">>], [types |-> <<"integer", "string">>] @@ Ref("a"),
           [types |-> <<"object", "string">>] @@ Untagged(<<P("a", T("integer"))>>),
           [types |-> <<"string", "date">>], [types |-> <<"array", "null">>, items |-> T("string")],
           [type |-> "object", required |-> {"a"}], [required |-> {"a"}],
           T("string") @@ AnyOf(T("integer"), T("null")), T("integer") @@ Ref("a")}

Objects1 ==
  {Obj(<<P("a", n)>>, r) : n \in Leaves, r \in {{}, {"a"}, {"b"}}}
    \union {Untagged(<<P("a", n)>>) : n \in Leaves}
    \union {Obj(<<P("a", m), P("b", n)>>, {"b"}) : m, n \in {T("string"), T("integer"), Ref("a")}}
Lists1 == {[type |-> "array", items |-> n] : n \in Leaves} \union {[items |-> T("string")]}
Few == {T("string"), Ref("a"), Ref("b"), OneA(T("integer")), [required |-> {"b"}],
        Obj(<<P("b", T("string"))>>, {}), Untagged(<<P("b", T("string"))>>)}
Combined == {OneOf(m, n) : m, n \in Few} \union {AnyOf(m, n) : m, n \in Few}
              \union {AllOf(m, n) : m, n \in Few}
              \union {[allOf |-> <<m, n, T("date")>>] : m, n \in Few}

\* Keywords the import does not look at.
Limited ==
  {T("string") @@ [enum |-> {Word}], [enum |-> {Null, Long}], [const |-> Long],
   T("number") @@ [minimum |-> Long, maximum |-> Number("int", 2)],
   T("string") @@ [minLength |-> 2], [maxLength |-> 2],
   Obj(<<P("a", T("string"))>>, {}) @@ [additionalProperties |-> [types |-> <<>>]],
   T("object") @@ [additionalProperties |-> T("integer")],
   T("array") @@ [prefixItems |-> <<T("string")>>],
   T("array") @@ [prefixItems |-> <<T("string")>>, items |-> T("integer")],
   T("array") @@ [prefixItems |-> <<T("integer")>>, items |-> T("string")],
   T("array") @@ [prefixItems |-> <<T("string")>>, items |-> T("null")]}
Limits == Limited \union {OneA(n) : n \in Limited} \union {AnyOf(n, T("null")) : n \in Limited}
            \union {AllOf(OneA(T("string")), n) : n \in Limited}

\* Levels of objects: written one in the other, of which the parser refuses more
\* than fit the stack, or as definitions.
Nested[n \in 0 .. 7] == IF n = 0 THEN T("string") ELSE OneA(Nested[n - 1])
Link(i) == "d" \o ToString(i)
Chain(n) ==
  Ref(Link(1)) @@ [defs |-> [i \in 1 .. n |->
    P(Link(i), IF i = n THEN T("string") ELSE OneA(Ref(Link(i + 1))))]]
Deep == {Nested[n] : n \in 5 .. 7} \union {Chain(n) : n \in 5 .. 10}

Definitions == {T("string"), Ref("a"), Ref("b"), OneA(Ref("b")), OneA(T("integer")),
                [type |-> "array", items |-> Ref("a")], AnyOf(Ref("a"), T("integer"))}

Tabled(body, a, b) == body @@ [defs |-> <<P("a", a)>>, definitions |-> <<P("b", b), P("c", T("string"))>>]
SchemaDocuments ==
  {Tabled(body, a, b) : body \in Leaves \union Others \union Objects1 \union Lists1 \union Combined,
                        a \in Definitions, b \in {T("string"), Ref("a"), OneA(Ref("b"))}}
    \union {Tabled(n, T("string"), T("string")) : n \in Limits}
    \union {Tabled(Ref("a"), n, T("string")) : n \in Limited} \union Deep

CoreDocuments == {CoreSchema(Record(<<[name |-> "a", ty |-> ty, nullable |-> n, aliases |-> {}]>>)) :
                    ty \in {Scalar[k] : k \in DOMAIN Scalar} \union {[kind |-> k] : k \in Inexpressible},
                    n \in BOOLEAN}

-----------------------------------------------------------------------------
(* Samples.                                                                *)
Elements == Flat \union {Bool(TRUE)} \union Arrays \union Ones({Long, Word, Null})
Docs(values) == {NoKeys} \union Ones(values) \union {Object("b" :> v) : v \in {Null, Long, Word}}
                  \union {Object("a" :> v @@ "b" :> w) : v \in values, w \in {Null, Long, Word}}
                  \union {Long}
Samples2 == BoundedSeq(Docs(Elements), 2)
Samples3 == [1 .. 3 -> Docs({Null, Long, Word})]
RecordSamples == Samples2 \union Samples3

Ask(docs, records, modes, dialect) ==
  [doc: docs, records: records, infer: modes, dialect: {dialect}]
MCRequests ==
  Ask(SchemaDocuments \union CoreDocuments, {<<>>}, {"none"}, "json-schema")
    \union Ask({NoDocument}, RecordSamples, {"conservative", "aggressive"}, "json-schema")
    \union Ask({NoDocument}, BoundedSeq(Docs(Elements), 1), {"none"}, "core")

MCKeyOrder == <<"a", "b">>
MCNames == {"a", "b"}
MCDotted == [n \in MCNames |-> <<n>>]

-----------------------------------------------------------------------------
(* The types of these samples' values, in the same shapes.                 *)
E(name, ty) == [name |-> name, ty |-> ty, nullable |-> ty = Untyped, aliases |-> {}]
ListOf(ty)  == [kind |-> "list", element |-> ty, elementNullable |-> TRUE]
ScalarTypes  == {Untyped, Scalar["integer"], Scalar["string"]}
ElementTypes ==
  ScalarTypes \union {Scalar["number"], Scalar["boolean"]}
    \union {ListOf(ty) : ty \in {AnyType, Scalar["integer"], Scalar["string"]}}
    \union {Record(<<E("a", ty)>>) : ty \in ScalarTypes}
TypesOf(types) ==
  {Record(<<>>), Scalar["integer"]} \union {Record(<<E("a", ty)>>) : ty \in types}
    \union {Record(<<E("b", ty)>>) : ty \in ScalarTypes}
    \union {Record(<<E("a", ty), E("b", u)>>) : ty \in types, u \in ScalarTypes}

MCTypes == TypesOf(ElementTypes) \union ElementTypes \union {AnyType}
MCSamples == BoundedSeq(TypesOf(ElementTypes), 2) \union [1 .. 3 -> TypesOf(ScalarTypes)]
=============================================================================
