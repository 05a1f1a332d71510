----------------------------- MODULE JsonSchema -----------------------------
(***************************************************************************)
(* crates/shapeport-core/src/json_schema.rs: what a JSON Schema becomes as *)
(* a type, and a type as a JSON Schema.  A schema node is a record of its  *)
(* keywords: "type" (one name) or "types" (an array of names), "ref",      *)
(* "properties" (a sequence of names with their nodes), "required" (a set),*)
(* "items", "oneOf", "anyOf", "allOf"; the document also has the tables    *)
(* "defs" and "definitions", which are written like properties.  A ref is  *)
(* [table, name]; one whose table is "elsewhere" does not begin with "#/". *)
(* Keywords the import does not look at: "enum" (a set), "const", the      *)
(* bounds of numbers and of the lengths of texts, "prefixItems" (a         *)
(* sequence of nodes), "additionalProperties" (a node), and annotations.   *)
(***************************************************************************)
EXTENDS Documents, TLC

CONSTANT MaxStack   \* how deep type_from_schema may call itself in a thread's stack

Has(node, keyword) == keyword \in DOMAIN node

Refused(code) == [refused |-> code]
IsRefused(r)  == "refused" \in DOMAIN r
Union(variants) == [kind |-> "union", variants |-> variants]
Record(fields)  == [kind |-> "record", fields |-> fields]

-----------------------------------------------------------------------------
(* References: a name of "#/$defs" is also looked for in "definitions".    *)
Tables(ref) == IF ref.table = "defs" THEN <<"defs", "definitions">> ELSE <<ref.table>>

Entries(root, ref) ==
  LET present == SelectSeq(Tables(ref), LAMBDA table : Has(root, table))
  IN  SelectSeq(FlattenSeq([i \in DOMAIN present |-> root[present[i]]]),
                LAMBDA entry : entry.name = ref.name)

\* resolve_local_ref: one step, whatever the node it leads to is.
ResolveLocalRef(node, root) ==
  CASE ~Has(node, "ref") -> node
    [] Has(node, "ref") /\ node.ref.table = "elsewhere" -> Refused("remote_ref_denied")
    [] OTHER -> LET found == Entries(root, node.ref)
                IN  IF found = <<>> THEN Refused("unresolved_ref") ELSE Head(found).spec

\* The one keyword that decides, in the order type_from_schema asks for them.
Deciding == <<"types", "oneOf", "anyOf", "allOf", "type", "properties">>
KeywordOf(node) ==
  LET present == SelectSeq(Deciding, LAMBDA keyword : Has(node, keyword))
  IN  IF present = <<>> THEN "none" ELSE Head(present)

-----------------------------------------------------------------------------
(* Building types.  The first refusal in the order of the parts is the     *)
(* result of the whole.                                                    *)
FirstRefused(results, built) ==
  LET refusals == SelectSeq(results, IsRefused)
  IN  IF refusals = <<>> THEN built ELSE Head(refusals)

Scalar ==
  "string" :> [kind |-> "string"] @@ "integer" :> [kind |-> "int", bits |-> 64, signed |-> TRUE]
    @@ "number" :> [kind |-> "float", bits |-> 64] @@ "boolean" :> [kind |-> "bool"]
    @@ "null" :> [kind |-> "null"]


\* Mutant: what is required is not looked at.
NeverRequired(node, name) == FALSE

IsRequired(node, name) == Has(node, "required") /\ name \in node.required

RecordOf(node, types) ==
  FirstRefused(types, Record([i \in DOMAIN types |->
    [name |-> node.properties[i].name, ty |-> types[i],
     nullable |-> ~IsRequired(node, node.properties[i].name), aliases |-> {}]]))

\* Mutant: a type that is no record is passed over wherever it stands.
MergeRecordsOnly(merged, ty) ==
  IF IsRefused(merged) \/ merged.kind # "record" THEN merged
  ELSE IF IsRefused(ty) THEN ty
  ELSE IF ty.kind = "record" THEN Record(merged.fields \o ty.fields) ELSE merged

\* merge_all_of: the fields of the records are joined.  Another type is the
\* answer where no field came before it, and is passed over where one did.
MergeInto(merged, ty) ==
  IF IsRefused(merged) \/ merged.kind # "record" THEN merged
  ELSE IF IsRefused(ty) THEN ty
  ELSE IF ty.kind = "record" THEN Record(merged.fields \o ty.fields)
  ELSE IF merged.fields = <<>> THEN ty ELSE merged

\* Mutant: the copy of the node keeps its array of types.
KeepTypes(node, type) == node

WithType(node, type) ==
  [keyword \in (DOMAIN node \ {"types"}) \union {"type"} |->
     IF keyword = "type" THEN type ELSE node[keyword]]

RECURSIVE TypeFrom(_, _, _)
TypeFrom(unresolved, root, stack) ==
  LET node == ResolveLocalRef(unresolved, root)
      keyword == KeywordOf(node)
      TypesOf(nodes) == [i \in DOMAIN nodes |-> TypeFrom(nodes[i], root, stack - 1)]
      UnionOf(nodes) == LET types == TypesOf(nodes) IN FirstRefused(types, Union(types))
      Properties ==
        IF Has(node, "properties")
        THEN RecordOf(node, TypesOf([i \in DOMAIN node.properties |-> node.properties[i].spec]))
        ELSE Record(<<>>)
      ListOf(element) ==
        IF IsRefused(element) THEN element
        ELSE [kind |-> "list", element |-> element, elementNullable |-> TRUE]
  IN  CASE stack = 0 -> Refused("stack_overflow")
        [] stack > 0 /\ IsRefused(node) -> node
        [] stack > 0 /\ keyword = "types" ->
             UnionOf([i \in DOMAIN node.types |-> WithType(node, node.types[i])])
        [] stack > 0 /\ keyword \in {"oneOf", "anyOf"} -> UnionOf(node[keyword])
        [] stack > 0 /\ keyword = "allOf" ->
             FoldLeft(MergeInto, Record(<<>>), TypesOf(node.allOf))
        [] stack > 0 /\ keyword = "properties" -> Properties
        [] stack > 0 /\ keyword = "none" -> AnyType
        [] stack > 0 /\ keyword = "type" ->
             CASE node.type = "object" -> Properties
               [] node.type = "array"  ->
                    ListOf(IF Has(node, "items") THEN TypesOf(<<node.items>>)[1] ELSE AnyType)
               [] node.type \in DOMAIN Scalar -> Scalar[node.type]
               [] OTHER -> Refused("unsupported_json_schema_type")

SchemaFrom(doc) == TypeFrom(doc, doc, MaxStack)

-----------------------------------------------------------------------------
(* type_to_json_schema.                                                    *)
EachAs(kinds, name) == [kind \in kinds |-> name]
AsString == EachAs({"string", "decimal", "date", "timestamp", "binary"}, "string")
AsObject == EachAs({"any", "unknown", "time", "duration", "map"}, "object")

\* Mutant: a float is exported as an integer.
NumbersAsIntegers ==
  EachAs({"null"}, "null") @@ EachAs({"bool"}, "boolean") @@ EachAs({"int", "float"}, "integer")
    @@ AsString @@ AsObject

JsonType ==
  EachAs({"null"}, "null") @@ EachAs({"bool"}, "boolean") @@ EachAs({"int"}, "integer")
    @@ EachAs({"float"}, "number") @@ AsString @@ AsObject

RECURSIVE JsonSchemaOf(_)
JsonSchemaOf(ty) ==
  CASE ty.kind = "record" ->
         LET required == {ty.fields[i].name : i \in {j \in DOMAIN ty.fields : ~ty.fields[j].nullable}}
         IN  [type |-> "object",
              properties |-> [i \in DOMAIN ty.fields |->
                                [name |-> ty.fields[i].name, spec |-> JsonSchemaOf(ty.fields[i].ty)]]]
             @@ [keyword \in IF required = {} THEN {} ELSE {"required"} |-> required]
    [] ty.kind = "list"  -> [type |-> "array", items |-> JsonSchemaOf(ty.element)]
    [] ty.kind = "union" -> [anyOf |-> [i \in DOMAIN ty.variants |-> JsonSchemaOf(ty.variants[i])]]
    [] OTHER -> [type |-> JsonType[ty.kind]]

-----------------------------------------------------------------------------
(***************************************************************************)
(* The reference: what JSON Schema 2020-12 itself says of a value.  Here   *)
(* all keywords above count, a reference is followed to its end, and every *)
(* type is one of JSON's, for which 1.0 is an integer and equal to 1: the  *)
(* number of a float counts its halves.  "steps" ends references that lead *)
(* back to themselves without a value in between, which admit everything.  *)
(***************************************************************************)
IsNumber(v) == v.type \in {"int", "float"}
Amount(v)   == IF v.type = "float" THEN v.number ELSE 2 * v.number
IsWhole(v)  == v.type = "float" /\ v.number % 2 = 0

RECURSIVE AsJson(_)
AsJson(v) ==
  CASE IsNumber(v)       -> [type |-> "number", amount |-> Amount(v)]
    [] v.type = "array"  -> Array([i \in DOMAIN v.items |-> AsJson(v.items[i])])
    [] v.type = "object" -> Object([name \in DOMAIN v.fields |-> AsJson(v.fields[name])])
    [] OTHER             -> v

HasType(v, type) ==
  CASE type = "object"  -> v.type = "object"
    [] type = "array"   -> v.type = "array"
    [] type = "string"  -> v.type = "text"
    [] type = "integer" -> v.type = "int" \/ IsWhole(v)
    [] type = "number"  -> IsNumber(v)
    [] type = "boolean" -> v.type = "bool"
    [] type = "null"    -> v = Null
    [] OTHER            -> FALSE

IsListed(node, v) ==
  /\ Has(node, "enum")  => AsJson(v) \in {AsJson(x) : x \in node.enum}
  /\ Has(node, "const") => AsJson(v) = AsJson(node.const)

InBounds(node, v) ==
  /\ IsNumber(v) =>
       /\ Has(node, "minimum") => Amount(v) >= Amount(node.minimum)
       /\ Has(node, "maximum") => Amount(v) <= Amount(node.maximum)
  /\ v.type = "text" =>
       /\ Has(node, "minLength") => Len(v.text) >= node.minLength
       /\ Has(node, "maxLength") => Len(v.text) <= node.maxLength

\* "items" is about the items that prefixItems leaves.
ItemsAdmitted(node, items, Admits(_, _)) ==
  LET first == IF Has(node, "prefixItems") THEN Len(node.prefixItems) ELSE 0
  IN  \A i \in DOMAIN items :
        IF i <= first THEN Admits(node.prefixItems[i], items[i])
        ELSE Has(node, "items") => Admits(node.items, items[i])

FieldsAdmitted(node, values, Admits(_, _)) ==
  LET described == IF Has(node, "properties") THEN node.properties ELSE <<>>
      others == DOMAIN values \ {described[i].name : i \in DOMAIN described}
  IN  /\ Has(node, "required") => node.required \subseteq DOMAIN values
      /\ \A i \in DOMAIN described :
           described[i].name \in DOMAIN values =>
             Admits(described[i].spec, values[described[i].name])
      /\ Has(node, "additionalProperties") =>
           \A name \in others : Admits(node.additionalProperties, values[name])

RECURSIVE Valid(_, _, _, _)
Valid(node, root, v, steps) ==
  LET Admits(n, x) == Valid(n, root, x, steps - 1)
      Admitting(nodes) == {i \in DOMAIN nodes : Admits(nodes[i], v)}
      target == ResolveLocalRef(node, root)
  IN  \/ steps = 0
      \/ /\ Has(node, "ref")   => ~IsRefused(target) /\ Admits(target, v)
         /\ Has(node, "type")  => HasType(v, node.type)
         /\ Has(node, "types") => \E i \in DOMAIN node.types : HasType(v, node.types[i])
         /\ Has(node, "anyOf") => Admitting(node.anyOf) # {}
         /\ Has(node, "oneOf") => Cardinality(Admitting(node.oneOf)) = 1
         /\ Has(node, "allOf") => Admitting(node.allOf) = DOMAIN node.allOf
         /\ IsListed(node, v) /\ InBounds(node, v)
         /\ v.type = "array"  => ItemsAdmitted(node, v.items, Admits)
         /\ v.type = "object" => FieldsAdmitted(node, v.fields, Admits)

IsValid(doc, v) == Valid(doc, doc, v, 2 * MaxStack)

=============================================================================
