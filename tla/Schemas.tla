------------------------------ MODULE Schemas -------------------------------
(***************************************************************************)
(* The schema command (cmd_schema of the command line, shapeport_schema of *)
(* the MCP server) and what becomes of its answer: a schema is imported    *)
(* from a JSON Schema or in ShapePort's own form, or inferred from records *)
(* (Inference); it is printed in one of the two forms; and a later command *)
(* reads the printed document as its target schema.                        *)
(***************************************************************************)
EXTENDS Inference, JsonSchema

CONSTANTS
  Requests,   \* the requests: see Request below
  TestValues, \* the values the schemas are asked about
  KeyOrder    \* all keys of objects, in the order objects have them

VARIABLES
  request,  \* what is asked for
  stage,    \* "read", "print", "reread", "done" or "failed"
  schema,   \* the type read or inferred, or a refusal
  printed,  \* the document that was printed
  reread    \* the type a later command makes of it

schemaVars == <<request, stage, schema, printed, reread>>
allVars    == <<vars, schemaVars>>

(***************************************************************************)
(* A request: a document or NoDocument and then records; the dialect.  A   *)
(* document of the core schema has a "root" whose kind is given.           *)
(***************************************************************************)
NoDocument == [document |-> "none"]
Nothing    == [kind |-> "none"]
IsCore(doc) == Has(doc, "root")
CoreSchema(ty) == [root |-> ty]

Given    == request.doc # NoDocument
Inferred ==
  Record([k \in DOMAIN fields |->
            [name |-> fields[k].name, ty |-> AsType(fields[k].seen),
             nullable |-> fields[k].nullable, aliases |-> {}]])

SchemaFromValue(doc) == IF IsCore(doc) THEN doc.root ELSE SchemaFrom(doc)

\* A command that fails has printed nothing.
Take(ty) ==
  /\ schema' = ty
  /\ stage' = IF IsRefused(ty) THEN "failed" ELSE "print"
  /\ UNCHANGED <<request, printed, reread>>

ReadSchema ==
  /\ stage = "read" /\ Given
  /\ Take(SchemaFromValue(request.doc))
  /\ UNCHANGED vars

InferStep ==
  /\ stage = "read" /\ ~Given
  /\ Next
  /\ UNCHANGED schemaVars

TakeInferred ==
  /\ stage = "read" /\ ~Given /\ status # "running"
  /\ Take(IF status = "inferred" THEN Inferred ELSE Refused("type_conflict"))
  /\ UNCHANGED vars

Emit ==
  /\ stage = "print"
  /\ printed' = IF request.dialect = "json-schema" THEN JsonSchemaOf(schema) ELSE CoreSchema(schema)
  /\ stage' = "reread"
  /\ UNCHANGED <<vars, request, schema, reread>>

\* load_json_schema, by a command that is given what was printed.
Reread ==
  /\ stage = "reread"
  /\ reread' = SchemaFromValue(printed)
  /\ stage' = "done"
  /\ UNCHANGED <<vars, request, schema, printed>>

SchemasInit ==
  /\ request \in Requests
  /\ stage = "read" /\ schema = Nothing /\ printed = NoDocument /\ reread = Nothing
  /\ sample = [i \in DOMAIN request.records |-> TypeOf(request.records[i], KeyOrder)]
  /\ mode = request.infer
  /\ pos = 0 /\ fields = <<>> /\ rest = <<>> /\ status = "running"

SchemasNext == ReadSchema \/ InferStep \/ TakeInferred \/ Emit \/ Reread

SchemasSpec == SchemasInit /\ [][SchemasNext]_allVars

-----------------------------------------------------------------------------
(***************************************************************************)
(* What a document uses, for the properties to say where the import loses  *)
(* something.  These are about its text alone, not about type_from_schema. *)
(***************************************************************************)
SubNodes(node) ==
  UNION {Range(node[k]) : k \in DOMAIN node \intersect {"anyOf", "oneOf", "allOf", "prefixItems"}}
    \union {node[k] : k \in DOMAIN node \intersect {"items", "additionalProperties"}}
    \union UNION {{node[k][i].spec : i \in DOMAIN node[k]} :
                    k \in DOMAIN node \intersect {"properties"}}

RECURSIVE NodesIn(_)
NodesIn(node) == {node} \union UNION {NodesIn(n) : n \in SubNodes(node)}

TableEntries(doc) ==
  UNION {Range(doc[t]) : t \in DOMAIN doc \intersect {"defs", "definitions"}}
AllNodes(doc) == NodesIn(doc) \union UNION {NodesIn(e.spec) : e \in TableEntries(doc)}

\* The nodes so many levels below the document, references followed; an array of
\* types is a level of its own.
NextLevel(node) ==
  IF Has(node, "types") THEN {[k \in DOMAIN node \ {"types"} |-> node[k]]} ELSE SubNodes(node)

RECURSIVE NodesAt(_, _)
NodesAt(doc, level) ==
  IF level = 0 THEN {doc}
  ELSE UNION {NextLevel(ResolveLocalRef(n, doc)) : n \in NodesAt(doc, level - 1)}

\* The keywords the import looks at, and those it does not that limit values.
Keywords == {"types", "type", "anyOf", "oneOf", "allOf", "ref", "items", "properties", "required"}
Tacit    == {"title", "defs", "definitions"}
Limiting == {"enum", "const", "minimum", "maximum", "minLength", "maxLength", "prefixItems",
             "additionalProperties"}

IsRef(node) == DOMAIN node \intersect Keywords = {"ref"}

\* Nodes whose every keyword the import uses as JSON Schema means it.
IsPlain(node, doc) ==
  /\ DOMAIN node \subseteq Keywords \union Tacit
  /\ CASE Has(node, "ref") ->
            /\ IsRef(node)
            /\ LET target == ResolveLocalRef(node, doc)
               IN  ~IsRefused(target) /\ ~Has(target, "ref")
       [] Has(node, "anyOf") /\ ~Has(node, "ref") ->
            DOMAIN node \intersect Keywords = {"anyOf"}
       [] OTHER ->
            /\ ~Has(node, "oneOf") /\ ~Has(node, "allOf")
            /\ Has(node, "required") =>
                 /\ Has(node, "properties")
                 /\ node.required \subseteq {node.properties[i].name : i \in DOMAIN node.properties}
            /\ Has(node, "items") => \E k \in {"type", "types", "properties"} : Has(node, k)

IsTyped(node) == Has(node, "properties") => Has(node, "type") \/ Has(node, "types")

AsksInteger(node) ==
  \/ Has(node, "type")  /\ node.type = "integer"
  \/ Has(node, "types") /\ "integer" \in Range(node.types)

\* Items that follow a prefix, which the import takes for all items.
HasPrefix(node) == {"items", "prefixItems"} \subseteq DOMAIN node

RECURSIVE Within(_)
Within(v) ==
  {v} \union CASE v.type = "array"  -> UNION {Within(v.items[i]) : i \in DOMAIN v.items}
               [] v.type = "object" -> UNION {Within(v.fields[name]) : name \in DOMAIN v.fields}
               [] OTHER             -> {}

HoldsNull(v)  == Null \in Within(v)
HoldsEmpty(v) == Array(<<>>) \in Within(v)
HoldsWhole(v) == \E x \in Within(v) : IsWhole(x)

Imported == stage # "read" /\ Given /\ ~IsCore(request.doc) /\ ~IsRefused(schema)

-----------------------------------------------------------------------------
(***************************************************************************)
(* The import never refuses data that conforms: what is valid under the    *)
(* JSON Schema is valid under the imported type, whatever the import left  *)
(* out, merged or passed over (merge_all_of, nullable_union, a reference   *)
(* to a reference), with three exceptions: properties given without a type *)
(* (JSON Schema lets values that are no objects pass, the import does      *)
(* not), items after a prefix, and 1.0 where an integer is asked for.      *)
(***************************************************************************)
Imports == Imported /\ \A n \in AllNodes(request.doc) : IsTyped(n)
Prefixed == \E n \in AllNodes(request.doc) : HasPrefix(n)
WithIntegers == \E n \in AllNodes(request.doc) : AsksInteger(n)

ConformingAccepted ==
  Imports /\ ~Prefixed =>
    \A v \in TestValues :
      IsValid(request.doc, v) => Conforms(schema, v) \/ (WithIntegers /\ HoldsWhole(v))

(***************************************************************************)
(* And it lets nothing else pass but nulls, which validate_type takes for  *)
(* every type, as long as the document is plain: one reference at a time,  *)
(* nothing beside an anyOf or a reference, no oneOf or allOf, nothing      *)
(* required that is not described, and no keyword that is not looked at.   *)
(***************************************************************************)
OnlyNullsSlip ==
  Imported /\ (\A n \in AllNodes(request.doc) : IsPlain(n, request.doc)) =>
    \A v \in TestValues : Conforms(schema, v) => IsValid(request.doc, v) \/ HoldsNull(v)

(***************************************************************************)
(* The RFC says of the JSON Schema subset that "v0.1 MUST support" it:     *)
(* type, items, prefixItems, enum, const, bounds, $defs, local $ref,       *)
(* additionalProperties (0001-shapeport.md:348-357).  For a document of no *)
(* more than this, plain otherwise, the imported type judges data without  *)
(* nulls as JSON Schema does.  It does NOT: a reference to a reference     *)
(* becomes any, limits are passed over, "items" is imported for the items  *)
(* of the prefix too, and 1.0, an integer, is decoded to a float.          *)
(***************************************************************************)
IsSupported(node, doc) ==
  IsRef(node) \/ IsPlain([k \in DOMAIN node \ Limiting |-> node[k]], doc)

SubsetSupported ==
  Imports /\ (\A n \in AllNodes(request.doc) : IsSupported(n, request.doc)) =>
    \A v \in TestValues : ~HoldsNull(v) => (Conforms(schema, v) <=> IsValid(request.doc, v))

(***************************************************************************)
(* type_from_schema has no bound on its depth, so a document may end the   *)
(* process.  Only one that is, references followed, nested deeper than the *)
(* thread's stack does, as any whose definitions lead back to themselves;  *)
(* every other gets a type or an error, however arrays of types, copies    *)
(* of nodes and references are arranged.                                   *)
(***************************************************************************)
OnlyTheDeepOverflow ==
  schema = Refused("stack_overflow") => NodesAt(request.doc, MaxStack) # {}

(***************************************************************************)
(* The JSON Schema printed for inferred records admits them, also by JSON  *)
(* Schema's own rules: but for the nulls, which it has no type for (a      *)
(* nullable field is one that is not required), and lists that are empty   *)
(* or not uniform, whose elements infer_schema does not look at.           *)
(***************************************************************************)
PrintedAdmitsRecords ==
  stage \in {"reread", "done"} /\ ~Given /\ ~IsCore(printed) =>
    \A i \in DOMAIN request.records :
      LET v == request.records[i]
      IN  v.type = "object" /\ Uniform(v, KeyOrder) /\ ~HoldsNull(v)
            /\ ~(\E k \in DOMAIN request.records : HoldsEmpty(request.records[k]))
          => IsValid(printed, v)

(***************************************************************************)
(* Whichever dialect is printed, a command that takes the document as its  *)
(* target judges values as the schema itself does, as long as no part of   *)
(* it is of a kind JSON Schema's export does not express: it writes        *)
(* "object" for any value, for a map, a time and a duration, and "string"  *)
(* for a date, a timestamp and binary data, of which validate_type takes   *)
(* no value but null.                                                      *)
(***************************************************************************)
Inexpressible == {"any", "unknown", "date", "timestamp", "binary", "time", "duration", "map"}

RECURSIVE IsExpressible(_)
IsExpressible(ty) ==
  CASE ty.kind = "record" -> \A i \in DOMAIN ty.fields : IsExpressible(ty.fields[i].ty)
    [] ty.kind = "list"   -> IsExpressible(ty.element)
    [] ty.kind = "union"  -> \A i \in DOMAIN ty.variants : IsExpressible(ty.variants[i])
    [] OTHER              -> ty.kind \notin Inexpressible


=============================================================================
