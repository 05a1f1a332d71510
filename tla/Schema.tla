------------------------------- MODULE Schema -------------------------------
(***************************************************************************)
(* The type AST of crates/shapeport-core/src/schema.rs, as far as the      *)
(* planner looks at it: kinds, record fields, list elements, nullability   *)
(* and aliases.  A type is a record with a "kind"; a record type also has  *)
(* "fields", a list type "element" and "elementNullable".  Any other part  *)
(* of a type (bits, precision, time unit) is a component of its record, so *)
(* that TLA+ equality is the derived PartialEq of the Rust type.           *)
(***************************************************************************)
EXTENDS Integers, Sequences, FiniteSets

CONSTANTS
  Names,       \* every string that can stand between two dots of a path, and
               \* every field name
  Identifiers, \* the names FieldPath's grammar accepts as one segment
  Dotted,      \* a field name, split at its dots
  Types        \* the types the model ranges over, closed under components

Field == [name: Names, ty: Types, nullable: BOOLEAN, aliases: SUBSET Names]

IsRecord(ty) == ty.kind = "record"
IsList(ty)   == ty.kind = "list"

ASSUME NamesAssumption ==
  /\ Identifiers \subseteq Names
  /\ Dotted \in [Names -> Seq(Names)]

ASSUME TypesAssumption ==
  \A ty \in Types :
    /\ IsRecord(ty) => ty.fields \in Seq(Field)
    /\ IsList(ty)   => ty.element \in Types /\ ty.elementNullable \in BOOLEAN

-----------------------------------------------------------------------------
(***************************************************************************)
(* Paths.  The planner's paths are strings joined with dots (join_path), so *)
(* a field called "a.b" and a field "b" inside "a" have the SAME path.  A   *)
(* path is the sequence of the names between its dots.                      *)
(***************************************************************************)
Path == Seq(Names)

JoinPath(prefix, name) == prefix \o Dotted[name]

\* FieldPath::parse: every segment must be an identifier.
Parses(path) == path # <<>> /\ \A i \in DOMAIN path : path[i] \in Identifiers

(***************************************************************************)
(* A field with the path that leads to it.  "at" (the names really walked)  *)
(* is not in the code: it tells fields with one path from each other.       *)
(***************************************************************************)
FieldRef == [path: Path, at: Path, field: Field]

Under(prefix, at, fields) ==
  [i \in DOMAIN fields |->
     [path  |-> JoinPath(prefix, fields[i].name),
      at    |-> Append(at, fields[i].name),
      field |-> fields[i]]]

RootRefs(ty)   == Under(<<>>, <<>>, ty.fields)
ChildRefs(ref) == Under(ref.path, ref.at, ref.field.ty.fields)

-----------------------------------------------------------------------------
(***************************************************************************)
(* types_compatible: assignability as the planner sees it.                  *)
(***************************************************************************)
Widens ==
  {<<"int", "float">>, <<"int", "decimal">>, <<"int", "string">>,
   <<"decimal", "string">>, <<"decimal", "float">>,
   <<"float", "string">>, <<"bool", "string">>}

SameKind(source, target) == source.kind = target.kind

TypesCompatible(source, target) ==
  \/ target.kind = "any" \/ source.kind = "unknown"
  \/ IsList(source) /\ source = target
  \/ ~IsList(source) /\ SameKind(source, target)
  \/ <<source.kind, target.kind>> \in Widens

=============================================================================
