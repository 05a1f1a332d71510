----------------------------- MODULE Documents ------------------------------
(***************************************************************************)
(* What the schema functions say of one value: type_of, value_depth and    *)
(* validate_value.                                                         *)
(***************************************************************************)
EXTENDS Values, Integers, Sequences, FiniteSets, SequencesExt

\* The keys of an object, in the order all objects here have them.
Keys(v, order) == SelectSeq(order, LAMBDA name : name \in DOMAIN v.fields)

-----------------------------------------------------------------------------
AnyType == [kind |-> "any"]
Untyped == [kind |-> "unknown"]

RECURSIVE TypeOf(_, _)
TypeOf(v, order) ==
  CASE v.type = "null"    -> Untyped
    [] v.type = "bool"    -> [kind |-> "bool"]
    [] v.type = "int"     -> [kind |-> "int", bits |-> 64, signed |-> TRUE]
    [] v.type = "float"   -> [kind |-> "float", bits |-> 64]
    [] v.type = "decimal" -> [kind |-> "decimal", precision |-> 38, scale |-> 10]
    [] v.type = "text"    -> [kind |-> "string"]
    [] v.type = "array"   ->
         [kind |-> "list", elementNullable |-> TRUE,
          element |-> IF v.items = <<>> THEN AnyType ELSE TypeOf(v.items[1], order)]
    [] v.type = "object"  ->
         LET keys == Keys(v, order)
         IN  [kind |-> "record",
              fields |-> [k \in DOMAIN keys |->
                            LET x == v.fields[keys[k]]
                            IN  [name |-> keys[k], ty |-> TypeOf(x, order),
                                 nullable |-> x = Null, aliases |-> {}]]]

\* Mutant: a union has the type of the first record.
AsFirstType(seen) == Head(seen)

\* The type of a field Inference kept as the types it was unified from.
AsType(seen) ==
  FoldLeft(LAMBDA left, right : [kind |-> "union", variants |-> <<left, right>>],
           Head(seen), Tail(seen))

\* validate_type.
RECURSIVE Conforms(_, _)
Conforms(ty, v) ==
  \/ v = Null
  \/ ty.kind \in {"any", "unknown"}
  \/ ty.kind = "bool"  /\ v.type = "bool"
  \/ ty.kind = "int"   /\ v.type = "int"
  \/ ty.kind = "float" /\ v.type \in {"float", "int"}
  \/ ty.kind \in {"string", "decimal"} /\ v.type \in {"text", "decimal"}
  \/ ty.kind = "list"  /\ v.type = "array"
                        /\ \A i \in DOMAIN v.items : Conforms(ty.element, v.items[i])
  \/ ty.kind = "union" /\ \E i \in DOMAIN ty.variants : Conforms(ty.variants[i], v)
  \/ /\ ty.kind = "record" /\ v.type = "object"
     /\ \A i \in DOMAIN ty.fields :
          IF ty.fields[i].name \in DOMAIN v.fields
          THEN Conforms(ty.fields[i].ty, v.fields[ty.fields[i].name])
          ELSE ty.fields[i].nullable

RECURSIVE Depth(_)
Depth(v) ==
  CASE v.type = "object" -> 1 + Max({0} \union {Depth(v.fields[n]) : n \in DOMAIN v.fields})
    [] v.type = "array"  -> 1 + Max({0} \union {Depth(v.items[i]) : i \in DOMAIN v.items})
    [] OTHER             -> 1

(***************************************************************************)
(* type_of judges a list by its first element: what a schema says of a     *)
(* record holds only if all elements are like it, or it is null.           *)
(***************************************************************************)
RECURSIVE Uniform(_, _)
Uniform(v, order) ==
  CASE v.type = "object" -> \A name \in DOMAIN v.fields : Uniform(v.fields[name], order)
    [] v.type = "array"  ->
         \A i \in DOMAIN v.items :
           /\ Uniform(v.items[i], order)
           /\ \/ Null \in {v.items[1], v.items[i]}
              \/ TypeOf(v.items[i], order) = TypeOf(v.items[1], order)
    [] OTHER             -> TRUE

=============================================================================
