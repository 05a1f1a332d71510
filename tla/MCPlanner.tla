----------------------------- MODULE MCPlanner ------------------------------
(***************************************************************************)
(* Small schemas for the planner, and the properties that need the whole   *)
(* target schema (a recursion over the type, which only TLC evaluates).    *)
(***************************************************************************)
EXTENDS Planner

\* A field name, its split at dots, its normalized words, and whether the
\* grammar of FieldPath accepts it.
Lexicon ==
  [id           |-> [dots |-> <<"id">>,           words |-> <<"id">>],
   customer_id  |-> [dots |-> <<"customer_id">>,  words |-> <<"customer", "id">>],
   customerId   |-> [dots |-> <<"customerId">>,   words |-> <<"customer", "id">>],
   customer     |-> [dots |-> <<"customer">>,     words |-> <<"customer">>],
   amount       |-> [dots |-> <<"amount">>,       words |-> <<"amount">>],
   gross_amount |-> [dots |-> <<"gross_amount">>, words |-> <<"gross", "amount">>],
   net_amount   |-> [dots |-> <<"net_amount">>,   words |-> <<"net", "amount">>],
   items        |-> [dots |-> <<"items">>,        words |-> <<"items">>],
   Items        |-> [dots |-> <<"Items">>,        words |-> <<"items">>],
   order        |-> [dots |-> <<"order">>,        words |-> <<"order">>],
   dotted       |-> [dots |-> <<"customer", "id">>, words |-> <<"customer", "id">>],
   dashed       |-> [dots |-> <<"customer-id">>,  words |-> <<"customer", "id">>]]

AllNames == DOMAIN Lexicon \union {"customer-id"}
Idents == AllNames \ {"customer-id", "dotted", "dashed"}
DotsOf == [n \in AllNames |-> IF n = "customer-id" THEN <<n>> ELSE Lexicon[n].dots]
WordsOf ==
  [n \in AllNames |-> IF n = "customer-id" THEN <<"customer", "id">> ELSE Lexicon[n].words]

-----------------------------------------------------------------------------
Long   == [kind |-> "int", bits |-> 64]
Short == [kind |-> "int", bits |-> 32]
Real  == [kind |-> "float", bits |-> 64]
Text  == [kind |-> "string"]
Date  == [kind |-> "date"]

F(name, ty)      == [name |-> name, ty |-> ty, nullable |-> FALSE, aliases |-> {}]
Opt(name, ty)    == [F(name, ty) EXCEPT !.nullable = TRUE]
Alias(f, names)  == [f EXCEPT !.aliases = names]
Record(fields)   == [kind |-> "record", fields |-> fields]
List(ty)         == [kind |-> "list", element |-> ty, elementNullable |-> FALSE]
NullableItems(l) == [l EXCEPT !.elementNullable = TRUE]

\* Every ordered choice of at most n of the fields, and every unordered one.
Arrangements(fields, n) == {s \in BoundedSeq(fields, n) : IsInjective(s)}
Picks(fields, n) ==
  {SetToSeq(S) : S \in {T \in SUBSET fields : Cardinality(T) <= n}}

Calls(sources, targets, modes) ==
  [source: {Record(s) : s \in sources}, target: {Record(t) : t \in targets},
   mode: modes]

-----------------------------------------------------------------------------
(***************************************************************************)
(* Scalars and nested records.                                             *)
(***************************************************************************)
RecordSources ==
  {F("id", Long), F("customer_id", Long), Opt("customer", Record(<<F("id", Long)>>)),
   F("gross_amount", Real), F("net_amount", Long), Alias(F("order", Long), {"amount"})}

RecordTargets ==
  {F("id", Long), Opt("customer_id", Long), F("customerId", Text), F("amount", Real),
   Opt("net_amount", Date),
   F("customer", Record(<<F("id", Long)>>)), F("order", Record(<<>>))}

\* Names FieldPath cannot express, an empty target and roots that are no records.
OddCalls ==
  Calls({<<F("dashed", Long)>>, <<F("dotted", Long), F("id", Long)>>},
        {<<F("customer_id", Long)>>, <<Opt("id", Date)>>, <<>>}, Modes)
  \union [source: {Text, Record(<<F("id", Long)>>)}, target: {Text}, mode: {"smart"}]

AllRecordCalls ==
  Calls(Picks(RecordSources, 3), Arrangements(RecordTargets, 2), Modes) \union OddCalls

(***************************************************************************)
(* Lists of records of lists, nullable or not.                             *)
(***************************************************************************)
Line(id, amount) == Record(<<id, amount>>)

Inner1 == Line(F("customer_id", Long), F("gross_amount", Long))
Inner2 == Line(F("id", Long), Opt("amount", Long))
Inner3 == Record(<<F("gross_amount", Long), F("net_amount", Long)>>)
Inner4 == Record(<<F("items", List(Inner1)), F("id", Long)>>)
Inner5 == Record(<<F("Items", List(Inner2)), Opt("customer_id", Long)>>)
Inner6 == Record(<<Opt("amount", Date)>>)   \* nothing of it is ever mapped

ListElements == {Long, Short, Inner1, Inner2, Inner3, Inner4, Inner5}

ListTypes == {List(e) : e \in ListElements} \union {NullableItems(List(Inner1))}

ListSources == {F(n, l) : n \in {"items", "Items"}, l \in ListTypes} \union {Opt("items", List(Inner1))}

ListTargets ==
  {F("items", l) : l \in ListTypes \union {List(Inner6)}} \union {Opt("Items", List(Inner2)), Opt("Items", List(Inner5))}

ListTargetPairs ==
  {<<F("items", List(Inner2)), t>> : t \in {Opt("Items", List(Inner2)), Opt("Items", List(Inner5))}}

\* A required list fed by the list of a record that may be null.
OptionalOrder == Opt("order", Record(<<F("items", List(Long))>>))
OptionalListCalls == Calls({<<OptionalOrder>>}, {<<F("items", List(Long))>>}, Modes)

\* A list and a scalar whose paths are the same string.
OneStringTwoFields ==
  Calls({<<F("customer", Record(<<F("id", Long)>>)), F("dotted", List(Long))>>},
        {<<F("customer_id", List(Long))>>}, {"smart"})

OneNamePer(s) == \A i, j \in DOMAIN s : s[i].name = s[j].name => i = j

AllListCalls ==
  Calls({s \in Picks(ListSources, 2) : OneNamePer(s)},
        {<<t>> : t \in ListTargets} \union ListTargetPairs, Modes)
  \union OneStringTwoFields

-----------------------------------------------------------------------------
\* The types of the calls and of all their components.
FieldTypes(types) ==
  UNION {{ty.fields[i].ty : i \in DOMAIN ty.fields} : ty \in {t \in types : IsRecord(t)}}

Elements1(types) == {t.element : t \in {u \in types : IsList(u)}}

Components(types) == types \union FieldTypes(types) \union Elements1(types)

RootTypes(calls) == {c.source : c \in calls} \union {c.target : c \in calls}

TypesOfRecordCalls == Components(Components(RootTypes(AllRecordCalls)))
TypesOfListCalls ==
  Components(Components(Components(Components(Components(RootTypes(AllListCalls))))))

OptionalListTypes == Components(Components(RootTypes(OptionalListCalls)))

\* What the configurations give to the constants.  (TLC evaluates the
\* definition a constant is replaced by at every use, and what that definition
\* names only once.)
MCNames == AllNames
MCIdentifiers == Idents
MCDotted == DotsOf
MCWords == WordsOf
RecordCalls == AllRecordCalls
RecordTypes == TypesOfRecordCalls
PlannerTypes == TypesOfRecordCalls \union TypesOfListCalls \union OptionalListTypes
PlannerCalls == AllRecordCalls \union AllListCalls \union OptionalListCalls

\* In these calls the paths of the targets tell them apart, as ListsAllOrNothing
\* of PlannerChoices_proofs needs it.
TargetTypes(calls) ==
  Components(Components(Components(Components(Components({c.target : c \in calls})))))

ASSUME TargetsToldApart == TellApart(TargetTypes(Inputs))

-----------------------------------------------------------------------------
(***************************************************************************)
(* A Ready plan settles every target leaf exactly once: it is read from    *)
(* one source, or it is nullable and left out; nothing required is lost,   *)
(* at any depth of element mapping.  An ambiguous result accounts for      *)
(* every leaf once as well: mapped, left out, or reported.                 *)
(***************************************************************************)
RECURSIVE Leaves(_)
Leaves(refs) ==
  UNION {IF IsRecord(refs[i].field.ty) THEN Leaves(ChildRefs(refs[i])) ELSE {refs[i]}
           : i \in DOMAIN refs}

About(explanation, place) == {n \in DOMAIN explanation : explanation[n].target = place}

RECURSIVE Settled(_, _, _)
Settled(explanation, prefix, ref) ==
  LET place == Append(prefix, ref.path)
      about == About(explanation, place)
  IN  /\ Cardinality(about) = 1
      /\ \A n \in about :
           CASE explanation[n].action = "map" -> TRUE
             [] explanation[n].action = "omit" -> ref.field.nullable
             [] explanation[n].action = "mapElements" ->
                  \A leaf \in Leaves(RootRefs(ref.field.ty.element)) :
                    Settled(explanation, place, leaf)
             [] OTHER -> FALSE

Reported(unresolved, path) == {n \in DOMAIN unresolved : unresolved[n].target = path}

TargetLeaves == Leaves(RootRefs(request.target))

EveryTargetSettled ==
  /\ outcome.status = "ready" =>
       \A leaf \in TargetLeaves : Settled(outcome.explanation, NoPlace, leaf)
  /\ outcome.status = "ambiguous" =>
       \A leaf \in TargetLeaves :
         IF Reported(outcome.unresolved, leaf.path) = {}
         THEN Settled(outcome.explanation, NoPlace, leaf)
         ELSE /\ Cardinality(Reported(outcome.unresolved, leaf.path)) = 1
              /\ \A n \in About(outcome.explanation, <<leaf.path>>) :
                   outcome.explanation[n].action = "ambiguous"

(***************************************************************************)
(* An error ends the planning of all targets, from any depth of list       *)
(* mapping, so it must have a cause that no choice of sources could avoid: *)
(* a root that is no record, a target record of which nothing has to be    *)
(* there, or, in a source record, a leaf whose path FieldPath refuses or   *)
(* two leaves with one path, of which the second lookup of a list by its   *)
(* path (build_list_mapping) may find the other.                           *)
(***************************************************************************)
RECURSIVE PlannedTypes(_)
PlannedTypes(ty) ==
  {ty} \union UNION {PlannedTypes(leaf.field.ty.element) :
                      leaf \in {l \in Leaves(RootRefs(ty)) :
                                IsList(l.field.ty) /\ IsRecord(l.field.ty.element)}}

IsOptional(field) == field.nullable /\ ~IsRecord(field.ty)

Cause(code) ==
  CASE code = "not_a_record"  -> ~IsRecord(request.source) \/ ~IsRecord(request.target)
    [] code = "empty_mapping" ->
         \E ty \in PlannedTypes(request.target) : \A f \in Range(ty.fields) : IsOptional(f)
    [] code = "invalid_path"  ->
         \E ty \in PlannedTypes(request.source) :
           \E leaf \in Leaves(RootRefs(ty)) : ~Parses(leaf.path)
    [] code = "list_map_plan" ->
         \E ty \in PlannedTypes(request.source) :
           \E leaf, other \in Leaves(RootRefs(ty)) : leaf # other /\ leaf.path = other.path

ErrorsHaveCauses == outcome.status = "error" => Cause(outcome.code)

=============================================================================
