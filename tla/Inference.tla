----------------------------- MODULE Inference ------------------------------
(***************************************************************************)
(* infer_schema of crates/shapeport-core/src/formats.rs: one field list,   *)
(* started from the first record and unified with each later one.  A value *)
(* is only looked at through type_of, so a sample is the sequence of the   *)
(* types of its records: a record type for an object, with its entries in  *)
(* their order, any other type for any other value.                        *)
(***************************************************************************)
EXTENDS Schema, Functions

CONSTANT Samples   \* the samples: sequences of types

Unknown == [kind |-> "unknown"]
InferModes == {"none", "conservative", "aggressive"}

NamesIn(entries) == {entries[k].name : k \in DOMAIN entries}
OneEach(entries) ==
  \A k, l \in DOMAIN entries : entries[k].name = entries[l].name => k = l

\* type_of: null is the one value of unknown type, an object's keys are unique.
ASSUME SamplesAssumption ==
  /\ Samples \subseteq Seq(Types)
  /\ \A sample \in Samples : \A i \in DOMAIN sample :
       IsRecord(sample[i]) =>
         /\ OneEach(sample[i].fields)
         /\ \A k \in DOMAIN sample[i].fields :
              sample[i].fields[k].nullable = (sample[i].fields[k].ty = Unknown)

VARIABLES
  sample,  \* the types of the records
  mode,    \* InferMode
  pos,     \* how many records were looked at
  fields,  \* the fields so far
  rest,    \* entries of the last record that append_new_fields still looks at
  status   \* "running", "inferred" or "conflict"

vars == <<sample, mode, pos, fields, rest, status>>

(***************************************************************************)
(* A field of the schema.  Its type is kept as the types unify_types was   *)
(* given: <<t>> is t, <<t, u, v>> is the union of (the union of t and u)   *)
(* and v.                                                                  *)
(***************************************************************************)
Observed == [name: Names, seen: Seq(Types), nullable: BOOLEAN]

-----------------------------------------------------------------------------
\* Mutant: a null after a value is a conflict.
ClashOnNull(seen, ty) ==
  mode = "conservative" /\ seen # <<Unknown>> /\ seen # <<ty>>

\* unify_types where it is an error, and where it is not.
Clash(seen, ty) ==
  mode = "conservative" /\ seen # <<Unknown>> /\ ty # Unknown /\ seen # <<ty>>

Unified(seen, ty) ==
  IF seen = <<Unknown>> THEN <<ty>>
  ELSE IF ty = Unknown \/ seen = <<ty>> THEN seen ELSE Append(seen, ty)

Entry(entries, name) == entries[CHOOSE k \in DOMAIN entries : entries[k].name = name]

Updated(field, entries) ==
  IF field.name \in NamesIn(entries)
  THEN LET entry == Entry(entries, field.name)
       IN  [field EXCEPT !.seen = Unified(@, entry.ty), !.nullable = @ \/ entry.nullable]
  ELSE [field EXCEPT !.nullable = TRUE]

StartsWithObject == sample # <<>> /\ IsRecord(sample[1])
Current == sample[pos + 1]
AtRecord == status = "running" /\ rest = <<>> /\ pos \in 1 .. Len(sample) - 1

-----------------------------------------------------------------------------
\* No record, or a first one that is no object: an empty schema.
InferNothing ==
  /\ status = "running" /\ pos = 0 /\ ~StartsWithObject
  /\ status' = "inferred"
  /\ UNCHANGED <<sample, mode, pos, fields, rest>>

FirstRecord ==
  /\ status = "running" /\ pos = 0 /\ StartsWithObject
  /\ fields' = [k \in DOMAIN sample[1].fields |->
                  [name     |-> sample[1].fields[k].name,
                   seen     |-> <<sample[1].fields[k].ty>>,
                   nullable |-> sample[1].fields[k].nullable]]
  /\ pos' = 1
  /\ UNCHANGED <<sample, mode, rest, status>>

\* Mutant: the iterator is advanced twice.
SkipTwo ==
  /\ AtRecord /\ ~IsRecord(Current)
  /\ pos' = pos + 2
  /\ UNCHANGED <<sample, mode, fields, rest, status>>

SkipValue ==
  /\ AtRecord /\ ~IsRecord(Current)
  /\ pos' = pos + 1
  /\ UNCHANGED <<sample, mode, fields, rest, status>>

Clashes ==
  {k \in DOMAIN fields :
     /\ fields[k].name \in NamesIn(Current.fields)
     /\ Clash(fields[k].seen, Entry(Current.fields, fields[k].name).ty)}

\* update_existing_fields: the error of the first clash ends the inference.
ReportConflict ==
  /\ AtRecord /\ IsRecord(Current) /\ Clashes # {}
  /\ pos' = pos + 1
  /\ status' = "conflict"
  /\ UNCHANGED <<sample, mode, fields, rest>>

UpdateFields ==
  /\ AtRecord /\ IsRecord(Current) /\ Clashes = {}
  /\ fields' = [k \in DOMAIN fields |-> Updated(fields[k], Current.fields)]
  /\ rest' = Current.fields
  /\ pos' = pos + 1
  /\ UNCHANGED <<sample, mode, status>>

\* Mutant: a field that appears late is as nullable as its first value.
AppendFieldAsSeen ==
  /\ status = "running" /\ rest # <<>>
  /\ fields' = IF Head(rest).name \in NamesIn(fields) THEN fields
               ELSE Append(fields, [name |-> Head(rest).name, seen |-> <<Head(rest).ty>>,
                                    nullable |-> Head(rest).nullable])
  /\ rest' = Tail(rest)
  /\ UNCHANGED <<sample, mode, pos, status>>

\* append_new_fields, one entry.
AppendField ==
  /\ status = "running" /\ rest # <<>>
  /\ fields' = IF Head(rest).name \in NamesIn(fields) THEN fields
               ELSE Append(fields, [name |-> Head(rest).name, seen |-> <<Head(rest).ty>>,
                                    nullable |-> TRUE])
  /\ rest' = Tail(rest)
  /\ UNCHANGED <<sample, mode, pos, status>>

Finish ==
  /\ status = "running" /\ rest = <<>> /\ pos > 0 /\ pos = Len(sample)
  /\ status' = "inferred"
  /\ UNCHANGED <<sample, mode, pos, fields, rest>>

Init ==
  /\ sample \in Samples
  /\ mode \in InferModes
  /\ pos = 0
  /\ fields = <<>>
  /\ rest = <<>>
  /\ status = "running"

Next ==
  \/ InferNothing \/ FirstRecord
  \/ SkipValue \/ ReportConflict \/ UpdateFields \/ AppendField
  \/ Finish

Spec == Init /\ [][Next]_vars

-----------------------------------------------------------------------------
(***************************************************************************)
(* Properties.                                                             *)
(***************************************************************************)
TypeOK ==
  /\ sample \in Samples
  /\ mode \in InferModes
  /\ pos \in 0 .. Len(sample)
  /\ fields \in Seq(Observed)
  /\ rest \in Seq(Field)
  /\ status \in {"running", "inferred", "conflict"}

\* What there was to see in the records looked at, whatever their order.
Objects   == {i \in 1 .. pos : IsRecord(sample[i])}
NamesSeen == UNION {NamesIn(sample[i].fields) : i \in Objects}
TypesSeen(name) ==
  {Entry(sample[i].fields, name).ty : i \in {j \in Objects : name \in NamesIn(sample[j].fields)}}
    \ {Unknown}
Lacking(name) ==
  \E i \in Objects : \/ name \notin NamesIn(sample[i].fields)
                     \/ Entry(sample[i].fields, name).ty = Unknown

(***************************************************************************)
(* The schema is the evidence, in any order of the records: a field for    *)
(* every name that occurred, of the types that occurred, and nullable just *)
(* if some record lacks it or holds null (update_existing_fields and       *)
(* append_new_fields see a record each in its own way).  Only what the     *)
(* first value is decides more: if it is no object the schema is empty.    *)
(***************************************************************************)
SchemaIsEvidence ==
  status # "conflict" /\ rest = <<>> /\ pos > 0 =>
    /\ OneEach(fields)
    /\ NamesIn(fields) = NamesSeen
    /\ \A k \in DOMAIN fields :
         /\ Range(fields[k].seen) \ {Unknown} = TypesSeen(fields[k].name)
         /\ fields[k].nullable = Lacking(fields[k].name)

(***************************************************************************)
(* "Mid-stream type conflict under conservative -> fail" and nothing else  *)
(* fails (docs/rfc/0001-shapeport.md 10.2, rule 3), for the types of the   *)
(* fields: an error as soon as a name has two types, and only then.        *)
(***************************************************************************)
ConflictsFound ==
  (status = "conflict") <=>
    /\ mode = "conservative" /\ pos > 0
    /\ \E name \in NamesSeen : \E t, u \in TypesSeen(name) : t # u

=============================================================================
