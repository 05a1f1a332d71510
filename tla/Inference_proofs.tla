-------------------------- MODULE Inference_proofs --------------------------
(***************************************************************************)
(* The inferred schema is the evidence, for all samples and types: proofs  *)
(* of TypeOK, SchemaIsEvidence and ConflictsFound.                         *)
(***************************************************************************)
EXTENDS Inference, TLAPS

\* A record of a sample is a record type with distinct, well-formed entries.
LEMMA RecordType ==
  ASSUME TypeOK, NEW i \in 1 .. Len(sample), IsRecord(sample[i])
  PROVE  /\ sample[i].fields \in Seq(Field)
         /\ OneEach(sample[i].fields)
         /\ \A k \in DOMAIN sample[i].fields :
              sample[i].fields[k].nullable = (sample[i].fields[k].ty = Unknown)
<1>1. sample \in Samples /\ sample \in Seq(Types)
  BY SamplesAssumption DEF TypeOK
<1>2. i \in DOMAIN sample /\ sample[i] \in Types
  BY <1>1
<1>3. sample[i].fields \in Seq(Field)
  BY <1>2, TypesAssumption
<1> QED BY <1>1, <1>2, <1>3, SamplesAssumption

\* The entry found under a name is the one entry of that name.
LEMMA EntryFound ==
  ASSUME NEW entries \in Seq(Field), NEW name \in NamesIn(entries)
  PROVE  /\ \E k \in DOMAIN entries : Entry(entries, name) = entries[k]
         /\ Entry(entries, name) \in Field
         /\ Entry(entries, name).name = name
<1>1. PICK k \in DOMAIN entries : entries[k].name = name
  BY DEF NamesIn
<1> DEFINE P(l) == l \in DOMAIN entries /\ entries[l].name = name
           m    == CHOOSE l : P(l)
<1>2. P(m)
  <2>1. \E l : P(l) BY <1>1
  <2> HIDE DEF P
  <2> QED BY <2>1
<1>3. Entry(entries, name) = entries[m]
  BY DEF Entry
<1>4. entries[m] \in Field
  BY <1>2
<1> HIDE DEF m
<1> QED BY <1>2, <1>3, <1>4

LEMMA EntryUnique ==
  ASSUME NEW entries \in Seq(Field), OneEach(entries), NEW k \in DOMAIN entries
  PROVE  /\ entries[k].name \in NamesIn(entries)
         /\ Entry(entries, entries[k].name) = entries[k]
<1>1. \A l \in DOMAIN entries : entries[l].name = entries[k].name => l = k
  BY DEF OneEach
<1> QED BY <1>1 DEF NamesIn, Entry

LEMMA UnifiedType ==
  ASSUME NEW seen \in Seq(Types), NEW ty \in Types
  PROVE  /\ Unified(seen, ty) \in Seq(Types)
         /\ Range(Unified(seen, ty)) \ {Unknown} = (Range(seen) \ {Unknown}) \union ({ty} \ {Unknown})
<1>1. Range(<<ty>>) = {ty} /\ <<ty>> \in Seq(Types)
  BY DEF Range
<1>2. Range(Append(seen, ty)) = Range(seen) \union {ty}
  <2>1. ASSUME NEW i \in DOMAIN seen PROVE seen[i] \in Range(Append(seen, ty))
    BY Append(seen, ty)[i] = seen[i], i \in DOMAIN Append(seen, ty) DEF Range
  <2>2. ty \in Range(Append(seen, ty))
    BY Append(seen, ty)[Len(seen) + 1] = ty, Len(seen) + 1 \in DOMAIN Append(seen, ty) DEF Range
  <2>3. ASSUME NEW i \in DOMAIN Append(seen, ty)
        PROVE  Append(seen, ty)[i] \in Range(seen) \union {ty}
    <3>1. CASE i \in DOMAIN seen BY <3>1 DEF Range
    <3>2. CASE i = Len(seen) + 1 BY <3>2
    <3> QED BY <3>1, <3>2
  <2> QED BY <2>1, <2>2, <2>3 DEF Range
<1>3. CASE seen = <<Unknown>>
  <2>1. Range(seen) = {Unknown} BY <1>3 DEF Range
  <2> QED BY <1>1, <1>3, <2>1 DEF Unified
<1>4. CASE seen # <<Unknown>> /\ ty = Unknown
  BY <1>4 DEF Unified
<1>5. CASE seen # <<Unknown>> /\ ty # Unknown /\ seen = <<ty>>
  BY <1>1, <1>5 DEF Unified
<1>6. CASE seen # <<Unknown>> /\ ty # Unknown /\ seen # <<ty>>
  BY <1>2, <1>6 DEF Unified
<1> QED BY <1>3, <1>4, <1>5, <1>6

LEMMA UpdatedType ==
  ASSUME NEW field \in Observed, NEW entries \in Seq(Field)
  PROVE  /\ Updated(field, entries) \in Observed
         /\ Updated(field, entries).name = field.name
<1>1. CASE field.name \in NamesIn(entries)
  <2>1. Entry(entries, field.name) \in Field
    BY <1>1, EntryFound
  <2>2. Unified(field.seen, Entry(entries, field.name).ty) \in Seq(Types)
    BY <2>1, UnifiedType DEF Field, Observed
  <2> QED BY <1>1, <2>1, <2>2 DEF Updated, Observed, Field
<1>2. CASE field.name \notin NamesIn(entries)
  BY <1>2 DEF Updated, Observed
<1> QED BY <1>1, <1>2

-----------------------------------------------------------------------------
(***************************************************************************)
(* Type correctness.                                                       *)
(***************************************************************************)
LEMMA FirstType ==
  ASSUME TypeOK, FirstRecord
  PROVE  /\ pos' = 1 /\ 1 \in 1 .. Len(sample) /\ IsRecord(sample[1])
         /\ fields' \in Seq(Observed) /\ DOMAIN fields' = DOMAIN sample[1].fields
         /\ \A k \in DOMAIN fields' :
              /\ fields'[k].name = sample[1].fields[k].name
              /\ fields'[k].seen = <<sample[1].fields[k].ty>>
              /\ fields'[k].nullable = sample[1].fields[k].nullable
<1>1. sample \in Seq(Types) /\ sample # <<>> /\ IsRecord(sample[1])
  BY SamplesAssumption DEF TypeOK, FirstRecord, StartsWithObject
<1>2. 1 \in 1 .. Len(sample)
  BY <1>1
<1>3. sample[1].fields \in Seq(Field)
  BY <1>1, <1>2, RecordType
<1>4. \A k \in DOMAIN sample[1].fields :
        [name |-> sample[1].fields[k].name, seen |-> <<sample[1].fields[k].ty>>,
         nullable |-> sample[1].fields[k].nullable] \in Observed
  <2>1. ASSUME NEW f \in Field
        PROVE  [name |-> f.name, seen |-> <<f.ty>>, nullable |-> f.nullable] \in Observed
    BY DEF Field, Observed
  <2>2. \A k \in DOMAIN sample[1].fields : sample[1].fields[k] \in Field
    BY <1>3
  <2> QED BY <2>1, <2>2
<1>5. fields' = [k \in DOMAIN sample[1].fields |->
                  [name     |-> sample[1].fields[k].name,
                   seen     |-> <<sample[1].fields[k].ty>>,
                   nullable |-> sample[1].fields[k].nullable]]
  BY DEF FirstRecord
<1>6. fields' \in Seq(Observed)
  <2>1. Len(sample[1].fields) \in Nat /\ DOMAIN sample[1].fields = 1 .. Len(sample[1].fields)
    BY <1>3
  <2>2. DOMAIN fields' = DOMAIN sample[1].fields
        /\ \A k \in DOMAIN sample[1].fields : fields'[k] \in Observed
    BY <1>4, <1>5
  <2>3. fields' \in [1 .. Len(sample[1].fields) -> Observed]
    BY <1>5, <2>1, <2>2
  <2> QED BY <2>1, <2>3
<1>7. pos' = 1
  BY DEF FirstRecord
<1> QED BY <1>1, <1>2, <1>5, <1>6, <1>7

LEMMA UpdateType ==
  ASSUME TypeOK, UpdateFields
  PROVE  /\ pos + 1 \in 1 .. Len(sample) /\ IsRecord(sample[pos + 1])
         /\ fields' \in Seq(Observed) /\ DOMAIN fields' = DOMAIN fields
         /\ rest' = sample[pos + 1].fields /\ rest' \in Seq(Field)
         /\ \A k \in DOMAIN fields : /\ fields[k] \in Observed
                                     /\ fields'[k] = Updated(fields[k], sample[pos + 1].fields)
                                     /\ fields'[k].name = fields[k].name
<1>0. pos \in Int /\ Len(sample) \in Nat
  BY SamplesAssumption DEF TypeOK
<1>1. pos + 1 \in 1 .. Len(sample) /\ IsRecord(sample[pos + 1])
  BY <1>0 DEF UpdateFields, AtRecord, Current
<1>2. sample[pos + 1].fields \in Seq(Field)
  BY <1>1, RecordType
<1>3. fields \in Seq(Observed) /\ \A k \in DOMAIN fields : fields[k] \in Observed
  BY DEF TypeOK
<1>4. fields' = [k \in DOMAIN fields |-> Updated(fields[k], sample[pos + 1].fields)]
  BY DEF UpdateFields, Current
<1>5. \A k \in DOMAIN fields : /\ Updated(fields[k], sample[pos + 1].fields) \in Observed
                               /\ Updated(fields[k], sample[pos + 1].fields).name = fields[k].name
  BY <1>2, <1>3, UpdatedType
<1>6. fields' \in Seq(Observed)
  BY <1>3, <1>4, <1>5
<1> QED BY <1>1, <1>2, <1>3, <1>4, <1>5, <1>6 DEF UpdateFields, Current

LEMMA AppendType ==
  ASSUME TypeOK, AppendField
  PROVE  /\ Head(rest) \in Field /\ rest' \in Seq(Field)
         /\ fields' \in Seq(Observed)
<1>1. rest \in Seq(Field) /\ rest # <<>>
  BY DEF TypeOK, AppendField
<1>2. Head(rest) \in Field /\ Tail(rest) \in Seq(Field)
  BY <1>1
<1>3. [name |-> Head(rest).name, seen |-> <<Head(rest).ty>>, nullable |-> TRUE] \in Observed
  BY <1>2 DEF Observed, Field
<1>4. fields \in Seq(Observed)
  BY DEF TypeOK
<1> QED BY <1>2, <1>3, <1>4 DEF AppendField

LEMMA TypeStep == TypeOK /\ [Next]_vars => TypeOK'
<1> SUFFICES ASSUME TypeOK, [Next]_vars PROVE TypeOK'
  OBVIOUS
<1>0. Len(sample) \in Nat /\ pos \in 0 .. Len(sample)
  BY SamplesAssumption DEF TypeOK
<1>1. CASE InferNothing BY <1>1 DEF TypeOK, InferNothing
<1>2. CASE FirstRecord BY <1>0, <1>2, FirstType DEF TypeOK, FirstRecord
<1>3. CASE SkipValue BY <1>0, <1>3 DEF TypeOK, SkipValue, AtRecord
<1>4. CASE ReportConflict BY <1>0, <1>4 DEF TypeOK, ReportConflict, AtRecord
<1>5. CASE UpdateFields BY <1>0, <1>5, UpdateType DEF TypeOK, UpdateFields
<1>6. CASE AppendField BY <1>0, <1>6, AppendType DEF TypeOK, AppendField
<1>7. CASE Finish BY <1>7 DEF TypeOK, Finish
<1>8. CASE UNCHANGED vars BY <1>8 DEF TypeOK, vars
<1> QED BY <1>1, <1>2, <1>3, <1>4, <1>5, <1>6, <1>7, <1>8 DEF Next

\* Type correctness of the inference, for all samples and modes.
THEOREM TypeCorrect == Spec => []TypeOK
<1>1. Init => TypeOK
  BY SamplesAssumption DEF Init, TypeOK
<1> QED BY <1>1, TypeStep, PTL DEF Spec

-----------------------------------------------------------------------------
(***************************************************************************)
(* What one more record adds to the evidence.                              *)
(***************************************************************************)
LEMMA ObjectSeen ==
  ASSUME TypeOK, UNCHANGED sample, pos' = pos + 1, pos + 1 \in 1 .. Len(sample),
         IsRecord(sample[pos + 1])
  PROVE  Objects' = Objects \union {pos + 1}
<1>1. pos \in Nat
  BY DEF TypeOK
<1>2. 1 .. pos + 1 = (1 .. pos) \union {pos + 1}
  BY <1>1
<1> QED BY <1>2 DEF Objects

LEMMA NamesAdded ==
  ASSUME Objects' = Objects \union {pos + 1}, UNCHANGED sample
  PROVE  NamesSeen' = NamesSeen \union NamesIn(sample[pos + 1].fields)
BY DEF NamesSeen

LEMMA TypesAdded ==
  ASSUME Objects' = Objects \union {pos + 1}, UNCHANGED sample, NEW name
  PROVE  TypesSeen(name)' =
           TypesSeen(name) \union
             (IF name \in NamesIn(sample[pos + 1].fields)
              THEN {Entry(sample[pos + 1].fields, name).ty} \ {Unknown} ELSE {})
BY DEF TypesSeen

LEMMA LackAdded ==
  ASSUME Objects' = Objects \union {pos + 1}, UNCHANGED sample, NEW name
  PROVE  Lacking(name)' <=>
           \/ Lacking(name)
           \/ name \notin NamesIn(sample[pos + 1].fields)
           \/ Entry(sample[pos + 1].fields, name).ty = Unknown
BY DEF Lacking

\* A value that is no object, or a step between records, adds nothing.
LEMMA NothingAdded ==
  ASSUME Objects' = Objects, UNCHANGED sample
  PROVE  /\ NamesSeen' = NamesSeen
         /\ \A name : TypesSeen(name)' = TypesSeen(name) /\ Lacking(name)' = Lacking(name)
BY DEF NamesSeen, TypesSeen, Lacking

-----------------------------------------------------------------------------
(***************************************************************************)
(* The invariant: SchemaIsEvidence between records, and while the entries  *)
(* of the last record are appended.                                        *)
(***************************************************************************)
IsEvidence(k, name) ==
  fields[k].name = name =>
    /\ Range(fields[k].seen) \ {Unknown} = TypesSeen(name)
    /\ fields[k].nullable = Lacking(name)
    /\ mode = "conservative" => \E ty \in Types : fields[k].seen = <<ty>>

RestIsLast ==
  rest # <<>> =>
    /\ pos \in Objects /\ pos # 1
    /\ \A m \in DOMAIN rest : \E k \in DOMAIN sample[pos].fields : rest[m] = sample[pos].fields[k]
    /\ \A i \in Objects \ {pos} : NamesIn(sample[i].fields) \subseteq NamesIn(fields)

Evidence ==
  /\ pos = 0 => rest = <<>>
  /\ status # "conflict" /\ pos > 0 =>
       /\ 1 \in Objects
       /\ OneEach(fields)
       /\ NamesIn(fields) \union NamesIn(rest) = NamesSeen
       /\ \A k \in DOMAIN fields : \A name \in Names : IsEvidence(k, name)
       /\ RestIsLast

LEMMA FirstEvidence == ASSUME TypeOK, Evidence, FirstRecord PROVE Evidence'
<1> DEFINE entries == sample[1].fields
<1>1. /\ pos' = 1 /\ 1 \in 1 .. Len(sample) /\ IsRecord(sample[1])
      /\ fields' \in Seq(Observed) /\ DOMAIN fields' = DOMAIN entries
      /\ \A k \in DOMAIN fields' : /\ fields'[k].name = entries[k].name
                                   /\ fields'[k].seen = <<entries[k].ty>>
                                   /\ fields'[k].nullable = entries[k].nullable
  BY FirstType
<1>2. /\ entries \in Seq(Field) /\ OneEach(entries)
      /\ \A k \in DOMAIN entries : entries[k].nullable = (entries[k].ty = Unknown)
  BY <1>1, RecordType
<1>3. UNCHANGED <<sample, mode>> /\ rest' = <<>>
  BY DEF FirstRecord, Evidence
<1>4. Objects' = {1}
  BY <1>1, <1>3 DEF Objects
<1>5. NamesSeen' = NamesIn(entries)
  BY <1>3, <1>4 DEF NamesSeen
<1>6. OneEach(fields') /\ NamesIn(fields') = NamesIn(entries)
  BY <1>1, <1>2 DEF OneEach, NamesIn
<1>7. ASSUME NEW k \in DOMAIN fields', NEW name \in Names PROVE IsEvidence(k, name)'
  <2> SUFFICES ASSUME fields'[k].name = name PROVE IsEvidence(k, name)'
    BY DEF IsEvidence
  <2>1. entries[k].name = name /\ name \in NamesIn(entries) /\ Entry(entries, name) = entries[k]
    BY <1>1, <1>2, EntryUnique
  <2>2. entries[k].ty \in Types
    <3>1. entries[k] \in Field
      BY <1>1, <1>2
    <3> HIDE DEF entries
    <3> QED BY <3>1 DEF Field
  <2>4. TypesSeen(name)' = {entries[k].ty} \ {Unknown}
    BY <1>3, <1>4, <2>1 DEF TypesSeen
  <2>5. Lacking(name)' <=> entries[k].ty = Unknown
    BY <1>3, <1>4, <2>1 DEF Lacking
  <2>6. Range(<<entries[k].ty>>) = {entries[k].ty}
    BY DEF Range
  <2>7. fields'[k].nullable = (entries[k].ty = Unknown) /\ fields'[k].seen = <<entries[k].ty>>
    BY <1>1, <1>2
  <2>8. Lacking(name)' \in BOOLEAN
    BY DEF Lacking
  <2> QED BY <2>2, <2>4, <2>5, <2>6, <2>7, <2>8 DEF IsEvidence
<1>8. NamesIn(rest') = {}
  BY <1>3 DEF NamesIn
<1>9. RestIsLast'
  BY <1>3 DEF RestIsLast
<1> HIDE DEF entries
<1> QED BY <1>1, <1>3, <1>4, <1>5, <1>6, <1>7, <1>8, <1>9 DEF Evidence

LEMMA UpdateEvidence == ASSUME TypeOK, Evidence, UpdateFields PROVE Evidence'
<1> DEFINE entries == sample[pos + 1].fields
<1>1. /\ pos + 1 \in 1 .. Len(sample) /\ IsRecord(sample[pos + 1])
      /\ fields' \in Seq(Observed) /\ DOMAIN fields' = DOMAIN fields
      /\ rest' = entries /\ rest' \in Seq(Field)
      /\ \A k \in DOMAIN fields : /\ fields[k] \in Observed
                                  /\ fields'[k] = Updated(fields[k], entries)
                                  /\ fields'[k].name = fields[k].name
  BY UpdateType
<1>2. /\ entries \in Seq(Field) /\ OneEach(entries)
      /\ \A k \in DOMAIN entries : entries[k].nullable = (entries[k].ty = Unknown)
  BY <1>1, RecordType
<1>3. /\ UNCHANGED <<sample, mode, status>> /\ pos' = pos + 1 /\ pos > 0 /\ pos \in Nat
      /\ rest = <<>> /\ status # "conflict" /\ Clashes = {}
  BY DEF UpdateFields, AtRecord, TypeOK
<1>4. /\ 1 \in Objects /\ OneEach(fields) /\ NamesIn(fields) \union NamesIn(rest) = NamesSeen
      /\ \A k \in DOMAIN fields : \A name \in Names : IsEvidence(k, name)
  BY <1>3 DEF Evidence
<1>5. NamesIn(rest) = {}
  BY <1>3 DEF NamesIn
<1>6. Objects' = Objects \union {pos + 1}
  BY <1>1, <1>3, ObjectSeen
<1>7. NamesSeen' = NamesSeen \union NamesIn(entries)
  BY <1>3, <1>6, NamesAdded
<1>8. NamesIn(fields') = NamesIn(fields) /\ OneEach(fields')
  BY <1>1, <1>4 DEF NamesIn, OneEach
<1>9. ASSUME NEW k \in DOMAIN fields', NEW name \in Names PROVE IsEvidence(k, name)'
  <2> SUFFICES ASSUME fields'[k].name = name PROVE IsEvidence(k, name)'
    BY DEF IsEvidence
  <2> DEFINE field == fields[k]
             entry == Entry(entries, name)
  <2>1. field \in Observed /\ IsEvidence(k, name)
        /\ fields'[k] = Updated(field, entries) /\ field.name = name
    BY <1>1, <1>4
  <2>2. TypesSeen(name)' =
          TypesSeen(name) \union (IF name \in NamesIn(entries) THEN {entry.ty} \ {Unknown} ELSE {})
    BY <1>3, <1>6, TypesAdded
  <2>3. Lacking(name)' <=> Lacking(name) \/ name \notin NamesIn(entries) \/ entry.ty = Unknown
    BY <1>3, <1>6, LackAdded
  <2>4. Lacking(name)' \in BOOLEAN /\ Lacking(name) \in BOOLEAN
    BY DEF Lacking
  <2>5. field.seen \in Seq(Types) /\ field.nullable \in BOOLEAN
    BY <2>1 DEF Observed
  <2>6. field.nullable = Lacking(name) /\ Range(field.seen) \ {Unknown} = TypesSeen(name)
    BY <2>1 DEF IsEvidence
  <2>7. CASE name \in NamesIn(entries)
    <3>1. PICK l \in DOMAIN entries : entry = entries[l]
      BY <1>2, <2>7, EntryFound
    <3>2. entry \in Field /\ entry.nullable = (entry.ty = Unknown)
      BY <1>2, <2>7, <3>1, EntryFound
    <3>3. entry.ty \in Types
      BY <3>2 DEF Field
    <3>4. fields'[k] = [field EXCEPT !.seen = Unified(field.seen, entry.ty),
                                     !.nullable = field.nullable \/ entry.nullable]
      BY <2>1, <2>7 DEF Updated
    <3>5. fields'[k].seen = Unified(field.seen, entry.ty)
          /\ fields'[k].nullable = (field.nullable \/ entry.nullable)
      BY <2>1, <3>4 DEF Observed
    <3>6. Range(fields'[k].seen) \ {Unknown} = TypesSeen(name)'
      BY <2>2, <2>5, <2>6, <2>7, <3>3, <3>5, UnifiedType
    <3>7. fields'[k].nullable = Lacking(name)'
      BY <2>3, <2>4, <2>6, <2>7, <3>2, <3>5
    <3>8. ASSUME mode = "conservative" PROVE \E ty \in Types : fields'[k].seen = <<ty>>
      <4>1. PICK ty \in Types : field.seen = <<ty>>
        BY <2>1, <3>8 DEF IsEvidence
      <4>2. ~Clash(field.seen, entry.ty)
        BY <1>1, <1>3, <2>7 DEF Clashes, Current
      <4>3. Unified(field.seen, entry.ty) \in {field.seen, <<entry.ty>>}
        BY <3>8, <4>2 DEF Clash, Unified
      <4> QED BY <3>3, <3>5, <4>1, <4>3
    <3> HIDE DEF field, entry
    <3> QED BY <1>3, <3>6, <3>7, <3>8 DEF IsEvidence
  <2>8. CASE name \notin NamesIn(entries)
    <3>1. fields'[k] = [field EXCEPT !.nullable = TRUE]
      BY <2>1, <2>8 DEF Updated
    <3>2. fields'[k].seen = field.seen /\ fields'[k].nullable = TRUE
      BY <2>1, <3>1 DEF Observed
    <3>3. TypesSeen(name)' = TypesSeen(name) /\ Lacking(name)' = TRUE
      BY <2>2, <2>3, <2>4, <2>8
    <3>4. mode = "conservative" => \E ty \in Types : field.seen = <<ty>>
      BY <2>1 DEF IsEvidence
    <3> QED BY <1>3, <2>6, <3>2, <3>3, <3>4 DEF IsEvidence
  <2> QED BY <2>7, <2>8
<1>10. RestIsLast'
  <2>1. pos' \in Objects' /\ pos' # 1
    BY <1>3, <1>6
  <2>2. \A i \in Objects' \ {pos'} : NamesIn(sample'[i].fields) \subseteq NamesIn(fields')
    BY <1>3, <1>4, <1>5, <1>6, <1>8 DEF NamesSeen
  <2> QED BY <1>1, <1>3, <2>1, <2>2 DEF RestIsLast
<1>11. pos' > 0
  BY <1>3
<1> HIDE DEF entries
<1> QED BY <1>1, <1>3, <1>4, <1>5, <1>6, <1>7, <1>8, <1>9, <1>10, <1>11 DEF Evidence

LEMMA AppendEvidence == ASSUME TypeOK, Evidence, AppendField PROVE Evidence'
<1> DEFINE head == Head(rest)
<1>1. /\ rest # <<>> /\ rest \in Seq(Field) /\ rest' = Tail(rest)
      /\ UNCHANGED <<sample, mode, pos, status>> /\ status # "conflict"
      /\ head \in Field /\ pos \in Nat /\ pos > 0
  <2>1. rest # <<>> /\ rest' = Tail(rest) /\ UNCHANGED <<sample, mode, pos, status>>
        /\ status # "conflict"
    BY DEF AppendField
  <2>2. pos \in Nat /\ rest \in Seq(Field)
    BY DEF TypeOK
  <2>3. pos # 0
    BY <2>1 DEF Evidence
  <2> QED BY <2>1, <2>2, <2>3, AppendType
<1>2. /\ 1 \in Objects /\ OneEach(fields) /\ NamesIn(fields) \union NamesIn(rest) = NamesSeen
      /\ \A k \in DOMAIN fields : \A name \in Names : IsEvidence(k, name)
      /\ pos \in Objects /\ pos # 1
      /\ \A m \in DOMAIN rest : \E k \in DOMAIN sample[pos].fields : rest[m] = sample[pos].fields[k]
      /\ \A i \in Objects \ {pos} : NamesIn(sample[i].fields) \subseteq NamesIn(fields)
  BY <1>1 DEF Evidence, RestIsLast
<1>3. Objects' = Objects
  BY <1>1 DEF Objects
<1>4. /\ NamesSeen' = NamesSeen
      /\ \A name : TypesSeen(name)' = TypesSeen(name) /\ Lacking(name)' = Lacking(name)
  BY <1>1, <1>3, NothingAdded
<1>5. NamesIn(rest) = {head.name} \union NamesIn(rest')
  <2>1. \A m \in DOMAIN rest : m = 1 \/ (m - 1 \in DOMAIN rest' /\ rest'[m - 1] = rest[m])
    BY <1>1
  <2>2. \A m \in DOMAIN rest' : m + 1 \in DOMAIN rest /\ rest[m + 1] = rest'[m]
    BY <1>1
  <2>3. 1 \in DOMAIN rest /\ rest[1] = head
    BY <1>1
  <2> HIDE DEF head
  <2> QED BY <2>1, <2>2, <2>3 DEF NamesIn
<1>6. \A m \in DOMAIN rest' : \E k \in DOMAIN sample'[pos'].fields : rest'[m] = sample'[pos'].fields[k]
  <2>1. \A m \in DOMAIN rest' : m + 1 \in DOMAIN rest /\ rest[m + 1] = rest'[m]
    BY <1>1
  <2> QED BY <1>1, <1>2, <2>1
<1>7. CASE head.name \in NamesIn(fields)
  <2>1. fields' = fields
    BY <1>7 DEF AppendField
  <2>2. NamesIn(fields') \union NamesIn(rest') = NamesSeen'
    BY <1>2, <1>4, <1>5, <1>7, <2>1
  <2>3. \A k \in DOMAIN fields' : \A name \in Names : IsEvidence(k, name)'
    BY <1>1, <1>2, <1>4, <2>1 DEF IsEvidence
  <2>4. RestIsLast'
    BY <1>1, <1>2, <1>3, <1>6, <2>1 DEF RestIsLast
  <2> QED BY <1>1, <1>2, <1>3, <2>1, <2>2, <2>3, <2>4 DEF Evidence
<1>8. CASE head.name \notin NamesIn(fields)
  <2> DEFINE new == [name |-> head.name, seen |-> <<head.ty>>, nullable |-> TRUE]
  <2>1. fields' = Append(fields, new) /\ fields \in Seq(Observed)
    BY <1>8 DEF AppendField, TypeOK
  <2>2. /\ DOMAIN fields' = DOMAIN fields \union {Len(fields) + 1}
        /\ \A k \in DOMAIN fields : fields'[k] = fields[k] /\ k # Len(fields) + 1
        /\ fields'[Len(fields) + 1] = new
    <3> HIDE DEF new
    <3> QED BY <2>1
  <2>3. new.name = head.name /\ new.seen = <<head.ty>> /\ new.nullable = TRUE
    OBVIOUS
  <2> HIDE DEF new
  <2>4. NamesIn(fields') = NamesIn(fields) \union {head.name}
    BY <2>2, <2>3 DEF NamesIn
  <2>5. OneEach(fields')
    BY <1>2, <1>8, <2>2, <2>3 DEF OneEach, NamesIn
  <2>6. NamesIn(fields') \union NamesIn(rest') = NamesSeen'
    BY <1>2, <1>4, <1>5, <2>4
  <2>7. RestIsLast'
    <3>1. \A i \in Objects' \ {pos'} : NamesIn(sample'[i].fields) \subseteq NamesIn(fields')
      BY <1>1, <1>2, <1>3, <2>4
    <3> QED BY <1>1, <1>2, <1>3, <1>6, <3>1 DEF RestIsLast
  <2>8. ASSUME NEW k \in DOMAIN fields', NEW name \in Names PROVE IsEvidence(k, name)'
    <3>1. CASE k \in DOMAIN fields
      BY <1>1, <1>2, <1>4, <2>2, <3>1 DEF IsEvidence
    <3>2. CASE k = Len(fields) + 1
      <4> SUFFICES ASSUME name = head.name PROVE IsEvidence(k, name)'
        BY <2>2, <2>3, <3>2 DEF IsEvidence
      <4>1. PICK l \in DOMAIN sample[pos].fields : head = sample[pos].fields[l]
        BY <1>1, <1>2, 1 \in DOMAIN rest, rest[1] = head
      <4>2. pos \in 1 .. Len(sample) /\ IsRecord(sample[pos])
        <5>1. Len(sample) \in Nat /\ pos \in 0 .. Len(sample)
          BY SamplesAssumption DEF TypeOK
        <5> QED BY <1>1, <1>2, <5>1 DEF Objects
      <4>3. sample[pos].fields \in Seq(Field) /\ OneEach(sample[pos].fields)
        BY <4>2, RecordType
      <4>4. name \in NamesIn(sample[pos].fields) /\ Entry(sample[pos].fields, name) = head
        BY <4>1, <4>3, EntryUnique
      <4>5. \A i \in Objects \ {pos} : name \notin NamesIn(sample[i].fields)
        BY <1>2, <1>8
      <4>6. TypesSeen(name) = {head.ty} \ {Unknown}
        <5> HIDE DEF head
        <5> QED BY <1>2, <4>4, <4>5 DEF TypesSeen
      <4>7. Lacking(name) = TRUE
        <5>1. 1 \in Objects /\ name \notin NamesIn(sample[1].fields)
          BY <1>2, <4>5
        <5> QED BY <5>1 DEF Lacking
      <4>8. Range(<<head.ty>>) = {head.ty} /\ head.ty \in Types
        BY <1>1 DEF Range, Field
      <4>9. fields'[k].seen = <<head.ty>> /\ fields'[k].nullable = TRUE
        BY <2>2, <2>3, <3>2
      <4>10. TypesSeen(name)' = {head.ty} \ {Unknown} /\ Lacking(name)' = TRUE
        BY <1>4, <4>6, <4>7
      <4> HIDE DEF head
      <4> QED BY <4>8, <4>9, <4>10 DEF IsEvidence
    <3> QED BY <2>2, <3>1, <3>2
  <2> QED BY <1>1, <1>2, <1>3, <2>5, <2>6, <2>7, <2>8 DEF Evidence
<1> QED BY <1>7, <1>8

LEMMA EvidenceStep == TypeOK /\ Evidence /\ [Next]_vars => Evidence'
<1> SUFFICES ASSUME TypeOK, Evidence, [Next]_vars PROVE Evidence'
  OBVIOUS
\* No object more, and the fields as they are.
<1>0. ASSUME Objects' = Objects, UNCHANGED <<sample, mode, fields, rest>>,
             pos' > 0 => pos > 0, pos' = 0 => pos = 0, pos' = pos \/ rest = <<>>,
             status' # "conflict" => status # "conflict"
      PROVE  Evidence'
  <2>1. /\ NamesSeen' = NamesSeen
        /\ \A name : TypesSeen(name)' = TypesSeen(name) /\ Lacking(name)' = Lacking(name)
    BY <1>0, NothingAdded
  <2>2. (\A k \in DOMAIN fields : \A name \in Names : IsEvidence(k, name))
        => \A k \in DOMAIN fields' : \A name \in Names : IsEvidence(k, name)'
    BY <1>0, <2>1 DEF IsEvidence
  <2>3. RestIsLast => RestIsLast'
    BY <1>0 DEF RestIsLast
  <2> QED BY <1>0, <2>1, <2>2, <2>3 DEF Evidence
<1>9. pos \in Nat
  BY DEF TypeOK
<1>1. CASE InferNothing
  BY <1>0, <1>1 DEF InferNothing, Objects
<1>2. CASE FirstRecord BY <1>2, FirstEvidence
<1>3. CASE SkipValue
  <2>1. 1 .. pos + 1 = (1 .. pos) \union {pos + 1} /\ pos' = pos + 1
    BY <1>3, <1>9 DEF SkipValue
  <2>2. Objects' = Objects
    BY <1>3, <2>1 DEF SkipValue, Current, Objects
  <2> QED BY <1>0, <1>3, <1>9, <2>1, <2>2 DEF SkipValue, AtRecord
<1>4. CASE ReportConflict
  BY <1>4, <1>9 DEF ReportConflict, Evidence
<1>5. CASE UpdateFields BY <1>5, UpdateEvidence
<1>6. CASE AppendField BY <1>6, AppendEvidence
<1>7. CASE Finish
  BY <1>0, <1>7 DEF Finish, Objects
<1>8. CASE UNCHANGED vars
  BY <1>0, <1>8 DEF vars, Objects
<1> QED BY <1>1, <1>2, <1>3, <1>4, <1>5, <1>6, <1>7, <1>8 DEF Next

LEMMA EvidenceAlways == Spec => []Evidence
<1>1. Init => Evidence
  BY DEF Init, Evidence
<1> QED BY <1>1, TypeCorrect, EvidenceStep, PTL DEF Spec

\* The schema holds what the records show, whatever their order.
THEOREM EvidenceKept == Spec => []SchemaIsEvidence
<1>1. TypeOK /\ Evidence => SchemaIsEvidence
  <2> SUFFICES ASSUME TypeOK, Evidence, status # "conflict", rest = <<>>, pos > 0
               PROVE  /\ OneEach(fields) /\ NamesIn(fields) = NamesSeen
                      /\ \A k \in DOMAIN fields :
                           /\ Range(fields[k].seen) \ {Unknown} = TypesSeen(fields[k].name)
                           /\ fields[k].nullable = Lacking(fields[k].name)
    BY DEF SchemaIsEvidence
  <2>1. NamesIn(rest) = {}
    BY DEF NamesIn
  <2>2. \A k \in DOMAIN fields : fields[k].name \in Names
    <3>1. \A k \in DOMAIN fields : fields[k] \in Observed
      BY DEF TypeOK
    <3>2. \A f \in Observed : f.name \in Names
      BY DEF Observed
    <3> QED BY <3>1, <3>2
  <2> QED BY <2>1, <2>2 DEF Evidence, IsEvidence
<1> QED BY <1>1, TypeCorrect, EvidenceAlways, PTL

-----------------------------------------------------------------------------
(***************************************************************************)
(* A conflict is reported just if a name has two types.                    *)
(***************************************************************************)
TwoTypes == \E name \in NamesSeen : \E t, u \in TypesSeen(name) : t # u
Reported == status = "conflict" => mode = "conservative" /\ pos > 0 /\ TwoTypes

\* Two types of one name: the field's own, and the one of the record it clashes with.
LEMMA ClashSeen ==
  ASSUME TypeOK, Evidence, ReportConflict
  PROVE  Reported'
<1>1. /\ pos + 1 \in 1 .. Len(sample) /\ IsRecord(sample[pos + 1]) /\ pos > 0
      /\ mode' = mode /\ pos' = pos + 1 /\ UNCHANGED sample
  <2>1. pos \in Int /\ Len(sample) \in Nat
    BY SamplesAssumption DEF TypeOK
  <2> QED BY <2>1 DEF ReportConflict, AtRecord, Current
<1>2. PICK k \in DOMAIN fields : k \in Clashes
  BY DEF ReportConflict, Clashes
<1>3. PICK name \in Names : fields[k].name = name
  <2>1. fields[k] \in Observed BY DEF TypeOK
  <2> QED BY <2>1 DEF Observed
<1> DEFINE other == Entry(sample[pos + 1].fields, name).ty
<1>4. /\ name \in NamesIn(sample[pos + 1].fields) /\ mode = "conservative"
      /\ fields[k].seen # <<Unknown>> /\ other # Unknown /\ fields[k].seen # <<other>>
  BY <1>2, <1>3 DEF Clashes, Clash, Current
<1>5. IsEvidence(k, name)
  BY <1>1, <1>3 DEF Evidence, ReportConflict, AtRecord
<1>6. PICK ty \in Types : fields[k].seen = <<ty>>
  BY <1>3, <1>4, <1>5 DEF IsEvidence
<1>7. TypesSeen(name) = {ty}
  <2>1. Range(<<ty>>) = {ty} /\ ty # Unknown
    BY <1>4, <1>6 DEF Range
  <2> QED BY <1>3, <1>5, <1>6, <2>1 DEF IsEvidence
<1>8. Objects' = Objects \union {pos + 1}
  BY <1>1, ObjectSeen
<1>9. TypesSeen(name)' = {ty, other}
  BY <1>1, <1>4, <1>7, <1>8, TypesAdded
<1>10. name \in NamesSeen'
  BY <1>1, <1>4, <1>8, NamesAdded
<1>11. ty # other
  BY <1>4, <1>6
<1> HIDE DEF other
<1>12. TwoTypes'
  BY <1>9, <1>10, <1>11 DEF TwoTypes
<1>13. pos' > 0
  <2>1. pos \in Nat BY DEF TypeOK
  <2> QED BY <1>1, <2>1
<1> QED BY <1>1, <1>4, <1>12, <1>13 DEF Reported

LEMMA ReportedStep == TypeOK /\ Evidence /\ Reported /\ [Next]_vars => Reported'
<1> SUFFICES ASSUME TypeOK, Evidence, Reported, [Next]_vars PROVE Reported'
  OBVIOUS
<1>1. CASE ReportConflict BY <1>1, ClashSeen
<1>2. CASE UNCHANGED vars
  <2>1. TwoTypes' = TwoTypes
    BY <1>2 DEF TwoTypes, NamesSeen, TypesSeen, Objects, vars
  <2> QED BY <1>2, <2>1 DEF Reported, vars
<1>3. CASE status' # "conflict" BY <1>3 DEF Reported
<1> QED BY <1>1, <1>2, <1>3 DEF Next, InferNothing, FirstRecord, SkipValue, UpdateFields,
                               AppendField, Finish, AtRecord

LEMMA ReportedAlways == Spec => []Reported
<1>1. Init => Reported
  BY DEF Init, Reported
<1> QED BY <1>1, TypeCorrect, EvidenceAlways, ReportedStep, PTL DEF Spec

\* Until a conflict, every field is of the one type its name has.
LEMMA OneTypeEach ==
  ASSUME TypeOK, Evidence, status # "conflict", mode = "conservative", pos > 0
  PROVE  ~TwoTypes
<1> SUFFICES ASSUME NEW name \in NamesSeen, NEW t \in TypesSeen(name), NEW u \in TypesSeen(name)
             PROVE  t = u
  BY DEF TwoTypes
<1>1. name \in NamesIn(fields) \union NamesIn(rest)
  BY DEF Evidence
<1>2. CASE name \in NamesIn(fields)
  <2>1. PICK k \in DOMAIN fields : fields[k].name = name
    BY <1>2 DEF NamesIn
  <2>2. name \in Names
    <3>1. fields[k] \in Observed BY DEF TypeOK
    <3> QED BY <2>1, <3>1 DEF Observed
  <2>3. IsEvidence(k, name)
    BY <2>1, <2>2 DEF Evidence
  <2>4. PICK ty \in Types : fields[k].seen = <<ty>>
    BY <2>1, <2>3 DEF IsEvidence
  <2>5. Range(<<ty>>) = {ty}
    BY DEF Range
  <2> QED BY <2>1, <2>3, <2>4, <2>5 DEF IsEvidence
<1>3. CASE name \in NamesIn(rest) \ NamesIn(fields)
  <2>1. rest # <<>>
    BY <1>3 DEF NamesIn
  <2>2. \A i \in Objects \ {pos} : name \notin NamesIn(sample[i].fields)
    BY <1>3, <2>1 DEF Evidence, RestIsLast
  <2>3. TypesSeen(name) \subseteq {Entry(sample[pos].fields, name).ty}
    BY <2>2 DEF TypesSeen
  <2> QED BY <2>3
<1> QED BY <1>1, <1>2, <1>3

\* Conservative inference fails on a conflict of types, and on nothing else.
THEOREM ConflictsReported == Spec => []ConflictsFound
<1>1. TypeOK /\ Evidence /\ Reported => ConflictsFound
  BY OneTypeEach DEF ConflictsFound, Reported, TwoTypes
<1> QED BY <1>1, TypeCorrect, EvidenceAlways, ReportedAlways, PTL

=============================================================================
