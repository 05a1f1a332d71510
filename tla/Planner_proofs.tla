--------------------------- MODULE Planner_proofs ---------------------------
(***************************************************************************)
(* What holds of the planner for all schemas, names and thresholds.        *)
(***************************************************************************)
EXTENDS Planner, SequenceTheorems, NaturalsInduction, WellFoundedInduction, TLAPS

-----------------------------------------------------------------------------
(***************************************************************************)
(* A caller waits at the list target whose elements the next context       *)
(* plans, and the list it has chosen for it is not marked as used yet.     *)
(***************************************************************************)
CallersWait ==
  \A k \in 1 .. Len(stack) - 1 :
    stack[k].build # <<>> /\ stack[k].list \notin stack[k].used

(***************************************************************************)
(* Types of the schema operators.                                          *)
(***************************************************************************)
LEMMA RecordFields ==
  ASSUME NEW ty \in Types, IsRecord(ty)
  PROVE  ty.fields \in Seq(Field)
BY TypesAssumption

LEMMA UnderType ==
  ASSUME NEW prefix \in Path, NEW at \in Path, NEW fields \in Seq(Field)
  PROVE  Under(prefix, at, fields) \in Seq(FieldRef)
<1> DEFINE ref(i) == [path  |-> JoinPath(prefix, fields[i].name),
                      at    |-> Append(at, fields[i].name),
                      field |-> fields[i]]
<1>1. ASSUME NEW i \in 1 .. Len(fields) PROVE ref(i) \in FieldRef
  <2>1. fields[i] \in Field
    BY ElementOfSeq
  <2>2. fields[i].name \in Names
    BY <2>1 DEF Field
  <2>3. Dotted[fields[i].name] \in Path
    BY <2>2, NamesAssumption DEF Path
  <2>4. JoinPath(prefix, fields[i].name) \in Path
    BY <2>3, ConcatProperties DEF JoinPath, Path
  <2>5. Append(at, fields[i].name) \in Path
    BY <2>2, AppendProperties DEF Path
  <2> QED BY <2>1, <2>4, <2>5 DEF FieldRef
<1>2. Len(fields) \in Nat /\ DOMAIN fields = 1 .. Len(fields)
  BY LenProperties
<1>3. [i \in 1 .. Len(fields) |-> ref(i)] \in Seq(FieldRef)
  BY <1>1, <1>2, IsASeq
<1> QED BY <1>2, <1>3 DEF Under

LEMMA RootRefsType ==
  ASSUME NEW ty \in Types, IsRecord(ty)
  PROVE  RootRefs(ty) \in Seq(FieldRef)
BY RecordFields, UnderType, EmptySeq DEF RootRefs, Path

LEMMA ChildRefsType ==
  ASSUME NEW ref \in FieldRef, IsRecord(ref.field.ty)
  PROVE  ChildRefs(ref) \in Seq(FieldRef)
<1>1. /\ ref.path \in Path /\ ref.at \in Path
      /\ ref.field.ty \in Types
  BY DEF FieldRef, Field
<1>2. ref.field.ty.fields \in Seq(Field)
  BY <1>1, RecordFields
<1> QED BY <1>1, <1>2, UnderType DEF ChildRefs

LEMMA NewContextType ==
  ASSUME NEW source \in Types, NEW target \in Types,
         IsRecord(source), IsRecord(target)
  PROVE  NewContext(source, target) \in Context
BY RootRefsType, EmptySeq DEF NewContext, Context, Path

-----------------------------------------------------------------------------
(***************************************************************************)
(* The innermost context, its next target, and the source chosen for it.   *)
(***************************************************************************)
LEMMA TopType ==
  ASSUME TypeOK, stack # <<>>
  PROVE  Top \in Context /\ Len(stack) \in 1 .. Len(stack)
<1>1. stack \in Seq(Context)
  BY DEF TypeOK
<1>2. Len(stack) \in Nat \ {0}
  BY <1>1, EmptySeq
<1> QED BY <1>1, <1>2, ElementOfSeq DEF Top

LEMMA TargetType ==
  ASSUME TypeOK, AtTarget
  PROVE  /\ Top \in Context
         /\ Target \in FieldRef
         /\ Tail(Top.build) \in Seq(FieldRef)
<1>1. Top \in Context /\ Top.build \in Seq(FieldRef)
  BY TopType DEF AtTarget, Context
<1> QED BY <1>1, HeadTailProperties DEF AtTarget, Target

LEMMA LeastNatural ==
  ASSUME NEW T \in SUBSET Nat, T # {}
  PROVE  \E n \in T : \A m \in T : n <= m
<1> DEFINE Less == OpToRel(<, Nat)
<1>1. \A m, n \in Nat : m < n => <<m, n>> \in Less
  BY Zenon DEF OpToRel
<1>2. IsWellFoundedOn(Less, Nat)
  BY NatLessThanWellFounded
<1> HIDE DEF Less
<1>3. PICK n \in T : \A m \in T : ~(<<m, n>> \in Less)
  BY <1>2, WFMin
<1>4. \A m \in T : ~(m < n)
  BY <1>1, <1>3
<1> QED BY <1>4

\* The lookup by path finds a field, and one with that path.
LEMMA FirstAtType ==
  ASSUME NEW c \in Context, NEW k \in DOMAIN c.sources
  PROVE  /\ FirstAt(c, c.sources[k].path) \in FieldRef
         /\ FirstAt(c, c.sources[k].path).path = c.sources[k].path
         /\ \E i \in DOMAIN c.sources : FirstAt(c, c.sources[k].path) = c.sources[i]
<1> DEFINE path == c.sources[k].path
           At   == {i \in DOMAIN c.sources : c.sources[i].path = path}
           first(i) == /\ c.sources[i].path = path
                       /\ \A j \in 1 .. i - 1 : c.sources[j].path # path
<1>1. c.sources \in Seq(FieldRef) /\ DOMAIN c.sources = 1 .. Len(c.sources)
  BY LenProperties DEF Context
<1>2. PICK n \in At : \A m \in At : n <= m
  <2>1. At \in SUBSET Nat /\ k \in At
    BY <1>1
  <2> QED BY <2>1, LeastNatural
<1>3. n \in DOMAIN c.sources /\ first(n)
  <2>1. n \in DOMAIN c.sources /\ c.sources[n].path = path
    BY <1>2
  <2>2. ASSUME NEW j \in 1 .. n - 1 PROVE c.sources[j].path # path
    BY <1>1, <1>2, <2>1
  <2> QED BY <2>1, <2>2
<1> DEFINE i0 == CHOOSE i \in DOMAIN c.sources : first(i)
<1>4. i0 \in DOMAIN c.sources /\ first(i0)
  BY <1>3
<1>5. c.sources[i0] \in FieldRef
  BY <1>1, <1>4, ElementOfSeq
<1>6. FirstAt(c, path) = c.sources[i0]
  BY DEF FirstAt
<1> QED BY <1>4, <1>5, <1>6

LEMMA ChosenType ==
  ASSUME TypeOK, NEW path \in ChosenPaths
  PROVE  /\ AtLeaf
         /\ path \in Path
         /\ path \notin Top.used
         /\ Origin(path) \in Field
<1>1. AtLeaf /\ AtTarget
  BY DEF ChosenPaths, AtLeaf
<1>2. PICK i \in Candidates(Top, Target) : path = Top.sources[i].path
  BY <1>1 DEF ChosenPaths
<1>3. Top \in Context /\ Top.sources \in Seq(FieldRef)
  BY <1>1, TargetType DEF Context
<1>4. i \in DOMAIN Top.sources /\ path \notin Top.used
  BY <1>2 DEF Candidates
<1>5. Top.sources[i] \in FieldRef
  BY <1>3, <1>4, ElementOfSeq, LenProperties
<1>6. FirstAt(Top, path) \in FieldRef
  BY <1>2, <1>3, <1>4, FirstAtType
<1> QED BY <1>1, <1>2, <1>4, <1>5, <1>6 DEF Origin, FieldRef

-----------------------------------------------------------------------------
(***************************************************************************)
(* Results of the steps, by shape.                                         *)
(***************************************************************************)
LEMMA NoCallers == 1 .. 0 - 1 = {} /\ 1 .. 1 - 1 = {}
OBVIOUS

LEMMA BecomeType ==
  ASSUME TypeOK, CallersWait, stack # <<>>, NEW c \in Context, Become(c)
  PROVE  TypeOK' /\ CallersWait'
<1>1. stack \in Seq(Context) /\ Len(stack) \in 1 .. Len(stack) /\ Len(stack) \in Nat
  BY TopType, LenProperties DEF TypeOK
<1>2. /\ stack' \in Seq(Context) /\ Len(stack') = Len(stack)
      /\ \A k \in 1 .. Len(stack) - 1 : stack'[k] = stack[k]
  BY <1>1, ExceptSeq DEF Become
<1>3. CallersWait'
  BY <1>2 DEF CallersWait
<1> QED BY <1>2, <1>3 DEF TypeOK, Become

LEMMA ReturnType ==
  ASSUME TypeOK, CallersWait, NEW result \in Outcome, Return(result)
  PROVE  TypeOK' /\ CallersWait'
<1>1. stack' = <<>> /\ stack' \in Seq(Context) /\ Len(stack') = 0
  BY EmptySeq DEF Return
<1>2. CallersWait'
  BY <1>1, NoCallers DEF CallersWait
<1> QED BY <1>1, <1>2 DEF TypeOK, Return

LEMMA FailedType ==
  ASSUME NEW code \in Codes
  PROVE  Failed(code) \in Outcome
BY DEF Outcome

LEMMA NoPlaceType == NoPlace \in Place
BY EmptySeq DEF NoPlace, Place

LEMMA ExplainType ==
  ASSUME NEW t \in FieldRef, NEW source \in Place,
         NEW action \in {"map", "mapElements", "omit", "ambiguous"}
  PROVE  Explain(t, source, action) \in Entry
<1>1. <<t.path>> \in Place
  BY DEF FieldRef, Place
<1> QED BY <1>1 DEF Explain, Entry

LEMMA BindType ==
  ASSUME NEW t \in FieldRef, NEW source \in Place,
         NEW op \in {"object", "field", "listMap"}
  PROVE  Bind(t, source, op) \in Binding
<1>1. <<t.path>> \in Place
  BY DEF FieldRef, Place
<1> QED BY <1>1 DEF Bind, Binding

LEMMA UnresolveType ==
  ASSUME NEW c \in Context, c.build # <<>>, NEW candidates \in SUBSET Path
  PROVE  Unresolve(c, candidates) \in Context
<1>1. c.build \in Seq(FieldRef) /\ c.unresolved \in Seq(UnresolvedTarget)
  BY DEF Context
<1>2. Tail(c.build) \in Seq(FieldRef) /\ Head(c.build) \in FieldRef
  BY <1>1, HeadTailProperties
<1>3. [target |-> Head(c.build).path, candidates |-> candidates] \in UnresolvedTarget
  BY <1>2 DEF UnresolvedTarget, FieldRef
<1>4. Append(c.unresolved, [target |-> Head(c.build).path, candidates |-> candidates])
        \in Seq(UnresolvedTarget)
  BY <1>1, <1>3, AppendProperties
<1> QED BY <1>2, <1>4 DEF Unresolve, Context

LEMMA MappedType ==
  ASSUME NEW c \in Context, c.build # <<>>, NEW t \in FieldRef, NEW path \in Path,
         NEW op \in {"field", "listMap"}, NEW action \in {"map", "mapElements"}
  PROVE  Mapped(c, t, path, op, action) \in Context
<1>1. <<path>> \in Place
  BY DEF Place
<1>2. Bind(t, <<path>>, op) \in Binding /\ Explain(t, <<path>>, action) \in Entry
  BY <1>1, BindType, ExplainType
<1>3. /\ c.build \in Seq(FieldRef) /\ c.bindings \in Seq(Binding)
      /\ c.explanation \in Seq(Entry)
  BY DEF Context
<1>4. /\ Tail(c.build) \in Seq(FieldRef)
      /\ Append(c.bindings, Bind(t, <<path>>, op)) \in Seq(Binding)
      /\ Append(c.explanation, Explain(t, <<path>>, action)) \in Seq(Entry)
  BY <1>2, <1>3, HeadTailProperties, AppendProperties
<1> QED BY <1>4 DEF Mapped, Context

-----------------------------------------------------------------------------
(***************************************************************************)
(* One lemma per kind of step: it keeps the types.                         *)
(***************************************************************************)
LEMMA BeginType == ASSUME TypeOK, CallersWait, Begin PROVE TypeOK' /\ CallersWait'
<1>1. request.source \in Types /\ request.target \in Types
  BY InputsAssumption DEF TypeOK
<1>2. NewContext(request.source, request.target) \in Context
  BY <1>1, NewContextType DEF Begin
<1>3. <<NewContext(request.source, request.target)>> \in Seq(Context)
  BY <1>2
<1>4. TypeOK'
  BY <1>3 DEF Begin, TypeOK
<1>5. Len(stack') = 1
  BY DEF Begin
<1> QED BY <1>4, <1>5, NoCallers DEF CallersWait

LEMMA RejectRootType == ASSUME TypeOK, CallersWait, RejectRoot PROVE TypeOK' /\ CallersWait'
<1>1. Failed("not_a_record") \in Outcome
  BY FailedType DEF Codes
<1> QED BY <1>1, ReturnType DEF RejectRoot

LEMMA CollectType ==
  ASSUME TypeOK, CallersWait, CollectRecord \/ CollectLeaf
  PROVE  TypeOK' /\ CallersWait'
<1> DEFINE ref == Head(Top.collect)
<1>1. stack # <<>> /\ Top.collect # <<>>
  BY DEF CollectRecord, CollectLeaf
<1>2. /\ Top \in Context
      /\ Top.collect \in Seq(FieldRef) /\ Top.sources \in Seq(FieldRef)
  BY <1>1, TopType DEF Context
<1>3. ref \in FieldRef /\ Tail(Top.collect) \in Seq(FieldRef)
  BY <1>1, <1>2, HeadTailProperties
<1>4. CASE CollectRecord
  <2>1. ChildRefs(ref) \o Tail(Top.collect) \in Seq(FieldRef)
    BY <1>3, <1>4, ChildRefsType, ConcatProperties DEF CollectRecord
  <2>2. [Top EXCEPT !.collect = ChildRefs(ref) \o Tail(@)] \in Context
    BY <1>2, <2>1 DEF Context
  <2> QED BY <1>1, <1>4, <2>2, BecomeType DEF CollectRecord
<1>5. CASE CollectLeaf
  <2>1. Append(Top.sources, ref) \in Seq(FieldRef)
    BY <1>2, <1>3, AppendProperties
  <2>2. [Top EXCEPT !.collect = Tail(@), !.sources = Append(@, ref)] \in Context
    BY <1>2, <1>3, <2>1 DEF Context
  <2> QED BY <1>1, <1>5, <2>2, BecomeType DEF CollectLeaf
<1> QED BY <1>4, <1>5

LEMMA BuildObjectType == ASSUME TypeOK, CallersWait, BuildObject PROVE TypeOK' /\ CallersWait'
<1>1. /\ AtTarget /\ stack # <<>>
      /\ Top \in Context /\ Target \in FieldRef /\ Tail(Top.build) \in Seq(FieldRef)
  BY TargetType DEF BuildObject, AtTarget
<1>2. ChildRefs(Target) \o Tail(Top.build) \in Seq(FieldRef)
  BY <1>1, ChildRefsType, ConcatProperties DEF BuildObject
<1>3. Bind(Target, NoPlace, "object") \in Binding
  BY <1>1, BindType, NoPlaceType
<1>4. Append(Top.bindings, Bind(Target, NoPlace, "object")) \in Seq(Binding)
  BY <1>1, <1>3, AppendProperties DEF Context
<1>5. [Top EXCEPT !.build    = ChildRefs(Target) \o Tail(@),
                  !.bindings = Append(@, Bind(Target, NoPlace, "object"))] \in Context
  BY <1>1, <1>2, <1>4 DEF Context
<1> QED BY <1>1, <1>5, BecomeType DEF BuildObject

\* Appending an entry about the target.
LEMMA ExplainedType ==
  ASSUME NEW c \in Context, NEW t \in FieldRef,
         NEW action \in {"omit", "ambiguous"}
  PROVE  Append(c.explanation, Explain(t, NoPlace, action)) \in Seq(Entry)
<1>1. Explain(t, NoPlace, action) \in Entry
  BY ExplainType, NoPlaceType
<1> QED BY <1>1, AppendProperties DEF Context

LEMMA UnmappedType ==
  ASSUME TypeOK, CallersWait, OmitOptional \/ MissRequired \/ ReportAmbiguous
  PROVE  TypeOK' /\ CallersWait'
<1>1. AtTarget /\ stack # <<>> /\ Top.build # <<>>
  BY DEF OmitOptional, MissRequired, ReportAmbiguous, AtLeaf, AtTarget
<1>2. /\ Top \in Context /\ Target \in FieldRef
      /\ Tail(Top.build) \in Seq(FieldRef)
  BY <1>1, TargetType
<1>3. CASE OmitOptional
  <2>1. [Top EXCEPT !.build = Tail(@),
                    !.explanation = Append(@, Explain(Target, NoPlace, "omit"))] \in Context
    BY <1>2, ExplainedType DEF Context
  <2> QED BY <1>1, <1>3, <2>1, BecomeType DEF OmitOptional
<1>4. CASE MissRequired
  <2>1. Unresolve(Top, {}) \in Context
    BY <1>1, <1>2, UnresolveType
  <2> QED BY <1>1, <1>4, <2>1, BecomeType DEF MissRequired
<1>5. CASE ReportAmbiguous
  <2> DEFINE paths == {Top.sources[i].path : i \in Candidates(Top, Target)}
             c == Unresolve(Top, paths)
  <2>1. ASSUME NEW i \in Candidates(Top, Target) PROVE Top.sources[i].path \in Path
    <3>1. Top.sources \in Seq(FieldRef) /\ i \in DOMAIN Top.sources
      BY <1>2 DEF Candidates, Context
    <3>2. Top.sources[i] \in FieldRef
      BY <3>1, ElementOfSeq, LenProperties
    <3> QED BY <3>2 DEF FieldRef
  <2>2. paths \in SUBSET Path
    BY <2>1
  <2>3. c \in Context
    BY <1>1, <1>2, <2>2, UnresolveType
  <2> HIDE DEF c
  <2>4. [c EXCEPT !.explanation = Append(@, Explain(Target, NoPlace, "ambiguous"))] \in Context
    BY <1>2, <2>3, ExplainedType DEF Context
  <2>5. Become([c EXCEPT !.explanation = Append(@, Explain(Target, NoPlace, "ambiguous"))])
    BY <1>5 DEF ReportAmbiguous, c
  <2> QED BY <1>1, <2>4, <2>5, BecomeType
<1> QED BY <1>3, <1>4, <1>5

LEMMA MapType ==
  ASSUME TypeOK, CallersWait, NEW path \in ChosenPaths, Map(path)
  PROVE  TypeOK' /\ CallersWait'
<1>1. AtLeaf /\ AtTarget /\ path \in Path /\ Origin(path) \in Field
  BY ChosenType DEF AtLeaf
<1>2. /\ stack # <<>> /\ Top.build # <<>>
      /\ Top \in Context /\ Target \in FieldRef
  BY <1>1, TargetType DEF AtTarget
<1>3. CASE TakeWhole(path)
  <2>1. Mapped(Top, Target, path, "field", "map") \in Context
    BY <1>1, <1>2, MappedType
  <2> QED BY <1>2, <1>3, <2>1, BecomeType DEF TakeWhole
<1>4. CASE RejectPath(path)
  <2>1. Failed("invalid_path") \in Outcome
    BY FailedType DEF Codes
  <2> QED BY <1>4, <2>1, ReturnType DEF RejectPath
<1>5. CASE RejectListPair(path)
  <2>1. Failed("list_map_plan") \in Outcome
    BY FailedType DEF Codes
  <2> QED BY <1>5, <2>1, ReturnType DEF RejectListPair
<1>6. CASE KeepListContract(path) \/ LeaveScalarElements(path)
  <2>1. Unresolve(Top, {path}) \in Context
    BY <1>1, <1>2, UnresolveType
  <2> QED BY <1>2, <1>6, <2>1, BecomeType DEF KeepListContract, LeaveScalarElements
<1>7. CASE EnterElements(path)
  <2>1. ListToList(path) /\ IsRecord(Elements(path)) /\ IsRecord(Target.field.ty.element)
    BY <1>7 DEF EnterElements, RecordElements
  <2>2. Origin(path).ty \in Types /\ Target.field.ty \in Types
    BY <1>1, <1>2 DEF Field, FieldRef
  <2>3. Elements(path) \in Types /\ Target.field.ty.element \in Types
    BY <2>1, <2>2, TypesAssumption DEF ListToList, Elements
  <2>4. NewContext(Elements(path), Target.field.ty.element) \in Context
    BY <2>1, <2>3, NewContextType
  <2>5. stack \in Seq(Context) /\ Len(stack) \in 1 .. Len(stack)
    BY <1>2, TopType DEF TypeOK
  <2>6. [Top EXCEPT !.list = path] \in Context
    BY <1>1, <1>2 DEF Context
  <2>7. [stack EXCEPT ![Len(stack)].list = path] = [stack EXCEPT ![Len(stack)] = [Top EXCEPT !.list = path]]
    BY DEF Top
  <2>8. [stack EXCEPT ![Len(stack)].list = path] \in Seq(Context)
    BY <2>5, <2>6, <2>7, ExceptSeq
  <2>9. stack' \in Seq(Context)
    BY <1>7, <2>4, <2>8, AppendProperties DEF EnterElements
  <2> DEFINE waiting == [stack EXCEPT ![Len(stack)].list = path]
             nested  == NewContext(Elements(path), Target.field.ty.element)
  <2>10. /\ Len(stack) \in Nat
         /\ waiting \in Seq(Context) /\ Len(waiting) = Len(stack)
         /\ \A k \in 1 .. Len(stack) :
              waiting[k] = IF k = Len(stack) THEN [Top EXCEPT !.list = path] ELSE stack[k]
    BY <2>5, <2>6, <2>7, <2>8, ExceptSeq, LenProperties
  <2>11. stack' = Append(waiting, nested)
    BY <1>7 DEF EnterElements
  <2> HIDE DEF waiting, nested
  <2>12. ASSUME NEW k \in 1 .. Len(stack') - 1
         PROVE  stack'[k].build # <<>> /\ stack'[k].list \notin stack'[k].used
    <3> DEFINE longer == Append(waiting, nested)
    <3>1. /\ Len(longer) = Len(waiting) + 1
          /\ \A i \in 1 .. Len(waiting) : longer[i] = waiting[i]
      BY <2>4, <2>10, AppendProperties DEF nested
    <3> HIDE DEF longer
    <3>2. k \in 1 .. Len(stack) /\ stack'[k] = waiting[k]
      <4>1. stack' = longer
        BY <2>11 DEF longer
      <4> QED BY <2>10, <3>1, <4>1
    <3>3. CASE k = Len(stack)
      <4>1. stack'[k] = [Top EXCEPT !.list = path]
        BY <2>10, <3>2, <3>3
      <4>2. path \notin Top.used
        BY ChosenType
      <4> QED BY <1>2, <4>1, <4>2 DEF Context
    <3>4. CASE k # Len(stack)
      <4>1. stack'[k] = stack[k] /\ k \in 1 .. Len(stack) - 1
        BY <2>10, <3>2, <3>4
      <4> QED BY <4>1 DEF CallersWait
    <3> QED BY <3>3, <3>4
  <2>13. CallersWait'
    BY <2>12 DEF CallersWait
  <2> QED BY <1>7, <2>9, <2>13 DEF EnterElements, TypeOK
<1> QED BY <1>3, <1>4, <1>5, <1>6, <1>7 DEF Map

-----------------------------------------------------------------------------
(***************************************************************************)
(* The ends of a call.                                                     *)
(***************************************************************************)
LEMMA CallerType ==
  ASSUME TypeOK, CallersWait, CallDone, ~Outermost
  PROVE  /\ Len(stack) - 1 \in 1 .. Len(stack)
         /\ Caller \in Context
         /\ Caller.build # <<>> /\ Caller.list \notin Caller.used
         /\ SubSeq(stack, 1, Len(stack) - 2) \in Seq(Context)
<1>1. stack \in Seq(Context) /\ Len(stack) \in Nat \ {0}
  BY EmptySeq DEF TypeOK, CallDone
<1>2. Len(stack) - 1 \in 1 .. Len(stack)
  <2>1. Len(stack) # 1
    BY DEF Outermost
  <2>2. \A n \in Nat : n # 0 /\ n # 1 => n - 1 \in 1 .. n
    OBVIOUS
  <2> QED BY ONLY <1>1, <2>1, <2>2
<1>3. Caller \in Context
  BY <1>1, <1>2, ElementOfSeq DEF Caller
<1>4. \A i \in 1 .. Len(stack) - 2 : stack[i] \in Context
  BY <1>1, ElementOfSeq
<1>5. 1 \in Int /\ Len(stack) - 2 \in Int
  BY <1>1
<1>6. SubSeq(stack, 1, Len(stack) - 2) \in Seq(Context)
  BY <1>4, <1>5, SubSeqProperties
<1>7. Caller.build # <<>> /\ Caller.list \notin Caller.used
  BY <1>1, <1>2 DEF CallersWait, Caller
<1> QED BY <1>2, <1>3, <1>6, <1>7

\* What is left of the stack below the caller.
LEMMA BelowCaller ==
  ASSUME stack \in Seq(Context), Len(stack) \in Nat, Len(stack) - 1 \in 1 .. Len(stack)
  PROVE  LET rest == SubSeq(stack, 1, Len(stack) - 2)
         IN  /\ Len(rest) = Len(stack) - 2
             /\ \A k \in 1 .. Len(stack) - 2 : rest[k] = stack[k]
<1> DEFINE rest == SubSeq(stack, 1, Len(stack) - 2)
<1>1. \A i \in 1 .. Len(stack) - 2 : stack[i] \in Context
  BY ElementOfSeq
<1>2. 1 \in Int /\ Len(stack) - 2 \in Int
  OBVIOUS
<1>3. /\ Len(rest) = IF 1 <= Len(stack) - 2 THEN Len(stack) - 2 - 1 + 1 ELSE 0
      /\ \A i \in 1 .. Len(stack) - 2 - 1 + 1 : rest[i] = stack[1 + i - 1]
  BY <1>1, <1>2, SubSeqProperties
<1> HIDE DEF rest
<1>4. Len(stack) >= 2 /\ Len(stack) - 2 - 1 + 1 = Len(stack) - 2
  OBVIOUS
<1>5. Len(rest) = Len(stack) - 2
  <2>1. \A n \in Nat : n >= 2 => (IF 1 <= n - 2 THEN n - 2 - 1 + 1 ELSE 0) = n - 2
    OBVIOUS
  <2> QED BY ONLY Len(stack) \in Nat, <1>3, <1>4, <2>1
<1>6. ASSUME NEW k \in 1 .. Len(stack) - 2 PROVE rest[k] = stack[k]
  <2>1. 1 + k - 1 = k
    OBVIOUS
  <2> QED BY <1>3, <1>4, <2>1
<1> QED BY <1>5, <1>6 DEF rest

LEMMA ResumeType ==
  ASSUME TypeOK, CallersWait, CallDone, ~Outermost, NEW c \in Context, Resume(c)
  PROVE  TypeOK' /\ CallersWait'
<1> DEFINE rest == SubSeq(stack, 1, Len(stack) - 2)
<1>1. /\ Len(stack) \in Nat /\ Len(stack) - 1 \in 1 .. Len(stack)
      /\ rest \in Seq(Context)
  BY CallerType, LenProperties DEF TypeOK
<1>2. /\ Len(rest) = Len(stack) - 2
      /\ \A k \in 1 .. Len(stack) - 2 : rest[k] = stack[k]
  BY <1>1, BelowCaller DEF TypeOK
<1> HIDE DEF rest
<1>3. /\ stack' \in Seq(Context) /\ Len(stack') = Len(stack) - 1
      /\ \A k \in 1 .. Len(stack) - 2 : stack'[k] = stack[k]
  <2>1. stack' = Append(rest, c)
    BY DEF Resume, rest
  <2> QED BY <1>1, <1>2, <2>1, AppendProperties
<1>4. CallersWait'
  BY <1>1, <1>3 DEF CallersWait
<1> QED BY <1>3, <1>4 DEF TypeOK, Resume

LEMMA NestType ==
  ASSUME NEW place \in Place, NEW path \in Path
  PROVE  Nest(place, path) \in Place
<1>1. <<path>> \in Seq(Path)
  OBVIOUS
<1> QED BY <1>1, ConcatProperties, NoPlaceType DEF Nest, Place

LEMMA LiftBindingsType ==
  ASSUME NEW bindings \in Seq(Binding), NEW t \in FieldRef, NEW path \in Path
  PROVE  LiftBindings(bindings, t, path) \in Seq(Binding)
<1> DEFINE lifted(i) ==
      [bindings[i] EXCEPT !.target = Nest(@, t.path), !.source = Nest(@, path)]
<1>1. Len(bindings) \in Nat /\ DOMAIN bindings = 1 .. Len(bindings)
  BY LenProperties
<1>2. ASSUME NEW i \in 1 .. Len(bindings) PROVE lifted(i) \in Binding
  <2>1. bindings[i] \in Binding
    BY ElementOfSeq
  <2>2. /\ Nest(bindings[i].target, t.path) \in Place
        /\ Nest(bindings[i].source, path) \in Place
    BY <2>1, NestType DEF Binding, FieldRef
  <2> QED BY <2>1, <2>2 DEF Binding
<1> HIDE DEF lifted
<1>3. [i \in 1 .. Len(bindings) |-> lifted(i)] \in Seq(Binding)
  BY <1>1, <1>2, IsASeq
<1> QED BY <1>1, <1>3 DEF LiftBindings, lifted

LEMMA LiftEntriesType ==
  ASSUME NEW entries \in Seq(Entry), NEW t \in FieldRef, NEW path \in Path
  PROVE  LiftEntries(entries, t, path) \in Seq(Entry)
<1> DEFINE lifted(i) ==
      [entries[i] EXCEPT !.target = Nest(@, t.path), !.source = Nest(@, path)]
<1>1. Len(entries) \in Nat /\ DOMAIN entries = 1 .. Len(entries)
  BY LenProperties
<1>2. ASSUME NEW i \in 1 .. Len(entries) PROVE lifted(i) \in Entry
  <2>1. entries[i] \in Entry
    BY ElementOfSeq
  <2>2. /\ Nest(entries[i].target, t.path) \in Place
        /\ Nest(entries[i].source, path) \in Place
    BY <2>1, NestType DEF Entry, FieldRef
  <2> QED BY <2>1, <2>2 DEF Entry
<1> HIDE DEF lifted
<1>3. [i \in 1 .. Len(entries) |-> lifted(i)] \in Seq(Entry)
  BY <1>1, <1>2, IsASeq
<1> QED BY <1>1, <1>3 DEF LiftEntries, lifted

LEMMA ReadyType ==
  ASSUME NEW c \in Context
  PROVE  Ready(c) \in Outcome /\ Ambiguous(c) \in Outcome
BY DEF Ready, Ambiguous, Outcome, Context

LEMMA ReturnUnresolvedType == ASSUME TypeOK, CallersWait, ReturnUnresolved PROVE TypeOK' /\ CallersWait'
<1>1. CallDone /\ stack # <<>> /\ Top \in Context
  BY TopType DEF ReturnUnresolved, CallDone
<1>2. CASE Outermost
  BY <1>1, <1>2, ReadyType, ReturnType DEF ReturnUnresolved
<1>3. CASE ~Outermost
  <2> DEFINE c == Unresolve(Caller, {Caller.list})
             d == [c EXCEPT !.list = <<>>]
  <2>1. Resume(d)
    BY <1>1, <1>3 DEF ReturnUnresolved
  <2>2. Caller \in Context /\ Caller.build # <<>> /\ {Caller.list} \in SUBSET Path
    BY <1>1, <1>3, CallerType DEF Context
  <2>3. c \in Context
    BY <2>2, UnresolveType
  <2> HIDE DEF c
  <2>4. d \in Context
    BY <2>3, EmptySeq DEF Context, Path
  <2> QED BY <1>1, <1>3, <2>1, <2>4, ResumeType
<1> QED BY <1>2, <1>3

LEMMA ReturnEmptyType == ASSUME TypeOK, CallersWait, ReturnEmpty PROVE TypeOK' /\ CallersWait'
<1>1. Failed("empty_mapping") \in Outcome
  BY FailedType DEF Codes
<1> QED BY <1>1, ReturnType DEF ReturnEmpty

LEMMA ReturnPlanType == ASSUME TypeOK, CallersWait, ReturnPlan PROVE TypeOK' /\ CallersWait'
<1>1. Ready(Top) \in Outcome
  BY TopType, ReadyType DEF ReturnPlan, CallDone
<1> QED BY <1>1, ReturnType DEF ReturnPlan

LEMMA ReturnElementPlanType ==
  ASSUME TypeOK, CallersWait, ReturnElementPlan
  PROVE  TypeOK' /\ CallersWait'
<1> DEFINE t    == Head(Caller.build)
           path == Caller.list
           c    == Mapped(Caller, t, path, "listMap", "mapElements")
           d    == [c EXCEPT
                      !.list        = <<>>,
                      !.bindings    = @ \o LiftBindings(Top.bindings, t, path),
                      !.explanation = @ \o LiftEntries(Top.explanation, t, path)]
<1>1. CallDone /\ ~Outermost /\ Top \in Context
  BY TopType DEF ReturnElementPlan, CallDone
<1>2. Caller \in Context /\ Caller.build # <<>>
  BY <1>1, CallerType
<1>3. t \in FieldRef /\ path \in Path
  BY <1>2, HeadTailProperties DEF Context
<1>4. c \in Context
  BY <1>2, <1>3, MappedType
<1>5. /\ LiftBindings(Top.bindings, t, path) \in Seq(Binding)
      /\ LiftEntries(Top.explanation, t, path) \in Seq(Entry)
  BY <1>1, <1>3, LiftBindingsType, LiftEntriesType DEF Context
<1>6. IF Parses(path) THEN Resume(d) ELSE Return(Failed("invalid_path"))
  BY DEF ReturnElementPlan
<1> HIDE DEF c, t, path
<1>7. d \in Context
  <2>1. c.bindings \o LiftBindings(Top.bindings, t, path) \in Seq(Binding)
    BY <1>4, <1>5, ConcatProperties DEF Context
  <2>2. c.explanation \o LiftEntries(Top.explanation, t, path) \in Seq(Entry)
    BY <1>4, <1>5, ConcatProperties DEF Context
  <2>3. <<>> \in Path
    BY EmptySeq DEF Path
  <2> QED BY <1>4, <2>1, <2>2, <2>3 DEF Context
<1>8. Failed("invalid_path") \in Outcome
  BY FailedType DEF Codes
<1> QED BY <1>1, <1>6, <1>7, <1>8, ResumeType, ReturnType

-----------------------------------------------------------------------------
LEMMA InitType == Init => TypeOK /\ CallersWait
<1> SUFFICES ASSUME Init PROVE TypeOK /\ CallersWait
  OBVIOUS
<1>1. stack = <<>> /\ Len(stack) = 0 /\ stack \in Seq(Context)
  BY EmptySeq DEF Init
<1>2. TypeOK
  BY <1>1 DEF Init, TypeOK, Outcome
<1> QED BY <1>1, <1>2, NoCallers DEF CallersWait

LEMMA StepType ==
  ASSUME TypeOK, CallersWait, [Next]_vars
  PROVE  TypeOK' /\ CallersWait'
<1>1. CASE UNCHANGED vars
  BY <1>1 DEF vars, TypeOK, CallersWait
<1>2. ASSUME NEW path \in ChosenPaths, Map(path)
      PROVE  TypeOK' /\ CallersWait'
  BY <1>2, MapType
<1> QED BY <1>1, <1>2, BeginType, RejectRootType, CollectType, BuildObjectType, UnmappedType,
           ReturnUnresolvedType, ReturnEmptyType, ReturnPlanType, ReturnElementPlanType
        DEF Next

\* The planner keeps its types, for every set of schemas.
THEOREM TypeCorrect == Spec => []TypeOK
<1>1. Init => TypeOK /\ CallersWait
  BY InitType
<1>2. (TypeOK /\ CallersWait) /\ [Next]_vars => (TypeOK /\ CallersWait)'
  BY StepType
<1> QED BY <1>1, <1>2, PTL DEF Spec

-----------------------------------------------------------------------------
(***************************************************************************)
(* A source is used once.  The property speaks of explanations; what makes *)
(* it inductive is that the source of every entry of a context begins with *)
(* a path the context has marked as used, so that a path that is still     *)
(* free begins none of them.                                               *)
(***************************************************************************)
OncePerEntry(entries) ==
  \A i, j \in 1 .. Len(entries) :
    entries[i].source # NoPlace /\ entries[i].source = entries[j].source => i = j

SourcesMarked(entries, used) ==
  \A i \in 1 .. Len(entries) : entries[i].source # NoPlace => Head(entries[i].source) \in used

Sound(c) == OncePerEntry(c.explanation) /\ SourcesMarked(c.explanation, c.used)

AllSound ==
  /\ \A k \in 1 .. Len(stack) : Sound(stack[k])
  /\ outcome.status \in {"ready", "ambiguous"} => OncePerEntry(outcome.explanation)

LEMMA SoundIsUsedOnce ==
  ASSUME TypeOK, AllSound
  PROVE  SourceUsedOnce
<1> SUFFICES ASSUME NEW explanation \in Explained,
                    NEW i \in DOMAIN explanation, NEW j \in DOMAIN explanation,
                    explanation[i].source # NoPlace,
                    explanation[i].source = explanation[j].source
             PROVE  i = j
  BY DEF SourceUsedOnce
<1>1. stack \in Seq(Context) /\ DOMAIN stack = 1 .. Len(stack)
  BY LenProperties DEF TypeOK
<1>2. explanation \in Seq(Entry) /\ OncePerEntry(explanation)
  <2>1. CASE \E k \in DOMAIN stack : explanation = stack[k].explanation
    <3>1. PICK k \in DOMAIN stack : explanation = stack[k].explanation
      BY <2>1
    <3>2. stack[k] \in Context
      BY <1>1, <3>1, ElementOfSeq
    <3> QED BY <1>1, <3>1, <3>2 DEF AllSound, Sound, Context
  <2>2. CASE /\ outcome.status \in {"ready", "ambiguous"}
             /\ explanation = outcome.explanation
    <3>1. outcome.explanation \in Seq(Entry)
      BY <2>2 DEF TypeOK, Outcome, Running, Failed
    <3> QED BY <2>2, <3>1 DEF AllSound
  <2> QED BY <2>1, <2>2 DEF Explained
<1>3. DOMAIN explanation = 1 .. Len(explanation)
  BY <1>2, LenProperties
<1> QED BY <1>2, <1>3 DEF OncePerEntry

\* A context keeps sound when entries are untouched and nothing is unmarked.
LEMMA SoundSame ==
  ASSUME NEW c, NEW d, Sound(c), d.explanation = c.explanation, d.used = c.used
  PROVE  Sound(d)
BY DEF Sound

\* An entry without a source changes nothing.
LEMMA SoundAppendNone ==
  ASSUME NEW c \in Context, Sound(c), NEW e \in Entry, e.source = NoPlace,
         NEW d, d.explanation = Append(c.explanation, e), d.used = c.used
  PROVE  Sound(d)
<1>1. c.explanation \in Seq(Entry) /\ Len(c.explanation) \in Nat
  BY LenProperties DEF Context
<1>2. /\ Len(d.explanation) = Len(c.explanation) + 1
      /\ \A i \in 1 .. Len(c.explanation) : d.explanation[i] = c.explanation[i]
      /\ d.explanation[Len(c.explanation) + 1] = e
  BY <1>1, AppendProperties
<1>3. SourcesMarked(d.explanation, d.used)
  BY <1>1, <1>2 DEF Sound, SourcesMarked
<1>4. OncePerEntry(d.explanation)
  BY <1>1, <1>2 DEF Sound, OncePerEntry
<1> QED BY <1>3, <1>4 DEF Sound

\* Neither does one whose source begins with a path nothing has used.
LEMMA SoundAppendFree ==
  ASSUME NEW c \in Context, Sound(c), NEW path \in Path, path \notin c.used,
         NEW e \in Entry, e.source = <<path>>,
         NEW d, d.explanation = Append(c.explanation, e), d.used = c.used \union {path}
  PROVE  Sound(d)
<1>1. c.explanation \in Seq(Entry) /\ Len(c.explanation) \in Nat
  BY LenProperties DEF Context
<1>2. /\ Len(d.explanation) = Len(c.explanation) + 1
      /\ \A i \in 1 .. Len(c.explanation) : d.explanation[i] = c.explanation[i]
      /\ d.explanation[Len(c.explanation) + 1] = e
  BY <1>1, AppendProperties
<1>3. Head(e.source) = path
  OBVIOUS
<1>4. \A i \in 1 .. Len(c.explanation) : c.explanation[i].source # e.source
  <2>1. e.source # NoPlace
    BY DEF NoPlace
  <2> QED BY <1>3, <2>1 DEF Sound, SourcesMarked
<1>5. SourcesMarked(d.explanation, d.used)
  BY <1>1, <1>2, <1>3 DEF Sound, SourcesMarked
<1>6. OncePerEntry(d.explanation)
  BY <1>1, <1>2, <1>4 DEF Sound, OncePerEntry
<1> QED BY <1>5, <1>6 DEF Sound

\* Nesting puts the path of the list in front, and loses nothing.
LEMMA NestPlaces ==
  ASSUME NEW place \in Place, NEW path \in Path
  PROVE  /\ place = NoPlace => Nest(place, path) = NoPlace
         /\ place # NoPlace => /\ Nest(place, path) # NoPlace
                               /\ Nest(place, path) # <<path>>
                               /\ Head(Nest(place, path)) = path
<1>1. CASE place = NoPlace
  BY <1>1 DEF Nest
<1>2. CASE place # NoPlace
  <2>1. <<path>> \in Seq(Path) /\ place \in Seq(Path) /\ Len(<<path>>) = 1 /\ <<path>>[1] = path
    BY DEF Place
  <2>2. Len(place) \in Nat \ {0}
    BY <1>2, <2>1, EmptySeq DEF NoPlace
  <2>3. /\ Nest(place, path) \in Seq(Path)
        /\ Len(Nest(place, path)) = 1 + Len(place)
        /\ Nest(place, path)[1] = path
    BY <1>2, <2>1, <2>2, ConcatProperties DEF Nest
  <2>4. Len(Nest(place, path)) # 0 /\ Len(Nest(place, path)) # 1
    BY <2>2, <2>3
  <2>5. Nest(place, path) # NoPlace /\ Nest(place, path) # <<path>>
    BY <2>1, <2>4, EmptySeq DEF NoPlace
  <2>6. Head(Nest(place, path)) = path
    BY <2>3, <2>5 DEF NoPlace
  <2> QED BY <1>2, <2>5, <2>6
<1> QED BY <1>1, <1>2

LEMMA NestInjective ==
  ASSUME NEW p \in Place, NEW q \in Place, NEW path \in Path,
         p # NoPlace, Nest(p, path) = Nest(q, path)
  PROVE  p = q
<1>1. q # NoPlace
  BY NestPlaces
<1>2. <<path>> \o p = <<path>> \o q
  BY <1>1 DEF Nest
<1>3. <<path>> \in Seq(Path) /\ p \in Seq(Path) /\ q \in Seq(Path)
  BY DEF Place
<1> QED BY <1>2, <1>3, ConcatSimplifications

LEMMA SoundLift ==
  ASSUME NEW c \in Context, Sound(c),
         NEW entries \in Seq(Entry), OncePerEntry(entries),
         NEW t \in FieldRef, NEW path \in c.used, path \in Path,
         \A i \in 1 .. Len(c.explanation) :
           c.explanation[i].source # NoPlace /\ Head(c.explanation[i].source) = path
             => c.explanation[i].source = <<path>>,
         NEW d, d.explanation = c.explanation \o LiftEntries(entries, t, path),
         d.used = c.used
  PROVE  Sound(d)
<1> DEFINE lifted == LiftEntries(entries, t, path)
           m == Len(c.explanation)
           n == Len(entries)
<1>1. /\ c.explanation \in Seq(Entry) /\ lifted \in Seq(Entry)
      /\ m \in Nat /\ n \in Nat
  BY LiftEntriesType, LenProperties DEF Context
<1>2. /\ Len(lifted) = n
      /\ \A i \in 1 .. n : lifted[i].source = Nest(entries[i].source, path)
  <2>1. DOMAIN entries = 1 .. n
    BY LenProperties
  <2>2. DOMAIN lifted = 1 .. n
    BY <2>1 DEF LiftEntries
  <2>3. Len(lifted) = n
    BY <1>1, <2>2, LenProperties
  <2>4. ASSUME NEW i \in 1 .. n PROVE lifted[i].source = Nest(entries[i].source, path)
    <3>1. entries[i] \in Entry
      BY ElementOfSeq
    <3> QED BY <2>1, <3>1 DEF LiftEntries, Entry
  <2> QED BY <2>3, <2>4
<1> HIDE DEF lifted
<1>3. /\ Len(d.explanation) = m + n
      /\ \A i \in 1 .. m + n :
           d.explanation[i] = IF i <= m THEN c.explanation[i] ELSE lifted[i - m]
  <2>1. d.explanation = c.explanation \o lifted
    BY DEF lifted
  <2>2. /\ Len(c.explanation \o lifted) = Len(c.explanation) + Len(lifted)
        /\ \A i \in 1 .. Len(c.explanation) + Len(lifted) : (c.explanation \o lifted)[i] =
             IF i <= Len(c.explanation) THEN c.explanation[i]
                                        ELSE lifted[i - Len(c.explanation)]
    BY <1>1, ConcatProperties
  <2> QED BY <1>2, <2>1, <2>2
<1>4. ASSUME NEW i \in 1 .. n
      PROVE  /\ entries[i].source \in Place
             /\ entries[i].source = NoPlace => lifted[i].source = NoPlace
             /\ entries[i].source # NoPlace =>
                  /\ lifted[i].source # NoPlace /\ lifted[i].source # <<path>>
                  /\ Head(lifted[i].source) = path
  <2>1. entries[i] \in Entry
    BY ElementOfSeq
  <2>2. entries[i].source \in Place
    BY <2>1 DEF Entry
  <2> QED BY <1>2, <2>2, NestPlaces
<1>5. SourcesMarked(d.explanation, d.used)
  <2> SUFFICES ASSUME NEW i \in 1 .. m + n, d.explanation[i].source # NoPlace
               PROVE  Head(d.explanation[i].source) \in d.used
    BY <1>3 DEF SourcesMarked
  <2>1. CASE i <= m
    <3>1. i \in 1 .. m /\ d.explanation[i] = c.explanation[i]
      BY <1>1, <1>3, <2>1
    <3> QED BY <3>1 DEF Sound, SourcesMarked
  <2>2. CASE ~(i <= m)
    <3>1. i - m \in 1 .. n /\ d.explanation[i] = lifted[i - m]
      BY <1>1, <1>3, <2>2
    <3> QED BY <1>4, <3>1
  <2> QED BY <2>1, <2>2
<1>6. OncePerEntry(d.explanation)
  <2> SUFFICES ASSUME NEW i \in 1 .. m + n, NEW j \in 1 .. m + n,
                      d.explanation[i].source # NoPlace,
                      d.explanation[i].source = d.explanation[j].source
               PROVE  i = j
    BY <1>3 DEF OncePerEntry
  <2>1. CASE i <= m /\ j <= m
    <3>1. /\ i \in 1 .. m /\ d.explanation[i] = c.explanation[i]
          /\ j \in 1 .. m /\ d.explanation[j] = c.explanation[j]
      BY <1>1, <1>3, <2>1
    <3> QED BY <3>1 DEF Sound, OncePerEntry
  <2>2. ASSUME NEW a \in 1 .. m, NEW b \in 1 .. n, lifted[b].source # NoPlace
        PROVE  c.explanation[a].source # lifted[b].source
    <3>1. /\ lifted[b].source # <<path>> /\ Head(lifted[b].source) = path
      BY <1>4, <2>2
    <3> QED BY <2>2, <3>1
  <2>3. CASE i <= m /\ ~(j <= m)
    <3>1. /\ i \in 1 .. m /\ d.explanation[i] = c.explanation[i]
          /\ j - m \in 1 .. n /\ d.explanation[j] = lifted[j - m]
      BY <1>1, <1>3, <2>3
    <3> QED BY <2>2, <3>1
  <2>4. CASE ~(i <= m) /\ j <= m
    <3>1. /\ i - m \in 1 .. n /\ d.explanation[i] = lifted[i - m]
          /\ j \in 1 .. m /\ d.explanation[j] = c.explanation[j]
      BY <1>1, <1>3, <2>4
    <3> QED BY <2>2, <3>1
  <2>5. CASE ~(i <= m) /\ ~(j <= m)
    <3>1. /\ i - m \in 1 .. n /\ d.explanation[i] = lifted[i - m]
          /\ j - m \in 1 .. n /\ d.explanation[j] = lifted[j - m]
      BY <1>1, <1>3, <2>5
    <3>2. /\ Nest(entries[i - m].source, path) = Nest(entries[j - m].source, path)
          /\ entries[i - m].source # NoPlace
      BY <1>2, <1>4, <3>1
    <3>3. entries[i - m].source = entries[j - m].source
      BY <1>4, <3>1, <3>2, NestInjective
    <3>4. i - m = j - m
      BY <3>1, <3>2, <3>3 DEF OncePerEntry
    <3> QED BY <1>1, <3>4
  <2> QED BY <2>1, <2>3, <2>4, <2>5
<1> QED BY <1>5, <1>6 DEF Sound

-----------------------------------------------------------------------------
(***************************************************************************)
(* How the three shapes of a step keep every context sound.                *)
(***************************************************************************)
LEMMA BecomeSound ==
  ASSUME TypeOK, AllSound, stack # <<>>, NEW c, Sound(c), Become(c)
  PROVE  AllSound'
<1>1. stack \in Seq(Context \union {c}) /\ Len(stack) \in 1 .. Len(stack)
  BY TopType, SeqMonotonic DEF TypeOK
<1>2. /\ Len(stack') = Len(stack)
      /\ \A k \in 1 .. Len(stack) : stack'[k] = IF k = Len(stack) THEN c ELSE stack[k]
  BY <1>1, ExceptSeq DEF Become
<1>3. \A k \in 1 .. Len(stack') : Sound(stack'[k])
  BY <1>2 DEF AllSound
<1>4. outcome' = outcome
  BY DEF Become
<1> QED BY <1>3, <1>4 DEF AllSound, Sound, OncePerEntry, SourcesMarked

LEMMA ReturnSound ==
  ASSUME NEW result, Return(result),
         result.status \in {"ready", "ambiguous"} => OncePerEntry(result.explanation)
  PROVE  AllSound'
<1>1. stack' = <<>> /\ outcome' = result
  BY DEF Return
<1>2. 1 .. Len(stack') = {}
  BY <1>1
<1> QED BY <1>1, <1>2 DEF AllSound, Sound, OncePerEntry, SourcesMarked

LEMMA FailedSound ==
  ASSUME NEW code, Return(Failed(code))
  PROVE  AllSound'
<1>1. Failed(code).status \notin {"ready", "ambiguous"}
  BY DEF Failed
<1> QED BY <1>1, ReturnSound

LEMMA ResumeSound ==
  ASSUME TypeOK, CallersWait, AllSound, CallDone, ~Outermost,
         NEW c, Sound(c), Resume(c)
  PROVE  AllSound'
<1> DEFINE rest == SubSeq(stack, 1, Len(stack) - 2)
<1>1. /\ Len(stack) \in Nat /\ Len(stack) - 1 \in 1 .. Len(stack)
      /\ rest \in Seq(Context \union {c})
  BY CallerType, LenProperties, SeqMonotonic DEF TypeOK
<1>2. /\ Len(rest) = Len(stack) - 2
      /\ \A k \in 1 .. Len(stack) - 2 : rest[k] = stack[k]
  BY <1>1, BelowCaller DEF TypeOK
<1> HIDE DEF rest
<1>3. /\ Len(stack') = Len(stack) - 1
      /\ \A k \in 1 .. Len(stack) - 2 : stack'[k] = stack[k]
      /\ stack'[Len(stack) - 1] = c
  <2>1. stack' = Append(rest, c)
    BY DEF Resume, rest
  <2>2. /\ Len(stack') = Len(rest) + 1
        /\ \A k \in 1 .. Len(rest) : stack'[k] = rest[k]
        /\ stack'[Len(rest) + 1] = c
    BY <1>1, <2>1, AppendProperties
  <2>3. Len(rest) + 1 = Len(stack) - 1
    BY <1>1, <1>2
  <2> QED BY <1>2, <2>2, <2>3
<1>4. ASSUME NEW k \in 1 .. Len(stack') PROVE Sound(stack'[k])
  <2>1. CASE k = Len(stack) - 1
    BY <1>3, <2>1
  <2>2. CASE k # Len(stack) - 1
    <3>1. k \in 1 .. Len(stack) - 2 /\ k \in 1 .. Len(stack)
      BY <1>1, <1>3, <2>2
    <3> QED BY <1>3, <3>1 DEF AllSound
  <2> QED BY <2>1, <2>2
<1>5. outcome' = outcome
  BY DEF Resume
<1> QED BY <1>4, <1>5 DEF AllSound, Sound, OncePerEntry, SourcesMarked

\* Every action of Next keeps every context sound.
LEMMA BeginSound ==
  ASSUME TypeOK, AllSound, Begin \/ RejectRoot
  PROVE  AllSound'
<1>1. CASE Begin
  <2> DEFINE c == NewContext(request.source, request.target)
  <2>1. Sound(c)
    BY DEF NewContext, Sound, OncePerEntry, SourcesMarked
  <2> HIDE DEF c
  <2>2. Len(stack') = 1 /\ stack'[1] = c /\ outcome' = outcome
    BY <1>1 DEF Begin, c
  <2>3. \A k \in 1 .. Len(stack') : Sound(stack'[k])
    BY <2>1, <2>2
  <2> QED BY <2>2, <2>3 DEF AllSound, Sound, OncePerEntry, SourcesMarked
<1>2. CASE RejectRoot
  BY <1>2, FailedSound DEF RejectRoot
<1> QED BY <1>1, <1>2

LEMMA QuietSound ==
  ASSUME TypeOK, CallersWait, AllSound,
         CollectRecord \/ CollectLeaf \/ BuildObject \/ MissRequired
  PROVE  AllSound'
<1>1. stack # <<>>
  BY DEF CollectRecord, CollectLeaf, BuildObject, MissRequired, AtLeaf, AtTarget
<1>2. Top \in Context /\ Sound(Top)
  BY <1>1, TopType DEF AllSound, Top
<1>3. ASSUME NEW d, Become(d), d.explanation = Top.explanation, d.used = Top.used
      PROVE  AllSound'
  <2>1. Sound(d)
    BY <1>2, <1>3, SoundSame
  <2> QED BY <1>1, <1>3, <2>1, BecomeSound
<1>4. CASE CollectRecord
  BY <1>2, <1>3, <1>4 DEF CollectRecord, Context
<1>5. CASE CollectLeaf
  BY <1>2, <1>3, <1>5 DEF CollectLeaf, Context
<1>6. CASE BuildObject
  BY <1>2, <1>3, <1>6 DEF BuildObject, Context
<1>7. CASE MissRequired
  BY <1>2, <1>3, <1>7 DEF MissRequired, Unresolve, Context
<1> QED BY <1>4, <1>5, <1>6, <1>7

LEMMA NoteSound ==
  ASSUME TypeOK, AllSound, OmitOptional \/ ReportAmbiguous
  PROVE  AllSound'
<1>1. stack # <<>> /\ AtTarget
  BY DEF OmitOptional, ReportAmbiguous, AtLeaf, AtTarget
<1>2. Top \in Context /\ Sound(Top) /\ Target \in FieldRef
  BY <1>1, TopType, TargetType DEF AllSound, Top
<1>3. ASSUME NEW d, NEW action \in {"omit", "ambiguous"}, Become(d), d.used = Top.used,
             d.explanation = Append(Top.explanation, Explain(Target, NoPlace, action))
      PROVE  AllSound'
  <2>1. /\ Explain(Target, NoPlace, action) \in Entry
        /\ Explain(Target, NoPlace, action).source = NoPlace
    BY <1>2, ExplainType, NoPlaceType DEF Explain
  <2>2. Sound(d)
    BY <1>2, <1>3, <2>1, SoundAppendNone
  <2> QED BY <1>1, <1>3, <2>2, BecomeSound
<1>4. CASE OmitOptional
  BY <1>2, <1>3, <1>4 DEF OmitOptional, Context
<1>5. CASE ReportAmbiguous
  <2> DEFINE c == Unresolve(Top, {Top.sources[i].path : i \in Candidates(Top, Target)})
             d == [c EXCEPT !.explanation = Append(@, Explain(Target, NoPlace, "ambiguous"))]
  <2>1. Become(d)
    BY <1>5 DEF ReportAmbiguous
  <2>2. /\ d.used = Top.used
        /\ d.explanation = Append(Top.explanation, Explain(Target, NoPlace, "ambiguous"))
    BY <1>2 DEF Unresolve, Context
  <2> QED BY <1>3, <2>1, <2>2
<1> QED BY <1>4, <1>5

LEMMA MappedSound ==
  ASSUME NEW c \in Context, Sound(c), NEW t \in FieldRef, NEW path \in Path, path \notin c.used,
         NEW op \in {"field", "listMap"}, NEW action \in {"map", "mapElements"}
  PROVE  Sound(Mapped(c, t, path, op, action))
<1>1. /\ Explain(t, <<path>>, action) \in Entry
      /\ Explain(t, <<path>>, action).source = <<path>>
  <2>1. <<path>> \in Place
    BY DEF Place
  <2> QED BY <2>1, ExplainType DEF Explain
<1>2. /\ Mapped(c, t, path, op, action).explanation =
           Append(c.explanation, Explain(t, <<path>>, action))
      /\ Mapped(c, t, path, op, action).used = c.used \union {path}
  BY DEF Mapped, Context
<1> QED BY <1>1, <1>2, SoundAppendFree

LEMMA MapSound ==
  ASSUME TypeOK, CallersWait, AllSound, NEW path \in ChosenPaths, Map(path)
  PROVE  AllSound'
<1>1. AtTarget /\ path \in Path /\ path \notin Top.used
  BY ChosenType DEF AtLeaf
<1>2. stack # <<>> /\ Top \in Context /\ Sound(Top) /\ Target \in FieldRef
  BY <1>1, TopType, TargetType DEF AllSound, Top, AtTarget
<1>3. CASE TakeWhole(path)
  <2>1. Sound(Mapped(Top, Target, path, "field", "map"))
    BY <1>1, <1>2, MappedSound
  <2> QED BY <1>2, <1>3, <2>1, BecomeSound DEF TakeWhole
<1>4. CASE RejectPath(path) \/ RejectListPair(path)
  BY <1>4, FailedSound DEF RejectPath, RejectListPair
<1>5. CASE KeepListContract(path) \/ LeaveScalarElements(path)
  <2>1. Sound(Unresolve(Top, {path}))
    BY <1>2, SoundSame DEF Unresolve, Context
  <2> QED BY <1>2, <1>5, <2>1, BecomeSound DEF KeepListContract, LeaveScalarElements
<1>6. CASE EnterElements(path)
  <2> DEFINE c == NewContext(Elements(path), Target.field.ty.element)
             d == [Top EXCEPT !.list = path]
             waiting == [stack EXCEPT ![Len(stack)] = d]
             S == Context \union {c, d}
  <2>1. Sound(c) /\ Sound(d)
    BY <1>2 DEF NewContext, Sound, OncePerEntry, SourcesMarked, Context
  <2>2. stack' = Append(waiting, c) /\ outcome' = outcome
    BY <1>6 DEF EnterElements, Top
  <2>3. stack \in Seq(S) /\ Len(stack) \in 1 .. Len(stack) /\ Len(stack) \in Nat
    BY <1>2, TopType, SeqMonotonic, LenProperties DEF TypeOK
  <2> HIDE DEF c, d
  <2>4. /\ waiting \in Seq(S) /\ Len(waiting) = Len(stack)
        /\ \A k \in 1 .. Len(stack) : waiting[k] = IF k = Len(stack) THEN d ELSE stack[k]
    BY <2>3, ExceptSeq
  <2> HIDE DEF waiting
  <2>5. /\ Len(stack') = Len(stack) + 1
        /\ \A k \in 1 .. Len(stack) : stack'[k] = waiting[k]
        /\ stack'[Len(stack) + 1] = c
    BY <2>2, <2>4, AppendProperties
  <2>6. \A k \in 1 .. Len(stack') : Sound(stack'[k])
    BY <2>1, <2>3, <2>4, <2>5 DEF AllSound
  <2> QED BY <2>2, <2>6 DEF AllSound, Sound, OncePerEntry, SourcesMarked
<1> QED BY <1>3, <1>4, <1>5, <1>6 DEF Map

LEMMA ReturnSoundOutermost ==
  ASSUME TypeOK, AllSound, ReturnEmpty \/ ReturnPlan \/ (ReturnUnresolved /\ Outermost)
  PROVE  AllSound'
<1>1. stack # <<>>
  BY DEF ReturnEmpty, ReturnPlan, ReturnUnresolved, CallDone
<1>2. OncePerEntry(Top.explanation)
  BY <1>1, TopType DEF AllSound, Sound, Top
<1>3. OncePerEntry(Ready(Top).explanation) /\ OncePerEntry(Ambiguous(Top).explanation)
  BY <1>2 DEF Ready, Ambiguous
<1> QED BY <1>3, ReturnSound, FailedSound DEF ReturnEmpty, ReturnPlan, ReturnUnresolved

LEMMA ReturnSoundNested ==
  ASSUME TypeOK, CallersWait, AllSound,
         ReturnElementPlan \/ (ReturnUnresolved /\ ~Outermost)
  PROVE  AllSound'
<1>1. CallDone /\ ~Outermost /\ stack # <<>>
  BY DEF ReturnElementPlan, ReturnUnresolved, CallDone
<1>2. /\ Caller \in Context /\ Sound(Caller)
      /\ Caller.build # <<>> /\ Caller.list \notin Caller.used /\ Caller.list \in Path
  BY <1>1, CallerType DEF AllSound, Caller, Context
<1>3. Top \in Context /\ OncePerEntry(Top.explanation)
  BY <1>1, TopType DEF AllSound, Top, Sound
<1>4. CASE ReturnUnresolved
  <2> DEFINE d == [Unresolve(Caller, {Caller.list}) EXCEPT !.list = <<>>]
  <2>1. d.explanation = Caller.explanation /\ d.used = Caller.used
    BY <1>2 DEF Unresolve, Context
  <2>2. Resume(d)
    BY <1>1, <1>4 DEF ReturnUnresolved
  <2> HIDE DEF d
  <2>3. Sound(d)
    BY <1>2, <2>1, SoundSame
  <2> QED BY <1>1, <2>2, <2>3, ResumeSound
<1>5. CASE ReturnElementPlan
  <2> DEFINE t    == Head(Caller.build)
             path == Caller.list
             c    == Mapped(Caller, t, path, "listMap", "mapElements")
             d    == [c EXCEPT
                        !.list        = <<>>,
                        !.bindings    = @ \o LiftBindings(Top.bindings, t, path),
                        !.explanation = @ \o LiftEntries(Top.explanation, t, path)]
  <2>1. IF Parses(path) THEN Resume(d) ELSE Return(Failed("invalid_path"))
    BY <1>5 DEF ReturnElementPlan
  <2>2. t \in FieldRef
    BY <1>2, HeadTailProperties DEF Context
  <2>3. c \in Context /\ Sound(c)
    BY <1>2, <2>2, MappedType, MappedSound
  <2>4. c.used = Caller.used \union {path}
    BY <1>2 DEF Mapped, Context
  <2>5. ASSUME NEW i \in 1 .. Len(c.explanation), c.explanation[i].source # NoPlace,
               Head(c.explanation[i].source) = path
        PROVE  c.explanation[i].source = <<path>>
    <3> DEFINE e == Explain(t, <<path>>, "mapElements")
    <3>1. e \in Entry /\ e.source = <<path>>
      <4>1. <<path>> \in Place
        BY <1>2 DEF Place
      <4> QED BY <2>2, <4>1, ExplainType DEF Explain
    <3>2. c.explanation = Append(Caller.explanation, e) /\ Caller.explanation \in Seq(Entry)
      BY <1>2 DEF Mapped, Context
    <3> HIDE DEF e
    <3>3. /\ Len(Caller.explanation) \in Nat
          /\ Len(c.explanation) = Len(Caller.explanation) + 1
          /\ \A j \in 1 .. Len(Caller.explanation) : c.explanation[j] = Caller.explanation[j]
          /\ c.explanation[Len(Caller.explanation) + 1] = e
      <4>1. Len(Caller.explanation) \in Nat
        BY ONLY <3>2, LenProperties
      <4> QED BY ONLY <3>1, <3>2, <4>1, AppendProperties
    <3>4. CASE i = Len(Caller.explanation) + 1
      BY <3>1, <3>3, <3>4
    <3>5. CASE i \in 1 .. Len(Caller.explanation)
      <4>1. c.explanation[i] = Caller.explanation[i]
        BY <3>3, <3>5
      <4>2. Head(c.explanation[i].source) \in Caller.used
        BY <1>2, <2>5, <3>5, <4>1 DEF Sound, SourcesMarked
      <4> QED BY <1>2, <2>5, <4>2
    <3> QED BY <3>3, <3>4, <3>5
  <2>6. Top.explanation \in Seq(Entry)
    BY <1>3 DEF Context
  <2>7. path \in c.used /\ path \in Path
    BY <1>2, <2>4
  <2> HIDE DEF c, t, path
  <2>8. d.explanation = c.explanation \o LiftEntries(Top.explanation, t, path) /\ d.used = c.used
    BY <2>3 DEF Context
  <2> HIDE DEF d
  <2>9. Sound(d)
    BY <1>3, <2>2, <2>3, <2>5, <2>6, <2>7, <2>8, SoundLift
  <2> QED BY <1>1, <2>1, <2>9, ResumeSound, FailedSound
<1> QED BY <1>4, <1>5 DEF ReturnElementPlan, ReturnUnresolved

LEMMA StepSound ==
  ASSUME TypeOK, CallersWait, AllSound, [Next]_vars
  PROVE  AllSound'
<1>1. CASE UNCHANGED vars
  BY <1>1 DEF vars, AllSound, Sound, OncePerEntry, SourcesMarked
<1>2. ASSUME NEW path \in ChosenPaths, Map(path)
      PROVE  AllSound'
  BY <1>2, MapSound
<1> QED BY <1>1, <1>2, BeginSound, QuietSound, NoteSound,
           ReturnSoundOutermost, ReturnSoundNested DEF Next

\* No source place is mapped twice, through every level of list mapping and
\* for every pair of schemas.
THEOREM SourcesUsedOnce == Spec => []SourceUsedOnce
<1>1. Init => TypeOK /\ CallersWait /\ AllSound
  <2> SUFFICES ASSUME Init PROVE TypeOK /\ CallersWait /\ AllSound
    OBVIOUS
  <2>1. 1 .. Len(stack) = {} /\ outcome.status \notin {"ready", "ambiguous"}
    BY DEF Init, Running
  <2> QED BY <2>1, InitType DEF AllSound
<1>2. TypeOK /\ CallersWait /\ AllSound /\ [Next]_vars => (TypeOK /\ CallersWait /\ AllSound)'
  BY StepType, StepSound
<1>3. TypeOK /\ CallersWait /\ AllSound => SourceUsedOnce
  BY SoundIsUsedOnce
<1> QED BY <1>1, <1>2, <1>3, PTL DEF Spec

=============================================================================
