------------------------------ MODULE Planner -------------------------------
(***************************************************************************)
(* plan_schemas of crates/shapeport-core/src/planner.rs: from a source and *)
(* a target schema to a Ready plan, a list of unresolved targets, or an    *)
(* error.  The function is one recursive descent over the target schema    *)
(* that threads a mutable BuildContext and calls itself for the elements   *)
(* of a list of records; the model runs it field by field on an explicit   *)
(* stack of contexts, because what goes wrong goes wrong between fields: a *)
(* source consumed by one target is gone for the next, and a nested call   *)
(* hands its explanations, or its failure, to its caller.                  *)
(***************************************************************************)
EXTENDS Scoring

CONSTANT Inputs   \* the calls: records with source, target and mode

ASSUME InputsAssumption ==
  Inputs \subseteq [source: Types, target: Types, mode: Modes]

VARIABLES
  request,  \* the arguments of the outermost plan_schemas call
  stack,    \* the active calls, innermost last
  outcome   \* what the outermost call returned, or Running

vars == <<request, stack, outcome>>

-----------------------------------------------------------------------------
(***************************************************************************)
(* A place is the list of paths an element mapping passes through: the     *)
(* string "items[].sku" is << <<"items">>, <<"sku">> >>.                   *)
(***************************************************************************)
Place == Seq(Path)
NoPlace == <<>>

\* One expression of the generated map: what is written, and from where.
Binding == [target: Place, source: Place, op: {"object", "field", "listMap"}]

\* ExplainEntry; "to" is the target field the entry is about.
Entry == [target: Place, source: Place, to: FieldRef,
          action: {"map", "mapElements", "omit", "ambiguous"}]

UnresolvedTarget == [target: Path, candidates: SUBSET Path]

(***************************************************************************)
(* BuildContext, with what is left of the two traversals (collect and      *)
(* build) and the list source whose elements a nested call is planning.    *)
(***************************************************************************)
Context ==
  [collect: Seq(FieldRef), sources: Seq(FieldRef), build: Seq(FieldRef),
   used: SUBSET Path, bindings: Seq(Binding), explanation: Seq(Entry),
   unresolved: Seq(UnresolvedTarget), list: Path]

NewContext(source, target) ==
  [collect |-> RootRefs(source), sources |-> <<>>, build |-> RootRefs(target),
   used |-> {}, bindings |-> <<>>, explanation |-> <<>>,
   unresolved |-> <<>>, list |-> <<>>]

Running == [status |-> "running"]
Failed(code) == [status |-> "error", code |-> code]
Codes == {"not_a_record", "empty_mapping", "invalid_path", "list_map_plan"}
Ready(c) ==
  [status |-> "ready", bindings |-> c.bindings, explanation |-> c.explanation]

\* Mutant: the wrong variant is filled in.
AmbiguousWithPlan(c) == [Ready(c) EXCEPT !.status = "ambiguous"]

Ambiguous(c) ==
  [status |-> "ambiguous", unresolved |-> c.unresolved, explanation |-> c.explanation]

Outcome ==
  {Running} \union {Failed(code) : code \in Codes}
  \union [status: {"ready"}, bindings: Seq(Binding), explanation: Seq(Entry)]
  \union [status: {"ambiguous"}, unresolved: Seq(UnresolvedTarget),
          explanation: Seq(Entry)]

-----------------------------------------------------------------------------
\* assign_field and choose_list_candidate: rank what is left for target t.
Top == stack[Len(stack)]

ScoreOf(c, i, t) == Score(request.mode, c.sources[i], t)

Candidates(c, t) ==
  {i \in DOMAIN c.sources : /\ c.sources[i].path \notin c.used
                            /\ IsCandidate(request.mode, c.sources[i], t)}

\* The first of a stable sort by descending score.
IsBest(c, t, i) ==
  /\ i \in Candidates(c, t)
  /\ \A j \in Candidates(c, t) :
       \/ ScoreOf(c, j, t) < ScoreOf(c, i, t)
       \/ ScoreOf(c, j, t) = ScoreOf(c, i, t) /\ i <= j

\* Mutant: the acceptance threshold instead of the plausibility threshold.
MissingIfNotAutoAccepted(c, t) ==
  \A i \in Candidates(c, t) : ScoreOf(c, i, t) < AutoAcceptThreshold

Missing(c, t) == \A i \in Candidates(c, t) : ~Plausible(ScoreOf(c, i, t))

\* Mutant: the best candidate wins whatever follows it.
NeverContested(c, t, i) == FALSE

Contested(c, t, i) ==
  \E j \in Candidates(c, t) \ {i} :
    Close(ScoreOf(c, i, t), ScoreOf(c, j, t)) /\ Plausible(ScoreOf(c, j, t))

Accepted(c, t, i) ==
  /\ ~Contested(c, t, i)
  /\ request.mode = "strict" => ScoreOf(c, i, t) >= AutoAcceptThreshold

\* select_candidate = Mapped(candidate i)
Chosen(c, t, i) == IsBest(c, t, i) /\ ~Missing(c, t) /\ Accepted(c, t, i)

\* The field build_list_mapping works on: the first one with that path.
FirstAt(c, path) ==
  c.sources[CHOOSE i \in DOMAIN c.sources :
              /\ c.sources[i].path = path
              /\ \A j \in 1 .. i - 1 : c.sources[j].path # path]

-----------------------------------------------------------------------------
(***************************************************************************)
(* Steps on the innermost context.                                         *)
(***************************************************************************)
Become(c) ==
  /\ stack' = [stack EXCEPT ![Len(stack)] = c]
  /\ UNCHANGED <<request, outcome>>

Return(result) ==
  /\ outcome' = result
  /\ stack' = <<>>
  /\ UNCHANGED request

Explain(t, source, action) ==
  [target |-> <<t.path>>, source |-> source, to |-> t, action |-> action]

Bind(t, source, op) == [target |-> <<t.path>>, source |-> source, op |-> op]

Unresolve(c, candidates) ==
  [c EXCEPT !.build = Tail(@),
            !.unresolved = Append(@, [target |-> Head(c.build).path,
                                      candidates |-> candidates])]

\* plan_schemas is entered; both roots must be records.
Begin ==
  /\ outcome = Running /\ stack = <<>>
  /\ IsRecord(request.source) /\ IsRecord(request.target)
  /\ stack' = <<NewContext(request.source, request.target)>>
  /\ UNCHANGED <<request, outcome>>

RejectRoot ==
  /\ outcome = Running /\ stack = <<>>
  /\ ~(IsRecord(request.source) /\ IsRecord(request.target))
  /\ Return(Failed("not_a_record"))

\* collect_source_fields: a record is replaced by its fields.
CollectRecord ==
  /\ stack # <<>> /\ Top.collect # <<>>
  /\ LET ref == Head(Top.collect)
     IN  /\ IsRecord(ref.field.ty)
         /\ Become([Top EXCEPT !.collect = ChildRefs(ref) \o Tail(@)])

CollectLeaf ==
  /\ stack # <<>> /\ Top.collect # <<>>
  /\ LET ref == Head(Top.collect)
     IN  /\ ~IsRecord(ref.field.ty)
         /\ Become([Top EXCEPT !.collect = Tail(@),
                               !.sources = Append(@, ref)])

\* build_target_fields looks at the next target field.
AtTarget == stack # <<>> /\ Top.collect = <<>> /\ Top.build # <<>>
Target   == Head(Top.build)
AtLeaf   == AtTarget /\ ~IsRecord(Target.field.ty)

\* A record target becomes an object, even an empty one.
BuildObject ==
  /\ AtTarget /\ IsRecord(Target.field.ty)
  /\ Become([Top EXCEPT !.build    = ChildRefs(Target) \o Tail(@),
                        !.bindings = Append(@, Bind(Target, NoPlace, "object"))])

(***************************************************************************)
(* A leaf without a mapping: push_optional_omission, push_unresolved and   *)
(* push_ambiguous.  The same three ways out for scalars and lists.         *)
(***************************************************************************)
\* Mutant: required targets are omitted like optional ones.
OmitAnyMissing ==
  /\ AtLeaf /\ Missing(Top, Target)
  /\ Become([Top EXCEPT !.build       = Tail(@),
                        !.explanation = Append(@, Explain(Target, NoPlace, "omit"))])

OmitOptional ==
  /\ AtLeaf /\ Missing(Top, Target) /\ Target.field.nullable
  /\ Become([Top EXCEPT !.build       = Tail(@),
                        !.explanation = Append(@, Explain(Target, NoPlace, "omit"))])

MissRequired ==
  /\ AtLeaf /\ Missing(Top, Target) /\ ~Target.field.nullable
  /\ Become(Unresolve(Top, {}))

ReportAmbiguous ==
  /\ AtLeaf /\ ~Missing(Top, Target)
  /\ \E i \in Candidates(Top, Target) :
       IsBest(Top, Target, i) /\ ~Accepted(Top, Target, i)
  /\ LET c == Unresolve(Top, {Top.sources[i].path : i \in Candidates(Top, Target)})
     IN  Become([c EXCEPT !.explanation =
                   Append(@, Explain(Target, NoPlace, "ambiguous"))])

(***************************************************************************)
(* A leaf with a chosen source; the actions below take its path.           *)
(***************************************************************************)
ChosenPaths ==
  IF AtLeaf THEN {Top.sources[i].path : i \in {j \in Candidates(Top, Target) :
                                                 Chosen(Top, Target, j)}}
            ELSE {}

Origin(path)  == FirstAt(Top, path).field
Elements(path) == Origin(path).ty.element

ListToList(path) == IsList(Target.field.ty) /\ IsList(Origin(path).ty)

\* The contract of the target list would be stricter than the source's.
Narrows(path) ==
  \/ Origin(path).nullable /\ ~Target.field.nullable
  \/ Origin(path).ty.elementNullable /\ ~Target.field.ty.elementNullable

\* The value can be taken over as it is: a scalar, or a list of equal elements.
TakenWhole(path) ==
  IF IsList(Target.field.ty)
  THEN ListToList(path) /\ ~Narrows(path) /\ Elements(path) = Target.field.ty.element
  ELSE TRUE

\* Mutant: the source is not marked as used.
MappedAndStillFree(c, t, path, op, action) ==
  [c EXCEPT !.build       = Tail(@),
            !.bindings    = Append(@, Bind(t, <<path>>, op)),
            !.explanation = Append(@, Explain(t, <<path>>, action))]

Mapped(c, t, path, op, action) ==
  [c EXCEPT !.build       = Tail(@),
            !.used        = @ \union {path},
            !.bindings    = Append(@, Bind(t, <<path>>, op)),
            !.explanation = Append(@, Explain(t, <<path>>, action))]

\* build_target_leaf's Mapped arm and accept_direct_list_mapping.
TakeWhole(path) ==
  /\ TakenWhole(path) /\ Parses(path)
  /\ Become(Mapped(Top, Target, path, "field", "map"))

RejectPath(path) ==
  /\ TakenWhole(path) /\ ~Parses(path)
  /\ Return(Failed("invalid_path"))

\* The first field with the chosen path is not the list that was scored.
RejectListPair(path) ==
  /\ IsList(Target.field.ty) /\ ~ListToList(path)
  /\ Return(Failed("list_map_plan"))

KeepListContract(path) ==
  /\ ListToList(path) /\ Narrows(path)
  /\ Become(Unresolve(Top, {path}))

RecordElements(path) ==
  /\ ListToList(path) /\ ~Narrows(path)
  /\ IsRecord(Elements(path)) /\ IsRecord(Target.field.ty.element)

LeaveScalarElements(path) ==
  /\ ListToList(path) /\ ~Narrows(path)
  /\ ~TakenWhole(path) /\ ~RecordElements(path)
  /\ Become(Unresolve(Top, {path}))

\* build_record_list_mapping calls plan_schemas on the element types.
EnterElements(path) ==
  /\ ~TakenWhole(path) /\ RecordElements(path)
  /\ stack' = Append([stack EXCEPT ![Len(stack)].list = path],
                     NewContext(Elements(path), Target.field.ty.element))
  /\ UNCHANGED <<request, outcome>>

-----------------------------------------------------------------------------
(***************************************************************************)
(* The end of a plan_schemas call, outermost or for list elements.         *)
(***************************************************************************)
CallDone  == stack # <<>> /\ Top.collect = <<>> /\ Top.build = <<>>
Outermost == Len(stack) = 1
Caller    == stack[Len(stack) - 1]

Resume(c) ==
  /\ stack' = Append(SubSeq(stack, 1, Len(stack) - 2), c)
  /\ UNCHANGED <<request, outcome>>

Nest(place, path) == IF place = NoPlace THEN NoPlace ELSE <<path>> \o place

\* The item of the listMap expression, and push_list_element_explanations.
LiftBindings(bindings, t, path) ==
  [i \in DOMAIN bindings |->
     [bindings[i] EXCEPT !.target = Nest(@, t.path), !.source = Nest(@, path)]]

\* Mutant: the element's source is reported without the list it is in.
LiftTargetsOnly(entries, t, path) ==
  [i \in DOMAIN entries |-> [entries[i] EXCEPT !.target = Nest(@, t.path)]]

LiftEntries(entries, t, path) ==
  [i \in DOMAIN entries |->
     [entries[i] EXCEPT !.target = Nest(@, t.path), !.source = Nest(@, path)]]

\* Mutant: what the elements' planner could map is explained all the same.
ReturnUnresolvedExplained ==
  /\ CallDone /\ Top.unresolved # <<>>
  /\ IF Outermost THEN Return(Ambiguous(Top))
                  ELSE Resume([Unresolve(Caller, {Caller.list}) EXCEPT
                         !.list = <<>>,
                         !.explanation = @ \o LiftEntries(Top.explanation,
                                              Head(Caller.build), Caller.list)])

ReturnUnresolved ==
  /\ CallDone /\ Top.unresolved # <<>>
  /\ IF Outermost THEN Return(Ambiguous(Top))
                  ELSE Resume([Unresolve(Caller, {Caller.list}) EXCEPT !.list = <<>>])

\* Mutant: what is unresolved is not asked for first.
ReturnEmptyFirst ==
  /\ CallDone /\ Top.bindings = <<>>
  /\ Return(Failed("empty_mapping"))

ReturnEmpty ==
  /\ CallDone /\ Top.unresolved = <<>> /\ Top.bindings = <<>>
  /\ Return(Failed("empty_mapping"))

ReturnPlan ==
  /\ CallDone /\ Top.unresolved = <<>> /\ Top.bindings # <<>>
  /\ Outermost
  /\ Return(Ready(Top))

ReturnElementPlan ==
  /\ CallDone /\ Top.unresolved = <<>> /\ Top.bindings # <<>>
  /\ ~Outermost
  /\ LET t    == Head(Caller.build)
         path == Caller.list
         c    == Mapped(Caller, t, path, "listMap", "mapElements")
     IN  IF Parses(path)
         THEN Resume([c EXCEPT
                !.list        = <<>>,
                !.bindings    = @ \o LiftBindings(Top.bindings, t, path),
                !.explanation = @ \o LiftEntries(Top.explanation, t, path)])
         ELSE Return(Failed("invalid_path"))

-----------------------------------------------------------------------------
Init ==
  /\ request \in Inputs
  /\ stack = <<>>
  /\ outcome = Running

Map(path) ==
  \/ TakeWhole(path) \/ RejectPath(path)
  \/ RejectListPair(path) \/ KeepListContract(path)
  \/ LeaveScalarElements(path) \/ EnterElements(path)

Next ==
  \/ Begin \/ RejectRoot
  \/ CollectRecord \/ CollectLeaf
  \/ BuildObject
  \/ OmitOptional \/ MissRequired \/ ReportAmbiguous
  \/ \E path \in ChosenPaths : Map(path)
  \/ ReturnUnresolved \/ ReturnEmpty \/ ReturnPlan \/ ReturnElementPlan

Spec == Init /\ [][Next]_vars

-----------------------------------------------------------------------------
(***************************************************************************)
(* Type invariant.                                                         *)
(***************************************************************************)
TypeOK ==
  /\ request \in Inputs
  /\ stack \in Seq(Context)
  /\ outcome \in Outcome

-----------------------------------------------------------------------------
(***************************************************************************)
(* Safety.  "Explained" collects what a caller or a reader of the plan     *)
(* sees: the explanations of the active calls and of the outcome.          *)
(***************************************************************************)
Explained ==
  {stack[k].explanation : k \in DOMAIN stack}
  \union (IF outcome.status \in {"ready", "ambiguous"} THEN {outcome.explanation} ELSE {})

\* A source leaf is used at most once per plan, through every level of list
\* mapping (docs/nested-mapping.md, "Safety rules"): no two explanations name
\* the same source place.
SourceUsedOnce ==
  \A explanation \in Explained : \A i, j \in DOMAIN explanation :
    explanation[i].source # NoPlace /\ explanation[i].source = explanation[j].source
      => i = j

\* The explanation and the generated expressions tell the same story: the
\* pairs the entries call mapped are exactly the pairs the plan reads, however
\* deep the element mappings nest (push_list_element_explanations).
Pairs(items) ==
  {<<items[i].target, items[i].source>> : i \in {j \in DOMAIN items : items[j].source # NoPlace}}

ExplanationMatchesPlan ==
  /\ \A k \in DOMAIN stack : Pairs(stack[k].bindings) = Pairs(stack[k].explanation)
  /\ outcome.status = "ready" => Pairs(outcome.bindings) = Pairs(outcome.explanation)

\* No silent pick (RFC 0001 section 3, principle 3): when a source was mapped
\* to a target, every other source that scored as well for that target had
\* already been given to an EARLIER target of the same call.
SpentBefore(c, n, j) == \E m \in 1 .. n - 1 : c.explanation[m].source = <<c.sources[j].path>>

AsGood(c, j, i, t) ==
  \/ ScoreOf(c, j, t) > ScoreOf(c, i, t)
  \/ Close(ScoreOf(c, j, t), ScoreOf(c, i, t)) /\ Plausible(ScoreOf(c, j, t))

RivalsSpentEarlier ==
  \A k \in DOMAIN stack : LET c == stack[k] IN
    \A n \in DOMAIN c.explanation : LET e == c.explanation[n] IN
      Len(e.source) = 1 =>
        \E i \in DOMAIN c.sources :
          /\ e.source = <<c.sources[i].path>>
          /\ \A j \in DOMAIN c.sources :
               /\ c.sources[j].path # c.sources[i].path
               /\ IsCandidate(request.mode, c.sources[j], e.to)
               /\ AsGood(c, j, i, e.to)
               => SpentBefore(c, n, j)

\* An optional target is left out only when nothing plausible was left for it:
\* every source that could have fed it went to an earlier target.
OmissionForced ==
  \A k \in DOMAIN stack : LET c == stack[k] IN
    \A n \in DOMAIN c.explanation : LET e == c.explanation[n] IN
      e.action = "omit" /\ Len(e.target) = 1 =>
        \A j \in DOMAIN c.sources :
          /\ IsCandidate(request.mode, c.sources[j], e.to)
          /\ Plausible(ScoreOf(c, j, e.to))
          => SpentBefore(c, n, j)

\* A list mapping is all or nothing (docs/list-mapping.md, "Planner
\* inference"): of a list that is reported unresolved no element is mapped,
\* and its source stays available.
UnresolvedLists(c) == {c.unresolved[i] : i \in DOMAIN c.unresolved}

ListAllOrNothing ==
  \A k \in DOMAIN stack : \A u \in UnresolvedLists(stack[k]) :
    \A n \in DOMAIN stack[k].explanation :
      LET e == stack[k].explanation[n]
      IN  Head(e.target) = u.target => e.source = NoPlace /\ e.action = "ambiguous"

\* Reports and explanations name targets by their paths, so that is said of
\* targets whose paths tell them apart: in no record of a target schema may the
\* path of a field begin with that of another, as that of a field "customer.id"
\* would begin with that of a field "customer" beside it.
Apart(p, q) == \E k \in DOMAIN p \intersect DOMAIN q : p[k] # q[k]

TellApart(targets) ==
  /\ targets \subseteq Types
  /\ \A call \in Inputs : call.target \in targets
  /\ \A ty \in targets :
       /\ IsList(ty) => ty.element \in targets
       /\ IsRecord(ty) =>
            \A i, j \in DOMAIN ty.fields :
              /\ ty.fields[i].ty \in targets
              /\ i # j => Apart(Dotted[ty.fields[i].name], Dotted[ty.fields[j].name])

=============================================================================
