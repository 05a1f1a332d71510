---------------------------- MODULE Application -----------------------------
(***************************************************************************)
(* The operations of app.rs that the command line and the MCP server call  *)
(* (all but query): each is a chain of stages, and the first that fails    *)
(* ends it.  Inference, planner and executor are the modules of those      *)
(* names, each on variables of its own; what is modelled here is how they  *)
(* are chained, and the checks between them, validate_value among them.    *)
(***************************************************************************)
EXTENDS RecordOps

CONSTANTS
  Calls,      \* the calls: see Call below
  KeyOrder,   \* all keys of objects, in the order objects have them
  MaxRows, MaxDepth, MaxOutput,   \* max_rows, max_nesting_depth, max_output_bytes
  Names, Identifiers, Dotted, Words, AmbiguityThreshold, AutoAcceptThreshold

VARIABLES
  call,      \* the request
  todo,      \* the stages left
  failure,   \* the stage that failed, or "none"
  records,   \* the records as they are between two stages
  checked,   \* how many of them were validated
  errors     \* the positions of the invalid ones (validate_data)

VARIABLES sample, inferMode, looked, fields, rest, inferStatus   \* Inference
VARIABLES request, stack, outcome                                \* Planner
VARIABLES loaded, plan, step, input, pos, out, rejects, status   \* Engine

ownVars    == <<call, todo, failure, records, checked, errors>>
inferVars  == <<sample, inferMode, looked, fields, rest, inferStatus>>
planVars   == <<request, stack, outcome>>
engineVars == <<loaded, plan, step, input, pos, out, rejects, status>>
vars       == <<ownVars, inferVars, planVars, engineVars>>

Infer == INSTANCE Inference WITH
  Types <- {}, Samples <- {}, mode <- inferMode, pos <- looked, status <- inferStatus
Plan == INSTANCE Planner WITH Types <- {}, Inputs <- {}
Exec == INSTANCE Engine

(***************************************************************************)
(* A call: what is read (input), the given plan with its output validation *)
(* or NoPlan, the target schema or NoTarget, and the options.              *)
(***************************************************************************)
NoPlan   == [ops |-> <<>>, validation |-> "none"]
NoTarget == [kind |-> "none"]
Planned  == call.op = "transform" /\ call.plan = NoPlan

\* The functions of app.rs, as the stages they call in turn.
Stages(c) ==
  CASE c.op = "inspect" -> <<"load", "rows", "infer", "inferring">>
    [] c.op = "plan"    -> <<"load", "rows", "infer", "inferring", "plan", "planning">>
    [] c.op = "transform" /\ c.plan # NoPlan ->
         <<"load", "rows", "depth", "shape", "execute", "executing", "check", "encode", "size">>
    [] c.op = "transform" /\ c.plan = NoPlan ->
         <<"load", "rows", "depth", "infer", "inferring", "plan", "planning",
           "execute", "executing", "check", "encode", "size">>
    [] c.op = "convert"  -> <<"load", "rows", "encode">>
    [] c.op = "validate" -> <<"load", "validate">>

At(stage) == todo # <<>> /\ Head(todo) = stage

Pass == todo' = Tail(todo) /\ UNCHANGED failure
Fail == todo' = <<>> /\ failure' = Head(todo)
PassIf(condition) == IF condition THEN Pass ELSE Fail

\* A stage that is one check of the records, and changes nothing else.
Stage(name, condition) ==
  /\ At(name) /\ PassIf(condition)
  /\ UNCHANGED <<call, records, checked, errors, inferVars, planVars, engineVars>>

-----------------------------------------------------------------------------
(***************************************************************************)
(* What the stages look at.                                                *)
(***************************************************************************)
InferredSchema ==
  [kind |-> "record",
   fields |-> [k \in DOMAIN fields |->
                 [name |-> fields[k].name, ty |-> AsType(fields[k].seen),
                  nullable |-> fields[k].nullable, aliases |-> {}]]]

\* encode_delimited: flat objects, as far as the columns of the first one go.
Columns(values) ==
  IF values # <<>> /\ values[1].type = "object" THEN DOMAIN values[1].fields ELSE {}

Encodable(values) ==
  call.format = "csv" =>
    \A i \in DOMAIN values :
      /\ values[i].type = "object"
      /\ \A name \in Columns(values) \intersect DOMAIN values[i].fields :
           values[i].fields[name].type \notin {"array", "object"}

(***************************************************************************)
(* The map operation of a Ready plan: the fields the bindings write        *)
(* directly under a place are the fields of one object, in their order.    *)
(* (A target name has no dot here, so a place tells where it belongs.)     *)
(***************************************************************************)
FieldPath(path) == [i \in DOMAIN path |-> [field |-> path[i]]]

\* Mutant: an element's field is read where the outermost list is.
ReadOuter(place) == FieldPath(Head(place))

Read(place) == FieldPath(Last(place))

DirectlyIn(place, target) ==
  Front(target) = Front(place) /\ Len(Last(target)) > 0 /\ Front(Last(target)) = Last(place)

RECURSIVE ObjectExpr(_, _)
ObjectExpr(bindings, place) ==
  LET own == SelectSeq(bindings, LAMBDA b : DirectlyIn(place, b.target))
      Expr(b) ==
        CASE b.op = "object"  -> ObjectExpr(bindings, b.target)
          [] b.op = "field"   -> [expr |-> "field", path |-> Read(b.source)]
          [] b.op = "listMap" -> [expr |-> "listMap", input |-> Read(b.source),
                                  item |-> ObjectExpr(bindings, Append(b.target, <<>>))]
  IN  [expr  |-> "object",
       names |-> [i \in DOMAIN own |-> Last(Last(own[i].target))],
       exprs |-> [i \in DOMAIN own |-> Expr(own[i])]]

GeneratedPlan ==
  [ops |-> << [kind |-> "map", op |-> "map"] @@ ObjectExpr(outcome.bindings, << <<>> >>) >>,
   validation |-> "required"]

PlanInUse == IF Planned THEN GeneratedPlan ELSE call.plan

-----------------------------------------------------------------------------
(***************************************************************************)
(* The stages.                                                             *)
(***************************************************************************)
\* load_source and decode_records, which may fail for reasons of their own.
Load ==
  /\ At("load")
  /\ records' = call.records
  /\ Pass
  /\ UNCHANGED <<call, checked, errors, inferVars, planVars, engineVars>>

LoadFails ==
  /\ At("load")
  /\ Fail
  /\ UNCHANGED <<call, records, checked, errors, inferVars, planVars, engineVars>>

CheckRowLimit     == Stage("rows", Len(records) <= MaxRows)
CheckNestingDepth == Stage("depth", \A i \in DOMAIN records : Depth(records[i]) <= MaxDepth)
ValidateShape     == Stage("shape", WellShaped(call.plan.ops))
Encode            == Stage("encode", Encodable(records))
CheckOutputBytes  == Stage("size", Len(records) <= MaxOutput)

\* Mutant: the schema is inferred from the first record alone.
BeginInferenceOnFirst ==
  /\ At("infer")
  /\ sample' = [i \in DOMAIN records \intersect {1} |-> TypeOf(records[i], KeyOrder)]
  /\ inferMode' = call.infer
  /\ looked' = 0 /\ fields' = <<>> /\ rest' = <<>> /\ inferStatus' = "running"
  /\ Pass
  /\ UNCHANGED <<call, records, checked, errors, planVars, engineVars>>

BeginInference ==
  /\ At("infer")
  /\ sample' = [i \in DOMAIN records |-> TypeOf(records[i], KeyOrder)]
  /\ inferMode' = call.infer
  /\ looked' = 0 /\ fields' = <<>> /\ rest' = <<>> /\ inferStatus' = "running"
  /\ Pass
  /\ UNCHANGED <<call, records, checked, errors, planVars, engineVars>>

InferenceStep ==
  /\ At("inferring") /\ Infer!Next
  /\ UNCHANGED <<ownVars, planVars, engineVars>>

EndInference == inferStatus # "running" /\ Stage("inferring", inferStatus = "inferred")

BeginPlanning ==
  /\ At("plan")
  /\ request' = [source |-> InferredSchema, target |-> call.target, mode |-> call.mode]
  /\ stack' = <<>> /\ outcome' = Plan!Running
  /\ Pass
  /\ UNCHANGED <<call, records, checked, errors, inferVars, engineVars>>

PlanningStep ==
  /\ At("planning") /\ Plan!Next
  /\ UNCHANGED <<ownVars, inferVars, engineVars>>

\* An ambiguous mapping is an answer of plan_mapping, and an error of transform_data.
EndPlanning ==
  /\ outcome # Plan!Running
  /\ Stage("planning", \/ outcome.status = "ready"
                       \/ outcome.status = "ambiguous" /\ call.op = "plan")

\* The policy is the request's, whatever the plan says.
BeginExecution ==
  /\ At("execute")
  /\ plan' = [ops |-> PlanInUse.ops, policy |-> call.policy]
  /\ loaded' = records /\ input' = Loaded(records)
  /\ step' = 0 /\ pos' = 0 /\ out' = <<>> /\ rejects' = <<>> /\ status' = Running
  /\ Pass
  /\ UNCHANGED <<call, records, checked, errors, inferVars, planVars>>

ExecutionStep ==
  /\ At("executing") /\ Exec!Next
  /\ UNCHANGED <<ownVars, inferVars, planVars>>

\* Mutant: the records stay what they were before.
EndExecutionKeepsInput ==
  /\ At("executing") /\ status # Running
  /\ PassIf(status = Ok)
  /\ UNCHANGED <<call, records, checked, errors, inferVars, planVars, engineVars>>

EndExecution ==
  /\ At("executing") /\ status # Running
  /\ PassIf(status = Ok)
  /\ records' = IF status = Ok THEN [i \in DOMAIN input |-> input[i].value] ELSE records
  /\ UNCHANGED <<call, checked, errors, inferVars, planVars, engineVars>>

\* transform_data validates each record of the output, up to the first that is invalid.
Validated == call.target # NoTarget /\ PlanInUse.validation # "none"

CheckRecord ==
  /\ At("check") /\ Validated /\ checked < Len(records)
  /\ Conforms(call.target, records[checked + 1])
  /\ checked' = checked + 1
  /\ UNCHANGED <<call, todo, failure, records, errors, inferVars, planVars, engineVars>>

EndCheck ==
  /\ At("check")
  /\ Validated /\ checked < Len(records) => ~Conforms(call.target, records[checked + 1])
  /\ Stage("check", Validated => checked = Len(records))

\* validate_data reports every record that is invalid.
ValidateRecord ==
  /\ At("validate") /\ checked < Len(records)
  /\ checked' = checked + 1
  /\ errors' = IF Conforms(call.target, records[checked + 1]) THEN errors
               ELSE Append(errors, checked)
  /\ UNCHANGED <<call, todo, failure, records, inferVars, planVars, engineVars>>

EndValidation == checked = Len(records) /\ Stage("validate", TRUE)

Init ==
  /\ call \in Calls
  /\ todo = Stages(call)
  /\ failure = "none" /\ records = <<>> /\ checked = 0 /\ errors = <<>>
  /\ sample = <<>> /\ inferMode = "none" /\ looked = 0 /\ fields = <<>> /\ rest = <<>>
  /\ inferStatus = "running"
  /\ request = [source |-> NoTarget, target |-> NoTarget, mode |-> "smart"]
  /\ stack = <<>> /\ outcome = Plan!Running
  /\ plan = [ops |-> <<>>, policy |-> "fail"]
  /\ loaded = <<>> /\ step = 0 /\ input = <<>> /\ pos = 0 /\ out = <<>> /\ rejects = <<>>
  /\ status = Running

Next ==
  \/ Load \/ LoadFails \/ CheckRowLimit \/ CheckNestingDepth \/ ValidateShape
  \/ BeginInference \/ InferenceStep \/ EndInference
  \/ BeginPlanning \/ PlanningStep \/ EndPlanning
  \/ BeginExecution \/ ExecutionStep \/ EndExecution
  \/ CheckRecord \/ EndCheck \/ ValidateRecord \/ EndValidation
  \/ Encode \/ CheckOutputBytes

\* One call is one synchronous function.
Spec == Init /\ [][Next]_vars /\ WF_vars(Next)

-----------------------------------------------------------------------------
(***************************************************************************)
(* Properties.                                                             *)
(***************************************************************************)
AllUniform == \A i \in DOMAIN call.records : Uniform(call.records[i], KeyOrder)

(***************************************************************************)
(* An inferred schema accepts the data it was inferred from: validate_data *)
(* with it finds no invalid record (infer_schema against validate_value),  *)
(* if the lists are uniform and the records are objects.                   *)
(***************************************************************************)
SchemaAccepts ==
  At("inferring") /\ inferStatus = "inferred" /\ AllUniform =>
    \A i \in DOMAIN records : records[i].type = "object" => Conforms(InferredSchema, records[i])

(***************************************************************************)
(* A generated plan cannot fail on the records whose schema it was made    *)
(* for: whatever the policy, each record becomes exactly one.              *)
(***************************************************************************)
PlannedRunsClean ==
  Planned /\ AllUniform =>
    /\ status = Running \/ status = Ok
    /\ rejects = <<>>
    /\ status = Ok => Len(input) = Len(loaded)

(***************************************************************************)
(* What the explanation says is what happened: each value that an output   *)
(* record has at an explained target, through any number of lists, is the  *)
(* value its input record had at the source, in the same order.            *)
(***************************************************************************)
Each(values, path) == [k \in DOMAIN values |-> ReadPath(values[k], FieldPath(path))]
Elements(values) ==
  FlattenSeq([k \in DOMAIN values |->
                IF values[k].type = "array" THEN values[k].items ELSE <<Null>>])
Gather(v, place) ==
  FoldLeft(LAMBDA values, path : Each(Elements(values), path), Each(<<v>>, Head(place)),
           Tail(place))

CarriesWhatItExplains ==
  Planned /\ outcome.status = "ready" /\ status = Ok =>
    \A n \in DOMAIN outcome.explanation : \A i \in DOMAIN input :
      LET e == outcome.explanation[n]
      IN  e.action = "map" =>
            Gather(input[i].value, e.target) = Gather(loaded[input[i].origin + 1], e.source)

(***************************************************************************)
(* The output of a generated plan is valid, unless the planner paired a    *)
(* source with a target whose values are of another kind: it counts an     *)
(* integer as a possible string, but neither casts it nor, as the          *)
(* validation shows, may leave it (or unions, which it does not look into).*)
(***************************************************************************)
OtherKinds ==
  {<<"int", "string">>, <<"float", "string">>, <<"bool", "string">>,
   <<"int", "decimal">>, <<"decimal", "float">>, <<"union", "union">>}

FieldType(ty, name) == (CHOOSE f \in ToSet(ty.fields) : f.name = name).ty
TypeUnder(ty, path) == FoldLeft(FieldType, ty, path)
TypeAt(ty, place) ==
  FoldLeft(LAMBDA list, path : TypeUnder(list.element, path), TypeUnder(ty, Head(place)),
           Tail(place))

Coerced ==
  \E n \in DOMAIN outcome.explanation :
    LET e == outcome.explanation[n]
    IN  /\ e.action = "map"
        /\ <<TypeAt(InferredSchema, e.source).kind, e.to.field.ty.kind>> \in OtherKinds

ValidUnlessCoerced == Planned /\ failure = "check" /\ AllUniform => Coerced

\* Every call ends.
Terminates == <>(todo = <<>>)

=============================================================================
