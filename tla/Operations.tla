----------------------------- MODULE Operations -----------------------------
(***************************************************************************)
(* Plans and what their operations do to one record, as parameters: the    *)
(* executor treats apply_record, a filter's predicate, explode_one and     *)
(* compare_records as black boxes that return a value or an error, and     *)
(* what it promises holds whatever they do.  RecordOps defines them as     *)
(* engine.rs does.                                                         *)
(***************************************************************************)
EXTENDS Integers, Sequences, FiniteSets, SequencesExt

CONSTANTS
  Plans,             \* the plans: records with ops and policy
  Inputs,            \* the sequences of values a plan may be run on
  Values,            \* the values a record may be, closed under the operations
  Errors,            \* the errors of operations and of plans
  Fault(_, _),       \* operation, value -> the error it ends with, or NoError;
                     \* and where it ends with none:
  ApplyRecord(_, _), \* apply_record: operation, value -> value
  Holds(_, _),       \* filter's predicate: operation, value -> Boolean
  Items(_, _),       \* explode_one: operation, value -> sequence of values
  Precedes(_, _, _), \* compare_records is Less: operation, value, value -> Boolean
  ShapeError(_)      \* validate_op: operation -> error or NoError

Policies == {"fail", "skip", "collect"}
Kinds    == {"map", "filter", "sort", "explode"}
NoError  == [kind |-> "none"]
Failure(code) == [kind |-> "error", code |-> code]
EmptyPlan == Failure("empty_plan")

\* Every operation of every plan.
Ops == UNION {{plan.ops[i] : i \in DOMAIN plan.ops} : plan \in Plans}

ASSUME PlansAssumption ==
  /\ \A plan \in Plans : plan.ops \in Seq(Ops) /\ plan.policy \in Policies
  /\ \A op \in Ops : op.kind \in Kinds /\ ShapeError(op) \in Errors \union {NoError}
  /\ Inputs \subseteq Seq(Values)
  /\ EmptyPlan \in Errors /\ NoError \notin Errors

Fails(op, v) == Fault(op, v) # NoError

ASSUME OperationsAssumption ==
  \A op \in Ops : \A v \in Values :
    /\ Fault(op, v) \in Errors \union {NoError}
    /\ op.kind = "map" /\ ~Fails(op, v)     => ApplyRecord(op, v) \in Values
    /\ op.kind = "filter" /\ ~Fails(op, v)  => Holds(op, v) \in BOOLEAN
    /\ op.kind = "explode" /\ ~Fails(op, v) => Items(op, v) \in Seq(Values)

-----------------------------------------------------------------------------
\* A record, with the position of the input record it stems from ("origin" is
\* not in the code: it is there for properties to speak about).
Record == [origin: Nat, value: Values]

Loaded(values) == [i \in DOMAIN values |-> [origin |-> i - 1, value |-> values[i]]]

(***************************************************************************)
(* slice::sort_by: order[i] is where the record that comes i-th was before; *)
(* the result is sorted, and stable.  There is one such order if Precedes   *)
(* is a strict weak order, else there may be none.                         *)
(***************************************************************************)
Orders(records) == Injection(DOMAIN records, DOMAIN records)

SortedBy(op, records, order) ==
  \A i \in 1 .. Len(records) - 1 :
    LET u == records[order[i]].value
        v == records[order[i + 1]].value
    IN  Precedes(op, u, v) \/ (~Precedes(op, v, u) /\ order[i] < order[i + 1])

Rearranged(records, order) == [i \in DOMAIN records |-> records[order[i]]]

-----------------------------------------------------------------------------
\* The states of an execution: validate_shape, then one operation after another.
Running == [state |-> "running"]
Ok      == [state |-> "ok"]
Failed(error) == [state |-> "failed", error |-> error]

WellShaped(ops) == ops # <<>> /\ \A i \in DOMAIN ops : ShapeError(ops[i]) = NoError

ShapeErrorOf(ops) ==
  IF ops = <<>> THEN EmptyPlan
  ELSE LET bad == {i \in DOMAIN ops : ShapeError(ops[i]) # NoError}
       IN  ShapeError(ops[CHOOSE i \in bad : \A j \in bad : i <= j])

=============================================================================
