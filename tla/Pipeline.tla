------------------------------ MODULE Pipeline ------------------------------
(***************************************************************************)
(* What executing a plan means: every operation maps the whole sequence of *)
(* records to the next one.  A record that an operation fails on is left   *)
(* out, and under "collect" reported; the policy has no other influence on *)
(* the result, except that "fail" (and, whatever the policy, a failing     *)
(* explode) gives an error instead of a result.                            *)
(***************************************************************************)
EXTENDS Operations

VARIABLES
  plan,     \* the plan, with its error policy
  step,     \* the next operation; 0 before the plan was looked at
  records,  \* the records after the operations done so far
  rejects,  \* the records left out so far, under "collect"
  status    \* Running, Ok, or Failed(error)

vars == <<plan, step, records, rejects, status>>

Working == status = Running /\ step \in DOMAIN plan.ops
Op == plan.ops[step]
Failing == {i \in DOMAIN records : Fails(Op, records[i].value)}
Strict == Op.kind = "explode" \/ plan.policy = "fail"

\* What a record that does not fail becomes: no, one or several records.
Results(op, record) ==
  CASE op.kind = "map"     -> <<[record EXCEPT !.value = ApplyRecord(op, record.value)]>>
    [] op.kind = "filter"  -> IF Holds(op, record.value) THEN <<record>> ELSE <<>>
    [] op.kind = "explode" ->
         [i \in DOMAIN Items(op, record.value) |->
            [record EXCEPT !.value = Items(op, record.value)[i]]]

ResultsOfAll ==
  FlattenSeq([i \in DOMAIN records |->
                IF i \in Failing THEN <<>> ELSE Results(Op, records[i])])

Rejection(i) ==
  [step |-> step, index |-> i - 1, origin |-> records[i].origin,
   error |-> Fault(Op, records[i].value)]

RejectionsOfAll ==
  FlattenSeq([i \in DOMAIN records |->
                IF i \in Failing /\ plan.policy = "collect" THEN <<Rejection(i)>> ELSE <<>>])

-----------------------------------------------------------------------------
Validate ==
  /\ status = Running /\ step = 0
  /\ IF WellShaped(plan.ops)
     THEN step' = 1 /\ UNCHANGED status
     ELSE status' = Failed(ShapeErrorOf(plan.ops)) /\ UNCHANGED step
  /\ UNCHANGED <<plan, records, rejects>>

\* The error of the first record that fails.
Abort ==
  /\ Working /\ Strict
  /\ \E i \in Failing : /\ \A j \in Failing : i <= j
                        /\ status' = Failed(Fault(Op, records[i].value))
  /\ UNCHANGED <<plan, step, records, rejects>>

ApplyToAll ==
  /\ Working /\ Op.kind # "sort"
  /\ Strict => Failing = {}
  /\ step' = step + 1
  /\ records' = ResultsOfAll
  /\ rejects' = rejects \o RejectionsOfAll
  /\ UNCHANGED <<plan, status>>

SortAll ==
  /\ Working /\ Op.kind = "sort"
  /\ step' = step + 1
  /\ \E order \in Orders(records) :
       SortedBy(Op, records, order) /\ records' = Rearranged(records, order)
  /\ UNCHANGED <<plan, rejects, status>>

Finish ==
  /\ status = Running /\ step > Len(plan.ops) /\ step > 0
  /\ status' = Ok
  /\ UNCHANGED <<plan, step, records, rejects>>

Init ==
  /\ plan \in Plans
  /\ step = 0
  /\ records \in {Loaded(values) : values \in Inputs}
  /\ rejects = <<>>
  /\ status = Running

Next == Validate \/ Abort \/ ApplyToAll \/ SortAll \/ Finish

Spec == Init /\ [][Next]_vars

=============================================================================
