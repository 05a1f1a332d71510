------------------------------- MODULE Engine -------------------------------
(***************************************************************************)
(* The document VM (engine.rs): an operation loops over the records that   *)
(* the one before it left, one step per record, and treats a record that   *)
(* fails as the plan's error policy says.                                  *)
(***************************************************************************)
EXTENDS Operations

VARIABLES
  loaded,   \* the values given to execute_detailed (kept for the properties)
  plan,     \* the plan, with its error policy
  step,     \* the operation under way; 0 before the plan was validated
  input,    \* the records that operation is run on
  pos,      \* how many of them it has looked at
  out,      \* what it has produced
  rejects,  \* the records rejected since the execution began
  status    \* Running, Ok, or Failed(error)

vars == <<loaded, plan, step, input, pos, out, rejects, status>>

Op == plan.ops[step]
Working == status = Running /\ step \in DOMAIN plan.ops
AtRecord(kind) == Working /\ Op.kind = kind /\ pos < Len(input)
Current == input[pos + 1]

\* Mutant: the index is taken in the output.
RejectionByOutput(error) ==
  [step |-> step, index |-> Len(out), origin |-> Current.origin, error |-> error]

Rejection(error) == [step |-> step, index |-> pos, origin |-> Current.origin, error |-> error]

-----------------------------------------------------------------------------
Validate ==
  /\ status = Running /\ step = 0
  /\ IF WellShaped(plan.ops)
     THEN step' = 1 /\ UNCHANGED status
     ELSE status' = Failed(ShapeErrorOf(plan.ops)) /\ UNCHANGED step
  /\ UNCHANGED <<loaded, plan, input, pos, out, rejects>>

\* Mutant: the output is built from its end.
ProduceInFront(records) ==
  /\ ~Fails(Op, Current.value)
  /\ pos' = pos + 1
  /\ out' = records \o out
  /\ UNCHANGED <<loaded, plan, step, input, rejects, status>>

\* The record an operation succeeds on is replaced by the given ones.
Produce(records) ==
  /\ ~Fails(Op, Current.value)
  /\ pos' = pos + 1
  /\ out' = out \o records
  /\ UNCHANGED <<loaded, plan, step, input, rejects, status>>

MapRecord ==
  /\ AtRecord("map")
  /\ Produce(<<[Current EXCEPT !.value = ApplyRecord(Op, Current.value)]>>)

FilterRecord ==
  /\ AtRecord("filter")
  /\ Produce(IF Holds(Op, Current.value) THEN <<Current>> ELSE <<>>)

ExplodeRecord ==
  /\ AtRecord("explode")
  /\ LET items == Items(Op, Current.value)
     IN  Produce([i \in DOMAIN items |-> [Current EXCEPT !.value = items[i]]])

\* Mutant: explode asks for the policy too.
AtAnyFault(policy) ==
  /\ AtRecord("map") \/ AtRecord("filter") \/ AtRecord("explode")
  /\ plan.policy = policy
  /\ Fails(Op, Current.value)

\* The policy is asked for in map and filter alone.
AtFault(policy) ==
  /\ AtRecord("map") \/ AtRecord("filter")
  /\ plan.policy = policy
  /\ Fails(Op, Current.value)

\* Mutant: the loop does not advance.
SkipNothing ==
  /\ AtFault("skip")
  /\ UNCHANGED vars

SkipRecord ==
  /\ AtFault("skip")
  /\ pos' = pos + 1
  /\ UNCHANGED <<loaded, plan, step, input, out, rejects, status>>

\* Mutant: a rejected record is passed on as it was.
CollectAndKeep ==
  /\ AtFault("collect")
  /\ pos' = pos + 1
  /\ out' = Append(out, Current)
  /\ rejects' = Append(rejects, Rejection(Fault(Op, Current.value)))
  /\ UNCHANGED <<loaded, plan, step, input, status>>

CollectRecord ==
  /\ AtFault("collect")
  /\ pos' = pos + 1
  /\ rejects' = Append(rejects, Rejection(Fault(Op, Current.value)))
  /\ UNCHANGED <<loaded, plan, step, input, out, status>>

\* The first error ends the execution; what was produced and rejected is lost
\* with it.  A failing explode does this under every policy.
Abort ==
  /\ AtFault("fail") \/ (AtRecord("explode") /\ Fails(Op, Current.value))
  /\ status' = Failed(Fault(Op, Current.value))
  /\ UNCHANGED <<loaded, plan, step, input, pos, out, rejects>>

SortRecords ==
  /\ Working /\ Op.kind = "sort"
  /\ \E order \in Orders(input) :
       SortedBy(Op, input, order) /\ input' = Rearranged(input, order)
  /\ step' = step + 1
  /\ UNCHANGED <<loaded, plan, pos, out, rejects, status>>

\* Mutant: the position is not reset.
NextOpKeepsPos ==
  /\ Working /\ Op.kind # "sort" /\ pos = Len(input)
  /\ step' = step + 1
  /\ input' = out
  /\ out' = <<>>
  /\ UNCHANGED <<loaded, plan, pos, rejects, status>>

NextOp ==
  /\ Working /\ Op.kind # "sort" /\ pos = Len(input)
  /\ step' = step + 1
  /\ input' = out
  /\ pos' = 0
  /\ out' = <<>>
  /\ UNCHANGED <<loaded, plan, rejects, status>>

Finish ==
  /\ status = Running /\ step > Len(plan.ops) /\ step > 0
  /\ status' = Ok
  /\ UNCHANGED <<loaded, plan, step, input, pos, out, rejects>>

-----------------------------------------------------------------------------
Init ==
  /\ loaded \in Inputs
  /\ plan \in Plans
  /\ step = 0
  /\ input = Loaded(loaded)
  /\ pos = 0
  /\ out = <<>>
  /\ rejects = <<>>
  /\ status = Running

Next ==
  \/ Validate
  \/ MapRecord \/ FilterRecord \/ ExplodeRecord
  \/ SkipRecord \/ CollectRecord \/ Abort
  \/ SortRecords \/ NextOp \/ Finish

\* execute_detailed runs to its end in one thread: it takes its next step.
Spec == Init /\ [][Next]_vars /\ WF_vars(Next)

-----------------------------------------------------------------------------
(***************************************************************************)
(* Properties.                                                             *)
(***************************************************************************)
Reject == [step: Nat, index: Nat, origin: Nat, error: Errors]

TypeOK ==
  /\ loaded \in Inputs
  /\ plan \in Plans
  /\ step \in 0 .. Len(plan.ops) + 1
  /\ input \in Seq(Record)
  /\ pos \in 0 .. Len(input)
  /\ out \in Seq(Record)
  /\ rejects \in Seq(Reject)
  /\ status \in {Running, Ok} \union {Failed(error) : error \in Errors}

\* Before in execution order: an earlier operation, or an earlier record of the
\* same operation.
Earlier(s1, i1, s2, i2) == s1 < s2 \/ (s1 = s2 /\ i1 < i2)

(***************************************************************************)
(* Rejects are reported in the order they happened, each (operation,       *)
(* index) at most once, none for a record not looked at yet, and only      *)
(* under "collect": engine.rs keeps one list for all operations and counts *)
(* the index within each.                                                  *)
(***************************************************************************)
RejectsInOrder ==
  /\ \A i, j \in DOMAIN rejects : i < j =>
       Earlier(rejects[i].step, rejects[i].index, rejects[j].step, rejects[j].index)
  /\ \A i \in DOMAIN rejects : Earlier(rejects[i].step, rejects[i].index, step, pos)
  /\ rejects # <<>> => plan.policy = "collect"

\* What is left of the records while an operation is under way.
Live == out \o SubSeq(input, pos + 1, Len(input))
Done(kind) == \E i \in DOMAIN plan.ops : i <= step /\ plan.ops[i].kind = kind

Origins(records) == {records[i].origin : i \in DOMAIN records}
Distinct(records) ==
  \A i, j \in DOMAIN records : records[i].origin = records[j].origin => i = j
InOrder(records) ==
  \A i, j \in DOMAIN records : i < j => records[i].origin <= records[j].origin

(***************************************************************************)
(* No record is lost or doubled: until an explode ran, no loaded record is *)
(* there twice, or both there and rejected, whatever operations come       *)
(* before; and unless a filter ran or errors are skipped, every loaded     *)
(* record is there or rejected.                                            *)
(***************************************************************************)
EveryRecordAccounted ==
  ~Done("explode") =>
    /\ Distinct(Live) /\ Distinct(rejects)
    /\ Origins(Live) \cap Origins(rejects) = {}
    /\ ~Done("filter") /\ plan.policy # "skip" =>
         Origins(Live) \union Origins(rejects) = 0 .. Len(loaded) - 1

(***************************************************************************)
(* Without a sort, records stay in the order of the input, those an        *)
(* explode made of one record together (docs/rfc/0001-shapeport.md 11.7    *)
(* and 11.8).                                                              *)
(***************************************************************************)
OrderKept == ~Done("sort") => InOrder(Live)

\* The rejects of the operations before the n-th: they come first in the list.
RejectsBefore(list, n) ==
  SubSeq(list, 1, Cardinality({i \in DOMAIN list : list[i].step < n}))

\* The executor does what Pipeline says, one operation at a time: the records
\* between two operations, and the rejects of the operations that are done.
AsPipeline == INSTANCE Pipeline WITH
  records <- input,
  rejects <- RejectsBefore(rejects, step)

RunsAsPipeline == AsPipeline!Spec

=============================================================================
