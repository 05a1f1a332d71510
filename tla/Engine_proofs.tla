--------------------------- MODULE Engine_proofs ----------------------------
(***************************************************************************)
(* What holds of the executor for all plans, records and operations, and   *)
(* whatever sort order an operation asks for; and that it implements       *)
(* Pipeline: what its loops add up to is what Pipeline says of the whole   *)
(* sequence of records.                                                    *)
(***************************************************************************)
EXTENDS Engine, SequenceTheorems, FiniteSetTheorems, NaturalsInduction, WellFoundedInduction,
        TLAPS

-----------------------------------------------------------------------------
(***************************************************************************)
(* Plans and operations.                                                   *)
(***************************************************************************)
LEMMA LeastIndex ==
  ASSUME NEW T \in SUBSET Nat, T # {}
  PROVE  \E n \in T : \A m \in T : n <= m
<1> DEFINE Before == OpToRel(<, Nat)
<1>1. \A m, n \in Nat : m < n => <<m, n>> \in Before
  BY Zenon DEF OpToRel
<1>2. IsWellFoundedOn(Before, Nat)
  BY NatLessThanWellFounded
<1> HIDE DEF Before
<1>3. PICK n \in T : \A m \in T : ~(<<m, n>> \in Before)
  BY <1>2, WFMin
<1>4. \A m \in T : ~(m < n)
  BY <1>1, <1>3
<1> QED BY <1>4

LEMMA PlanType ==
  ASSUME NEW p \in Plans
  PROVE  /\ p.ops \in Seq(Ops) /\ Len(p.ops) \in Nat /\ DOMAIN p.ops = 1 .. Len(p.ops)
         /\ p.policy \in Policies
         /\ \A i \in DOMAIN p.ops : p.ops[i] \in Ops /\ p.ops[i].kind \in Kinds
<1>1. p.ops \in Seq(Ops) /\ p.policy \in Policies
  BY PlansAssumption
<1>2. Len(p.ops) \in Nat /\ DOMAIN p.ops = 1 .. Len(p.ops)
  BY <1>1, LenProperties
<1>3. \A i \in DOMAIN p.ops : p.ops[i] \in Ops
  BY <1>1, <1>2, ElementOfSeq
<1> QED BY <1>1, <1>2, <1>3, PlansAssumption

LEMMA ShapeErrorType ==
  ASSUME NEW p \in Plans, ~WellShaped(p.ops)
  PROVE  ShapeErrorOf(p.ops) \in Errors
<1> DEFINE bad == {i \in DOMAIN p.ops : ShapeError(p.ops[i]) # NoError}
<1>1. CASE p.ops = <<>>
  BY <1>1, PlansAssumption DEF ShapeErrorOf
<1>2. CASE p.ops # <<>>
  <2>1. bad # {} /\ bad \in SUBSET Nat
    BY <1>2, PlanType DEF WellShaped
  <2>2. \E i \in bad : \A j \in bad : i <= j
    BY <2>1, LeastIndex
  <2> DEFINE least == CHOOSE i \in bad : \A j \in bad : i <= j
  <2>3. least \in bad
    BY <2>2
  <2> HIDE DEF least
  <2>4. p.ops[least] \in Ops /\ ShapeError(p.ops[least]) # NoError
    BY <2>3, PlanType
  <2>5. ShapeError(p.ops[least]) \in Errors
    BY <2>4, PlansAssumption
  <2> QED BY <1>2, <2>5 DEF ShapeErrorOf, least
<1> QED BY <1>1, <1>2

LEMMA OpType ==
  ASSUME TypeOK, Working
  PROVE  Op \in Ops /\ Op.kind \in Kinds /\ step \in 1 .. Len(plan.ops) /\ Len(plan.ops) \in Nat
BY PlanType DEF TypeOK, Working, Op

LEMMA CurrentType ==
  ASSUME TypeOK, pos < Len(input)
  PROVE  /\ Current \in Record /\ Current.value \in Values /\ Current.origin \in Nat
         /\ pos + 1 \in 1 .. Len(input) /\ pos \in Nat
<1>1. input \in Seq(Record) /\ pos \in 0 .. Len(input) /\ Len(input) \in Nat
  BY LenProperties DEF TypeOK
<1>2. pos + 1 \in 1 .. Len(input) /\ pos \in Nat
  BY <1>1
<1>3. Current \in Record
  BY <1>1, <1>2, ElementOfSeq DEF Current
<1> QED BY <1>2, <1>3 DEF Record

LEMMA FaultType ==
  ASSUME TypeOK, Working, pos < Len(input), Fails(Op, Current.value)
  PROVE  Fault(Op, Current.value) \in Errors
BY OpType, CurrentType, OperationsAssumption DEF Fails

-----------------------------------------------------------------------------
(***************************************************************************)
(* What the loop of an operation writes for a record it succeeds on.       *)
(***************************************************************************)
LEMMA RevaluedType ==
  ASSUME NEW r \in Record, NEW v \in Values
  PROVE  [r EXCEPT !.value = v] \in Record /\ [r EXCEPT !.value = v].origin = r.origin
BY DEF Record

LEMMA MapType ==
  ASSUME TypeOK, AtRecord("map"), ~Fails(Op, Current.value)
  PROVE  LET made == [Current EXCEPT !.value = ApplyRecord(Op, Current.value)]
         IN  made \in Record /\ made.origin = Current.origin
<1>1. ApplyRecord(Op, Current.value) \in Values
  BY OpType, CurrentType, OperationsAssumption DEF AtRecord
<1> QED BY <1>1, CurrentType, RevaluedType DEF AtRecord

LEMMA ExplodeType ==
  ASSUME TypeOK, AtRecord("explode"), ~Fails(Op, Current.value),
         NEW items, items = Items(Op, Current.value),
         NEW made, made = [i \in DOMAIN items |-> [Current EXCEPT !.value = items[i]]]
  PROVE  /\ made \in Seq(Record) /\ DOMAIN made = DOMAIN items
         /\ \A i \in DOMAIN made : made[i].origin = Current.origin
<1>1. items \in Seq(Values)
  BY OpType, CurrentType, OperationsAssumption DEF AtRecord
<1>2. Len(items) \in Nat /\ DOMAIN items = 1 .. Len(items)
  BY <1>1, LenProperties
<1>3. \A i \in DOMAIN items : items[i] \in Values
  BY <1>1, <1>2, ElementOfSeq
<1>4. Current \in Record
  BY CurrentType DEF AtRecord
<1>5. \A i \in DOMAIN items : /\ [Current EXCEPT !.value = items[i]] \in Record
                              /\ [Current EXCEPT !.value = items[i]].origin = Current.origin
  BY <1>3, <1>4, RevaluedType
<1>6. made \in [1 .. Len(items) -> Record]
  BY <1>2, <1>5
<1>7. made \in Seq(Record)
  BY <1>2, <1>6, SeqDef
<1>8. \A i \in DOMAIN made : made[i].origin = Current.origin
  BY <1>5
<1> QED BY <1>7, <1>8

LEMMA RearrangedType ==
  ASSUME NEW records \in Seq(Record), NEW order \in Orders(records)
  PROVE  /\ Rearranged(records, order) \in Seq(Record)
         /\ Len(Rearranged(records, order)) = Len(records)
<1>1. DOMAIN records = 1 .. Len(records) /\ Len(records) \in Nat
  BY LenProperties
<1>2. order \in [1 .. Len(records) -> 1 .. Len(records)]
  BY <1>1 DEF Orders, Injection
<1>3. \A i \in 1 .. Len(records) : records[order[i]] \in Record
  BY <1>2, ElementOfSeq
<1>4. Rearranged(records, order) \in [1 .. Len(records) -> Record]
  BY <1>1, <1>3 DEF Rearranged
<1>5. Rearranged(records, order) \in Seq(Record)
  BY <1>1, <1>4, SeqDef
<1> QED BY <1>1, <1>4, <1>5, LenProperties

-----------------------------------------------------------------------------
(***************************************************************************)
(* Type correctness.                                                       *)
(***************************************************************************)
LEMMA TypeInit == Init => TypeOK
<1> SUFFICES ASSUME Init PROVE TypeOK
  OBVIOUS
<1>1. plan \in Plans /\ loaded \in Inputs /\ loaded \in Seq(Values)
  BY PlansAssumption DEF Init
<1>2. Len(loaded) \in Nat /\ DOMAIN loaded = 1 .. Len(loaded)
  BY <1>1, LenProperties
<1>3. \A i \in 1 .. Len(loaded) : loaded[i] \in Values
  BY <1>1, ElementOfSeq
<1>4. Loaded(loaded) \in [1 .. Len(loaded) -> Record]
  BY <1>2, <1>3 DEF Loaded, Record
<1>5. input \in Seq(Record)
  BY <1>2, <1>4, SeqDef DEF Init
<1>6. Len(input) \in Nat /\ pos \in 0 .. Len(input)
  BY <1>5, LenProperties DEF Init
<1>7. Len(plan.ops) \in Nat /\ step \in 0 .. Len(plan.ops) + 1
  BY <1>1, PlanType DEF Init
<1>8. out \in Seq(Record) /\ rejects \in Seq(Reject)
  BY EmptySeq DEF Init
<1> QED BY <1>1, <1>5, <1>6, <1>7, <1>8 DEF Init, TypeOK

\* A step of a loop over the records of an operation keeps what is typed.
LEMMA LoopType ==
  ASSUME TypeOK, pos < Len(input), pos' = pos + 1,
         out' \in Seq(Record), rejects' \in Seq(Reject),
         UNCHANGED <<loaded, plan, step, input, status>>
  PROVE  TypeOK'
<1>1. pos' \in 0 .. Len(input')
  BY CurrentType
<1> QED BY <1>1 DEF TypeOK

LEMMA ProduceType ==
  ASSUME TypeOK, pos < Len(input), NEW records \in Seq(Record), Produce(records)
  PROVE  TypeOK'
<1>1. out' \in Seq(Record)
  BY ConcatProperties DEF TypeOK, Produce
<1> QED BY <1>1, LoopType DEF TypeOK, Produce

LEMMA TypeStep == TypeOK /\ [Next]_vars => TypeOK'
<1> SUFFICES ASSUME TypeOK, [Next]_vars PROVE TypeOK'
  OBVIOUS
<1>1. CASE Validate
  <2>1. CASE WellShaped(plan.ops)
    <3>1. step' \in 0 .. Len(plan.ops) + 1
      BY <1>1, <2>1, PlanType DEF Validate, TypeOK
    <3> QED BY <1>1, <2>1, <3>1 DEF Validate, TypeOK
  <2>2. CASE ~WellShaped(plan.ops)
    <3>1. ShapeErrorOf(plan.ops) \in Errors
      BY <2>2, ShapeErrorType DEF TypeOK
    <3> QED BY <1>1, <2>2, <3>1 DEF Validate, TypeOK
  <2> QED BY <2>1, <2>2
<1>2. CASE MapRecord
  <2> DEFINE made == [Current EXCEPT !.value = ApplyRecord(Op, Current.value)]
  <2>1. made \in Record
    BY <1>2, MapType DEF MapRecord, Produce
  <2>2. Produce(<<made>>) /\ pos < Len(input)
    BY <1>2 DEF MapRecord, AtRecord
  <2> HIDE DEF made
  <2>3. <<made>> \in Seq(Record)
    BY <2>1
  <2> QED BY <2>2, <2>3, ProduceType
<1>3. CASE FilterRecord
  <2> DEFINE made == IF Holds(Op, Current.value) THEN <<Current>> ELSE <<>>
  <2>1. pos < Len(input) /\ Produce(made)
    BY <1>3 DEF FilterRecord, AtRecord
  <2>2. Current \in Record
    BY <2>1, CurrentType
  <2>3. made \in Seq(Record)
    BY <2>2
  <2> HIDE DEF made
  <2> QED BY <2>1, <2>3, ProduceType
<1>4. CASE ExplodeRecord
  <2> DEFINE items == Items(Op, Current.value)
             made == [i \in DOMAIN items |-> [Current EXCEPT !.value = items[i]]]
  <2>1. pos < Len(input) /\ Produce(made)
    BY <1>4 DEF ExplodeRecord, AtRecord
  <2>2. AtRecord("explode") /\ ~Fails(Op, Current.value)
    BY <1>4 DEF ExplodeRecord, Produce
  <2>3. made \in Seq(Record)
    BY <2>2, ExplodeType
  <2> HIDE DEF made
  <2> QED BY <2>1, <2>3, ProduceType
<1>5. CASE SkipRecord
  <2>1. pos < Len(input)
    BY <1>5 DEF SkipRecord, AtFault, AtRecord
  <2> QED BY <1>5, <2>1, LoopType DEF SkipRecord, TypeOK
<1>6. CASE CollectRecord
  <2>1. Working /\ pos < Len(input) /\ Fails(Op, Current.value)
    BY <1>6 DEF CollectRecord, AtFault, AtRecord
  <2>2. Rejection(Fault(Op, Current.value)) \in Reject
    BY <2>1, FaultType, CurrentType, OpType DEF Rejection, Reject
  <2>3. rejects' \in Seq(Reject)
    BY <1>6, <2>2, AppendProperties DEF CollectRecord, TypeOK
  <2> QED BY <1>6, <2>1, <2>3, LoopType DEF CollectRecord, TypeOK
<1>7. CASE Abort
  <2>1. Working /\ pos < Len(input) /\ Fails(Op, Current.value)
    BY <1>7 DEF Abort, AtFault, AtRecord
  <2>2. Fault(Op, Current.value) \in Errors
    BY <2>1, FaultType
  <2> QED BY <1>7, <2>2 DEF Abort, TypeOK
<1>8. CASE SortRecords
  <2>1. PICK order \in Orders(input) : input' = Rearranged(input, order)
    BY <1>8 DEF SortRecords
  <2>2. input' \in Seq(Record) /\ Len(input') = Len(input)
    BY <2>1, RearrangedType DEF TypeOK
  <2>3. step' \in 0 .. Len(plan.ops) + 1
    BY <1>8, OpType DEF SortRecords
  <2> QED BY <1>8, <2>2, <2>3 DEF SortRecords, TypeOK
<1>9. CASE NextOp
  <2>1. step' \in 0 .. Len(plan.ops) + 1
    BY <1>9, OpType DEF NextOp
  <2>2. input' \in Seq(Record) /\ out' \in Seq(Record)
    BY <1>9, EmptySeq DEF NextOp, TypeOK
  <2>3. pos' \in 0 .. Len(input')
    BY <1>9, <2>2, LenProperties DEF NextOp
  <2> QED BY <1>9, <2>1, <2>2, <2>3 DEF NextOp, TypeOK
<1>10. CASE Finish
  BY <1>10 DEF Finish, TypeOK
<1>11. CASE UNCHANGED vars
  BY <1>11 DEF vars, TypeOK
<1> QED
  BY <1>1, <1>2, <1>3, <1>4, <1>5, <1>6, <1>7, <1>8, <1>9, <1>10, <1>11 DEF Next

(***************************************************************************)
(* Every state of execute_detailed is well typed, whatever the plan and    *)
(* its operations are: the position is within the operation's input, and   *)
(* an error it ends with is one an operation or the validation gave.       *)
(***************************************************************************)
THEOREM TypeCorrect == Spec => []TypeOK
BY TypeInit, TypeStep, PTL DEF Spec

-----------------------------------------------------------------------------
(***************************************************************************)
(* Rejects.                                                                *)
(***************************************************************************)
\* What the steps other than a collected error do to the rejects and to the
\* place the execution has reached.
Advances ==
  /\ rejects' = rejects /\ plan' = plan
  /\ \/ step' = step /\ pos' \in {pos, pos + 1}
     \/ step' = step + 1

LEMMA PlaceType ==
  ASSUME TypeOK
  PROVE  step \in Nat /\ pos \in Nat
<1>1. plan \in Plans /\ step \in 0 .. Len(plan.ops) + 1 /\ pos \in 0 .. Len(input)
  BY DEF TypeOK
<1>2. Len(plan.ops) \in Nat /\ Len(input) \in Nat
  BY <1>1, PlanType, LenProperties DEF TypeOK
<1> QED BY <1>1, <1>2

LEMMA RejectsKept ==
  ASSUME TypeOK, RejectsInOrder, Advances
  PROVE  RejectsInOrder'
<1>1. \A i \in DOMAIN rejects : rejects[i] \in Reject
  BY ElementOfSeq, LenProperties DEF TypeOK
<1>2. step \in Nat /\ pos \in Nat
  BY PlaceType
<1>3. ASSUME NEW i \in DOMAIN rejects
      PROVE  Earlier(rejects[i].step, rejects[i].index, step', pos')
  <2>1. Earlier(rejects[i].step, rejects[i].index, step, pos)
    BY <1>3 DEF RejectsInOrder
  <2>2. rejects[i].step \in Nat /\ rejects[i].index \in Nat
    BY <1>1, <1>3 DEF Reject
  <2>3. CASE step' = step /\ pos' \in {pos, pos + 1}
    BY <1>2, <2>1, <2>2, <2>3 DEF Earlier
  <2>4. CASE step' = step + 1
    BY <1>2, <2>1, <2>2, <2>4 DEF Earlier
  <2> QED BY <2>3, <2>4 DEF Advances
<1> QED BY <1>3 DEF RejectsInOrder, Advances

LEMMA RejectAdded ==
  ASSUME TypeOK, RejectsInOrder, CollectRecord
  PROVE  RejectsInOrder'
<1> DEFINE new == Rejection(Fault(Op, Current.value))
<1>0. step \in Nat /\ pos \in Nat
  BY PlaceType
<1>1. /\ rejects' = Append(rejects, new)
      /\ pos' = pos + 1 /\ step' = step /\ plan' = plan /\ plan.policy = "collect"
  BY DEF CollectRecord, AtFault
<1>2. new.step = step /\ new.index = pos
  BY DEF Rejection
<1> HIDE DEF new
<1>3. rejects \in Seq(Reject)
  BY DEF TypeOK
<1>4. Len(rejects) \in Nat /\ DOMAIN rejects = 1 .. Len(rejects)
  BY <1>3, LenProperties
<1>5. /\ DOMAIN rejects' = 1 .. Len(rejects) + 1
      /\ \A i \in 1 .. Len(rejects) : rejects'[i] = rejects[i]
      /\ rejects'[Len(rejects) + 1] = new
  BY <1>1, <1>3
<1>6. \A i \in DOMAIN rejects : Earlier(rejects[i].step, rejects[i].index, step, pos)
  BY DEF RejectsInOrder
<1>7. \A i \in DOMAIN rejects' : Earlier(rejects'[i].step, rejects'[i].index, step', pos')
  <2> SUFFICES ASSUME NEW i \in DOMAIN rejects'
               PROVE  Earlier(rejects'[i].step, rejects'[i].index, step, pos + 1)
    BY <1>1
  <2>1. CASE i = Len(rejects) + 1
    BY <1>0, <1>2, <1>5, <2>1 DEF Earlier
  <2>2. CASE i \in 1 .. Len(rejects)
    <3>1. rejects[i] \in Reject
      BY <1>3, <2>2, ElementOfSeq
    <3>2. Earlier(rejects[i].step, rejects[i].index, step, pos)
      BY <1>4, <1>6, <2>2
    <3> QED BY <1>0, <1>5, <2>2, <3>1, <3>2 DEF Earlier, Reject
  <2> QED BY <1>4, <1>5, <2>1, <2>2
<1>8. ASSUME NEW i \in DOMAIN rejects', NEW j \in DOMAIN rejects', i < j
      PROVE  Earlier(rejects'[i].step, rejects'[i].index, rejects'[j].step, rejects'[j].index)
  <2>1. i \in 1 .. Len(rejects)
    BY <1>4, <1>5, <1>8
  <2>2. CASE j = Len(rejects) + 1
    BY <1>2, <1>4, <1>5, <1>6, <2>1, <2>2
  <2>3. CASE j \in 1 .. Len(rejects)
    <3>1. Earlier(rejects[i].step, rejects[i].index, rejects[j].step, rejects[j].index)
      BY <1>4, <1>8, <2>1, <2>3 DEF RejectsInOrder
    <3> QED BY <1>5, <2>1, <2>3, <3>1
  <2> QED BY <1>4, <1>5, <2>2, <2>3
<1> QED BY <1>1, <1>7, <1>8 DEF RejectsInOrder

LEMMA RejectsStep == TypeOK /\ RejectsInOrder /\ [Next]_vars => RejectsInOrder'
<1> SUFFICES ASSUME TypeOK, RejectsInOrder, [Next]_vars PROVE RejectsInOrder'
  OBVIOUS
<1>1. CASE Validate
  <2>1. rejects' = rejects /\ plan' = plan /\ pos' = pos /\ (step' = step \/ step' = step + 1)
    BY <1>1, PlaceType DEF Validate
  <2> QED BY <2>1, RejectsKept DEF Advances
<1>2. CASE MapRecord
  BY <1>2, RejectsKept DEF MapRecord, Produce, Advances
<1>3. CASE FilterRecord
  BY <1>3, RejectsKept DEF FilterRecord, Produce, Advances
<1>4. CASE ExplodeRecord
  BY <1>4, RejectsKept DEF ExplodeRecord, Produce, Advances
<1>5. CASE SkipRecord
  BY <1>5, RejectsKept DEF SkipRecord, Advances
<1>6. CASE CollectRecord
  BY <1>6, RejectAdded
<1>7. CASE Abort
  BY <1>7, RejectsKept DEF Abort, Advances
<1>8. CASE SortRecords
  BY <1>8, RejectsKept DEF SortRecords, Advances
<1>9. CASE NextOp
  BY <1>9, RejectsKept DEF NextOp, Advances
<1>10. CASE Finish
  BY <1>10, RejectsKept DEF Finish, Advances
<1>11. CASE UNCHANGED vars
  BY <1>11, RejectsKept DEF vars, Advances
<1> QED
  BY <1>1, <1>2, <1>3, <1>4, <1>5, <1>6, <1>7, <1>8, <1>9, <1>10, <1>11 DEF Next

(***************************************************************************)
(* The list of rejects of any execution is in order and names no record of *)
(* an operation twice, and only "collect" fills it.                        *)
(***************************************************************************)
THEOREM RejectsReported == Spec => []RejectsInOrder
<1>1. Init => RejectsInOrder
  BY EmptySeq DEF Init, RejectsInOrder
<1> QED BY <1>1, TypeCorrect, RejectsStep, PTL DEF Spec

-----------------------------------------------------------------------------
(***************************************************************************)
(* Origins of concatenated records.                                        *)
(***************************************************************************)
\* Every index of a concatenation is one of its left or of its right part.
LEMMA IndexCases ==
  \A m, n \in Nat : \A k \in 1 .. m + n : k \in 1 .. m \/ \E i \in 1 .. n : k = m + i
<1> SUFFICES ASSUME NEW m \in Nat, NEW n \in Nat, NEW k \in 1 .. m + n
             PROVE  k \in 1 .. m \/ \E i \in 1 .. n : k = m + i
  OBVIOUS
<1>1. CASE k <= m
  BY <1>1
<1>2. CASE k > m
  <2>1. k - m \in 1 .. n /\ k = m + (k - m)
    BY <1>2
  <2> QED BY <2>1
<1> QED BY <1>1, <1>2

LEMMA ConcatIndices ==
  ASSUME NEW S, NEW s \in Seq(S), NEW t \in Seq(S)
  PROVE  /\ Len(s) \in Nat /\ Len(t) \in Nat
         /\ DOMAIN s = 1 .. Len(s) /\ DOMAIN t = 1 .. Len(t)
         /\ DOMAIN (s \o t) = 1 .. Len(s) + Len(t)
         /\ \A i \in 1 .. Len(s) : (s \o t)[i] = s[i]
         /\ \A i \in 1 .. Len(t) : (s \o t)[Len(s) + i] = t[i]
         /\ \A k \in DOMAIN (s \o t) :
              k \in 1 .. Len(s) \/ \E i \in 1 .. Len(t) : k = Len(s) + i
<1>1. Len(s) \in Nat /\ Len(t) \in Nat /\ DOMAIN s = 1 .. Len(s) /\ DOMAIN t = 1 .. Len(t)
  BY LenProperties
<1>2. s \o t \in Seq(S) /\ Len(s \o t) = Len(s) + Len(t)
  BY ConcatProperties
<1>3. DOMAIN (s \o t) = 1 .. Len(s) + Len(t)
  BY <1>2, LenProperties
<1>4. \A i \in 1 .. Len(s) + Len(t) : (s \o t)[i] = IF i <= Len(s) THEN s[i] ELSE t[i - Len(s)]
  BY ConcatProperties
<1>5. \A i \in 1 .. Len(s) : (s \o t)[i] = s[i]
  BY <1>1, <1>4
<1>6. \A i \in 1 .. Len(t) : (s \o t)[Len(s) + i] = t[i]
  <2> SUFFICES ASSUME NEW i \in 1 .. Len(t) PROVE (s \o t)[Len(s) + i] = t[i]
    OBVIOUS
  <2>1. Len(s) + i \in 1 .. Len(s) + Len(t) /\ ~(Len(s) + i <= Len(s)) /\ (Len(s) + i) - Len(s) = i
    BY <1>1
  <2> QED BY <1>4, <2>1
<1>7. \A k \in 1 .. Len(s) + Len(t) : k \in 1 .. Len(s) \/ \E i \in 1 .. Len(t) : k = Len(s) + i
  BY ONLY <1>1, IndexCases, Zenon
<1> QED BY <1>1, <1>3, <1>5, <1>6, <1>7

LEMMA OriginsConcat ==
  ASSUME NEW S, NEW s \in Seq(S), NEW t \in Seq(S)
  PROVE  Origins(s \o t) = Origins(s) \union Origins(t)
<1> DEFINE u == s \o t
<1>1. /\ Len(s) \in Nat /\ Len(t) \in Nat
      /\ DOMAIN s = 1 .. Len(s) /\ DOMAIN t = 1 .. Len(t) /\ DOMAIN u = 1 .. Len(s) + Len(t)
      /\ \A i \in 1 .. Len(s) : u[i] = s[i]
      /\ \A i \in 1 .. Len(t) : u[Len(s) + i] = t[i]
      /\ \A k \in DOMAIN u : k \in 1 .. Len(s) \/ \E i \in 1 .. Len(t) : k = Len(s) + i
  BY ConcatIndices
<1> HIDE DEF u
<1>2. ASSUME NEW k \in DOMAIN u PROVE u[k].origin \in Origins(s) \union Origins(t)
  <2>1. k \in 1 .. Len(s) \/ \E i \in 1 .. Len(t) : k = Len(s) + i
    BY <1>1, <1>2
  <2> QED BY <1>1, <2>1 DEF Origins
<1>3. \A i \in DOMAIN s : i \in DOMAIN u /\ u[i] = s[i]
  BY <1>1
<1>4. \A i \in DOMAIN t : Len(s) + i \in DOMAIN u /\ u[Len(s) + i] = t[i]
  BY <1>1
<1>5. Origins(u) \subseteq Origins(s) \union Origins(t)
  BY <1>2 DEF Origins
<1>6. Origins(s) \subseteq Origins(u) /\ Origins(t) \subseteq Origins(u)
  BY <1>3, <1>4 DEF Origins
<1> QED BY <1>5, <1>6 DEF u

LEMMA DistinctConcat ==
  ASSUME NEW S, NEW s \in Seq(S), NEW t \in Seq(S)
  PROVE  Distinct(s \o t) <=>
           Distinct(s) /\ Distinct(t) /\ Origins(s) \cap Origins(t) = {}
<1> DEFINE u == s \o t
<1>1. /\ Len(s) \in Nat /\ Len(t) \in Nat
      /\ DOMAIN s = 1 .. Len(s) /\ DOMAIN t = 1 .. Len(t) /\ DOMAIN u = 1 .. Len(s) + Len(t)
      /\ \A i \in 1 .. Len(s) : u[i] = s[i]
      /\ \A i \in 1 .. Len(t) : u[Len(s) + i] = t[i]
      /\ \A k \in DOMAIN u : k \in 1 .. Len(s) \/ \E i \in 1 .. Len(t) : k = Len(s) + i
  BY ConcatIndices
<1> HIDE DEF u
<1>2. \A i \in DOMAIN s : i \in DOMAIN u /\ u[i] = s[i]
  BY <1>1
<1>3. \A i \in DOMAIN t : Len(s) + i \in DOMAIN u /\ u[Len(s) + i] = t[i]
  BY <1>1
<1>4. ASSUME Distinct(u) PROVE Distinct(s) /\ Distinct(t) /\ Origins(s) \cap Origins(t) = {}
  <2>1. Distinct(s)
    BY <1>2, <1>4 DEF Distinct
  <2>2. Distinct(t)
    <3> SUFFICES ASSUME NEW i \in DOMAIN t, NEW j \in DOMAIN t, t[i].origin = t[j].origin
                 PROVE  i = j
      BY DEF Distinct
    <3>1. Len(s) + i = Len(s) + j
      BY <1>3, <1>4 DEF Distinct
    <3> QED BY <1>1, <3>1
  <2>3. ASSUME NEW i \in DOMAIN s, NEW j \in DOMAIN t, s[i].origin = t[j].origin PROVE FALSE
    <3>1. i = Len(s) + j
      BY <1>2, <1>3, <1>4, <2>3 DEF Distinct
    <3> QED BY <1>1, <3>1
  <2> QED BY <2>1, <2>2, <2>3 DEF Origins
<1>5. ASSUME Distinct(s), Distinct(t), Origins(s) \cap Origins(t) = {} PROVE Distinct(u)
  <2> SUFFICES ASSUME NEW k \in DOMAIN u, NEW l \in DOMAIN u, u[k].origin = u[l].origin
               PROVE  k = l
    BY DEF Distinct
  <2>1. k \in 1 .. Len(s) \/ \E i \in 1 .. Len(t) : k = Len(s) + i
    BY <1>1
  <2>2. l \in 1 .. Len(s) \/ \E j \in 1 .. Len(t) : l = Len(s) + j
    BY <1>1
  <2>3. CASE k \in 1 .. Len(s) /\ l \in 1 .. Len(s)
    BY <1>1, <1>5, <2>3 DEF Distinct
  <2>4. ASSUME NEW i \in 1 .. Len(s), NEW j \in 1 .. Len(t) PROVE u[i].origin # u[Len(s) + j].origin
    <3>1. s[i].origin \in Origins(s) /\ t[j].origin \in Origins(t)
      BY <1>1 DEF Origins
    <3> QED BY <1>1, <1>5, <3>1
  <2>5. CASE k \in 1 .. Len(s) /\ \E j \in 1 .. Len(t) : l = Len(s) + j
    BY <2>4, <2>5
  <2>6. CASE l \in 1 .. Len(s) /\ \E i \in 1 .. Len(t) : k = Len(s) + i
    BY <2>4, <2>6
  <2>7. CASE (\E i \in 1 .. Len(t) : k = Len(s) + i) /\ \E j \in 1 .. Len(t) : l = Len(s) + j
    <3>1. PICK i \in 1 .. Len(t) : k = Len(s) + i
      BY <2>7
    <3>2. PICK j \in 1 .. Len(t) : l = Len(s) + j
      BY <2>7
    <3>3. u[k] = t[i] /\ u[l] = t[j] /\ i \in DOMAIN t /\ j \in DOMAIN t
      BY <1>1, <3>1, <3>2
    <3>4. i = j
      BY <1>5, <3>3 DEF Distinct
    <3> QED BY <3>1, <3>2, <3>4
  <2> QED BY <2>1, <2>2, <2>3, <2>5, <2>6, <2>7, Zenon
<1> QED BY <1>4, <1>5 DEF u

LEMMA InOrderConcat ==
  ASSUME NEW S, NEW s \in Seq(S), NEW t \in Seq(S)
  PROVE  InOrder(s \o t) <=>
           InOrder(s) /\ InOrder(t) /\ \A a \in Origins(s), b \in Origins(t) : a <= b
<1> DEFINE u == s \o t
<1>1. /\ Len(s) \in Nat /\ Len(t) \in Nat
      /\ DOMAIN s = 1 .. Len(s) /\ DOMAIN t = 1 .. Len(t) /\ DOMAIN u = 1 .. Len(s) + Len(t)
      /\ \A i \in 1 .. Len(s) : u[i] = s[i]
      /\ \A i \in 1 .. Len(t) : u[Len(s) + i] = t[i]
      /\ \A k \in DOMAIN u : k \in 1 .. Len(s) \/ \E i \in 1 .. Len(t) : k = Len(s) + i
  BY ConcatIndices
<1> HIDE DEF u
<1>2. \A i \in DOMAIN s : i \in DOMAIN u /\ u[i] = s[i]
  BY <1>1
<1>3. \A i \in DOMAIN t : Len(s) + i \in DOMAIN u /\ u[Len(s) + i] = t[i]
  BY <1>1
<1>4. ASSUME InOrder(u)
      PROVE  InOrder(s) /\ InOrder(t) /\ \A a \in Origins(s), b \in Origins(t) : a <= b
  <2>1. InOrder(s)
    BY <1>2, <1>4 DEF InOrder
  <2>2. ASSUME NEW i \in DOMAIN t, NEW j \in DOMAIN t, i < j PROVE t[i].origin <= t[j].origin
    <3>1. Len(s) + i < Len(s) + j
      BY <1>1, <2>2
    <3> QED BY <1>3, <1>4, <3>1 DEF InOrder
  <2>3. ASSUME NEW i \in DOMAIN s, NEW j \in DOMAIN t PROVE s[i].origin <= t[j].origin
    <3>1. i < Len(s) + j
      BY <1>1
    <3> QED BY <1>2, <1>3, <1>4, <3>1 DEF InOrder
  <2> QED BY <2>1, <2>2, <2>3 DEF InOrder, Origins
<1>5. ASSUME InOrder(s), InOrder(t), \A a \in Origins(s), b \in Origins(t) : a <= b
      PROVE  InOrder(u)
  <2> SUFFICES ASSUME NEW k \in DOMAIN u, NEW l \in DOMAIN u, k < l
               PROVE  u[k].origin <= u[l].origin
    BY DEF InOrder
  <2>1. k \in 1 .. Len(s) \/ \E i \in 1 .. Len(t) : k = Len(s) + i
    BY <1>1
  <2>2. l \in 1 .. Len(s) \/ \E j \in 1 .. Len(t) : l = Len(s) + j
    BY <1>1
  <2>3. CASE k \in 1 .. Len(s) /\ l \in 1 .. Len(s)
    BY <1>1, <1>5, <2>3 DEF InOrder
  <2>4. CASE k \in 1 .. Len(s) /\ \E j \in 1 .. Len(t) : l = Len(s) + j
    <3>1. PICK j \in 1 .. Len(t) : l = Len(s) + j
      BY <2>4
    <3>2. s[k].origin \in Origins(s) /\ t[j].origin \in Origins(t)
      BY <1>1, <2>4 DEF Origins
    <3> QED BY <1>1, <1>5, <2>4, <3>1, <3>2
  <2>5. ASSUME l \in 1 .. Len(s), \E i \in 1 .. Len(t) : k = Len(s) + i PROVE FALSE
    <3>1. PICK i \in 1 .. Len(t) : k = Len(s) + i
      BY <2>5
    <3> QED BY ONLY <1>1, <2>5, <3>1, k < l
  <2>6. CASE (\E i \in 1 .. Len(t) : k = Len(s) + i) /\ \E j \in 1 .. Len(t) : l = Len(s) + j
    <3>1. PICK i \in 1 .. Len(t) : k = Len(s) + i
      BY <2>6
    <3>2. PICK j \in 1 .. Len(t) : l = Len(s) + j
      BY <2>6
    <3>3. i < j
      BY <1>1, <3>1, <3>2
    <3>4. u[k] = t[i] /\ u[l] = t[j] /\ i \in DOMAIN t /\ j \in DOMAIN t
      BY <1>1, <3>1, <3>2
    <3> QED BY <1>5, <3>3, <3>4 DEF InOrder
  <2> QED BY <2>1, <2>2, <2>3, <2>4, <2>5, <2>6, Zenon
<1> QED BY <1>4, <1>5 DEF u

LEMMA OriginsOfOne ==
  ASSUME NEW r
  PROVE  Origins(<<r>>) = {r.origin} /\ Distinct(<<r>>) /\ InOrder(<<r>>)
BY DEF Origins, Distinct, InOrder

LEMMA OriginsOfNone == Origins(<<>>) = {} /\ Distinct(<<>>) /\ InOrder(<<>>)
BY DEF Origins, Distinct, InOrder

-----------------------------------------------------------------------------
(***************************************************************************)
(* What becomes of the records left when an operation takes a step.        *)
(***************************************************************************)
LEMMA RestType ==
  ASSUME TypeOK
  PROVE  /\ out \in Seq(Record) /\ input \in Seq(Record) /\ pos \in Nat /\ Len(input) \in Nat
         /\ SubSeq(input, pos + 1, Len(input)) \in Seq(Record)
<1>1. out \in Seq(Record) /\ input \in Seq(Record) /\ pos \in Nat /\ Len(input) \in Nat
  BY LenProperties DEF TypeOK
<1>2. \A i \in pos + 1 .. Len(input) : input[i] \in Record
  BY <1>1, ElementOfSeq
<1> QED BY <1>1, <1>2, SubSeqProperties

\* The origins of an input with its records in another order.
LEMMA RearrangedOrigins ==
  ASSUME NEW records \in Seq(Record), NEW order \in Orders(records)
  PROVE  /\ Origins(Rearranged(records, order)) = Origins(records)
         /\ Distinct(records) => Distinct(Rearranged(records, order))
<1> DEFINE dom == DOMAIN records
<1>1. IsFiniteSet(dom)
  BY LenProperties, FS_Interval
<1>2. order \in Injection(dom, dom)
  BY DEF Orders
<1> HIDE DEF dom
<1>3. order \in Surjection(dom, dom)
  BY <1>1, <1>2, FS_Injection
<1>4. order \in [dom -> dom] /\ \A t \in dom : \E s \in dom : order[s] = t
  BY <1>3 DEF Surjection
<1>5. \A i, j \in dom : order[i] = order[j] => i = j
  BY <1>2, <1>4 DEF Injection, IsInjective
<1> DEFINE moved == Rearranged(records, order)
<1>6. DOMAIN moved = dom /\ DOMAIN records = dom /\ \A i \in dom : moved[i] = records[order[i]]
  BY DEF Rearranged, dom
<1> HIDE DEF moved
<1>7. ASSUME NEW i \in dom PROVE moved[i].origin \in Origins(records)
  BY <1>4, <1>6 DEF Origins
<1>8. ASSUME NEW i \in dom PROVE records[i].origin \in Origins(moved)
  <2>1. PICK j \in dom : order[j] = i
    BY <1>4
  <2> QED BY <1>6, <2>1 DEF Origins
<1>9. Origins(moved) = Origins(records)
  BY <1>6, <1>7, <1>8 DEF Origins
<1>10. ASSUME Distinct(records) PROVE Distinct(moved)
  <2> SUFFICES ASSUME NEW i \in dom, NEW j \in dom, moved[i].origin = moved[j].origin
               PROVE  i = j
    BY <1>6 DEF Distinct
  <2>1. order[i] \in dom /\ order[j] \in dom
    BY <1>4
  <2>2. records[order[i]].origin = records[order[j]].origin
    BY <1>6
  <2>3. order[i] = order[j]
    BY <1>6, <1>10, <2>1, <2>2 DEF Distinct
  <2> QED BY <1>5, <2>3
<1> QED BY <1>9, <1>10 DEF moved

\* The loop of an operation replaces the record it looks at by those made of it.
LEMMA LiveReplaced ==
  ASSUME TypeOK, pos < Len(input), NEW made \in Seq(Record),
         Origins(made) \subseteq {Current.origin},
         out' = out \o made, pos' = pos + 1, input' = input
  PROVE  /\ InOrder(Live) => InOrder(Live')
         /\ Distinct(Live) /\ Distinct(made) => Distinct(Live')
         /\ Origins(Live) = Origins(Live') \union {Current.origin}
         /\ Origins(made) = {Current.origin} => Origins(Live') = Origins(Live)
         /\ made = <<>> /\ Distinct(Live) => Current.origin \notin Origins(Live')
<1> DEFINE rest == SubSeq(input, pos + 1 + 1, Len(input))
           one  == <<Current>>
<1>1. out \in Seq(Record) /\ input \in Seq(Record) /\ pos \in Nat /\ Len(input) \in Nat
  BY RestType
<1>2. pos + 1 \in 1 .. Len(input) /\ Len(input) \in pos + 1 .. Len(input)
  BY <1>1
<1>3. SubSeq(input, pos + 1, Len(input)) = one \o rest
  BY <1>1, <1>2, SubSeqRecursiveFirst DEF Current
<1>4. \A i \in pos + 1 + 1 .. Len(input) : input[i] \in Record
  BY <1>1, ElementOfSeq
<1>5. rest \in Seq(Record)
  BY <1>1, <1>4, SubSeqProperties
<1>6. one \in Seq(Record) /\ Current.origin \in Nat
  BY CurrentType
<1>7. Origins(one) = {Current.origin} /\ Distinct(one) /\ InOrder(one)
  BY OriginsOfOne
<1>8. Live = out \o (one \o rest)
  BY <1>3 DEF Live
<1>9. Live' = (out \o made) \o rest
  BY DEF Live
<1> HIDE DEF rest, one
<1>10. one \o rest \in Seq(Record) /\ out \o made \in Seq(Record)
  BY <1>1, <1>5, <1>6, ConcatProperties
<1>11. Origins(one \o rest) = {Current.origin} \union Origins(rest)
  BY <1>5, <1>6, <1>7, OriginsConcat
<1>12. Origins(Live) = Origins(out) \union {Current.origin} \union Origins(rest)
  <2> DEFINE left == one \o rest
  <2> HIDE DEF left
  <2>0. left \in Seq(Record)
    BY <1>10 DEF left
  <2>1. Origins(out \o left) = Origins(out) \union Origins(left)
    BY <1>1, <2>0, OriginsConcat
  <2> USE DEF left
  <2> QED BY <1>8, <1>11, <2>1
<1>13. Origins(out \o made) = Origins(out) \union Origins(made)
  BY <1>1, OriginsConcat
<1>14. Origins(Live') = Origins(out) \union Origins(made) \union Origins(rest)
  <2>1. Origins((out \o made) \o rest) = Origins(out \o made) \union Origins(rest)
    BY <1>5, <1>10, OriginsConcat
  <2> QED BY <1>9, <1>13, <2>1
<1>15. ASSUME InOrder(Live) PROVE InOrder(Live')
  <2>1. /\ InOrder(out) /\ InOrder(one \o rest)
        /\ \A a \in Origins(out), b \in Origins(one \o rest) : a <= b
    BY <1>1, <1>8, <1>10, <1>15, InOrderConcat
  <2>2. InOrder(rest) /\ \A b \in Origins(rest) : Current.origin <= b
    BY <1>5, <1>6, <1>7, <2>1, InOrderConcat
  <2>3. InOrder(made)
    <3>1. \A i \in DOMAIN made : made[i].origin = Current.origin
      BY DEF Origins
    <3>2. Current.origin <= Current.origin
      BY <1>6
    <3> QED BY <3>1, <3>2 DEF InOrder
  <2>4. InOrder(out \o made)
    <3>1. \A a \in Origins(out), b \in Origins(made) : a <= b
      BY <1>11, <2>1
    <3> QED BY <1>1, <2>1, <2>3, <3>1, InOrderConcat
  <2>5. \A a \in Origins(out \o made), b \in Origins(rest) : a <= b
    BY <1>11, <1>13, <2>1, <2>2
  <2> QED BY <1>5, <1>9, <1>10, <2>2, <2>4, <2>5, InOrderConcat
<1>16. ASSUME Distinct(Live)
       PROVE  /\ Distinct(out) /\ Distinct(rest) /\ Origins(out) \cap Origins(rest) = {}
              /\ Current.origin \notin Origins(out) \union Origins(rest)
  <2>1. Distinct(out) /\ Distinct(one \o rest) /\ Origins(out) \cap Origins(one \o rest) = {}
    BY <1>1, <1>8, <1>10, <1>16, DistinctConcat
  <2>2. Distinct(rest) /\ {Current.origin} \cap Origins(rest) = {}
    BY <1>5, <1>6, <1>7, <2>1, DistinctConcat
  <2> QED BY <1>11, <2>1, <2>2
<1>17. ASSUME Distinct(Live), Distinct(made) PROVE Distinct(Live')
  <2>1. Distinct(out \o made)
    <3>1. Origins(out) \cap Origins(made) = {}
      BY <1>16, <1>17
    <3> QED BY <1>1, <1>16, <1>17, <3>1, DistinctConcat
  <2>2. Origins(out \o made) \cap Origins(rest) = {}
    BY <1>13, <1>16, <1>17
  <2> QED BY <1>5, <1>9, <1>10, <1>16, <1>17, <2>1, <2>2, DistinctConcat
<1>18. ASSUME made = <<>>, Distinct(Live) PROVE Current.origin \notin Origins(Live')
  BY <1>14, <1>16, <1>18, OriginsOfNone
<1> QED BY <1>12, <1>14, <1>15, <1>17, <1>18

LEMMA LiveMapped ==
  ASSUME TypeOK, MapRecord
  PROVE  /\ InOrder(Live) => InOrder(Live')
         /\ Distinct(Live) => Distinct(Live')
         /\ Origins(Live') = Origins(Live)
<1> DEFINE made == [Current EXCEPT !.value = ApplyRecord(Op, Current.value)]
<1>1. made \in Record /\ made.origin = Current.origin
  BY MapType DEF MapRecord, Produce
<1>2. pos < Len(input) /\ out' = out \o <<made>> /\ pos' = pos + 1 /\ input' = input
  BY DEF MapRecord, AtRecord, Produce
<1> HIDE DEF made
<1>3. <<made>> \in Seq(Record)
  BY <1>1
<1>4. Origins(<<made>>) = {Current.origin} /\ Distinct(<<made>>)
  BY <1>1, OriginsOfOne
<1> QED BY <1>2, <1>3, <1>4, LiveReplaced

LEMMA LiveFiltered ==
  ASSUME TypeOK, FilterRecord
  PROVE  /\ InOrder(Live) => InOrder(Live')
         /\ Distinct(Live) => Distinct(Live')
         /\ Origins(Live') \subseteq Origins(Live)
<1> DEFINE made == IF Holds(Op, Current.value) THEN <<Current>> ELSE <<>>
<1>1. pos < Len(input) /\ out' = out \o made /\ pos' = pos + 1 /\ input' = input
  BY DEF FilterRecord, AtRecord, Produce
<1>2. Current \in Record
  BY <1>1, CurrentType
<1>3. made \in Seq(Record)
  BY <1>2
<1>4. Origins(made) \subseteq {Current.origin} /\ Distinct(made)
  BY OriginsOfOne, OriginsOfNone
<1> HIDE DEF made
<1> QED BY <1>1, <1>3, <1>4, LiveReplaced

LEMMA LiveExploded ==
  ASSUME TypeOK, ExplodeRecord, InOrder(Live)
  PROVE  InOrder(Live')
<1> DEFINE items == Items(Op, Current.value)
           made  == [i \in DOMAIN items |-> [Current EXCEPT !.value = items[i]]]
<1>1. pos < Len(input) /\ out' = out \o made /\ pos' = pos + 1 /\ input' = input
  BY DEF ExplodeRecord, AtRecord, Produce
<1>2. AtRecord("explode") /\ ~Fails(Op, Current.value)
  BY DEF ExplodeRecord, Produce
<1>3. made \in Seq(Record) /\ \A i \in DOMAIN made : made[i].origin = Current.origin
  BY <1>2, ExplodeType
<1> HIDE DEF made
<1>4. Origins(made) \subseteq {Current.origin}
  BY <1>3 DEF Origins
<1> QED BY <1>1, <1>3, <1>4, LiveReplaced

LEMMA LiveDropped ==
  ASSUME TypeOK, pos < Len(input), out' = out, pos' = pos + 1, input' = input
  PROVE  /\ InOrder(Live) => InOrder(Live')
         /\ Distinct(Live) => Distinct(Live') /\ Current.origin \notin Origins(Live')
         /\ Origins(Live) = Origins(Live') \union {Current.origin}
<1> DEFINE none == <<>>
<1>1. none \in Seq(Record) /\ Origins(none) \subseteq {Current.origin} /\ Distinct(none)
  BY EmptySeq, OriginsOfNone
<1>2. out' = out \o none
  BY RestType, ConcatEmptySeq
<1> QED BY <1>1, <1>2, LiveReplaced

\* At the start of an operation, everything is in its input; at the end, in its output.
LEMMA LiveAtStart ==
  ASSUME NEW S, NEW s \in Seq(S)
  PROVE  <<>> \o SubSeq(s, 0 + 1, Len(s)) = s
<1>1. SubSeq(s, 1, Len(s)) = s
  BY SubSeqFull
<1>2. <<>> \o s = s
  BY ConcatEmptySeq
<1> QED BY <1>1, <1>2

LEMMA LiveAtEnd ==
  ASSUME NEW S, NEW s \in Seq(S), NEW t \in Seq(S)
  PROVE  s \o SubSeq(t, Len(t) + 1, Len(t)) = s
<1>1. Len(t) \in Nat
  BY LenProperties
<1>2. SubSeq(t, Len(t) + 1, Len(t)) = <<>>
  BY <1>1, SubSeqEmpty
<1> QED BY <1>2, ConcatEmptySeq

LEMMA LivePassedOn ==
  ASSUME TypeOK, NextOp
  PROVE  Live' = Live
<1>1. Live = out
  <2>1. out \o SubSeq(input, Len(input) + 1, Len(input)) = out
    BY RestType, LiveAtEnd
  <2> QED BY <2>1 DEF Live, NextOp
<1>2. Live' = out
  <2>1. <<>> \o SubSeq(out, 0 + 1, Len(out)) = out
    BY RestType, LiveAtStart
  <2> QED BY <2>1 DEF Live, NextOp
<1> QED BY <1>1, <1>2

(***************************************************************************)
(* An operation that has not begun its loop: the validation, a sort and    *)
(* the end find all records in the input.                                  *)
(***************************************************************************)
AtStart ==
  step \notin DOMAIN plan.ops \/ Op.kind = "sort" => pos = 0 /\ out = <<>>

LEMMA LiveSorted ==
  ASSUME TypeOK, AtStart, SortRecords
  PROVE  /\ Distinct(Live) => Distinct(Live')
         /\ Origins(Live') = Origins(Live)
<1>1. PICK order \in Orders(input) : input' = Rearranged(input, order)
  BY DEF SortRecords
<1>2. pos = 0 /\ out = <<>> /\ pos' = 0 /\ out' = <<>>
  BY DEF AtStart, SortRecords
<1>3. input \in Seq(Record) /\ input' \in Seq(Record)
  BY <1>1, RestType, RearrangedType
<1>4. Live = input
  BY <1>2, <1>3, LiveAtStart DEF Live
<1>5. Live' = input'
  BY <1>2, <1>3, LiveAtStart DEF Live
<1> QED BY <1>1, <1>3, <1>4, <1>5, RearrangedOrigins

LEMMA AtStartStep == TypeOK /\ AtStart /\ [Next]_vars => AtStart'
<1> SUFFICES ASSUME TypeOK, AtStart, [Next]_vars PROVE AtStart'
  OBVIOUS
<1>0. 0 \notin DOMAIN plan.ops
  BY PlanType DEF TypeOK
<1>1. CASE Validate
  BY <1>0, <1>1 DEF Validate, AtStart
<1>2. ASSUME Working, Op.kind # "sort", UNCHANGED <<plan, step>> PROVE AtStart'
  BY <1>2 DEF AtStart, Working, Op
<1>3. CASE MapRecord
  BY <1>2, <1>3 DEF MapRecord, AtRecord, Produce
<1>4. CASE FilterRecord
  BY <1>2, <1>4 DEF FilterRecord, AtRecord, Produce
<1>5. CASE ExplodeRecord
  BY <1>2, <1>5 DEF ExplodeRecord, AtRecord, Produce
<1>6. CASE SkipRecord
  BY <1>2, <1>6 DEF SkipRecord, AtFault, AtRecord
<1>7. CASE CollectRecord
  BY <1>2, <1>7 DEF CollectRecord, AtFault, AtRecord
<1>8. CASE Abort
  BY <1>2, <1>8 DEF Abort, AtFault, AtRecord
<1>9. CASE SortRecords
  BY <1>9 DEF SortRecords, AtStart
<1>10. CASE NextOp
  BY <1>10 DEF NextOp, AtStart
<1>11. CASE Finish
  BY <1>11 DEF Finish, AtStart, Op
<1>12. CASE UNCHANGED vars
  BY <1>12 DEF vars, AtStart, Op
<1> QED
  BY <1>1, <1>3, <1>4, <1>5, <1>6, <1>7, <1>8, <1>9, <1>10, <1>11, <1>12 DEF Next

LEMMA AtStartAlways == Spec => []AtStart
<1>1. Init => AtStart
  BY DEF Init, AtStart
<1> QED BY <1>1, TypeCorrect, AtStartStep, PTL DEF Spec

\* The plan is followed from one operation to the next.
LEMMA Progress ==
  ASSUME TypeOK, [Next]_vars
  PROVE  /\ plan' = plan /\ loaded' = loaded
         /\ step' = step \/ step' = step + 1
         /\ \A kind \in Kinds : ~Done(kind)' => ~Done(kind)
<1>1. plan' = plan /\ loaded' = loaded /\ (step' = step \/ step' = step + 1)
  BY PlaceType DEF Next, vars, Validate, MapRecord, FilterRecord, ExplodeRecord, Produce, SkipRecord,
                   CollectRecord, Abort, SortRecords, NextOp, Finish
<1>2. \A i \in DOMAIN plan.ops : i <= step => i <= step'
  BY <1>1, PlaceType, PlanType DEF TypeOK
<1> QED BY <1>1, <1>2 DEF Done

LEMMA OpDone ==
  ASSUME TypeOK, Working
  PROVE  Done(Op.kind)
BY PlaceType, PlanType DEF TypeOK, Working, Done, Op

-----------------------------------------------------------------------------
(***************************************************************************)
(* The order of the records.                                               *)
(***************************************************************************)
LEMMA LoadedOrigins ==
  ASSUME Init
  PROVE  /\ Live = input /\ input \in Seq(Record)
         /\ InOrder(input) /\ Distinct(input)
         /\ Origins(input) = 0 .. Len(loaded) - 1
<1>1. TypeOK
  BY TypeInit
<1>2. input \in Seq(Record) /\ loaded \in Seq(Values)
  BY <1>1, RestType, PlansAssumption DEF TypeOK
<1>3. Live = input
  BY <1>2, LiveAtStart DEF Live, Init
<1>4. /\ DOMAIN input = 1 .. Len(loaded) /\ Len(loaded) \in Nat
      /\ \A i \in DOMAIN input : input[i].origin = i - 1
  BY <1>2, LenProperties DEF Init, Loaded
<1>5. InOrder(input) /\ Distinct(input)
  BY <1>4 DEF InOrder, Distinct
<1>6. ASSUME NEW i \in DOMAIN input PROVE input[i].origin \in 0 .. Len(loaded) - 1
  BY <1>4
<1>7. ASSUME NEW o \in 0 .. Len(loaded) - 1 PROVE o \in Origins(input)
  <2>1. o + 1 \in DOMAIN input /\ (o + 1) - 1 = o
    BY <1>4
  <2> QED BY <1>4, <2>1 DEF Origins
<1>8. Origins(input) = 0 .. Len(loaded) - 1
  BY <1>6, <1>7 DEF Origins
<1> QED BY <1>2, <1>3, <1>5, <1>8

LEMMA OrderStep == TypeOK /\ AtStart /\ OrderKept /\ [Next]_vars => OrderKept'
<1> SUFFICES ASSUME TypeOK, OrderKept, [Next]_vars, AtStart, ~Done("sort")'
             PROVE  InOrder(Live')
  BY DEF OrderKept, InOrder
<1>1. InOrder(Live) /\ ~Done("sort")
  BY Progress DEF OrderKept, Kinds
<1>2. ASSUME UNCHANGED <<input, pos, out>> PROVE InOrder(Live')
  BY <1>1, <1>2 DEF Live
<1>3. CASE Validate
  BY <1>2, <1>3 DEF Validate
<1>4. CASE MapRecord
  BY <1>1, <1>4, LiveMapped
<1>5. CASE FilterRecord
  BY <1>1, <1>5, LiveFiltered
<1>6. CASE ExplodeRecord
  BY <1>1, <1>6, LiveExploded
<1>7. CASE SkipRecord
  <2>1. pos < Len(input)
    BY <1>7 DEF SkipRecord, AtFault, AtRecord
  <2> QED BY <1>1, <1>7, <2>1, LiveDropped DEF SkipRecord
<1>8. CASE CollectRecord
  <2>1. pos < Len(input)
    BY <1>8 DEF CollectRecord, AtFault, AtRecord
  <2> QED BY <1>1, <1>8, <2>1, LiveDropped DEF CollectRecord
<1>9. CASE Abort
  BY <1>2, <1>9 DEF Abort
<1>10. CASE SortRecords
  <2>1. Done("sort")
    BY <1>10, OpDone DEF SortRecords
  <2> QED BY <1>1, <2>1
<1>11. CASE NextOp
  BY <1>1, <1>11, LivePassedOn
<1>12. CASE Finish
  BY <1>2, <1>12 DEF Finish
<1>13. CASE UNCHANGED vars
  BY <1>2, <1>13 DEF vars
<1> QED
  BY <1>3, <1>4, <1>5, <1>6, <1>7, <1>8, <1>9, <1>10, <1>11, <1>12, <1>13 DEF Next

(***************************************************************************)
(* No plan without a sort changes the order of the records it is run on,   *)
(* whatever its maps, filters and explodes do and whichever records fail.  *)
(***************************************************************************)
THEOREM OrderPreserved == Spec => []OrderKept
<1>1. Init => OrderKept
  BY LoadedOrigins DEF OrderKept
<1> QED BY <1>1, TypeCorrect, AtStartAlways, OrderStep, PTL DEF Spec

-----------------------------------------------------------------------------
(***************************************************************************)
(* No record is lost or doubled.                                           *)
(***************************************************************************)
\* What EveryRecordAccounted says of the records left and those rejected.
Accounted ==
  /\ Distinct(Live) /\ Distinct(rejects)
  /\ Origins(Live) \cap Origins(rejects) = {}
  /\ ~Done("filter") /\ plan.policy # "skip" =>
       Origins(Live) \union Origins(rejects) = 0 .. Len(loaded) - 1

LEMMA AccountedKept ==
  ASSUME TypeOK, [Next]_vars, Accounted, rejects' = rejects,
         Distinct(Live) => Distinct(Live'), Origins(Live') \subseteq Origins(Live),
         \/ Origins(Live') = Origins(Live)
         \/ Done("filter")
         \/ plan.policy = "skip"
  PROVE  Accounted'
<1>1. plan' = plan /\ loaded' = loaded /\ (~Done("filter")' => ~Done("filter"))
  BY Progress DEF Kinds
<1>2. Distinct(Live') /\ Origins(Live') \cap Origins(rejects) = {}
  BY DEF Accounted
<1>3. ASSUME ~Done("filter"), plan.policy # "skip"
      PROVE  Origins(Live') \union Origins(rejects) = 0 .. Len(loaded) - 1
  BY <1>3 DEF Accounted
<1>4. Distinct(rejects') /\ Origins(rejects') = Origins(rejects)
  BY DEF Accounted
<1>5. Distinct(Live)' /\ Origins(Live)' = Origins(Live')
  BY <1>2 DEF Distinct, Origins
<1>6. Distinct(rejects)' /\ Origins(rejects)' = Origins(rejects)
  BY <1>4 DEF Distinct, Origins
<1> QED BY <1>1, <1>2, <1>3, <1>5, <1>6 DEF Accounted

LEMMA AccountedCollected ==
  ASSUME TypeOK, [Next]_vars, Accounted, CollectRecord
  PROVE  Accounted'
<1> DEFINE new == Rejection(Fault(Op, Current.value))
<1>1. plan' = plan /\ loaded' = loaded /\ (~Done("filter")' => ~Done("filter"))
  BY Progress DEF Kinds
<1>2. /\ Working /\ pos < Len(input) /\ Fails(Op, Current.value)
      /\ out' = out /\ pos' = pos + 1 /\ input' = input
      /\ rejects' = Append(rejects, new)
  BY DEF CollectRecord, AtFault, AtRecord
<1>3. new \in Reject /\ new.origin = Current.origin
  BY <1>2, FaultType, CurrentType, OpType DEF Rejection, Reject
<1> HIDE DEF new
<1>4. rejects \in Seq(Reject) /\ <<new>> \in Seq(Reject) /\ rejects' = rejects \o <<new>>
  BY <1>2, <1>3, AppendIsConcat DEF TypeOK
<1>5. Origins(<<new>>) = {Current.origin} /\ Distinct(<<new>>)
  BY <1>3, OriginsOfOne
<1>6. Origins(rejects \o <<new>>) = Origins(rejects) \union {Current.origin}
  <2> DEFINE one == <<new>>
  <2> HIDE DEF one
  <2>1. one \in Seq(Reject)
    BY <1>4 DEF one
  <2>2. Origins(rejects \o one) = Origins(rejects) \union Origins(one)
    BY <1>4, <2>1, OriginsConcat
  <2> QED BY <1>5, <2>2 DEF one
<1>7. /\ Distinct(Live') /\ Current.origin \notin Origins(Live')
      /\ Origins(Live) = Origins(Live') \union {Current.origin}
  BY <1>2, LiveDropped DEF Accounted
<1>8. Current.origin \notin Origins(rejects)
  BY <1>7 DEF Accounted
<1>9. Distinct(rejects \o <<new>>)
  <2>1. Origins(rejects) \cap Origins(<<new>>) = {}
    BY <1>5, <1>8
  <2> QED BY <1>4, <1>5, <2>1, DistinctConcat DEF Accounted
<1>10. Distinct(rejects)' /\ Origins(rejects)' = Origins(rejects) \union {Current.origin}
  BY <1>4, <1>6, <1>9 DEF Distinct, Origins
<1>11. Distinct(Live)' /\ Origins(Live)' = Origins(Live')
  BY <1>7 DEF Distinct, Origins
<1>12. Origins(Live') \cap (Origins(rejects) \union {Current.origin}) = {}
  BY <1>7 DEF Accounted
<1>13. ASSUME ~Done("filter"), plan.policy # "skip"
       PROVE  Origins(Live') \union (Origins(rejects) \union {Current.origin}) = 0 .. Len(loaded) - 1
  BY <1>7, <1>13 DEF Accounted
<1> QED BY <1>1, <1>10, <1>11, <1>12, <1>13 DEF Accounted

LEMMA AccountedStep ==
  TypeOK /\ AtStart /\ EveryRecordAccounted /\ [Next]_vars => EveryRecordAccounted'
<1> SUFFICES ASSUME TypeOK, AtStart, EveryRecordAccounted, [Next]_vars, ~Done("explode")'
             PROVE  Accounted'
  BY DEF EveryRecordAccounted, Accounted
<1>1. ~Done("explode")
  BY Progress DEF Kinds
<1>2. Accounted
  BY <1>1 DEF EveryRecordAccounted, Accounted
<1>3. ASSUME UNCHANGED <<input, pos, out, rejects>> PROVE Accounted'
  <2>1. Live' = Live
    BY <1>3 DEF Live
  <2> QED BY <1>2, <1>3, <2>1, AccountedKept
<1>4. CASE Validate
  BY <1>3, <1>4 DEF Validate
<1>5. CASE MapRecord
  <2>1. rejects' = rejects
    BY <1>5 DEF MapRecord, Produce
  <2> QED BY <1>2, <1>5, <2>1, LiveMapped, AccountedKept
<1>6. CASE FilterRecord
  <2>1. rejects' = rejects /\ Done("filter")
    BY <1>6, OpDone DEF FilterRecord, AtRecord, Produce
  <2> QED BY <1>2, <1>6, <2>1, LiveFiltered, AccountedKept
<1>7. CASE ExplodeRecord
  <2>1. Done("explode")
    BY <1>7, OpDone DEF ExplodeRecord, AtRecord
  <2> QED BY <1>1, <2>1
<1>8. CASE SkipRecord
  <2>1. pos < Len(input) /\ out' = out /\ pos' = pos + 1 /\ input' = input /\ rejects' = rejects
    BY <1>8 DEF SkipRecord, AtFault, AtRecord
  <2>2. plan.policy = "skip"
    BY <1>8 DEF SkipRecord, AtFault
  <2>3. (Distinct(Live) => Distinct(Live')) /\ Origins(Live') \subseteq Origins(Live)
    BY <2>1, LiveDropped
  <2> QED BY <1>2, <2>1, <2>2, <2>3, AccountedKept
<1>9. CASE CollectRecord
  BY <1>2, <1>9, AccountedCollected
<1>10. CASE Abort
  BY <1>3, <1>10 DEF Abort
<1>11. CASE SortRecords
  <2>1. rejects' = rejects
    BY <1>11 DEF SortRecords
  <2> QED BY <1>2, <1>11, <2>1, LiveSorted, AccountedKept
<1>12. CASE NextOp
  <2>1. rejects' = rejects
    BY <1>12 DEF NextOp
  <2> QED BY <1>2, <1>12, <2>1, LivePassedOn, AccountedKept
<1>13. CASE Finish
  BY <1>3, <1>13 DEF Finish
<1>14. CASE UNCHANGED vars
  BY <1>3, <1>14 DEF vars
<1> QED
  BY <1>4, <1>5, <1>6, <1>7, <1>8, <1>9, <1>10, <1>11, <1>12, <1>13, <1>14 DEF Next

(***************************************************************************)
(* Until an explode, no execution doubles a record, and none loses one but *)
(* to a filter, a rejection or the "skip" policy.                          *)
(***************************************************************************)
THEOREM RecordsAccounted == Spec => []EveryRecordAccounted
<1>1. Init => EveryRecordAccounted
  <2> SUFFICES ASSUME Init PROVE EveryRecordAccounted
    OBVIOUS
  <2>1. Origins(rejects) = {} /\ Distinct(rejects)
    BY OriginsOfNone DEF Init
  <2> QED BY <2>1, LoadedOrigins DEF EveryRecordAccounted
<1> QED BY <1>1, TypeCorrect, AtStartAlways, AccountedStep, PTL DEF Spec

-----------------------------------------------------------------------------
(***************************************************************************)
(* FlattenSeq is defined by recursion on its length.  That the function    *)
(* it chooses exists, and that those of two lengths agree, follows by      *)
(* least counterexample.                                                   *)
(***************************************************************************)
Folds(f, seqs, n) ==
  f = [i \in 1 .. n |-> IF i = 1 THEN seqs[i] ELSE f[i - 1] \o seqs[i]]

Agree(f, g, n) == \A i \in 1 .. n : f[i] = g[i]

LEMMA FoldExists ==
  ASSUME NEW seqs, NEW n \in Nat
  PROVE  \E f : Folds(f, seqs, n)
<1> DEFINE T == {m \in Nat : ~\E f : Folds(f, seqs, m)}
<1> SUFFICES ASSUME T # {} PROVE FALSE
  OBVIOUS
<1>1. PICK m \in T : \A k \in T : m <= k
  <2>1. T \in SUBSET Nat
    OBVIOUS
  <2> HIDE DEF T
  <2> QED BY <2>1, LeastIndex
<1>2. m # 0
  <2>1. ASSUME m = 0 PROVE FALSE
    <3> DEFINE g == [i \in 1 .. 0 |-> 0]
    <3>1. Folds(g, seqs, 0)
      <4>1. 1 .. 0 = {}
        OBVIOUS
      <4> QED BY <4>1 DEF Folds
    <3> QED BY <2>1, <3>1
  <2> QED BY <2>1
<1>3. m - 1 \in Nat /\ m - 1 \notin T
  BY <1>1, <1>2
<1>4. PICK g : Folds(g, seqs, m - 1)
  BY <1>3
<1> DEFINE last == IF m = 1 THEN seqs[m] ELSE g[m - 1] \o seqs[m]
           h == [i \in 1 .. m |-> IF i = m THEN last ELSE g[i]]
<1>5. Folds(h, seqs, m)
  <2>1. ASSUME NEW i \in 1 .. m
        PROVE  h[i] = IF i = 1 THEN seqs[i] ELSE h[i - 1] \o seqs[i]
    <3>1. CASE i = m
      BY <1>2, <3>1
    <3>2. CASE i # m
      <4>1. i \in 1 .. m - 1 /\ h[i] = g[i]
        BY <3>2
      <4>2. g[i] = IF i = 1 THEN seqs[i] ELSE g[i - 1] \o seqs[i]
        BY <1>4, <4>1 DEF Folds
      <4>3. i # 1 => i - 1 \in 1 .. m /\ i - 1 # m /\ h[i - 1] = g[i - 1]
        BY <4>1
      <4> QED BY <4>1, <4>2, <4>3
    <3> QED BY <3>1, <3>2
  <2> HIDE DEF last
  <2>2. h = [i \in 1 .. m |-> IF i = 1 THEN seqs[i] ELSE h[i - 1] \o seqs[i]]
    BY <2>1
  <2> QED BY <2>2 DEF Folds
<1> QED BY <1>1, <1>5

LEMMA FoldsAgree ==
  ASSUME NEW seqs, NEW more, NEW n \in Nat, NEW m \in Nat, n <= m,
         Agree(more, seqs, n), NEW f, Folds(f, seqs, n), NEW g, Folds(g, more, m)
  PROVE  Agree(f, g, n)
<1> DEFINE T == {i \in 1 .. n : f[i] # g[i]}
<1> SUFFICES ASSUME T # {} PROVE FALSE
  BY DEF Agree
<1>1. PICK i \in T : \A k \in T : i <= k
  <2>1. T \in SUBSET Nat
    OBVIOUS
  <2> HIDE DEF T
  <2> QED BY <2>1, LeastIndex
<1>2. i \in 1 .. n /\ i \in 1 .. m
  OBVIOUS
<1>3. f[i] = IF i = 1 THEN seqs[i] ELSE f[i - 1] \o seqs[i]
  BY <1>2 DEF Folds
<1>4. g[i] = IF i = 1 THEN more[i] ELSE g[i - 1] \o more[i]
  BY <1>2 DEF Folds
<1>5. more[i] = seqs[i]
  BY <1>2 DEF Agree
<1>6. i # 1 => i - 1 \in 1 .. n /\ i - 1 \notin T
  BY <1>1, <1>2
<1> QED BY <1>2, <1>3, <1>4, <1>5, <1>6

LEMMA FlattenFolds ==
  ASSUME NEW seqs, Len(seqs) \in Nat \ {0}
  PROVE  \E f : Folds(f, seqs, Len(seqs)) /\ FlattenSeq(seqs) = f[Len(seqs)]
<1> DEFINE f == CHOOSE g : Folds(g, seqs, Len(seqs))
<1>1. Folds(f, seqs, Len(seqs))
  BY FoldExists
<1>2. FlattenSeq(seqs) = f[Len(seqs)]
  BY DEF FlattenSeq, Folds
<1> QED BY <1>1, <1>2

\* What is flattened is a sequence, and one more part comes at its end.
LEMMA FlattenType ==
  ASSUME NEW S, NEW seqs \in Seq(Seq(S))
  PROVE  FlattenSeq(seqs) \in Seq(S)
<1>0. Len(seqs) \in Nat /\ \A i \in 1 .. Len(seqs) : seqs[i] \in Seq(S)
  BY LenProperties, ElementOfSeq
<1>1. CASE Len(seqs) = 0
  <2>1. seqs = <<>>
    BY <1>1, EmptySeq
  <2> QED BY <1>1, <2>1, EmptySeq DEF FlattenSeq
<1>2. CASE Len(seqs) # 0
  <2>1. PICK f : Folds(f, seqs, Len(seqs)) /\ FlattenSeq(seqs) = f[Len(seqs)]
    BY <1>0, <1>2, FlattenFolds
  <2> DEFINE T == {i \in 1 .. Len(seqs) : f[i] \notin Seq(S)}
  <2>2. CASE T = {}
    BY <1>0, <1>2, <2>1, <2>2
  <2>3. CASE T # {}
    <3>1. PICK i \in T : \A k \in T : i <= k
      <4>1. T \in SUBSET Nat
        OBVIOUS
      <4> HIDE DEF T
      <4> QED BY <2>3, <4>1, LeastIndex
    <3>2. f[i] = IF i = 1 THEN seqs[i] ELSE f[i - 1] \o seqs[i]
      BY <2>1, <3>1 DEF Folds
    <3>3. i # 1
      BY <1>0, <3>1, <3>2
    <3>4. i - 1 \in 1 .. Len(seqs) /\ i - 1 \notin T
      BY <1>0, <3>1, <3>3
    <3>5. f[i - 1] \in Seq(S) /\ seqs[i] \in Seq(S)
      BY <1>0, <3>1, <3>4
    <3>6. f[i - 1] \o seqs[i] \in Seq(S)
      BY <3>5, ConcatProperties
    <3> QED BY <3>1, <3>2, <3>3, <3>6
  <2> QED BY <2>2, <2>3
<1> QED BY <1>1, <1>2

LEMMA FlattenAppend ==
  ASSUME NEW S, NEW seqs \in Seq(Seq(S)), NEW s \in Seq(S)
  PROVE  FlattenSeq(Append(seqs, s)) = FlattenSeq(seqs) \o s
<1> DEFINE more == Append(seqs, s)
           n == Len(seqs)
<1>1. /\ n \in Nat /\ Len(more) = n + 1 /\ more[n + 1] = s
      /\ \A i \in 1 .. n : more[i] = seqs[i]
  BY LenProperties, AppendProperties
<1> HIDE DEF more
<1>2. PICK g : Folds(g, more, n + 1) /\ FlattenSeq(more) = g[n + 1]
  BY <1>1, FlattenFolds
<1>3. CASE n = 0
  <2>1. seqs = <<>>
    BY <1>3, EmptySeq
  <2>2. g[n + 1] = s
    BY <1>1, <1>2, <1>3 DEF Folds
  <2>3. FlattenSeq(seqs) = <<>>
    BY <1>3, <2>1 DEF FlattenSeq
  <2> QED BY <1>2, <2>2, <2>3, ConcatEmptySeq DEF more
<1>4. CASE n # 0
  <2>1. PICK f : Folds(f, seqs, n) /\ FlattenSeq(seqs) = f[n]
    BY <1>1, <1>4, FlattenFolds
  <2>2. f[n] = g[n]
    <3>1. n + 1 \in Nat /\ n <= n + 1
      BY <1>1
    <3> HIDE DEF n
    <3>2. Agree(more, seqs, n)
      BY <1>1 DEF Agree
    <3>3. Agree(f, g, n)
      BY <1>1, <1>2, <2>1, <3>1, <3>2, FoldsAgree
    <3> QED BY <1>1, <1>4, <3>3 DEF Agree
  <2>3. g[n + 1] = g[n] \o s
    <3>1. n + 1 \in 1 .. n + 1 /\ n + 1 # 1 /\ (n + 1) - 1 = n
      BY <1>1, <1>4
    <3> QED BY <1>1, <1>2, <3>1 DEF Folds
  <2> QED BY <1>2, <2>1, <2>2, <2>3 DEF more
<1> QED BY <1>3, <1>4

LEMMA FlattenNone == FlattenSeq(<<>>) = <<>>
BY DEF FlattenSeq

\* Parts given by their indices: the ones up to n, and one more.
LEMMA FlattenLonger ==
  ASSUME NEW S, NEW n \in Nat,
         NEW short \in [1 .. n -> Seq(S)], NEW long \in [1 .. n + 1 -> Seq(S)],
         Agree(short, long, n)
  PROVE  /\ FlattenSeq(short) \in Seq(S)
         /\ FlattenSeq(long) = FlattenSeq(short) \o long[n + 1]
<1>1. short \in Seq(Seq(S)) /\ Len(short) = n
  <2> DEFINE Pieces == Seq(S)
  <2> HIDE DEF Pieces
  <2>1. short \in [1 .. n -> Pieces]
    BY DEF Pieces
  <2>2. short \in Seq(Pieces)
    BY <2>1, SeqDef
  <2> USE DEF Pieces
  <2> QED BY <2>2, LenProperties
<1>2. long[n + 1] \in Seq(S)
  OBVIOUS
<1>3. long = Append(short, long[n + 1])
  <2> DEFINE more == Append(short, long[n + 1])
  <2>1. more \in Seq(Seq(S)) /\ Len(more) = n + 1
    BY <1>1, <1>2, AppendProperties
  <2>2. more = [i \in 1 .. n + 1 |-> more[i]]
    BY <2>1, LenProperties, SeqDef
  <2>3. \A i \in 1 .. n + 1 : more[i] = long[i]
    <3>1. \A i \in 1 .. n : more[i] = short[i]
      BY <1>1, <1>2, AppendProperties
    <3>2. more[n + 1] = long[n + 1]
      BY <1>1, <1>2, AppendProperties
    <3>3. \A i \in 1 .. n + 1 : i \in 1 .. n \/ i = n + 1
      OBVIOUS
    <3> QED BY <3>1, <3>2, <3>3 DEF Agree
  <2> HIDE DEF more
  <2>4. more = long
    BY <2>2, <2>3
  <2> QED BY <2>4 DEF more
<1> QED BY <1>1, <1>2, <1>3, FlattenType, FlattenAppend

-----------------------------------------------------------------------------
(***************************************************************************)
(* Pipeline speaks of the same operations.                                 *)
(***************************************************************************)
LEMMA SameStates ==
  /\ AsPipeline!Running = Running /\ AsPipeline!Ok = Ok
  /\ \A error : AsPipeline!Failed(error) = Failed(error)
BY DEF AsPipeline!Running, Running, AsPipeline!Ok, Ok, AsPipeline!Failed, Failed

LEMMA SameFails ==
  /\ AsPipeline!NoError = NoError
  /\ \A op, v : AsPipeline!Fails(op, v) <=> Fails(op, v)
BY DEF AsPipeline!Fails, Fails, AsPipeline!NoError, NoError

LEMMA SameFlattened ==
  ASSUME NEW seqs
  PROVE  AsPipeline!FlattenSeq(seqs) = FlattenSeq(seqs)
BY DEF AsPipeline!FlattenSeq, FlattenSeq

LEMMA SameShapes ==
  ASSUME NEW ops
  PROVE  /\ AsPipeline!WellShaped(ops) <=> WellShaped(ops)
         /\ AsPipeline!ShapeErrorOf(ops) = ShapeErrorOf(ops)
BY DEF AsPipeline!WellShaped, WellShaped, AsPipeline!ShapeErrorOf, ShapeErrorOf,
       AsPipeline!NoError, NoError, AsPipeline!EmptyPlan, EmptyPlan, AsPipeline!Failure, Failure

LEMMA SameOrders ==
  ASSUME NEW records
  PROVE  /\ AsPipeline!Orders(records) = Orders(records)
         /\ \A op, order : AsPipeline!SortedBy(op, records, order) <=> SortedBy(op, records, order)
         /\ \A order : AsPipeline!Rearranged(records, order) = Rearranged(records, order)
<1>1. AsPipeline!Orders(records) = Orders(records)
  BY DEF AsPipeline!Orders, Orders, AsPipeline!Injection, Injection,
         AsPipeline!IsInjective, IsInjective
<1>2. \A op, order : AsPipeline!SortedBy(op, records, order) <=> SortedBy(op, records, order)
  BY DEF AsPipeline!SortedBy, SortedBy
<1>3. \A order : AsPipeline!Rearranged(records, order) = Rearranged(records, order)
  BY DEF AsPipeline!Rearranged, Rearranged
<1> QED BY <1>1, <1>2, <1>3

LEMMA SameOp ==
  /\ AsPipeline!Op = Op
  /\ AsPipeline!Working <=> Working
  /\ \A i : i \in AsPipeline!Failing <=> i \in DOMAIN input /\ Fails(Op, input[i].value)
<1>1. AsPipeline!Op = Op
  BY DEF AsPipeline!Op, Op
<1>2. AsPipeline!Working <=> Working
  BY SameStates DEF AsPipeline!Working, Working
<1>3. \A i : i \in AsPipeline!Failing <=> i \in DOMAIN input /\ Fails(Op, input[i].value)
  BY <1>1, SameFails DEF AsPipeline!Failing
<1> QED BY <1>1, <1>2, <1>3

-----------------------------------------------------------------------------
(***************************************************************************)
(* What an operation makes of one record, and of the first n.              *)
(***************************************************************************)
Part(op, record) ==
  IF Fails(op, record.value) THEN <<>> ELSE AsPipeline!Results(op, record)

RejectPart(i) ==
  IF Fails(Op, input[i].value) /\ plan.policy = "collect" THEN <<AsPipeline!Rejection(i)>> ELSE <<>>

Parts(op, records, n) == [i \in 1 .. n |-> Part(op, records[i])]
RejectParts(n) == [i \in 1 .. n |-> RejectPart(i)]

LEMMA ResultsType ==
  ASSUME NEW op \in Ops, op.kind \in Kinds, op.kind # "sort",
         NEW r \in Record, ~Fails(op, r.value)
  PROVE  AsPipeline!Results(op, r) \in Seq(Record)
<1>0. r.value \in Values
  BY DEF Record
<1>1. CASE op.kind = "map"
  <2>1. ApplyRecord(op, r.value) \in Values
    BY <1>0, <1>1, OperationsAssumption
  <2>2. [r EXCEPT !.value = ApplyRecord(op, r.value)] \in Record
    BY <2>1, RevaluedType
  <2> QED BY <1>1, <2>2 DEF AsPipeline!Results
<1>2. CASE op.kind = "filter"
  BY <1>2 DEF AsPipeline!Results
<1>3. CASE op.kind = "explode"
  <2> DEFINE items == Items(op, r.value)
             made  == [i \in DOMAIN items |-> [r EXCEPT !.value = items[i]]]
  <2>1. items \in Seq(Values)
    BY <1>0, <1>3, OperationsAssumption
  <2>2. AsPipeline!Results(op, r) = made
    BY <1>3 DEF AsPipeline!Results
  <2> HIDE DEF items
  <2>3. Len(items) \in Nat /\ DOMAIN items = 1 .. Len(items)
    BY <2>1, LenProperties
  <2>4. \A i \in DOMAIN items : [r EXCEPT !.value = items[i]] \in Record
    BY <2>1, <2>3, ElementOfSeq, RevaluedType
  <2>5. made \in [1 .. Len(items) -> Record]
    BY <2>3, <2>4
  <2>6. made \in Seq(Record)
    BY <2>3, <2>5, SeqDef
  <2> QED BY <2>2, <2>6
<1> QED BY <1>1, <1>2, <1>3 DEF Kinds

LEMMA PartType ==
  ASSUME TypeOK, Working, Op.kind # "sort", NEW i \in 1 .. Len(input)
  PROVE  Part(Op, input[i]) \in Seq(Record) /\ RejectPart(i) \in Seq(Reject)
<1>1. input[i] \in Record /\ input[i].value \in Values /\ input[i].origin \in Nat
  <2>1. input[i] \in Record
    BY ElementOfSeq DEF TypeOK
  <2> QED BY <2>1 DEF Record
<1>2. Op \in Ops /\ Op.kind \in Kinds /\ step \in Nat
  BY OpType, PlaceType
<1>3. Part(Op, input[i]) \in Seq(Record)
  BY <1>1, <1>2, ResultsType, EmptySeq DEF Part
<1>4. CASE Fails(Op, input[i].value) /\ plan.policy = "collect"
  <2>1. Fault(Op, input[i].value) \in Errors
    BY <1>1, <1>2, <1>4, OperationsAssumption DEF Fails
  <2>2. i - 1 \in Nat
    OBVIOUS
  <2>3. AsPipeline!Rejection(i) \in Reject
    BY <1>1, <1>2, <2>1, <2>2 DEF AsPipeline!Rejection, AsPipeline!Op, Op, Reject
  <2> QED BY <1>3, <1>4, <2>3 DEF RejectPart
<1>5. CASE ~(Fails(Op, input[i].value) /\ plan.policy = "collect")
  BY <1>3, <1>5, EmptySeq DEF RejectPart
<1> QED BY <1>3, <1>4, <1>5

\* One record more.
LEMMA PassLonger ==
  ASSUME TypeOK, Working, Op.kind # "sort", NEW n \in Nat, n < Len(input)
  PROVE  /\ FlattenSeq(Parts(Op, input, n)) \in Seq(Record)
         /\ FlattenSeq(Parts(Op, input, n + 1)) =
              FlattenSeq(Parts(Op, input, n)) \o Part(Op, input[n + 1])
         /\ FlattenSeq(RejectParts(n)) \in Seq(Reject)
         /\ FlattenSeq(RejectParts(n + 1)) = FlattenSeq(RejectParts(n)) \o RejectPart(n + 1)
<1>0. n + 1 \in 1 .. n + 1 /\ \A i \in 1 .. n + 1 : i \in 1 .. Len(input)
  BY LenProperties DEF TypeOK
<1>1. \A i \in 1 .. n : i \in 1 .. n + 1
  OBVIOUS
<1>2. /\ FlattenSeq(Parts(Op, input, n)) \in Seq(Record)
      /\ FlattenSeq(Parts(Op, input, n + 1)) =
           FlattenSeq(Parts(Op, input, n)) \o Part(Op, input[n + 1])
  <2> DEFINE short == Parts(Op, input, n)
             long  == Parts(Op, input, n + 1)
  <2>1. Agree(short, long, n) /\ long[n + 1] = Part(Op, input[n + 1])
    BY <1>0, <1>1 DEF Parts, Agree
  <2>2. short \in [1 .. n -> Seq(Record)] /\ long \in [1 .. n + 1 -> Seq(Record)]
    BY <1>0, <1>1, PartType DEF Parts
  <2> HIDE DEF short, long
  <2>3. FlattenSeq(short) \in Seq(Record) /\ FlattenSeq(long) = FlattenSeq(short) \o long[n + 1]
    BY <2>1, <2>2, FlattenLonger
  <2> QED BY <2>1, <2>3 DEF short, long
<1>3. /\ FlattenSeq(RejectParts(n)) \in Seq(Reject)
      /\ FlattenSeq(RejectParts(n + 1)) = FlattenSeq(RejectParts(n)) \o RejectPart(n + 1)
  <2> DEFINE short == RejectParts(n)
             long  == RejectParts(n + 1)
  <2>1. Agree(short, long, n) /\ long[n + 1] = RejectPart(n + 1)
    BY <1>0, <1>1 DEF RejectParts, Agree
  <2>2. short \in [1 .. n -> Seq(Reject)] /\ long \in [1 .. n + 1 -> Seq(Reject)]
    BY <1>0, <1>1, PartType DEF RejectParts
  <2> HIDE DEF short, long
  <2>3. FlattenSeq(short) \in Seq(Reject) /\ FlattenSeq(long) = FlattenSeq(short) \o long[n + 1]
    BY <2>1, <2>2, FlattenLonger
  <2> QED BY <2>1, <2>3 DEF short, long
<1> QED BY <1>2, <1>3

-----------------------------------------------------------------------------
(***************************************************************************)
(* The rejects of the operations that are done.                            *)
(***************************************************************************)
LEMMA BeforeType ==
  ASSUME NEW list \in Seq(Reject), NEW n
  PROVE  /\ Cardinality({i \in DOMAIN list : list[i].step < n}) \in 0 .. Len(list)
         /\ RejectsBefore(list, n) \in Seq(Reject)
<1> DEFINE settled == {i \in DOMAIN list : list[i].step < n}
           c == Cardinality(settled)
<1>1. Len(list) \in Nat /\ DOMAIN list = 1 .. Len(list)
  BY LenProperties
<1>2. IsFiniteSet(1 .. Len(list)) /\ Cardinality(1 .. Len(list)) = Len(list)
  BY <1>1, FS_Interval
<1>3. settled \in SUBSET (1 .. Len(list))
  BY <1>1
<1> HIDE DEF settled
<1>4. IsFiniteSet(settled) /\ c <= Len(list)
  BY <1>2, <1>3, FS_Subset
<1>5. c \in 0 .. Len(list)
  BY <1>1, <1>4, FS_CardinalityType
<1> HIDE DEF c
<1>6. \A i \in 1 .. c : list[i] \in Reject
  BY <1>1, <1>5, ElementOfSeq
<1>7. SubSeq(list, 1, c) \in Seq(Reject)
  BY <1>5, <1>6, SubSeqProperties
<1> QED BY <1>5, <1>7 DEF RejectsBefore, c, settled

LEMMA AllBefore ==
  ASSUME NEW list \in Seq(Reject), NEW n, \A i \in DOMAIN list : list[i].step < n
  PROVE  RejectsBefore(list, n) = list
<1>1. Len(list) \in Nat /\ DOMAIN list = 1 .. Len(list)
  BY LenProperties
<1>2. {i \in DOMAIN list : list[i].step < n} = 1 .. Len(list)
  BY <1>1
<1>3. Cardinality(1 .. Len(list)) = Len(list)
  BY ONLY <1>1, FS_Interval
<1> QED BY <1>2, <1>3, SubSeqFull DEF RejectsBefore

LEMMA BeforeAppend ==
  ASSUME NEW list \in Seq(Reject), NEW new \in Reject, NEW n, ~(new.step < n)
  PROVE  RejectsBefore(Append(list, new), n) = RejectsBefore(list, n)
<1> DEFINE more == Append(list, new)
           c == Cardinality({i \in DOMAIN list : list[i].step < n})
<1>1. Len(list) \in Nat /\ DOMAIN list = 1 .. Len(list) /\ c \in 0 .. Len(list)
  BY LenProperties, BeforeType
<1>2. /\ more \in Seq(Reject) /\ Len(more) = Len(list) + 1
      /\ \A i \in 1 .. Len(list) : more[i] = list[i]
      /\ more[Len(list) + 1] = new
  BY AppendProperties
<1> HIDE DEF more
<1>3. DOMAIN more = 1 .. Len(list) + 1
  BY <1>1, <1>2, LenProperties
<1>4. {i \in DOMAIN more : more[i].step < n} = {i \in DOMAIN list : list[i].step < n}
  BY <1>1, <1>2, <1>3
<1>5. SubSeq(more, 1, c) = SubSeq(list, 1, c)
  <2>1. \A i \in 1 .. c : list[i] \in Reject /\ more[i] \in Reject /\ more[i] = list[i]
    BY <1>1, <1>2, ElementOfSeq
  <2> HIDE DEF c
  <2> DEFINE l == SubSeq(list, 1, c)
             m == SubSeq(more, 1, c)
  <2>2. l \in Seq(Reject) /\ Len(l) = c /\ \A i \in 1 .. c : l[i] = list[i]
    BY <1>1, <2>1, SubSeqProperties
  <2>3. m \in Seq(Reject) /\ Len(m) = c /\ \A i \in 1 .. c : m[i] = more[i]
    BY <1>1, <2>1, SubSeqProperties
  <2> HIDE DEF l, m
  <2>4. l = m
    BY <2>1, <2>2, <2>3, SeqEqual
  <2> QED BY <2>4 DEF l, m
<1> QED BY <1>4, <1>5 DEF RejectsBefore, more, c

\* RejectsBefore is what its name says: the list being in order, it holds the
\* rejects of the operations before n, and no other.
LEMMA BeforeAreFirst ==
  ASSUME TypeOK, RejectsInOrder, NEW n \in Nat
  PROVE  \E c \in 0 .. Len(rejects) :
           /\ RejectsBefore(rejects, n) = SubSeq(rejects, 1, c)
           /\ \A i \in DOMAIN rejects : i <= c <=> rejects[i].step < n
<1> DEFINE settled == {i \in DOMAIN rejects : rejects[i].step < n}
           later == {i \in 1 .. Len(rejects) + 1 : i \notin settled}
<1>1. Len(rejects) \in Nat /\ DOMAIN rejects = 1 .. Len(rejects)
  BY LenProperties DEF TypeOK
<1>2. PICK l \in later : \A j \in later : l <= j
  <2>1. later \in SUBSET Nat
    OBVIOUS
  <2>2. Len(rejects) + 1 \in later
    BY <1>1
  <2> HIDE DEF later
  <2> QED BY <2>1, <2>2, LeastIndex
<1>3. l \in 1 .. Len(rejects) + 1 /\ l - 1 \in 0 .. Len(rejects)
  BY <1>1
<1>4. ASSUME NEW i \in 1 .. Len(rejects)
      PROVE  i <= l - 1 <=> rejects[i].step < n
  <2>1. CASE i < l
    <3>1. i \in 1 .. Len(rejects) + 1 /\ i \notin later
      BY <1>1, <1>2, <1>3, <2>1
    <3> QED BY <1>1, <1>3, <2>1, <3>1
  <2>2. CASE i = l
    BY <1>1, <1>2, <2>2
  <2>3. CASE l < i
    <3>1. l \in 1 .. Len(rejects) /\ ~(rejects[l].step < n)
      BY <1>1, <1>2, <1>3, <2>3
    <3>2. rejects[i] \in Reject /\ rejects[l] \in Reject
      BY <1>1, <3>1, ElementOfSeq DEF TypeOK
    <3>3. Earlier(rejects[l].step, rejects[l].index, rejects[i].step, rejects[i].index)
      BY <1>1, <2>3, <3>1 DEF RejectsInOrder
    <3>4. ~(rejects[i].step < n)
      BY <3>1, <3>2, <3>3 DEF Earlier, Reject
    <3> QED BY <1>3, <2>3, <3>4
  <2> QED BY <1>3, <2>1, <2>2, <2>3
<1>5. settled = 1 .. l - 1
  BY <1>1, <1>3, <1>4
<1>6. Cardinality(1 .. l - 1) = l - 1
  <2>1. 1 \in Int /\ l - 1 \in Int /\ (1 > l - 1 => l - 1 = 0)
    BY <1>1, <1>3
  <2> QED BY ONLY <1>3, <2>1, FS_Interval
<1>7. RejectsBefore(rejects, n) = SubSeq(rejects, 1, l - 1)
  BY <1>5, <1>6 DEF RejectsBefore
<1> QED BY <1>1, <1>3, <1>4, <1>7

\* No reject of an operation comes before its first record.
LEMMA NoneAtStart ==
  ASSUME TypeOK, RejectsInOrder, pos = 0
  PROVE  RejectsBefore(rejects, step) = rejects
<1>1. ASSUME NEW i \in DOMAIN rejects PROVE rejects[i].step < step
  <2>1. rejects[i] \in Reject
    BY <1>1, ElementOfSeq, LenProperties DEF TypeOK
  <2> QED BY <1>1, <2>1 DEF RejectsInOrder, Earlier, Reject
<1> QED BY <1>1, AllBefore DEF TypeOK

\* All of them come before the operation after it.
LEMMA AllBeforeNext ==
  ASSUME TypeOK, RejectsInOrder
  PROVE  RejectsBefore(rejects, step + 1) = rejects
<1>1. ASSUME NEW i \in DOMAIN rejects PROVE rejects[i].step < step + 1
  <2>1. rejects[i] \in Reject /\ step \in Nat
    BY <1>1, ElementOfSeq, LenProperties, PlaceType DEF TypeOK
  <2> QED BY <1>1, <2>1 DEF RejectsInOrder, Earlier, Reject
<1> QED BY <1>1, AllBefore DEF TypeOK

-----------------------------------------------------------------------------
(***************************************************************************)
(* The invariant of the loops: what was produced and rejected since the    *)
(* operation began is what Pipeline says of the records looked at, and     *)
(* none of these failed where a failure ends the execution.                *)
(***************************************************************************)
PassUnderWay ==
  Working /\ Op.kind # "sort" =>
    /\ AsPipeline!Strict => \A i \in 1 .. pos : ~Fails(Op, input[i].value)
    /\ out = FlattenSeq(Parts(Op, input, pos))
    /\ rejects = RejectsBefore(rejects, step) \o FlattenSeq(RejectParts(pos))

\* At the first record there is nothing to add up.
LEMMA PassStarts ==
  ASSUME TypeOK', RejectsInOrder', pos' = 0, out' = <<>>
  PROVE  PassUnderWay'
<1>1. RejectsBefore(rejects', step') = rejects'
  <2>1. ASSUME NEW i \in DOMAIN rejects' PROVE rejects'[i].step < step'
    <3>1. rejects'[i] \in Reject
      BY <2>1, ElementOfSeq, LenProperties DEF TypeOK
    <3> QED BY <2>1, <3>1 DEF RejectsInOrder, Earlier, Reject
  <2> QED BY <2>1, AllBefore DEF TypeOK
<1>2. 1 .. 0 = {}
  OBVIOUS
<1>3. FlattenSeq(Parts(Op', input', 0)) = <<>> /\ FlattenSeq(RejectParts(0)') = <<>>
  BY <1>2, FlattenNone DEF Parts, RejectParts
<1>4. rejects' = rejects' \o <<>>
  BY ConcatEmptySeq DEF TypeOK
<1>5. RejectParts(pos)' = RejectParts(0)'
  BY DEF RejectParts
<1>6. \A i \in 1 .. pos' : FALSE
  BY <1>2
<1> QED BY <1>1, <1>3, <1>4, <1>5, <1>6 DEF PassUnderWay

\* Every step of a loop adds what the record it looks at becomes.
LEMMA PassGoesOn ==
  ASSUME TypeOK, PassUnderWay, Working, Op.kind # "sort", pos < Len(input),
         UNCHANGED <<plan, step, input, status>>, pos' = pos + 1,
         AsPipeline!Strict => ~Fails(Op, Current.value),
         out' = out \o Part(Op, Current),
         rejects' = rejects \o RejectPart(pos + 1)
  PROVE  /\ PassUnderWay'
         /\ RejectsBefore(rejects', step') = RejectsBefore(rejects, step)
<1>0. pos \in Nat /\ step \in Nat /\ Current = input[pos + 1] /\ pos + 1 \in 1 .. Len(input)
  BY PlaceType, CurrentType DEF Current
<1>1. Op' = Op /\ RejectParts(pos)' = RejectParts(pos + 1)
  BY DEF Op, RejectParts, RejectPart, AsPipeline!Rejection, AsPipeline!Op
<1>2. out' = FlattenSeq(Parts(Op, input, pos + 1))
  BY <1>0, PassLonger DEF PassUnderWay
<1>3. RejectsBefore(rejects', step) = RejectsBefore(rejects, step)
  <2>1. CASE Fails(Op, Current.value) /\ plan.policy = "collect"
    <3> DEFINE new == AsPipeline!Rejection(pos + 1)
    <3>1. rejects' = rejects \o <<new>> /\ RejectPart(pos + 1) = <<new>>
      BY <1>0, <2>1 DEF RejectPart
    <3>2. <<new>> \in Seq(Reject) /\ new.step = step
      BY <1>0, <3>1, PartType DEF AsPipeline!Rejection
    <3> HIDE DEF new
    <3>3. new \in Reject /\ ~(new.step < step)
      BY <1>0, <3>2
    <3>4. rejects' = Append(rejects, new) /\ rejects \in Seq(Reject)
      BY <3>1, <3>3, AppendIsConcat DEF TypeOK
    <3> QED BY <3>3, <3>4, BeforeAppend
  <2>2. CASE ~(Fails(Op, Current.value) /\ plan.policy = "collect")
    <3>1. RejectPart(pos + 1) = <<>>
      BY <1>0, <2>2 DEF RejectPart
    <3>2. rejects' = rejects
      BY <3>1, ConcatEmptySeq DEF TypeOK
    <3> QED BY <3>2
  <2> QED BY <2>1, <2>2
<1>4. rejects' = RejectsBefore(rejects, step) \o FlattenSeq(RejectParts(pos + 1))
  <2> DEFINE settled == RejectsBefore(rejects, step)
             before  == FlattenSeq(RejectParts(pos))
             new     == RejectPart(pos + 1)
  <2>1. settled \in Seq(Reject) /\ before \in Seq(Reject) /\ new \in Seq(Reject)
    BY <1>0, BeforeType, PassLonger, PartType DEF TypeOK
  <2>2. rejects = settled \o before /\ FlattenSeq(RejectParts(pos + 1)) = before \o new
    BY <1>0, PassLonger DEF PassUnderWay
  <2>3. rejects' = rejects \o new
    OBVIOUS
  <2> HIDE DEF settled, before, new
  <2>4. (settled \o before) \o new = settled \o (before \o new)
    BY <2>1, ConcatAssociative
  <2> QED BY <2>2, <2>3, <2>4 DEF settled
<1>5. ASSUME AsPipeline!Strict, NEW i \in 1 .. pos + 1 PROVE ~Fails(Op, input[i].value)
  <2>1. i \in 1 .. pos \/ i = pos + 1
    BY <1>0
  <2> QED BY <1>0, <1>5, <2>1 DEF PassUnderWay
<1>6. AsPipeline!Strict' <=> AsPipeline!Strict
  BY DEF AsPipeline!Strict, AsPipeline!Op
<1> QED BY <1>1, <1>2, <1>3, <1>4, <1>5, <1>6 DEF PassUnderWay

LEMMA Stutters ==
  ASSUME UNCHANGED <<plan, step, input, status>>,
         RejectsBefore(rejects', step') = RejectsBefore(rejects, step)
  PROVE  UNCHANGED AsPipeline!vars
BY DEF AsPipeline!vars

\* A record the operation succeeds on.
LEMMA PassProduces ==
  ASSUME TypeOK, PassUnderWay, Working, Op.kind # "sort", pos < Len(input),
         Produce(AsPipeline!Results(Op, Current))
  PROVE  PassUnderWay' /\ UNCHANGED AsPipeline!vars
<1>1. ~Fails(Op, Current.value) /\ Current = input[pos + 1]
  BY DEF Produce, Current
<1>2. Part(Op, Current) = AsPipeline!Results(Op, Current) /\ RejectPart(pos + 1) = <<>>
  BY <1>1 DEF Part, RejectPart
<1>3. rejects' = rejects \o RejectPart(pos + 1)
  BY <1>2, ConcatEmptySeq DEF Produce, TypeOK
<1>4. /\ UNCHANGED <<plan, step, input, status>> /\ pos' = pos + 1
      /\ out' = out \o Part(Op, Current)
  BY <1>2 DEF Produce
<1> QED BY <1>1, <1>3, <1>4, PassGoesOn, Stutters

\* A record that fails where failures are skipped or collected.
LEMMA PassRejects ==
  ASSUME TypeOK, PassUnderWay, SkipRecord \/ CollectRecord
  PROVE  PassUnderWay' /\ UNCHANGED AsPipeline!vars
<1>1. /\ Working /\ Op.kind \in {"map", "filter"} /\ pos < Len(input)
      /\ Fails(Op, Current.value) /\ plan.policy \in {"skip", "collect"}
      /\ UNCHANGED <<plan, step, input, status>> /\ pos' = pos + 1 /\ out' = out
  BY DEF SkipRecord, CollectRecord, AtFault, AtRecord
<1>2. ~AsPipeline!Strict
  BY <1>1 DEF AsPipeline!Strict, AsPipeline!Op, Op
<1>3. out' = out \o Part(Op, Current)
  BY <1>1, ConcatEmptySeq DEF Part, TypeOK
<1>4. Current = input[pos + 1] /\ (pos + 1) - 1 = pos
  BY PlaceType DEF Current
<1>5. rejects' = rejects \o RejectPart(pos + 1)
  <2>1. CASE SkipRecord
    <3>1. RejectPart(pos + 1) = <<>>
      BY <2>1 DEF SkipRecord, AtFault, RejectPart
    <3> QED BY <2>1, <3>1, ConcatEmptySeq DEF SkipRecord, TypeOK
  <2>2. CASE CollectRecord
    <3> DEFINE new == Rejection(Fault(Op, Current.value))
    <3>1. AsPipeline!Rejection(pos + 1) = new
      BY <1>4 DEF AsPipeline!Rejection, AsPipeline!Op, Op, Rejection
    <3>2. plan.policy = "collect" /\ rejects' = Append(rejects, new)
      BY <2>2 DEF CollectRecord, AtFault
    <3>3. new \in Reject
      BY <1>1, FaultType, CurrentType, OpType DEF Rejection, Reject
    <3> HIDE DEF new
    <3>4. RejectPart(pos + 1) = <<new>>
      BY <1>1, <1>4, <3>1, <3>2 DEF RejectPart
    <3> QED BY <3>2, <3>3, <3>4, AppendIsConcat DEF TypeOK
  <2> QED BY <2>1, <2>2
<1> QED BY <1>1, <1>2, <1>3, <1>5, PassGoesOn, Stutters

LEMMA NotWorking ==
  ASSUME status' # Running
  PROVE  PassUnderWay'
BY DEF PassUnderWay, Working

LEMMA OthersEnd == Ok # Running /\ \A error : Failed(error) # Running
<1>1. Running.state = "running" /\ Ok.state = "ok" /\ \A error : Failed(error).state = "failed"
  BY DEF Running, Ok, Failed
<1> QED BY <1>1

\* The first failure ends the execution with its error.
LEMMA PassAborts ==
  ASSUME TypeOK, PassUnderWay, Abort
  PROVE  PassUnderWay' /\ AsPipeline!Abort
<1>1. /\ Working /\ Op.kind # "sort" /\ pos < Len(input) /\ Fails(Op, Current.value)
      /\ AsPipeline!Strict
      /\ status' = Failed(Fault(Op, Current.value))
      /\ UNCHANGED <<plan, step, input, rejects>>
  BY DEF Abort, AtFault, AtRecord, AsPipeline!Strict, AsPipeline!Op, Op
<1>2. /\ pos \in Nat /\ pos + 1 \in DOMAIN input /\ DOMAIN input = 1 .. Len(input)
      /\ Len(input) \in Nat /\ Current = input[pos + 1]
  BY <1>1, RestType, CurrentType, LenProperties DEF TypeOK, Current
<1>3. pos + 1 \in AsPipeline!Failing
  BY <1>1, <1>2, SameOp
<1>4. ASSUME NEW j \in AsPipeline!Failing PROVE pos + 1 <= j
  <2>1. j \in DOMAIN input /\ Fails(Op, input[j].value)
    BY <1>4, SameOp
  <2>2. j \notin 1 .. pos
    BY <1>1, <2>1 DEF PassUnderWay
  <2> QED BY <1>2, <2>1, <2>2
<1>5. AsPipeline!Working /\ AsPipeline!Op = Op
  BY <1>1, SameOp
<1>6. AsPipeline!Abort
  BY <1>1, <1>2, <1>3, <1>4, <1>5, SameStates DEF AsPipeline!Abort
<1> QED BY <1>1, <1>6, NotWorking, OthersEnd

\* At its end, a loop has made of the input what Pipeline makes of it.
LEMMA PassEnds ==
  ASSUME TypeOK, RejectsInOrder, PassUnderWay, NextOp
  PROVE  AsPipeline!ApplyToAll
<1>1. /\ Working /\ Op.kind # "sort" /\ pos = Len(input)
      /\ step' = step + 1 /\ input' = out /\ UNCHANGED <<plan, rejects, status>>
  BY DEF NextOp
<1>2. DOMAIN input = 1 .. Len(input) /\ AsPipeline!Op = Op
  BY LenProperties, SameOp DEF TypeOK
<1>3. /\ AsPipeline!Strict => \A i \in DOMAIN input : ~Fails(Op, input[i].value)
      /\ out = FlattenSeq(Parts(Op, input, Len(input)))
      /\ rejects = RejectsBefore(rejects, step) \o FlattenSeq(RejectParts(Len(input)))
  BY <1>1, <1>2 DEF PassUnderWay
<1>4. \A i \in DOMAIN input : i \in AsPipeline!Failing <=> Fails(Op, input[i].value)
  BY SameOp
<1>5. Parts(Op, input, Len(input)) =
        [i \in DOMAIN input |->
           IF i \in AsPipeline!Failing THEN <<>> ELSE AsPipeline!Results(AsPipeline!Op, input[i])]
  BY <1>2, <1>4 DEF Parts, Part
<1>6. RejectParts(Len(input)) =
        [i \in DOMAIN input |->
           IF i \in AsPipeline!Failing /\ plan.policy = "collect"
           THEN <<AsPipeline!Rejection(i)>> ELSE <<>>]
  BY <1>2, <1>4 DEF RejectParts, RejectPart
<1>7. input' = AsPipeline!ResultsOfAll
  BY <1>1, <1>3, <1>5, SameFlattened DEF AsPipeline!ResultsOfAll
<1>8. rejects = RejectsBefore(rejects, step) \o AsPipeline!RejectionsOfAll
  BY <1>3, <1>6, SameFlattened DEF AsPipeline!RejectionsOfAll
<1>9. RejectsBefore(rejects', step') = rejects
  BY <1>1, AllBeforeNext
<1>10. AsPipeline!Strict => AsPipeline!Failing = {}
  BY <1>3, SameOp
<1>11. AsPipeline!Working
  BY <1>1, SameOp
<1> QED BY <1>1, <1>2, <1>7, <1>8, <1>9, <1>10, <1>11 DEF AsPipeline!ApplyToAll

\* The steps between two loops.
LEMMA ValidateRefines ==
  ASSUME TypeOK, AtStart, RejectsInOrder, Validate, TypeOK', AtStart', RejectsInOrder'
  PROVE  PassUnderWay' /\ AsPipeline!Validate
<1>1. pos = 0 /\ out = <<>> /\ step = 0
  BY PlanType DEF TypeOK, AtStart, Validate
<1>2. RejectsBefore(rejects', step') = RejectsBefore(rejects, step)
  BY <1>1, NoneAtStart, AllBeforeNext DEF Validate
<1>3. PassUnderWay'
  BY <1>1, PassStarts DEF Validate
<1>4. AsPipeline!Validate
  BY <1>2, SameStates, SameShapes DEF Validate, AsPipeline!Validate
<1> QED BY <1>3, <1>4

LEMMA SortRefines ==
  ASSUME TypeOK, AtStart, RejectsInOrder, SortRecords, TypeOK', RejectsInOrder'
  PROVE  PassUnderWay' /\ AsPipeline!SortAll
<1>1. pos = 0 /\ out = <<>>
  BY DEF AtStart, SortRecords
<1>2. RejectsBefore(rejects', step') = RejectsBefore(rejects, step)
  BY <1>1, NoneAtStart, AllBeforeNext DEF SortRecords
<1>3. PassUnderWay'
  BY <1>1, PassStarts DEF SortRecords
<1>4. AsPipeline!SortAll
  BY <1>2, SameOp, SameOrders DEF SortRecords, AsPipeline!SortAll
<1> QED BY <1>3, <1>4

LEMMA FinishRefines ==
  ASSUME Finish
  PROVE  PassUnderWay' /\ AsPipeline!Finish
<1>1. AsPipeline!Finish
  BY SameStates DEF Finish, AsPipeline!Finish
<1> QED BY <1>1, NotWorking, OthersEnd DEF Finish

LEMMA RefinesStep ==
  ASSUME TypeOK, AtStart, RejectsInOrder, PassUnderWay, [Next]_vars,
         TypeOK', AtStart', RejectsInOrder'
  PROVE  PassUnderWay' /\ [AsPipeline!Next]_(AsPipeline!vars)
<1>1. CASE Validate
  BY <1>1, ValidateRefines DEF AsPipeline!Next
<1>2. CASE MapRecord
  <2>1. Working /\ Op.kind = "map" /\ pos < Len(input)
    BY <1>2 DEF MapRecord, AtRecord
  <2>2. AsPipeline!Results(Op, Current) =
          <<[Current EXCEPT !.value = ApplyRecord(Op, Current.value)]>>
    BY <2>1 DEF AsPipeline!Results
  <2>3. Produce(AsPipeline!Results(Op, Current))
    BY <1>2, <2>2 DEF MapRecord
  <2> QED BY <2>1, <2>3, PassProduces
<1>3. CASE FilterRecord
  <2>1. Working /\ Op.kind = "filter" /\ pos < Len(input)
    BY <1>3 DEF FilterRecord, AtRecord
  <2>2. AsPipeline!Results(Op, Current) =
          IF Holds(Op, Current.value) THEN <<Current>> ELSE <<>>
    BY <2>1 DEF AsPipeline!Results
  <2>3. Produce(AsPipeline!Results(Op, Current))
    BY <1>3, <2>2 DEF FilterRecord
  <2> QED BY <2>1, <2>3, PassProduces
<1>4. CASE ExplodeRecord
  <2>1. Working /\ Op.kind = "explode" /\ pos < Len(input)
    BY <1>4 DEF ExplodeRecord, AtRecord
  <2>2. AsPipeline!Results(Op, Current) =
          [i \in DOMAIN Items(Op, Current.value) |->
             [Current EXCEPT !.value = Items(Op, Current.value)[i]]]
    BY <2>1 DEF AsPipeline!Results
  <2>3. Produce(AsPipeline!Results(Op, Current))
    BY <1>4, <2>2 DEF ExplodeRecord
  <2> QED BY <2>1, <2>3, PassProduces
<1>5. CASE SkipRecord \/ CollectRecord
  BY <1>5, PassRejects
<1>6. CASE Abort
  BY <1>6, PassAborts DEF AsPipeline!Next
<1>7. CASE SortRecords
  BY <1>7, SortRefines DEF AsPipeline!Next
<1>8. CASE NextOp
  <2>1. PassUnderWay'
    BY <1>8, PassStarts DEF NextOp
  <2>2. AsPipeline!ApplyToAll
    BY <1>8, PassEnds
  <2> QED BY <2>1, <2>2 DEF AsPipeline!Next
<1>9. CASE Finish
  BY <1>9, FinishRefines DEF AsPipeline!Next
<1>10. CASE UNCHANGED vars
  <2>1. UNCHANGED AsPipeline!vars
    BY <1>10, Stutters DEF vars
  <2>2. PassUnderWay'
    <3>1. /\ Working' = Working /\ Op' = Op /\ pos' = pos /\ out' = out /\ rejects' = rejects
          /\ step' = step /\ input' = input /\ RejectParts(pos)' = RejectParts(pos)
          /\ AsPipeline!Strict' = AsPipeline!Strict
      BY <1>10 DEF vars, Working, Op, RejectParts, RejectPart, AsPipeline!Rejection,
                   AsPipeline!Op, AsPipeline!Strict
    <3> QED BY <3>1 DEF PassUnderWay
  <2> QED BY <2>1, <2>2
<1> QED
  BY <1>1, <1>2, <1>3, <1>4, <1>5, <1>6, <1>7, <1>8, <1>9, <1>10 DEF Next

LEMMA RefinesInit ==
  ASSUME Init
  PROVE  PassUnderWay /\ AsPipeline!Init
<1>1. step = 0 /\ plan \in Plans /\ 0 \notin DOMAIN plan.ops
  BY PlanType DEF Init
<1>2. PassUnderWay
  BY <1>1 DEF PassUnderWay, Working
<1>3. RejectsBefore(rejects, step) = <<>>
  <2>1. <<>> \in Seq(Reject) /\ DOMAIN <<>> = {}
    BY EmptySeq
  <2> QED BY <2>1, AllBefore DEF Init
<1>4. input \in {AsPipeline!Loaded(values) : values \in Inputs}
  BY DEF Init, Loaded, AsPipeline!Loaded
<1> QED BY <1>1, <1>2, <1>3, <1>4, SameStates DEF Init, AsPipeline!Init

(***************************************************************************)
(* The loops of the executor, with their positions, policies and list of   *)
(* rejects, compute what Pipeline states of whole sequences: for every     *)
(* plan, policy and input, and whatever the operations do to a record, the *)
(* records between two operations are those Pipeline has there, the        *)
(* rejects of the operations done are its rejects, and an execution that   *)
(* fails does so with the error of the first record that fails.            *)
(***************************************************************************)
THEOREM ExecutorImplementsPipeline == Spec => RunsAsPipeline
<1>1. Init => PassUnderWay /\ AsPipeline!Init
  BY RefinesInit
<1>2. /\ TypeOK /\ AtStart /\ RejectsInOrder /\ PassUnderWay /\ [Next]_vars
      /\ TypeOK' /\ AtStart' /\ RejectsInOrder'
      => PassUnderWay' /\ [AsPipeline!Next]_(AsPipeline!vars)
  BY RefinesStep
<1> QED
  BY <1>1, <1>2, TypeCorrect, AtStartAlways, RejectsReported, PTL
  DEF Spec, RunsAsPipeline, AsPipeline!Spec


=============================================================================
