--------------------------- MODULE Server_proofs ----------------------------
(***************************************************************************)
(* What holds of the server for any number of calls, requests and results: *)
(* it uses the artifact store as the store's own specification says, so    *)
(* that the store's theorems hold of it, and artifacts read back as the    *)
(* clients were told.                                                      *)
(***************************************************************************)
EXTENDS Server, ArtifactStore_proofs, SequenceTheorems

-----------------------------------------------------------------------------
(* Formats: what was encoded is decoded to as many records.                *)
Readable(content, rows) ==
  /\ content.form \in FormatIds
  /\ \A d \in Decodings(content, content.form, "conservative") :
       ~IsError(d) /\ Len(d.rows) = RowsTold([content |-> content, rows |-> rows])

LEMMA SameLength ==
  ASSUME NEW s, IsList(s), NEW t, DOMAIN t = DOMAIN s, t = [i \in DOMAIN s |-> t[i]]
  PROVE  Len(t) = Len(s) /\ DOMAIN t = 1 .. Len(s) /\ Len(s) \in Nat
<1>1. s \in Seq(Range(s))
  BY DEF IsList
<1>2. DOMAIN s = 1 .. Len(s) /\ Len(s) \in Nat
  BY <1>1
<1>3. t \in Seq({t[i] : i \in DOMAIN s})
  BY <1>2
<1>4. DOMAIN t = 1 .. Len(t) /\ Len(t) \in Nat
  BY <1>3
<1> QED BY <1>2, <1>4

LEMMA JsonReadable ==
  ASSUME NEW records, IsList(records), NEW form \in {"json", "yaml"}
  PROVE  Readable(EncodeRecords(records, form), Len(records))
<1> DEFINE all     == AllSerialized(records)
           content == [form |-> form, value |-> Array(all)]
<1>1. EncodeRecords(records, form) = content
  BY DEF EncodeRecords, Delimited, Columnar
<1>2. Len(all) = Len(records)
  BY SameLength DEF AllSerialized
<1>3. Decodings(content, content.form, "conservative") = {Rows(all)}
  BY DEF Decodings, RecordsFromValue, Array, Delimited, Columnar
<1>4. RowsTold([content |-> content, rows |-> Len(records)]) = Len(records)
  BY DEF RowsTold, Columnar
<1>5. ~IsError(Rows(all)) /\ Rows(all).rows = all
  BY DEF IsError, Rows
<1>6. content.form \in FormatIds
  BY DEF FormatIds
<1> QED BY <1>1, <1>2, <1>3, <1>4, <1>5, <1>6 DEF Readable

LEMMA LinesReadable ==
  ASSUME NEW records, IsList(records)
  PROVE  Readable(EncodeRecords(records, "jsonl"), Len(records))
<1> DEFINE all     == AllSerialized(records)
           content == [form |-> "jsonl", values |-> all]
           read    == [i \in DOMAIN all |-> AsRecord(all[i])]
<1>1. EncodeRecords(records, "jsonl") = content
  BY DEF EncodeRecords, Delimited, Columnar
<1>2. Len(read) = Len(records)
  BY SameLength DEF AllSerialized
<1>3. Decodings(content, content.form, "conservative") = {Rows(read)}
  BY DEF Decodings, Delimited, Columnar
<1>4. RowsTold([content |-> content, rows |-> Len(records)]) = Len(records)
  BY DEF RowsTold, Columnar
<1>5. ~IsError(Rows(read)) /\ Rows(read).rows = read
  BY DEF IsError, Rows
<1>6. content.form \in FormatIds
  BY DEF FormatIds
<1> QED BY <1>1, <1>2, <1>3, <1>4, <1>5, <1>6 DEF Readable

LEMMA DelimitedReadable ==
  ASSUME NEW records, IsList(records), NEW form \in Delimited,
         ~IsError(EncodeRecords(records, form))
  PROVE  Readable(EncodeRecords(records, form), Len(records))
<1> DEFINE content == EncodeRecords(records, form)
           read    == DecodeDelimited(content, "conservative")
<1>1. content = EncodeDelimited(records, form)
  BY DEF EncodeRecords, Delimited, Columnar
<1>2. IsError(Error("transform", "csv_nested"))
  BY DEF IsError, Error
<1>3. content.form = form /\ DOMAIN content.rows = DOMAIN records
  <2> DEFINE columns == InOrder(Columns(records))
             header  == IF columns = <<>> THEN <<"">> ELSE columns
             fits    == \A i \in DOMAIN records :
                          records[i].type = "object"
                            /\ \A n \in Columns(records) : ~IsNested(Value(records[i], n))
             cells   == [i \in DOMAIN records |->
                           [k \in DOMAIN header |-> CellText(Value(records[i], header[k]))]]
             sheet   == [form |-> form, header |-> header, rows |-> cells]
  <2>1. content = IF fits THEN sheet ELSE Error("transform", "csv_nested")
    BY <1>1 DEF EncodeDelimited
  <2>2. DOMAIN cells = DOMAIN records
    OBVIOUS
  <2> HIDE DEF cells, header, fits, content
  <2>3. content = sheet
    BY <1>2, <2>1 DEF content
  <2> QED BY <2>2, <2>3
<1>4. Len(read) = Len(records)
  BY <1>3, SameLength DEF DecodeDelimited
<1>5. Decodings(content, content.form, "conservative") = {Rows(read)}
  BY <1>3 DEF Decodings, Delimited, Columnar
<1>6. RowsTold([content |-> content, rows |-> Len(records)]) = Len(records)
  BY <1>3 DEF RowsTold, Columnar, Delimited
<1>7. ~IsError(Rows(read)) /\ Rows(read).rows = read
  BY DEF IsError, Rows
<1>8. content.form \in FormatIds
  BY <1>3 DEF FormatIds
<1> QED BY <1>4, <1>5, <1>6, <1>7, <1>8 DEF Readable

LEMMA ColumnarReadable ==
  ASSUME NEW records, IsList(records), NEW form \in Columnar,
         ~IsError(EncodeRecords(records, form))
  PROVE  Readable(EncodeRecords(records, form), Len(records))
<1> DEFINE all     == AllSerialized(records)
           batch   == FirstBatch(all)
           content == EncodeRecords(records, form)
<1>1. content = EncodeColumnar(all, form)
  BY DEF EncodeRecords, Delimited, Columnar
<1>2. \A kind, code : IsError(Error(kind, code))
  BY DEF IsError, Error
<1>3. content = [form |-> form, values |-> [i \in DOMAIN batch |-> Row(batch[i], all)]]
  BY <1>1, <1>2 DEF EncodeColumnar
<1>4. Len(all) = Len(records) /\ DOMAIN all = 1 .. Len(records) /\ Len(records) \in Nat
  BY SameLength DEF AllSerialized
<1>5. all \in Seq({all[i] : i \in DOMAIN all})
  BY <1>4 DEF AllSerialized
<1> DEFINE size == IF Len(records) < BatchSize THEN Len(records) ELSE BatchSize
<1>6. batch \in Seq({all[i] : i \in DOMAIN all}) /\ Len(batch) = size
  BY <1>4, <1>5, BatchAssumption, SubSeqProperties DEF FirstBatch
<1>7. Len(content.values) = size
  <2>1. IsList(batch)
    BY <1>6 DEF IsList, Range
  <2> HIDE DEF batch, content
  <2>2. content.values = [i \in DOMAIN batch |-> Row(batch[i], all)]
    BY <1>3
  <2> QED BY <1>6, <2>1, <2>2, SameLength
<1>8. Decodings(content, content.form, "conservative") = {Rows(content.values)}
  BY <1>3 DEF Decodings, Delimited, Columnar
<1>9. RowsTold([content |-> content, rows |-> Len(records)]) = size
  BY <1>3, <1>4, BatchAssumption DEF RowsTold
<1>10. ~IsError(Rows(content.values)) /\ Rows(content.values).rows = content.values
  BY DEF IsError, Rows
<1>11. content.form \in FormatIds
  BY <1>3 DEF FormatIds
<1> QED BY <1>7, <1>8, <1>9, <1>10, <1>11 DEF Readable

\* Whatever becomes of a list of records in a format can be read again in it.
LEMMA EncodedReadable ==
  ASSUME NEW records, IsList(records), NEW form \in FormatIds,
         ~IsError(EncodeRecords(records, form))
  PROVE  Readable(EncodeRecords(records, form), Len(records))
<1>1. form \in {"json", "yaml"} \/ form = "jsonl" \/ form \in Delimited \/ form \in Columnar
  BY DEF FormatIds
<1> QED BY <1>1, JsonReadable, LinesReadable, DelimitedReadable, ColumnarReadable

-----------------------------------------------------------------------------
(* What may become of a request: an answer, or a result for the store that *)
(* fits into it and can be read again.                                     *)
Sound(outcome) ==
  /\ outcome.is \in {"failed", "report", "inline", "store"}
  /\ outcome.is = "store" =>
       outcome.content \in Fitting /\ Readable(outcome.content, outcome.rows)

LEMMA FailedSound == \A kind : Sound(Failed(kind))
BY DEF Sound, Failed

LEMMA PackSound ==
  ASSUME NEW content, NEW rows, Readable(content, rows)
  PROVE  Sound(Pack(content, rows))
<1>1. CASE Pack(content, rows) = Inline(rows)
  BY <1>1 DEF Sound, Inline
<1>2. CASE Pack(content, rows) = Failed("resource_limit")
  BY <1>2, FailedSound
<1>3. CASE Pack(content, rows) = ToStore(content, rows) /\ content \in Fitting
  BY <1>3 DEF Sound, ToStore
<1> QED BY <1>1, <1>2, <1>3 DEF Pack

LEMMA DeliveredSound ==
  ASSUME NEW request, request.op = "convert" => request.to \in FormatIds,
         NEW records, IsList(records)
  PROVE  Sound(Delivered(request, records))
<1> DEFINE encoded == EncodeRecords(records, FormatOf(request))
<1>1. FormatOf(request) \in FormatIds
  BY DEF FormatOf, FormatIds
<1>2. CASE IsError(encoded)
  BY <1>2, FailedSound DEF Delivered
<1>3. CASE ~IsError(encoded)
  <2>1. Readable(encoded, Len(records))
    BY <1>1, <1>3, EncodedReadable
  <2> HIDE DEF encoded
  <2>2. Sound(Pack(encoded, Len(records)))
    BY <2>1, PackSound
  <2> USE DEF encoded
  <2> QED BY <1>3, <2>2, FailedSound DEF Delivered
<1> QED BY <1>2, <1>3

LEMMA OperatedList ==
  ASSUME NEW op, NEW records, IsList(records), NEW made \in Operated(op, records), ~IsError(made)
  PROVE  IsList(made.rows)
<1>1. \A rows : Rows(rows).rows = rows
  BY DEF Rows
<1>2. IsError(Error("transform", "some"))
  BY DEF IsError, Error
<1>3. made = Rows(records) \/ \E result \in Results : made = Rows(result)
  BY <1>2 DEF Operated
<1> QED BY <1>1, <1>3, RequestsAssumption

LEMMA OutcomesSound ==
  ASSUME NEW request, request.op = "convert" => request.to \in FormatIds,
         NEW decodings, \A d \in decodings : IsError(d) \/ IsList(d.rows),
         NEW outcome \in Outcomes(request, decodings)
  PROVE  Sound(outcome)
<1>1. CASE \E kind : outcome = Failed(kind)
  BY <1>1, FailedSound
<1>2. CASE \E rows : outcome = Report(rows)
  BY <1>2 DEF Sound, Report
<1>3. CASE \E d \in decodings : ~IsError(d) /\
             \E made \in Operated(request.op, d.rows) :
               ~IsError(made) /\ outcome = Delivered(request, made.rows)
  BY <1>3, OperatedList, DeliveredSound
<1> QED BY <1>1, <1>2, <1>3 DEF Outcomes

LEMMA ResultsSound ==
  ASSUME NEW request \in Requests, request.op = "convert" => request.to \in FormatIds,
         request.source.from # "elsewhere", NEW parts \in SUBSET Whole,
         NEW outcome \in OutcomesOf[request][parts]
  PROVE  Sound(outcome)
<1> DEFINE bytes     == BytesOf(request.source)
           decodings == IF parts = Whole THEN Decoded(request.source, bytes) ELSE DecodedTorn
<1>1. OutcomesOf[request][parts] = Outcomes(request, decodings)
  BY DEF OutcomesOf
<1>2. \A d \in DecodedTorn : IsError(d) \/ IsList(d.rows)
  <2>1. IsError(Error("parse", "torn"))
    BY DEF IsError, Error
  <2>2. IsList(<<>>)
    BY DEF IsList
  <2>3. IsList(<<Misread>>)
    <3>1. Misread \in Range(<<Misread>>)
      BY DEF Range
    <3> HIDE DEF Misread
    <3> QED BY <3>1 DEF IsList
  <2> QED BY <2>1, <2>2, <2>3 DEF DecodedTorn, Rows
<1>3. \A d \in Decoded(request.source, bytes) : IsError(d) \/ IsList(d.rows)
  BY RequestsAssumption
<1> HIDE DEF decodings
<1>4. \A d \in decodings : IsError(d) \/ IsList(d.rows)
  BY <1>2, <1>3 DEF decodings
<1> QED BY <1>1, <1>4, OutcomesSound

-----------------------------------------------------------------------------
(* The tasks: what a handler waits for in the store, and that it deals     *)
(* there with requests that were received and with results that fit.       *)
Wanted(request) ==
  /\ request \in Requests
  /\ request.source.from = "artifact" => request.source.content \in Contents
  /\ request.op = "convert" => request.to \in FormatIds

Keepable(outcome) == outcome.content \in Fitting /\ Readable(outcome.content, outcome.rows)

TaskOK(call) ==
  /\ tasks[call].at \in {"load", "read"} => Wanted(tasks[call].request)
  /\ tasks[call].at = "read" => tasks[call].request.source.from = "artifact"
  /\ tasks[call].at \in {"store", "write", "answer"} => Keepable(tasks[call].outcome)
  /\ calls[call].at \in {"check", "read", "refused", "served"} => tasks[call].at = "read"
  /\ calls[call].at = "write" => tasks[call].at = "write"

Tasks ==
  /\ DOMAIN tasks = Calls /\ tasks = [call \in Calls |-> tasks[call]]
  /\ \A call \in Calls : TaskOK(call)
  /\ \A t \in told : Keepable(t)

\* What a task becomes when its outcome is known.
LEMMA EndsWell ==
  ASSUME NEW outcome, Sound(outcome)
  PROVE  /\ Ends(outcome).at \in {"none", "store"}
         /\ Ends(outcome).at = "store" =>
              Ends(outcome).outcome = outcome /\ Keepable(outcome)
BY DEF Sound, Ends, None, Keepable

\* A step of one call that becomes a state which is right for the new state
\* of its call in the store.
LEMMA TaskChanges ==
  ASSUME Tasks, NEW call \in Calls, NEW state, Task(call, state),
         \A other \in Calls \ {call} : calls'[other] = calls[other],
         TaskOK(call)', told' = told
  PROVE  Tasks'
<1>1. \A other \in Calls \ {call} : tasks'[other] = tasks[other]
  BY DEF Task, Tasks
<1>2. DOMAIN tasks' = Calls /\ tasks' = [c \in Calls |-> tasks'[c]]
  BY DEF Task, Tasks
<1>3. ASSUME NEW other \in Calls \ {call} PROVE TaskOK(other)'
  BY <1>1, <1>3 DEF TaskOK, Tasks
<1> QED BY <1>2, <1>3 DEF Tasks

LEMMA TaskNow ==
  ASSUME Tasks, NEW call \in Calls, NEW state, Task(call, state)
  PROVE  tasks'[call] = state
BY DEF Task, Tasks

\* A step of the store in which a call stays in its half of the store.
LEMMA StoreGoesOn ==
  ASSUME Tasks, TypeOK, NEW call \in Calls, NEW state, Becomes(call, state),
         \/ calls[call].at = "write" /\ state.at = "write"
         \/ /\ calls[call].at \in {"check", "read"}
            /\ state.at \in {"check", "read", "refused", "served"},
         UNCHANGED serverVars
  PROVE  Tasks'
<1>1. calls'[call] = state /\ \A other \in Calls \ {call} : calls'[other] = calls[other]
  BY DEF Becomes, TypeOK
<1>2. ASSUME NEW other \in Calls PROVE TaskOK(other)'
  <2>1. TaskOK(other) /\ tasks'[other] = tasks[other]
    BY DEF Tasks, serverVars
  <2>2. CASE other = call
    BY <1>1, <2>1, <2>2 DEF TaskOK
  <2>3. CASE other # call
    BY <1>1, <2>1, <2>3 DEF TaskOK
  <2> QED BY <2>2, <2>3
<1> QED BY <1>2 DEF Tasks, serverVars

-----------------------------------------------------------------------------
(* Each step of the server is one of the store, or leaves it alone.        *)
LEMMA StoreStep ==
  ASSUME NEW call \in Calls,
         \/ \E content \in Contents : OpenFile(call, content) \/ StatFile(call, content)
         \/ WritePart(call) \/ WriteFails(call) \/ TellExpiry(call)
         \/ CheckExpiry(call) \/ ReadFile(call) \/ Return(call)
  PROVE  Next
BY DEF Next

LEMMA ReceiveKeeps ==
  ASSUME Tasks, NEW call \in Calls, NEW request \in Requests, Receive(call, request)
  PROVE  UNCHANGED vars /\ Tasks'
<1>1. UNCHANGED vars /\ UNCHANGED calls /\ told' = told
  BY DEF Receive, vars, Keeps
<1>2. TaskOK(call) /\ tasks[call] = None
  BY DEF Tasks, Receive
<1>3. CASE Task(call, Loading(request)) /\ (request.op = "convert" => request.to \in FormatIds)
  <2>1. Wanted(request)
    BY <1>3, StoreAssumption DEF Wanted, Receive, Tasks, Keepable
  <2>2. tasks'[call] = Loading(request)
    BY <1>3, TaskNow
  <2>3. TaskOK(call)'
    BY <1>1, <1>2, <2>1, <2>2 DEF TaskOK, Loading, None, Wanted
  <2> QED BY <1>1, <1>3, <2>3, TaskChanges
<1>4. CASE \E kind : Task(call, Ends(Failed(kind)))
  <2>1. PICK kind : Task(call, Ends(Failed(kind)))
    BY <1>4
  <2>2. Ends(Failed(kind)) = None
    BY DEF Ends, Failed
  <2>3. tasks'[call] = None
    BY <2>1, <2>2, TaskNow
  <2>4. TaskOK(call)'
    BY <1>1, <1>2, <2>3 DEF TaskOK, None
  <2> QED BY <1>1, <2>1, <2>4, TaskChanges
<1> QED BY <1>1, <1>3, <1>4 DEF Receive

\* A task that ends while its call in the store is idle.
LEMMA EndsOutside ==
  ASSUME Tasks, NEW call \in Calls, NEW outcome, Sound(outcome), Task(call, Ends(outcome)),
         calls'[call].at \notin {"write", "check", "read", "refused", "served"},
         \A other \in Calls \ {call} : calls'[other] = calls[other], told' = told
  PROVE  Tasks'
<1>1. tasks'[call] = Ends(outcome)
  BY TaskNow
<1>2. TaskOK(call)'
  BY <1>1, EndsWell DEF TaskOK
<1> QED BY <1>2, TaskChanges

LEMMA RunInlineKeeps ==
  ASSUME Tasks, NEW call \in Calls, RunInline(call)
  PROVE  UNCHANGED vars /\ Tasks'
<1>1. PICK outcome \in OutcomesOf[tasks[call].request][Whole] : Task(call, Ends(outcome))
  BY DEF RunInline
<1>2. TaskOK(call) /\ tasks[call].at = "load" /\ tasks[call].request.source.from = "inline"
  BY DEF Tasks, RunInline
<1>3. Sound(outcome)
  BY <1>2, ResultsSound DEF TaskOK, Wanted
<1>4. calls[call].at \notin {"write", "check", "read", "refused", "served"}
  BY <1>2 DEF TaskOK
<1>5. UNCHANGED vars /\ UNCHANGED calls /\ told' = told
  BY DEF RunInline, vars, Keeps
<1> QED BY <1>1, <1>3, <1>4, <1>5, EndsOutside

LEMMA RefuseAddressKeeps ==
  ASSUME Tasks, NEW call \in Calls, RefuseAddress(call)
  PROVE  UNCHANGED vars /\ Tasks'
<1>1. Task(call, Ends(Failed("security"))) /\ Sound(Failed("security"))
  BY FailedSound DEF RefuseAddress
<1>2. calls[call].at \notin {"write", "check", "read", "refused", "served"}
  BY DEF TaskOK, Tasks, RefuseAddress
<1>3. UNCHANGED vars /\ UNCHANGED calls /\ told' = told
  BY DEF RefuseAddress, vars, Keeps
<1> QED BY <1>1, <1>2, <1>3, EndsOutside

LEMMA FindArtifactKeeps ==
  ASSUME Tasks, TypeOK, NEW call \in Calls, FindArtifact(call)
  PROVE  Next /\ Tasks'
<1> DEFINE content == tasks[call].request.source.content
           state   == [at |-> "read", request |-> tasks[call].request]
<1>1. TaskOK(call) /\ tasks[call].at = "load" /\ tasks[call].request.source.from = "artifact"
  BY DEF Tasks, FindArtifact
<1>2. StatFile(call, content) /\ Task(call, state) /\ told' = told
  BY DEF FindArtifact, Keeps
<1>3. content \in Contents
  BY <1>1 DEF TaskOK, Wanted
<1>4. Next
  BY <1>2, <1>3, StoreStep
<1>5. \E s : Becomes(call, s) /\ s.at \in {"check", "refused"}
  BY <1>2 DEF StatFile, Checking, Refused
<1>6. calls'[call].at \in {"check", "refused"} /\ \A other \in Calls \ {call} : calls'[other] = calls[other]
  BY <1>5 DEF Becomes, TypeOK
<1>7. tasks'[call] = state
  BY <1>2, TaskNow
<1>8. TaskOK(call)'
  BY <1>1, <1>6, <1>7 DEF TaskOK
<1> QED BY <1>2, <1>4, <1>6, <1>8, TaskChanges

LEMMA ReadArtifactKeeps ==
  ASSUME Tasks, TypeOK, NEW call \in Calls, ReadArtifact(call)
  PROVE  Next /\ Tasks'
<1>1. UNCHANGED serverVars
  BY DEF ReadArtifact
<1>2. CASE CheckExpiry(call)
  <2>1. \E state : Becomes(call, state) /\ state.at \in {"refused", "read"}
    BY <1>2 DEF CheckExpiry, Refused, Reading
  <2>2. Tasks'
    BY <1>1, <1>2, <2>1, StoreGoesOn DEF CheckExpiry
  <2> QED BY <1>2, <2>2, StoreStep
<1>3. CASE ReadFile(call)
  <2>1. \E state : Becomes(call, state) /\ state.at = "served"
    BY <1>3 DEF ReadFile, Served
  <2>2. Tasks'
    BY <1>1, <1>3, <2>1, StoreGoesOn DEF ReadFile
  <2> QED BY <1>3, <2>2, StoreStep
<1> QED BY <1>2, <1>3 DEF ReadArtifact

LEMMA ReturnIdles ==
  ASSUME TypeOK, NEW call \in Calls, Becomes(call, Idle)
  PROVE  /\ calls'[call].at \notin {"write", "check", "read", "refused", "served"}
         /\ \A other \in Calls \ {call} : calls'[other] = calls[other]
BY DEF Becomes, Idle, TypeOK

LEMMA RefuseArtifactKeeps ==
  ASSUME Tasks, TypeOK, NEW call \in Calls, RefuseArtifact(call)
  PROVE  Next /\ Tasks'
<1>1. Return(call) /\ told' = told
  BY DEF RefuseArtifact, Keeps
<1>2. PICK kind \in {"security", "resource_limit"} : Task(call, Ends(Failed(kind)))
  BY DEF RefuseArtifact
<1>3. Tasks'
  BY <1>1, <1>2, FailedSound, ReturnIdles, EndsOutside DEF Return
<1> QED BY <1>1, <1>3, StoreStep

LEMMA RunArtifactKeeps ==
  ASSUME Tasks, TypeOK, NEW call \in Calls, RunArtifact(call)
  PROVE  Next /\ Tasks'
<1>1. Return(call) /\ told' = told /\ calls[call].at = "served"
  BY DEF RunArtifact, Keeps
<1>2. PICK outcome \in OutcomesOf[tasks[call].request][calls[call].parts] : Task(call, Ends(outcome))
  BY DEF RunArtifact
<1>3. calls[call].parts \in SUBSET Whole
  BY <1>1 DEF TypeOK, Call, Idle
<1>4. Wanted(tasks[call].request) /\ tasks[call].request.source.from = "artifact"
  BY <1>1 DEF Tasks, TaskOK
<1>5. Sound(outcome)
  BY <1>2, <1>3, <1>4, ResultsSound DEF Wanted
<1>6. Tasks'
  BY <1>1, <1>2, <1>5, ReturnIdles, EndsOutside DEF Return
<1> QED BY <1>1, <1>6, StoreStep

LEMMA StoreKeeps ==
  ASSUME Tasks, TypeOK, NEW call \in Calls, Store(call)
  PROVE  Next /\ Tasks'
<1> DEFINE outcome == tasks[call].outcome
           state   == [at |-> "write", outcome |-> outcome]
<1>1. TaskOK(call) /\ tasks[call].at = "store"
  BY DEF Tasks, Store
<1>2. OpenFile(call, outcome.content) /\ Task(call, state) /\ told' = told
  BY DEF Store, Keeps
<1>3. outcome.content \in Contents
  BY <1>2, StoreAssumption DEF OpenFile
<1>4. Next
  BY <1>2, <1>3, StoreStep
<1>5. Becomes(call, Writing(outcome.content, 1))
  BY <1>2 DEF OpenFile
<1>6. calls'[call].at = "write" /\ \A other \in Calls \ {call} : calls'[other] = calls[other]
  BY <1>5 DEF Becomes, TypeOK, Writing
<1>7. tasks'[call] = state
  BY <1>2, TaskNow
<1>8. TaskOK(call)'
  BY <1>1, <1>6, <1>7 DEF TaskOK
<1> QED BY <1>2, <1>4, <1>6, <1>8, TaskChanges

LEMMA WriteKeeps ==
  ASSUME Tasks, TypeOK, NEW call \in Calls, Write(call)
  PROVE  Next /\ Tasks'
<1>1. WritePart(call) /\ UNCHANGED serverVars /\ calls[call].at = "write"
  BY DEF Write, WritePart
<1>2. \E state : Becomes(call, state) /\ state.at = "write"
  BY <1>1 DEF WritePart, Writing
<1>3. Tasks'
  BY <1>1, <1>2, StoreGoesOn
<1> QED BY <1>1, <1>3, StoreStep

LEMMA StoreFailsKeeps ==
  ASSUME Tasks, TypeOK, NEW call \in Calls, StoreFails(call)
  PROVE  Next /\ Tasks'
<1>1. WriteFails(call) /\ Task(call, Ends(Failed("io"))) /\ told' = told
  BY DEF StoreFails, Keeps
<1>2. Tasks'
  BY <1>1, FailedSound, ReturnIdles, EndsOutside DEF WriteFails
<1> QED BY <1>1, <1>2, StoreStep

LEMMA TellKeeps ==
  ASSUME Tasks, TypeOK, NEW call \in Calls, Tell(call)
  PROVE  Next /\ Tasks'
<1> DEFINE outcome == tasks[call].outcome
           told1   == Artifact(outcome.content, outcome.rows)
<1>1. TellExpiry(call) /\ Task(call, Ends(told1)) /\ told' = told
  BY DEF Tell, Keeps
<1>2. Becomes(call, Idle) /\ calls[call].at = "write"
  BY <1>1 DEF TellExpiry
<1>3. Keepable(outcome)
  BY <1>2 DEF Tasks, TaskOK
<1>4. tasks'[call] = [at |-> "answer", outcome |-> told1]
  BY <1>1, TaskNow DEF Ends, Artifact
<1>5. TaskOK(call)'
  BY <1>2, <1>3, <1>4, ReturnIdles DEF TaskOK, Artifact, Keepable
<1>6. Tasks'
  BY <1>1, <1>2, <1>5, ReturnIdles, TaskChanges
<1> QED BY <1>1, <1>6, StoreStep

LEMMA AnswerKeeps ==
  ASSUME Tasks, NEW call \in Calls, Answer(call)
  PROVE  UNCHANGED vars /\ Tasks'
<1> DEFINE outcome == tasks[call].outcome
           heard   == [content |-> outcome.content, rows |-> outcome.rows]
<1>1. UNCHANGED vars /\ UNCHANGED calls /\ told' = told \union {heard} /\ Task(call, None)
  BY DEF Answer, vars
<1>2. TaskOK(call) /\ tasks[call].at = "answer"
  BY DEF Tasks, Answer
<1>3. Keepable(heard)
  BY <1>2 DEF TaskOK, Keepable
<1>4. DOMAIN tasks' = Calls /\ tasks' = [c \in Calls |-> tasks'[c]]
  BY <1>1 DEF Task, Tasks
<1>5. tasks'[call] = None /\ \A other \in Calls \ {call} : tasks'[other] = tasks[other]
  BY <1>1 DEF Task, Tasks
<1>6. ASSUME NEW other \in Calls PROVE TaskOK(other)'
  <2>1. CASE other = call
    BY <1>1, <1>2, <1>5, <2>1 DEF TaskOK, None
  <2>2. CASE other # call
    BY <1>1, <1>5, <2>2 DEF TaskOK, Tasks
  <2> QED BY <2>1, <2>2
<1>7. \A t \in told' : Keepable(t)
  BY <1>1, <1>3 DEF Tasks
<1> QED BY <1>1, <1>4, <1>6, <1>7 DEF Tasks

LEMMA RestartKeeps ==
  ASSUME Tasks, Restart
  PROVE  [Next]_vars /\ Tasks'
<1>1. tasks' = [call \in Calls |-> None] /\ told' = told
  BY DEF Restart, Keeps
<1>2. calls' = [call \in Calls |-> Idle] /\ [Next]_vars
  BY DEF Restart, Crash, vars, Next
<1>3. ASSUME NEW call \in Calls PROVE TaskOK(call)'
  BY <1>1, <1>2 DEF TaskOK, None, Idle
<1> QED BY <1>1, <1>2, <1>3 DEF Tasks

LEMMA PassKeeps ==
  ASSUME Tasks, Pass
  PROVE  Next /\ Tasks'
BY DEF Pass, Tick, Next, serverVars, Tasks, TaskOK

LEMMA Simulation ==
  ASSUME Tasks, TypeOK, [ServerNext]_allVars
  PROVE  [Next]_vars /\ Tasks'
<1>1. CASE \E call \in Calls, request \in Requests : Receive(call, request)
  BY <1>1, ReceiveKeeps
<1>2. ASSUME NEW call \in Calls, Step(call)
      PROVE  [Next]_vars /\ Tasks'
  BY <1>2, RunInlineKeeps, RefuseAddressKeeps, FindArtifactKeeps, ReadArtifactKeeps,
     RefuseArtifactKeeps, RunArtifactKeeps, StoreKeeps, WriteKeeps, StoreFailsKeeps, TellKeeps,
     AnswerKeeps DEF Step
<1>3. CASE Restart
  BY <1>3, RestartKeeps
<1>4. CASE Pass
  BY <1>4, PassKeeps
<1>5. CASE UNCHANGED allVars
  BY <1>5 DEF allVars, serverVars, vars, Tasks, TaskOK
<1> QED BY <1>1, <1>2, <1>3, <1>4, <1>5 DEF ServerNext

LEMMA ServerStarts ==
  ASSUME ServerInit
  PROVE  Tasks
BY DEF ServerInit, Init, Tasks, TaskOK, None, Idle

-----------------------------------------------------------------------------
(***************************************************************************)
(* Whatever the tools do in parallel, what the store sees of the server is *)
(* a behaviour of write_artifact and read_artifact: each step of a handler *)
(* is one of theirs, in their order, or leaves the store alone.            *)
(***************************************************************************)
THEOREM ServerUsesTheStore == ServerSpec => UsesTheStore
<1>1. ServerInit => Init /\ TypeOK /\ Tasks
  BY ServerStarts, TypeInit DEF ServerInit
<1>2. TypeOK /\ Tasks /\ [ServerNext]_allVars => [Next]_vars /\ TypeOK' /\ Tasks'
  BY Simulation, TypeStep
<1> QED BY <1>1, <1>2, PTL DEF ServerSpec, UsesTheStore, Spec

(***************************************************************************)
(* So the expiry a client was told is kept, and a file whose writers are   *)
(* gone is whole, whatever the tools do.                                   *)
(***************************************************************************)
THEOREM ServerKeepsPromises == ServerSpec => []PromiseKept
BY ServerUsesTheStore, PromisesKept DEF UsesTheStore

THEOREM ServerFilesWhole == ServerSpec => []WholeUnlessWritten
BY ServerUsesTheStore, FilesWhole DEF UsesTheStore

THEOREM ServerTypeCorrect == ServerSpec => []TypeOK
BY ServerUsesTheStore, TypeCorrect DEF UsesTheStore

-----------------------------------------------------------------------------
(***************************************************************************)
(* An artifact a client was told of gives the rows it was told, in any     *)
(* later call that repeats its format and finds the file whole: what is    *)
(* told was packed from a list of records, encoded in a known format, and  *)
(* every such encoding can be read again (EncodedReadable).                *)
(***************************************************************************)
LEMMA ToldReadBack ==
  ASSUME Tasks
  PROVE  ArtifactsReadBack
<1> SUFFICES ASSUME NEW call \in Calls, NEW source, source = tasks[call].request.source,
                    source.format = source.content.form,
                    NEW t \in told, t.content = source.content,
                    NEW d \in Decoded(source, source.content)
             PROVE  ~IsError(d) /\ Len(d.rows) = RowsTold(t)
  BY DEF ArtifactsReadBack
<1>1. Readable(t.content, t.rows)
  BY DEF Tasks, Keepable
<1>2. source.format \in FormatIds /\ FormatGiven(source) = source.format
  BY <1>1 DEF Readable, FormatGiven
<1>3. Decoded(source, source.content) = Decodings(t.content, t.content.form, "conservative")
  BY <1>2 DEF Decoded, DetectFormat
<1>4. RowsTold([content |-> t.content, rows |-> t.rows]) = RowsTold(t)
  BY DEF RowsTold
<1> QED BY <1>1, <1>3, <1>4 DEF Readable

THEOREM AnswersReadBack == ServerSpec => []ArtifactsReadBack
<1>1. ServerInit => TypeOK /\ Tasks
  BY ServerStarts, TypeInit DEF ServerInit
<1>2. TypeOK /\ Tasks /\ [ServerNext]_allVars => TypeOK' /\ Tasks'
  BY Simulation, TypeStep
<1> QED BY <1>1, <1>2, ToldReadBack, PTL DEF ServerSpec

=============================================================================
