------------------------------- MODULE Server -------------------------------
(***************************************************************************)
(* The MCP server (crates/shapeport-mcp/src/lib.rs) over its artifact      *)
(* store.  serve_http runs calls in parallel: each is one handler, which   *)
(* touches what others see only where it reads or writes an artifact.      *)
(* Clients pass on the addresses they were told, in any call.  The rmcp    *)
(* library (sessions, Host and protocol rules) is left out; paths and byte *)
(* limits of other sources are as in CommandLine.                          *)
(***************************************************************************)
EXTENDS ArtifactStore, Formats

CONSTANTS
  Servers,       \* [bind, file, env]: see Token and Origins
  Requests,      \* [op, source, to, token, origin]; an artifact's source
                 \*   is [from |-> "artifact", content, format]
  Results,       \* the records a plan or a query may make of any
  Bulky,         \* the contents over inline_max_bytes
  Excessive,     \* the contents over max_output_bytes
  InlineMaxRows, \* inline_max_rows
  MaxRows,       \* max_rows
  Absent         \* an option, a header or a setting that is not there

VARIABLES
  server,  \* how the server is started
  tasks,   \* the state of each call's handler
  told     \* the artifacts clients have been told of: [content, rows]

serverVars == <<server, tasks, told>>
allVars    == <<vars, serverVars>>

-----------------------------------------------------------------------------
(* Starting, and who is let in.                                            *)
Token   == IF server.env.token \in {Absent, ""} THEN server.file.token ELSE server.env.token
Origins == IF server.env.origins = Absent THEN server.file.origins ELSE server.env.origins

Serves == server.bind = "wide" => Token # Absent
Admitted(request) ==
  /\ server.bind = "wide" => request.token = Token
  /\ server.bind # "stdio" /\ Origins # {} => request.origin \in Origins \union {Absent}

-----------------------------------------------------------------------------
(* What a handler makes of its source.  Inline values are bytes again: one *)
(* line of JSON.  A file that was not whole may read as anything.          *)
InlineBytes(v) == [form |-> "jsonl", values |-> <<Serialized(v)>>]

\* Mutant: an artifact's format is looked for in its bytes.
FormatProbed(source) == Absent

FormatGiven(source) == source.format

Decoded(source, content) ==
  Decodings(content, DetectFormat(content, "other", FormatGiven(source)), "conservative")
DecodedTorn == {Rows(<<>>), Rows(<<Misread>>), Error("parse", "torn")}

Operated(op, records) ==
  IF op \in {"transform", "query"}
  THEN {Rows(result) : result \in Results \union {records}} \union {Error("transform", "some")}
  ELSE {Rows(records)}

\* parse_format: a name of no format is the default; convert has none.
FormatOf(request) ==
  IF request.op # "convert" /\ request.to \notin FormatIds THEN "json" ELSE request.to

Failed(kind)  == [is |-> "failed", kind |-> kind]
Report(rows)  == [is |-> "report", rows |-> rows]
Inline(rows)  == [is |-> "inline", rows |-> rows]
ToStore(content, rows)  == [is |-> "store", content |-> content, rows |-> rows]
Artifact(content, rows) == [is |-> "artifact", content |-> content, rows |-> rows]

\* pack_data, and the size check of write_artifact.
Pack(content, rows) ==
  IF content.form \in Columnar \/ content \in Bulky \/ rows > InlineMaxRows
  THEN IF content \in Fitting THEN ToStore(content, rows) ELSE Failed("resource_limit")
  ELSE Inline(rows)

Delivered(request, records) ==
  LET encoded == EncodeRecords(records, FormatOf(request))
  IN  IF IsError(encoded) THEN Failed(encoded.kind)
      ELSE IF request.op # "convert" /\ encoded \in Excessive THEN Failed("resource_limit")
      ELSE Pack(encoded, Len(records))

\* inspect, schema and plan answer with a report; validate has no row limit.
Outcomes(request, decodings) ==
  {Failed(d.kind) : d \in {e \in decodings : IsError(e)}}
    \union UNION {
      IF Len(d.rows) > MaxRows /\ request.op # "validate" THEN {Failed("resource_limit")}
      ELSE IF request.op \in {"inspect", "schema", "plan", "validate"}
      THEN {Report(Len(d.rows)), Failed("schema")}
      ELSE {IF IsError(made) THEN Failed(made.kind)
            ELSE IF request.op = "query" /\ Len(made.rows) > MaxRows THEN Failed("resource_limit")
            ELSE Delivered(request, made.rows) : made \in Operated(request.op, d.rows)} :
      d \in {e \in decodings : ~IsError(e)}}

\* What may become of a request, by the parts of its artifact that are read.
BytesOf(source) == IF source.from = "inline" THEN InlineBytes(source.value) ELSE source.content
OutcomesOf ==
  [request \in {r \in Requests : r.source.from # "elsewhere"} |-> [parts \in SUBSET Whole |->
     Outcomes(request, IF parts = Whole THEN Decoded(request.source, BytesOf(request.source))
                       ELSE DecodedTorn)]]

\* What a decoder makes of bytes, and a plan or a query of records, is a list.
ASSUME RequestsAssumption ==
  /\ \A result \in Results : IsList(result)
  /\ \A request \in Requests : request.source.from # "elsewhere" =>
       \A d \in Decoded(request.source, BytesOf(request.source)) : IsError(d) \/ IsList(d.rows)

-----------------------------------------------------------------------------
None == [at |-> "none"]
Loading(request) == [at |-> "load", request |-> request]

\* An answer without an address is given at once: it depends on nothing later.
Ends(outcome) ==
  CASE outcome.is = "store"    -> [at |-> "store", outcome |-> outcome]
    [] outcome.is = "artifact" -> [at |-> "answer", outcome |-> outcome]
    [] OTHER                   -> None

Task(call, state) == tasks' = [tasks EXCEPT ![call] = state]
Keeps == UNCHANGED <<server, told>>

Receive(call, request) ==
  /\ Serves /\ tasks[call] = None
  /\ request.source.from = "artifact" =>
       \E t \in told : t.content = request.source.content
  /\ Task(call, CASE ~Admitted(request) -> Ends(Failed("denied"))
                  [] Admitted(request) /\ request.op = "convert" /\ request.to \notin FormatIds ->
                       Ends(Failed("usage"))
                  [] OTHER -> Loading(request))
  /\ Keeps /\ UNCHANGED vars

RunInline(call) ==
  /\ tasks[call].at = "load" /\ tasks[call].request.source.from = "inline"
  /\ \E outcome \in OutcomesOf[tasks[call].request][Whole] : Task(call, Ends(outcome))
  /\ Keeps /\ UNCHANGED vars

\* An address that is not one, or of a scheme that is not allowed.
RefuseAddress(call) ==
  /\ tasks[call].at = "load" /\ tasks[call].request.source.from = "elsewhere"
  /\ Task(call, Ends(Failed("security")))
  /\ Keeps /\ UNCHANGED vars

FindArtifact(call) ==
  /\ tasks[call].at = "load" /\ tasks[call].request.source.from = "artifact"
  /\ StatFile(call, tasks[call].request.source.content)
  /\ Task(call, [at |-> "read", request |-> tasks[call].request])
  /\ Keeps

ReadArtifact(call) ==
  /\ CheckExpiry(call) \/ ReadFile(call)
  /\ UNCHANGED serverVars

\* Mutant: an artifact found expired is removed.
RefuseAndRemove(call) ==
  /\ calls[call].at = "refused"
  /\ Becomes(call, Idle)
  /\ files' = [c \in Stored \ {tasks[call].request.source.content} |-> files[c]]
  /\ Task(call, None)
  /\ Keeps /\ UNCHANGED <<clock, promised, damaged>>

RefuseArtifact(call) ==
  /\ calls[call].at = "refused"
  /\ Return(call)
  /\ \E kind \in {"security", "resource_limit"} : Task(call, Ends(Failed(kind)))
  /\ Keeps

RunArtifact(call) ==
  /\ calls[call].at = "served"
  /\ Return(call)
  /\ \E outcome \in OutcomesOf[tasks[call].request][calls[call].parts] : Task(call, Ends(outcome))
  /\ Keeps

Store(call) ==
  /\ tasks[call].at = "store"
  /\ OpenFile(call, tasks[call].outcome.content)
  /\ Task(call, [at |-> "write", outcome |-> tasks[call].outcome])
  /\ Keeps

Write(call) == WritePart(call) /\ UNCHANGED serverVars

StoreFails(call) ==
  /\ WriteFails(call)
  /\ Task(call, Ends(Failed("io")))
  /\ Keeps

Tell(call) ==
  /\ TellExpiry(call)
  /\ LET outcome == tasks[call].outcome
     IN  Task(call, Ends(Artifact(outcome.content, outcome.rows)))
  /\ Keeps

Answer(call) ==
  /\ tasks[call].at = "answer"
  /\ LET outcome == tasks[call].outcome
     IN  told' = told \union {[content |-> outcome.content, rows |-> outcome.rows]}
  /\ Task(call, None)
  /\ UNCHANGED <<vars, server>>

\* The server stops and is started again in the same way.
Restart ==
  /\ tasks # [call \in Calls |-> None]
  /\ tasks' = [call \in Calls |-> None]
  /\ \/ Crash
     \/ calls = [call \in Calls |-> Idle] /\ UNCHANGED vars
  /\ Keeps

Pass == Tick /\ UNCHANGED serverVars

-----------------------------------------------------------------------------
ServerInit ==
  /\ Init
  /\ server \in Servers
  /\ tasks = [call \in Calls |-> None]
  /\ told = {}

Step(call) ==
  \/ RunInline(call) \/ RefuseAddress(call)
  \/ FindArtifact(call) \/ ReadArtifact(call) \/ RefuseArtifact(call) \/ RunArtifact(call)
  \/ Store(call) \/ Write(call) \/ StoreFails(call) \/ Tell(call)
  \/ Answer(call)

ServerNext ==
  \/ \E call \in Calls : Step(call) \/ \E request \in Requests : Receive(call, request)
  \/ Restart
  \/ Pass

ServerSpec == ServerInit /\ [][ServerNext]_allVars

-----------------------------------------------------------------------------
(***************************************************************************)
(* An artifact a client was told of, and reads with the format it was told *)
(* in any later call, gives the rows the client was told, unless the file  *)
(* was not whole; of Arrow and Parquet no more than a batch.               *)
(***************************************************************************)
RowsTold(t) ==
  IF t.content.form \in Columnar /\ t.rows > BatchSize THEN BatchSize ELSE t.rows

ArtifactsReadBack ==
  \A call \in Calls :
    calls[call].at = "served" /\ calls[call].parts = Whole =>
      LET source == tasks[call].request.source
      IN  source.format = source.content.form =>
            \A t \in told : t.content = source.content =>
              \A d \in Decoded(source, source.content) : ~IsError(d) /\ Len(d.rows) = RowsTold(t)

(***************************************************************************)
(* The server does with the artifacts nothing but what write_artifact and  *)
(* read_artifact do, in their order, and stops as the store expects: each  *)
(* of its behaviours is one of the store, which has the properties proved  *)
(* of it.                                                                  *)
(***************************************************************************)
UsesTheStore == Spec

=============================================================================
