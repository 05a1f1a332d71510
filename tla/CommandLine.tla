---------------------------- MODULE CommandLine -----------------------------
(***************************************************************************)
(* The shapeport program (crates/shapeport-cli/src/main.rs): commands that *)
(* are run one after the other in a working directory, each a process that *)
(* reads its configuration, does its stages in turn and ends with an exit  *)
(* code.  What a command writes, to a file or into a pipe, the next one    *)
(* may read.  Formats, paths and limits are those of Formats and           *)
(* Configuration; whether a schema can be inferred, what the planner finds *)
(* and which records a plan or a query leaves is any outcome Inference,    *)
(* Planner, Engine and Query may have.                                     *)
(***************************************************************************)
EXTENDS Formats, Configuration

CONSTANTS
  Sessions,   \* the commands of a session, its files and directories: see Init
  Extension,  \* the format a file's name ends with, or "other": by its last part
  Missing,    \* an option that is not given
  Stdin,      \* the input "-"
  Results,    \* the records a plan or a query may make of any
  NestingDepth(_)  \* value_depth

VARIABLES
  session,  \* what is run, and in which directory
  turn,     \* the number of the command that runs
  todo,     \* its stages left
  exit,     \* its exit code, or Running
  files,    \* the files and what is in them
  dirs,     \* the directories
  content,  \* the bytes read, or those to be written
  place,    \* where they were read: the parts of a path, or Nowhere
  records,  \* the records as they are between two stages
  stdout,   \* what it has printed: a sequence of contents
  piped,    \* what the command before it had printed
  before,   \* the files there were when it began
  wrote     \* the records last written: in which form, where and by which command

vars == <<session, turn, todo, exit, files, dirs, content, place, records, stdout, piped,
          before, wrote>>

Running == -1
Nowhere == <<>>
Nothing == [form |-> "several"]
Unwritten == [records |-> <<>>, form |-> "none", at |-> Nowhere, turn |-> 0]

\* Configuration files that are not there, or that do not parse.
Absent    == [absent |-> TRUE]
Malformed == [malformed |-> TRUE]

\* ErrorKind.
ExitCode == [usage |-> 2, parse |-> 3, schema |-> 4, ambiguity |-> 5, plan_validation |-> 6,
             transform |-> 7, target_validation |-> 8, security |-> 9, resource_limit |-> 10,
             io |-> 11, internal |-> 12]

(***************************************************************************)
(* A session's commands are those of the program, with paths for options.  *)
(* The system gets on from a place as it gets on from the path that led    *)
(* there, and straight to a place and to those it lies in.                 *)
(***************************************************************************)
IsResolved(parts) ==
  LET spot == Resolved(parts)
  IN  /\ IsList(spot) /\ Up \notin Range(spot) /\ IsList(Resolved(Front(parts)))
      /\ \A n \in 0 .. Len(spot) : Resolved(SubSeq(spot, 1, n)) = SubSeq(spot, 1, n)
      /\ parts # <<>> => Resolved(Append(Resolved(Front(parts)), Last(parts))) = spot

IsPath(p) == p.absolute \in BOOLEAN /\ IsList(p.parts) /\ IsResolved(Parts(p))

IsCommand(c) ==
  /\ c.op \in {"inspect", "schema", "plan", "transform", "validate", "query", "convert"}
  /\ c.input \in {Stdin, Missing} \/ IsPath(c.input)
  /\ c.output = Missing \/ IsPath(c.output)
  /\ c.redirect = Missing \/ (IsPath(c.redirect) /\ Place(c.redirect) # Nowhere)
  /\ \A kind \in {"readRoots", "writeRoots"} \intersect DOMAIN c.config :
       IsList(c.config[kind]) /\ \A i \in DOMAIN c.config[kind] : IsPath(c.config[kind][i])

ASSUME SessionsAssumption ==
  /\ IsPath(At0(Cwd)) /\ Resolved(Cwd) = Cwd /\ IsPath(At0(Append(Cwd, OutputDirectory)))
  /\ \A s \in Sessions :
       /\ IsList(s.commands) /\ s.commands # <<>>
       /\ \A i \in DOMAIN s.commands : IsCommand(s.commands[i])
       /\ <<>> \in s.dirs /\ Nowhere \notin DOMAIN s.files

cmd    == session.commands[turn]
config == Settings(cmd.config)

\* A document that is no data: as data it is one JSON object.
Document(kind) == [form |-> "json", value |-> Object("kind" :> Text(kind))]

-----------------------------------------------------------------------------
(* The stages of a command.  A usage error is an option that is missing or *)
(* that cannot be parsed; an input format of an unknown name is no error.  *)
Do(name)         == <<[do |-> name]>>
Demand(ok, kind) == <<[do |-> "demand", ok |-> ok, kind |-> kind]>>
Require(ok)      == Demand(ok, "usage")
Read(path, kind) ==
  IF path = Missing THEN <<>> ELSE <<[do |-> "document", path |-> path, is |-> kind]>>

LoadRows   == Do("load") \o Do("decode") \o Do("rows")
InferRows  == Do("load") \o Do("decode") \o Do("rows") \o Do("infer")
ToIsFormat == Require(cmd.to \in FormatIds)
ModeParses == Require(cmd.mode \in {"strict", "smart"})
InferParses == Require(cmd.infer \in InferModes)

\* Mutant: the size is checked when the output is there.
DeliveryFirst == Do("encode") \o Do("emit") \o Do("size")

Delivery == Do("encode") \o Do("size") \o Do("emit")

TransformStages ==
  Read(cmd.plan, "plan") \o Read(cmd.schema, "schema") \o ToIsFormat \o ModeParses
    \o LoadRows \o Do("depth")
    \o (IF cmd.plan # Missing THEN <<>>
        ELSE Require(cmd.schema # Missing) \o Do("infer") \o Do("planning"))
    \o Do("execute")
    \o (IF cmd.schema = Missing THEN <<>> ELSE Do("check"))
    \o Delivery

CommandStages ==
  CASE cmd.op = "inspect" -> InferParses \o InferRows \o Do("report")
    [] cmd.op = "schema" /\ cmd.schema # Missing -> Read(cmd.schema, "schema") \o Do("answer") \o Do("emit")
    [] cmd.op = "schema" /\ cmd.schema = Missing ->
         Require(cmd.input # Missing) \o InferParses \o InferRows \o Do("answer") \o Do("emit")
    [] cmd.op = "plan" ->
         Require(cmd.schema # Missing) \o Read(cmd.schema, "schema") \o Read(cmd.from, "schema")
           \o ModeParses
           \o (IF cmd.from # Missing THEN <<>> ELSE Require(cmd.input # Missing) \o InferRows)
           \o Do("planning") \o Do("answer") \o Do("emit")
    [] cmd.op = "transform" -> TransformStages
    [] cmd.op = "validate" ->
         Read(cmd.schema, "schema") \o Read(cmd.plan, "plan")
           \o (IF cmd.plan # Missing THEN <<>>
               ELSE Require(cmd.input # Missing) \o Require(cmd.schema # Missing)
                      \o Do("load") \o Do("decode"))
           \o Do("report")
           \o (IF cmd.plan # Missing THEN <<>> ELSE Do("verdict"))
    [] cmd.op = "query" ->
         Require(cmd.sql # Missing) \o ToIsFormat \o LoadRows \o Do("query") \o Do("rows")
           \o Delivery
    [] cmd.op = "convert" -> ToIsFormat \o LoadRows \o Do("encode") \o Do("emit")

Stages ==
  Demand(cmd.config # Absent, "io") \o Demand(cmd.config # Malformed, "parse") \o CommandStages

At(stage) == exit = Running /\ todo # <<>> /\ Head(todo).do = stage

Pass == todo' = Tail(todo) /\ UNCHANGED exit
Fail(kind) == todo' = <<>> /\ exit' = ExitCode[kind]
PassIf(condition, kind) == IF condition THEN Pass ELSE Fail(kind)

Only(changed) == UNCHANGED <<session, turn, before, changed>>
Check(stage, condition, kind) ==
  /\ At(stage) /\ PassIf(condition, kind)
  /\ Only(<<files, dirs, content, place, records, stdout, piped, wrote>>)

-----------------------------------------------------------------------------
(* Options, documents and data.                                            *)
CheckDemand == Check("demand", Head(todo).ok, Head(todo).kind)

IsFile(path) == Place(path) \in DOMAIN files /\ IsThere(Parts(path), DOMAIN files, dirs)

\* load_json_schema and load_plan: any file of the file system, by its own name.
IsYamlName(path) == Extension[Last(path.parts)] = "yaml"
ParseAs(path) == IF cmd.op # "schema" /\ IsYamlName(path) THEN "yaml" ELSE "json"
Parsed(path) == Decodings(files[Place(path)], ParseAs(path), "none")

ReadDocument ==
  /\ At("document")
  /\ LET path == Head(todo).path
     IN  IF ~IsFile(path) THEN Fail("io")
         ELSE \E parsed \in Parsed(path) :
                CASE IsError(parsed) -> Fail("parse")
                  [] ~IsError(parsed) /\ Head(todo).is = "schema" ->
                       PassIf(parsed.rows # <<Document("badSchema").value>>, "schema")
                  [] ~IsError(parsed) /\ Head(todo).is = "plan" ->
                       CASE parsed.rows = <<Document("plan").value>>    -> Pass
                         [] parsed.rows = <<Document("badPlan").value>> -> Fail("plan_validation")
                         [] OTHER                                  -> Fail("parse")
  /\ Only(<<files, dirs, content, place, records, stdout, piped, wrote>>)

SizeOf(c) == CASE c.form \in {"json", "yaml"} /\ c.value.type = "array" -> Len(c.value.items)
               [] c.form \in {"jsonl"} \union Columnar                  -> Len(c.values)
               [] c.form \in Delimited                                  -> Len(c.rows)
               [] OTHER                                                 -> 1

Joined(chunks) ==
  CASE chunks = <<>>    -> [form |-> "jsonl", values |-> <<>>]
    [] Len(chunks) = 1  -> chunks[1]
    [] OTHER            -> Nothing

LoadStdin ==
  /\ At("load") /\ cmd.input = Stdin
  /\ content' = Joined(piped) /\ place' = Nowhere
  /\ PassIf(SizeOf(content') <= config.maxInput, "resource_limit")
  /\ Only(<<files, dirs, records, stdout, piped, wrote>>)

LoadFile ==
  /\ At("load") /\ cmd.input # Stdin
  /\ IF ~IsAllowed(cmd.input, config.readRoots, DOMAIN files, dirs)
     THEN Fail("security") /\ UNCHANGED <<content, place>>
     ELSE IF ~IsFile(cmd.input)
     THEN Fail("io") /\ UNCHANGED <<content, place>>
     ELSE /\ content' = files[Place(cmd.input)] /\ place' = Place(cmd.input)
          /\ PassIf(SizeOf(content') <= config.maxInput, "resource_limit")
  /\ Only(<<files, dirs, records, stdout, piped, wrote>>)

\* query has no option for it, and only two commands let one choose the inference.
InputFormat == IF cmd.op = "query" THEN Missing ELSE cmd.inputFormat
InferUsed   == IF cmd.op \in {"inspect", "schema"} THEN cmd.infer ELSE "conservative"
NameSays    == IF place = Nowhere THEN "other" ELSE Extension[Last(place)]
FormatRead  == DetectFormat(content, NameSays, InputFormat)

DecodeSource ==
  /\ At("decode")
  /\ \E decoded \in Decodings(content, FormatRead, InferUsed) :
       IF IsError(decoded) THEN Fail(decoded.kind) /\ UNCHANGED records
       ELSE Pass /\ records' = decoded.rows
  /\ Only(<<files, dirs, content, place, stdout, piped, wrote>>)

CheckRowLimit     == Check("rows", Len(records) <= config.maxRows, "resource_limit")
CheckNestingDepth ==
  Check("depth", \A i \in DOMAIN records : NestingDepth(records[i]) <= config.maxDepth, "resource_limit")

-----------------------------------------------------------------------------
(* What other modules find out.                                            *)
Failures ==
  [infer |-> {"schema"}, planning |-> {"plan_validation"},
   execute |-> {"transform", "plan_validation", "resource_limit"},
   check |-> {"target_validation"}, query |-> {"usage", "transform", "parse"}]

StageFails ==
  /\ exit = Running /\ todo # <<>> /\ Head(todo).do \in DOMAIN Failures
  /\ \E kind \in Failures[Head(todo).do] : Fail(kind)
  /\ Only(<<files, dirs, content, place, records, stdout, piped, wrote>>)

StagePasses ==
  /\ \E stage \in {"infer", "check"} : At(stage)
  /\ Pass
  /\ Only(<<files, dirs, content, place, records, stdout, piped, wrote>>)

\* cmd_plan says what is ambiguous, and explains a plan that is ready.
PlanIsAmbiguous ==
  /\ At("planning")
  /\ Fail("ambiguity")
  /\ stdout' = IF cmd.op = "plan" THEN Append(stdout, Document("unresolved")) ELSE stdout
  /\ Only(<<files, dirs, content, place, records, piped, wrote>>)

PlanIsReady ==
  /\ At("planning")
  /\ Pass
  /\ stdout' = IF cmd.op = "plan" /\ cmd.explain THEN Append(stdout, Document("explanation")) ELSE stdout
  /\ Only(<<files, dirs, content, place, records, piped, wrote>>)

Transformed ==
  /\ \E stage \in {"execute", "query"} : At(stage)
  /\ \E result \in Results \union {records} : records' = result
  /\ Pass
  /\ Only(<<files, dirs, content, place, stdout, piped, wrote>>)

-----------------------------------------------------------------------------
(* Output.                                                                 *)
Encode ==
  /\ At("encode")
  /\ LET encoded == EncodeRecords(records, cmd.to)
     IN  IF IsError(encoded) THEN Fail(encoded.kind) /\ UNCHANGED content
         ELSE Pass /\ content' = encoded
  /\ Only(<<files, dirs, place, records, stdout, piped, wrote>>)

CheckOutputBytes == Check("size", SizeOf(content) <= config.maxOutput, "resource_limit")

Answer ==
  /\ At("answer")
  /\ content' = Document(cmd.op)
  /\ Pass
  /\ Only(<<files, dirs, place, records, stdout, piped, wrote>>)

Report ==
  /\ At("report")
  /\ stdout' = Append(stdout, Document("report"))
  /\ Pass
  /\ Only(<<files, dirs, content, place, records, piped, wrote>>)

Verdict ==
  \E valid \in BOOLEAN :
    (records = <<>> => valid) /\ Check("verdict", valid, "target_validation")

Written(target) ==
  wrote' = [records |-> records, at |-> target, turn |-> turn,
            form |-> IF cmd.op \in {"convert", "transform", "query"} THEN cmd.to ELSE "document"]

FilesWith(target, bytes) ==
  [f \in DOMAIN files \union {target} |-> IF f = target THEN bytes ELSE files[f]]

EmitToStdout ==
  /\ At("emit") /\ cmd.output = Missing
  /\ stdout' = Append(stdout, content)
  /\ Written(Nowhere)
  /\ Pass
  /\ Only(<<files, dirs, content, place, records, piped>>)

WriteDenied ==
  /\ At("emit") /\ cmd.output # Missing
  /\ ~IsAllowed(cmd.output, config.writeRoots, DOMAIN files, dirs)
  /\ Fail("security")
  /\ Only(<<files, dirs, content, place, records, stdout, piped, wrote>>)

\* write_output: directories are made, and the file is cut before it is written.
WriteOutput ==
  /\ At("emit") /\ cmd.output # Missing
  /\ IsAllowed(cmd.output, config.writeRoots, DOMAIN files, dirs)
  /\ dirs' = WithParents(Parts(cmd.output), DOMAIN files, dirs)
  /\ \/ /\ TakesBytes(Parts(cmd.output), dirs') /\ Pass
        /\ files' = FilesWith(Place(cmd.output), content) /\ Written(Place(cmd.output))
     \/ /\ TakesBytes(Parts(cmd.output), dirs') /\ Fail("io")
        /\ files' = FilesWith(Place(cmd.output), Nothing) /\ UNCHANGED wrote
     \/ /\ ~TakesBytes(Parts(cmd.output), dirs') /\ Fail("io")
        /\ UNCHANGED <<files, wrote>>
  /\ Only(<<content, place, records, stdout, piped>>)

EndCommand ==
  /\ exit = Running /\ todo = <<>>
  /\ exit' = 0
  /\ Only(<<todo, files, dirs, content, place, records, stdout, piped, wrote>>)

(***************************************************************************)
(* The shell runs the next command if this one succeeded, with "> file"    *)
(* and "|".  The file of a redirection is not one the same command reads.  *)
(***************************************************************************)
Redirected ==
  IF cmd.redirect = Missing THEN files ELSE FilesWith(Place(cmd.redirect), Joined(stdout))

WroteRedirected ==
  CASE cmd.redirect = Missing -> wrote
    [] cmd.redirect # Missing /\ wrote.turn = turn /\ wrote.at = Nowhere ->
         [wrote EXCEPT !.at = Place(cmd.redirect)]
    [] OTHER -> IF wrote.at = Place(cmd.redirect) THEN Unwritten ELSE wrote

NextCommand ==
  /\ exit = 0 /\ turn < Len(session.commands)
  /\ turn' = turn + 1 /\ UNCHANGED session
  /\ files' = Redirected /\ before' = Redirected
  /\ piped' = IF cmd.redirect = Missing THEN stdout ELSE <<>>
  /\ wrote' = WroteRedirected
  /\ todo' = Stages' /\ exit' = Running
  /\ stdout' = <<>> /\ content' = Nothing /\ place' = Nowhere /\ records' = <<>>
  /\ UNCHANGED dirs

Init ==
  /\ session \in Sessions
  /\ turn = 1 /\ exit = Running /\ todo = Stages
  /\ files = session.files /\ dirs = session.dirs /\ before = session.files
  /\ content = Nothing /\ place = Nowhere /\ records = <<>> /\ stdout = <<>> /\ piped = <<>>
  /\ wrote = Unwritten

Next ==
  \/ CheckDemand \/ ReadDocument \/ LoadStdin \/ LoadFile \/ DecodeSource
  \/ CheckRowLimit \/ CheckNestingDepth
  \/ StageFails \/ StagePasses \/ PlanIsAmbiguous \/ PlanIsReady \/ Transformed
  \/ Encode \/ CheckOutputBytes \/ Answer \/ Report \/ Verdict
  \/ EmitToStdout \/ WriteDenied \/ WriteOutput \/ EndCommand \/ NextCommand

Spec == Init /\ [][Next]_vars

-----------------------------------------------------------------------------
(***************************************************************************)
(* The exit code says what there is (RFC 18.3): a command that failed has  *)
(* written no file but one it was writing when the system refused, and     *)
(* printed nothing one could take for its result; one that ended well has  *)
(* left its result where it was asked for.                                 *)
(***************************************************************************)
Remarks == {Document(kind) : kind \in {"unresolved", "explanation", "report"}}
Result  == IF cmd.op \in {"convert", "transform", "query"} THEN EncodeRecords(records, cmd.to)
           ELSE Document(cmd.op)

ExitTellsTheTruth ==
  /\ exit \notin {Running, 0} =>
       /\ Range(stdout) \subseteq Remarks
       /\ \A f \in DOMAIN files :
            \/ f \in DOMAIN before /\ files[f] = before[f]
            \/ exit = ExitCode.io /\ cmd.output # Missing /\ f = Place(cmd.output)
  /\ exit = 0 /\ cmd.op \notin {"inspect", "validate"} =>
       IF cmd.output = Missing THEN Last(stdout) = Result ELSE files[Place(cmd.output)] = Result

(***************************************************************************)
(* What one command writes, the next one reads: if it is told the format   *)
(* (by an option, by the bytes, by the name of the file, or by a text that *)
(* reads as no other format), it finds as many records, with the texts     *)
(* they had.  What the encoders leave out is named here: Arrow and Parquet *)
(* keep the first batch, CSV and TSV the columns of the first record.      *)
(***************************************************************************)
ReadsWhatWasWritten ==
  /\ At("decode") /\ wrote.form \in FormatIds
  /\ \/ place # Nowhere /\ wrote.at = place
     \/ place = Nowhere /\ wrote.at = Nowhere /\ wrote.turn = turn - 1

\* Records one can make columns of.
IsTable(rs) ==
  IsList(rs) /\ \A i \in DOMAIN rs : rs[i].type = "object" /\ DOMAIN rs[i].fields \subseteq AllKeys
TextIsSure ==
  CASE content.form = "json"  -> TRUE
    [] content.form = "jsonl" -> TRUE
    [] content.form = "yaml"  -> HasKey(content.value) /\ TextsIn(content.value) \intersect WithComma = {}
    [] content.form = "csv"   -> Len(content.header) > 1 \/ CellsOf(content) \intersect WithColon = {}
    [] OTHER                  -> FALSE

FormatIsTold ==
  \/ InputFormat = wrote.form
  \/ InputFormat \notin FormatIds
       /\ \/ wrote.form \in Columnar
          \/ NameSays = wrote.form
          \/ NameSays \notin FormatIds /\ TextIsSure

\* A cell that reads as a number spelt another way, as "+5", is taken for it.
Respelt(v) ==
  /\ ~IsNested(v)
  /\ LET text == CellText(v)
     IN  \/ text \in DOMAIN Integral \ ZeroLed /\ TextOf[Integral[text]] # text
         \/ text \in DOMAIN Pointed \ ZeroLed /\ TextOf[Pointed[text]] # text
SameText(v, w) ==
  IF IsNested(v) THEN Serialized(v) = w ELSE ~IsNested(w) /\ CellText(v) = CellText(w)

KeptOf(rs, form) == IF form \in Columnar THEN FirstBatch(rs) ELSE rs
ColumnsKept(v, rs, form) == IF form \in Delimited THEN Columns(rs) ELSE DOMAIN v.fields

ReadAlike(v, w, names) ==
  /\ w.type = "object" /\ DOMAIN w.fields \subseteq names
  /\ \A n \in names : Respelt(Value(v, n)) \/ SameText(Value(v, n), Value(w, n))

WrittenWhole ==
  IsTable(wrote.records) /\ (wrote.form \in Delimited => Columns(wrote.records) # {})

ReadsBackAlike ==
  ReadsWhatWasWritten /\ FormatIsTold /\ WrittenWhole =>
    LET kept == KeptOf(wrote.records, wrote.form)
    IN  \A decoded \in Decodings(content, FormatRead, InferUsed) :
          /\ ~IsError(decoded)
          /\ Len(decoded.rows) = Len(kept)
          /\ InferUsed \in {"none", "conservative"} =>
               \A i \in DOMAIN kept :
                 ReadAlike(kept[i], decoded.rows[i], ColumnsKept(kept[i], wrote.records, wrote.form))

(***************************************************************************)
(* The RFC's tests ask for "encode/decode round trips where formats        *)
(* support them" (0001-shapeport.md:1951): Parquet, the format with the    *)
(* embedded schema, holds all the records a convert has written to it.     *)
(***************************************************************************)
ParquetHoldsAll ==
  ReadsWhatWasWritten /\ wrote.form = "parquet" /\ FormatIsTold =>
    \A decoded \in Decodings(content, FormatRead, InferUsed) : Len(decoded.rows) = Len(wrote.records)

(***************************************************************************)
(* Data is read and output written under the roots of the configuration,   *)
(* or, where it names none of a kind, under the working directory and its  *)
(* output directory, wherever "..", "." and links lead.  What enforce_root *)
(* cannot place is a path that is not there, if its directory is not there *)
(* either or if it is a link: such a path is judged by its text, and what  *)
(* is written to it may land elsewhere; nothing is read from it.  The      *)
(* other way round, a path below a root is denied only if one of the two   *)
(* cannot be placed and is relative or winding.                            *)
(***************************************************************************)
ConfiguredRoots(kind) ==
  IF cmd.config # NoFile /\ kind \in DOMAIN cmd.config /\ cmd.config[kind] # <<>>
  THEN cmd.config[kind] ELSE WithCwdRoots[kind]

IsBelow(spot, root) == IsPrefix(Place(root), spot)
Winding(path) == Place(path) # Parts(path)
Loose(path) ==
  LET parts == Parts(path)
  IN  /\ ~IsThere(parts, DOMAIN files, dirs)
      /\ ~IsThere(Front(parts), {}, dirs) \/ Elsewhere(parts)

AccessIsConfigured(stage, path, kind) ==
  At(stage) /\ path \notin {Stdin, Missing} =>
    LET roots == ConfiguredRoots(kind)
    IN  IF exit' = ExitCode.security
        THEN \A i \in DOMAIN roots : IsBelow(Place(path), roots[i]) =>
               \E p \in {path, roots[i]} : Loose(p) /\ (Winding(p) \/ ~p.absolute)
        ELSE \/ Loose(path) /\ Winding(path) /\ (stage = "load" => exit' = ExitCode.io)
             \/ \E i \in DOMAIN roots : IsBelow(Place(path), roots[i])

AccessAsConfigured ==
  [][/\ AccessIsConfigured("load", cmd.input, "readRoots")
     /\ AccessIsConfigured("emit", cmd.output, "writeRoots")]_vars

(***************************************************************************)
(* The RFC's security requirements say "Paths MUST be canonicalized before *)
(* checks. Symlink escapes MUST be denied." (0001-shapeport.md:1786): what *)
(* a command writes to a file is written below a write root.               *)
(***************************************************************************)
WritesStayBelow ==
  \A f \in DOMAIN files :
    \/ f \in DOMAIN before /\ files[f] = before[f]
    \/ \E i \in DOMAIN ConfiguredRoots("writeRoots") : IsBelow(f, ConfiguredRoots("writeRoots")[i])

=============================================================================
