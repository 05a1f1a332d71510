--------------------------- MODULE MCCommandLine ----------------------------
(***************************************************************************)
(* Sessions of one or two commands in the directory /w: every form written *)
(* and read again along every way, every configuration of the roots with   *)
(* every kind of path, every command with every option missing or wrong,   *)
(* every limit.  Numbers are halves: "1" is 2, "1.5" is 3.                 *)
(***************************************************************************)
EXTENDS CommandLine, FormatOps

MCCwd       == <<"w">>
\* A directory, a file that is not there, and a directory that is not there.
Links       == (<<"w", "link">> :> <<"d">>) @@ (<<"w", "gone">> :> <<"d", "out.json">>)
                 @@ (<<"w", "lost">> :> <<"d", "none">>)
Step(spot, part) ==
  CASE part = ".." -> Front(spot)
    [] part = "."  -> spot
    [] Append(spot, part) \in DOMAIN Links -> Links[Append(spot, part)]
    [] OTHER       -> Append(spot, part)
MCResolved(parts) == FoldLeft(Step, <<>>, parts)

MCDefaults  == [infer |-> "conservative", maxInput |-> 3, maxRows |-> 3, maxDepth |-> 3,
                maxOutput |-> 3]
MCIntegral     == ("1" :> 2) @@ ("2" :> 4) @@ ("+5" :> 10) @@ ("007" :> 14)
MCPointed   == "1.5" :> 3
MCTextOf    == (2 :> "1") @@ (3 :> "1.5") @@ (4 :> "2") @@ (10 :> "5") @@ (14 :> "7")
MCKeyOrder == <<"a", "b", "kind", "value", "?", "">>
MCKeys     == Range(MCKeyOrder)
MCInOrder(names) == SelectSeq(MCKeyOrder, LAMBDA name : name \in names)

MCExtension ==
  ("in.json" :> "json") @@ ("out.json" :> "json") @@ ("out.jsonl" :> "jsonl")
    @@ ("out.yaml" :> "yaml") @@ ("out.csv" :> "csv") @@ ("out.tsv" :> "tsv")
    @@ ("out.parquet" :> "parquet") @@ ("out.arrow" :> "arrow-ipc")
    @@ ("out" :> "other") @@ ("plan.json" :> "json") @@ ("bad.json" :> "json")
    @@ ("schema.yaml" :> "yaml") @@ ("schema.json" :> "json") @@ ("none" :> "other")
    @@ ("new" :> "other") @@ (".shapeport" :> "other") @@ ("data" :> "other")

-----------------------------------------------------------------------------
(* Records.                                                                *)
Int1 == Number("int", 2)
A(v) == Object("a" :> v)
AB(v, w) == Object("a" :> v @@ "b" :> w)

Tables ==
  {<<>>, <<A(Text("007"))>>, <<A(Text("+5"))>>, <<A(Text("a,b"))>>, <<A(Text("k:v"))>>,
   <<A(Array(<<Int1>>))>>, <<A(A(Int1))>>, <<Object([n \in {} |-> Null])>>, <<Int1>>,
   <<A(Int1), A(Number("float", 3))>>, <<AB(Int1, Text("x")), AB(Null, Text("k:v"))>>,
   <<AB(Text("1"), Bool(TRUE)), A(Text("a,b"))>>, <<A(Int1), AB(Int1, Text("x"))>>,
   <<AB(Text("a,b"), Text("k:v")), AB(Text("yes"), Int1)>>, <<A(Text("x")), A(Int1)>>,
   <<A(Text("1")), A(Null), A(Text("2"))>>, <<A(Int1), A(Text("1.5")), Object("b" :> Null)>>}

\* A file someone made: the texts decide what is in it.
Sheet(form, rows) == [form |-> form, header |-> <<"a", "b">>, rows |-> rows]
Sheets ==
  {Sheet(form, <<<<"1.5", "007">>, <<"yes", "+5">>>>) : form \in Delimited}
    \union {Sheet("csv", <<<<"1", "k:v">>, <<"", "x">>>>)}

MCResults == {<<>>, <<A(Int1)>>, <<A(Int1), A(Int1), A(Int1), A(Text("x"))>>}

-----------------------------------------------------------------------------
(* Files.                                                                  *)
In(name)   == <<"w", name>>
At1(name)  == Relative(<<name>>)
Documents0 ==
  (In("plan.json") :> Document("plan")) @@ (In("bad.json") :> Document("badPlan"))
    @@ (In("schema.yaml") :> [form |-> "yaml", value |-> Document("schema").value])
    @@ (In("schema.json") :> Document("schema"))
    @@ (In("new") :> Document("badSchema"))
Data(c)    == (In("in.json") :> c) @@ Documents0
Places     == {<<>>, <<"w">>, <<"w", "data">>, <<"d">>}

Open == [readRoots |-> <<At0(MCCwd)>>, writeRoots |-> <<At0(MCCwd)>>]

Command(op) ==
  [op |-> op, config |-> Open, input |-> At1("in.json"), inputFormat |-> Missing,
   infer |-> "conservative", to |-> "json", schema |-> Missing, plan |-> Missing, from |-> Missing,
   output |-> Missing, redirect |-> Missing, explain |-> FALSE, mode |-> "strict", sql |-> "some"]
Session(commands, data, places) == [commands |-> commands, files |-> Data(data), dirs |-> places]

-----------------------------------------------------------------------------
(* One command writes, another one reads.                                  *)
OutName(form) == At1("out." \o (IF form = "arrow-ipc" THEN "arrow" ELSE form))
Ways == {"named", "unnamed", "misnamed", "piped", "redirected"}
Misnomer(form) == IF form = "csv" THEN OutName("tsv") ELSE OutName("csv")
Target(way, form) ==
  CASE way = "named"    -> OutName(form)
    [] way = "misnamed" -> Misnomer(form)
    [] OTHER            -> At1("out")

Writes(way, form) ==
  [Command("convert") EXCEPT
     !.to = form,
     !.output   = IF way \in {"piped", "redirected"} THEN Missing ELSE Target(way, form),
     !.redirect = IF way = "redirected" THEN Target(way, form) ELSE Missing]

Reads(way, form, reader) ==
  [Command(reader.op) EXCEPT
     !.input = IF way = "piped" THEN Stdin ELSE Target(way, form),
     !.inputFormat = IF reader.told = "it" THEN form ELSE reader.told,
     !.infer = reader.infer, !.plan = reader.plan]

Reader(op, told, infer) == [op |-> op, told |-> told, infer |-> infer, plan |-> Missing]
Readers ==
  {Reader("convert", told, "conservative") : told \in {Missing, "it", "jsonl", "xml"}}
    \union {Reader("inspect", told, infer) : told \in {Missing, "it"}, infer \in {"none", "aggressive"}}
    \union {Reader("query", "it", "conservative"),
            [Reader("transform", "it", "conservative") EXCEPT !.plan = At1("plan.json")]}

SourceOf(table) == [form |-> "json", value |-> Array(table)]
Relays ==
  {Session(<<Writes(way, form), Reads(way, form, reader)>>, data, Places) :
     way \in Ways, form \in FormatIds, reader \in Readers,
     data \in {SourceOf(table) : table \in Tables}}

\* The sheet is written as JSON, or as it is, and read again.
SheetRelays ==
  {Session(<<[Writes("named", form) EXCEPT !.inputFormat = sheet.form],
             Reads("named", form, reader)>>, sheet, Places) :
     sheet \in Sheets, form \in FormatIds, reader \in Readers}

-----------------------------------------------------------------------------
(* Paths.                                                                  *)
Configs ==
  {NoFile, Absent, Malformed, Open, [readRoots |-> <<>>, writeRoots |-> <<>>],
   [readRoots |-> <<At0(<<"d">>)>>], [writeRoots |-> <<At1("data")>>],
   [writeRoots |-> <<Relative(<<"new", "sub">>)>>], [infer |-> "eager", maxRows |-> 1],
   [readRoots |-> <<At1("data"), At0(<<"d">>)>>, writeRoots |-> <<At0(<<"d">>), At1(".shapeport")>>]}
Inputs  == {At1("in.json"), At0(<<"d", "in.json">>), Relative(<<"data", "in.json">>),
            Relative(<<"none", "in.json">>), At1("data"), At1("none"), Stdin}
Outputs == {Missing, At1("out.json"), At1("data"), Relative(<<"new", "sub", "out">>),
            Relative(<<".shapeport", "out.json">>), At0(<<"w", ".shapeport", "out.json">>),
            Relative(<<"data", "in.json">>), At0(<<"d", "out.json">>)}
Spread  == Data(SourceOf(<<A(Int1)>>))
             @@ (<<"d", "in.json">> :> SourceOf(<<A(Int1)>>))
             @@ (<<"w", "data", "in.json">> :> SourceOf(<<A(Int1)>>))
Walks ==
  {[commands |-> <<[Command("convert") EXCEPT !.config = c, !.input = i, !.output = o]>>,
    files |-> Spread, dirs |-> Places \union made] :
     c \in Configs, i \in Inputs, o \in Outputs, made \in {{}, {<<"w", ".shapeport">>}}}

\* Paths that wind: up from a directory that is there, is not, or is a file; along links.
Detours ==
  {Relative(<<"data", "..", "in.json">>), Relative(<<".", "in.json">>), Relative(<<"link", "in.json">>),
   Relative(<<"none", "..", "in.json">>), Relative(<<"in.json", "..", "in.json">>), Relative(<<"..">>),
   At0(<<"w", "link", "..", "d", "in.json">>), At1("link")}
NewPlaces ==
  {Relative(<<"data", "..", "out.json">>), Relative(<<".", "out.json">>),
   Relative(<<".", "none", "out.json">>), Relative(<<"link", "out.json">>),
   Relative(<<"link", "none", "out.json">>), Relative(<<"none", "..", "..", "d", "out.json">>),
   At0(<<"w", "none", "..", "..", "d", "out.json">>), Relative(<<"none", "..">>),
   At0(<<"w", "none", "..", "out.json">>), Relative(<<"none", "sub", "..", "..", "out.json">>),
   At1("gone"), At1("lost"), Relative(<<"lost", "out.json">>), Relative(<<"in.json", "..", "out.json">>),
   Relative(<<"none", "..", "in.json", "out.json">>), Relative(<<"link", "..", "out.json">>)}
WindingRoots ==
  {At1("link"), At1("gone"), At1("lost"), Relative(<<"none", "..">>), Relative(<<"data", "..", "..">>),
   Relative(<<"none", "sub">>), At0(<<"w", "none", "..">>), Relative(<<".", "none">>)}
WindingConfigs ==
  {NoFile, Open} \union {[readRoots |-> <<r>>, writeRoots |-> <<r>>] : r \in WindingRoots}
WindingWalks ==
  {[commands |-> <<[Command("convert") EXCEPT !.config = c, !.input = i]>>,
    files |-> Spread, dirs |-> Places] : c \in WindingConfigs, i \in Detours}
  \union
  {[commands |-> <<[Command("schema") EXCEPT !.config = c, !.schema = s, !.output = o]>>,
    files |-> Spread, dirs |-> Places] :
     c \in WindingConfigs, o \in NewPlaces,
     s \in {Relative(<<"link", "..", "w", "schema.json">>), Relative(<<"none", "..", "schema.json">>)}}

-----------------------------------------------------------------------------
(* Options, documents and limits.                                          *)
Schemas0 == {Missing, At1("schema.yaml"), At1("schema.json"), At1("new"), At1("none")}
Plans0   == {Missing, At1("plan.json"), At1("bad.json"), At1("schema.yaml"), At1("none")}
Rows2    == SourceOf(<<A(Int1), A(A(Int1))>>)
Single(command) == Session(<<command>>, Rows2, Places)

Options ==
  {Single([Command(op) EXCEPT !.schema = s, !.plan = p, !.input = i, !.output = o]) :
     op \in {"schema", "plan", "validate"}, s \in Schemas0, p \in Plans0,
     i \in {At1("in.json"), Missing}, o \in {Missing, At1("out.json")}}
  \union
  {Single([Command("transform") EXCEPT !.schema = s, !.plan = p, !.output = o]) :
     s \in Schemas0, p \in Plans0, o \in {Missing, At1("out.json")}}
  \union
  {Single([Command("plan") EXCEPT !.schema = At1("schema.json"), !.from = f, !.mode = m, !.explain = e]) :
     f \in Schemas0, m \in {"strict", "smart", "best"}, e \in BOOLEAN}
  \union
  {Single([Command(op) EXCEPT !.to = t, !.sql = q, !.mode = m, !.infer = n, !.config = c]) :
     op \in {"inspect", "schema", "transform", "query", "convert"}, t \in {"json", "csv", "xml"},
     q \in {Missing, "some"}, m \in {"smart", "best"}, n \in {"none", "some"},
     c \in {Open, [maxInput |-> 1], [maxRows |-> 1], [maxDepth |-> 1], [maxOutput |-> 0]}}

\* A plan is made, perhaps with an explanation, and run.
PlanAndRun ==
  {Session(<<[Command("plan") EXCEPT !.schema = At1("schema.json"), !.explain = e, !.redirect = At1("out")],
             [Command("transform") EXCEPT !.plan = At1("out"), !.schema = s, !.to = t]>>, Rows2, Places) :
     e \in BOOLEAN, s \in {Missing, At1("schema.yaml")}, t \in {"jsonl", "yaml"}}

\* An output whose path goes up from a directory that is not there.
Written0(path) == Single([Command("convert") EXCEPT !.output = path])
MCDotted == {Written0(At0(<<"w", "none", "..", "..", "d", "out.json">>))}

MCSessions == Relays \union SheetRelays \union Walks \union WindingWalks \union Options \union PlanAndRun

=============================================================================
