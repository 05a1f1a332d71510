------------------------------ MODULE MCServer ------------------------------
(***************************************************************************)
(* Two calls at once, of every tool, on an inline table of three rows (one *)
(* more than an Arrow batch) and on the artifacts made of it.  One of its  *)
(* encodings is too large for the store, one for an answer.                *)
(***************************************************************************)
EXTENDS Server, FormatOps

CONSTANTS c1, c2

MCCalls == {c1, c2}
Symm == Permutations(MCCalls)

A(v)  == Object("a" :> v)
Table == <<A(Text("k:v")), A(Text("x")), A(Text("x"))>>

MCContents ==
  {EncodeRecords(Table, form) : form \in {"tsv", "parquet", "json", "jsonl"}}
MCFitting   == MCContents \ {EncodeRecords(Table, "jsonl")}
MCExcessive == {EncodeRecords(Table, "json")}
MCResults   == {<<>>}
MCIntegral  == "1" :> 2
MCPointed   == "1.5" :> 3
MCTextOf    == (2 :> "1") @@ (3 :> "1.5")
MCKeyOrder == <<"a", "value", "?">>
MCKeys     == Range(MCKeyOrder)
MCInOrder(names) == SelectSeq(MCKeyOrder, LAMBDA name : name \in names)

\* The first takes what has the token, the last what has no foreign origin:
\* each stores one of the two artifacts.  The second may not start.
Given(origins, token) == [origins |-> origins, token |-> token]
MCServers ==
  {[bind |-> "wide", file |-> Given({}, "old"), env |-> Given({"there"}, "key")],
   [bind |-> "wide", file |-> Given({}, Absent), env |-> Given(Absent, "")],
   [bind |-> "loopback", file |-> Given({"here"}, "old"), env |-> Given(Absent, Absent)]}

InlineTable == [from |-> "inline", value |-> Array(Table), format |-> Absent]
Elsewhere   == [from |-> "elsewhere", format |-> Absent]
Of(form, format) ==
  [from |-> "artifact", content |-> EncodeRecords(Table, form), format |-> format]
Local(op, source, to) ==
  [op |-> op, source |-> source, to |-> to, token |-> Absent, origin |-> Absent]
Remote(op, source, to) ==
  [op |-> op, source |-> source, to |-> to, token |-> "key", origin |-> "there"]

MCRequests ==
  {Remote("convert", InlineTable, "tsv"), Local("convert", InlineTable, "parquet"),
   Local("convert", InlineTable, "xml"), Remote("transform", InlineTable, "xml"),
   Local("inspect", Elsewhere, Absent),
   Local("validate", [InlineTable EXCEPT !.format = "csv"], Absent),
   Remote("convert", Of("tsv", "tsv"), "jsonl"), Remote("plan", Of("tsv", Absent), Absent),
   Local("query", Of("parquet", "csv"), "json"), Local("convert", Of("parquet", "parquet"), "tsv")}

=============================================================================
