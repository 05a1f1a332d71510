------------------------------ MODULE Formats -------------------------------
(***************************************************************************)
(* crates/shapeport-core/src/formats.rs: which format bytes are taken for, *)
(* what records they hold, and the bytes records become.  Bytes are known  *)
(* by the format they were written in (form) and what was written: one     *)
(* value (JSON, YAML), one value a line (JSONL), a header with rows of     *)
(* texts (CSV, TSV), or the values of columns (Arrow, Parquet).  JSON      *)
(* stands on several lines, as the encoder writes it.  What the parsers    *)
(* make of bytes of another form is Misread: anything, or an error.  Bytes *)
(* of form "several" are JSON values after one another.                    *)
(***************************************************************************)
EXTENDS Values, Integers, Sequences, FiniteSets, SequencesExt

CONSTANTS
  Integral,   \* the texts that parse as i64, as a function to their numbers
  Pointed,    \* those with a decimal point that parse, as a function likewise
  ZeroLed,    \* those with a leading zero before another digit
  TextOf,     \* a number as it is displayed: a function to texts
  WithComma,  \* the texts that contain a comma
  WithColon,  \* the texts that contain a colon
  AllKeys,    \* the keys objects may have
  InOrder(_), \* some of the keys, in the order objects have them
  BatchSize,  \* the rows the Arrow reader puts in one batch
  \* What is said of a value with all that is in it (FormatOps):
  SerializedParts(_), \* the items or fields of a value, each Serialized
  TextsIn(_),         \* the texts and keys in a value
  HasKey(_)           \* whether there is a key in a value

ASSUME BatchAssumption == BatchSize \in Nat

IsList(s) == s \in Seq(Range(s))

ASSUME KeysAssumption ==
  \A names \in SUBSET AllKeys : IsList(InOrder(names)) /\ Range(InOrder(names)) = names

ASSUME EmptyAssumption == ~HasKey(Array(<<>>))

Delimited == {"csv", "tsv"}
Columnar  == {"parquet", "arrow-ipc"}
FormatIds == {"json", "jsonl", "yaml"} \union Delimited \union Columnar

Error(kind, code) == [kind |-> kind, error |-> code]
IsError(r) == "error" \in DOMAIN r
Misread == Object("?" :> Text("?"))

-----------------------------------------------------------------------------
(* Writing.                                                                *)
(***************************************************************************)
(* Serialize for Value: a decimal is written as a text, everything else as *)
(* it is.  What is left of a record is spelt out, as columns are made of   *)
(* its fields.                                                             *)
(***************************************************************************)
SerializedAtom(v) == IF v.type = "decimal" THEN Text(TextOf[v.number]) ELSE v
Serialized(v) ==
  CASE v.type = "array"  -> Array(SerializedParts(v.items))
    [] v.type = "object" -> Object(SerializedParts(v.fields))
    [] OTHER             -> SerializedAtom(v)

SerializedRecord(r) ==
  IF r.type = "object" THEN Object([n \in DOMAIN r.fields |-> Serialized(r.fields[n])])
  ELSE Serialized(r)
AllSerialized(records) == [i \in DOMAIN records |-> SerializedRecord(records[i])]

\* cell_text, of a value that is no array and no object.
CellText(v) ==
  CASE v = Null           -> ""
    [] v.type = "text"    -> v.text
    [] v.type = "bool"    -> IF v.bool THEN "true" ELSE "false"
    [] OTHER              -> TextOf[v.number]

IsNested(v) == v.type \in {"array", "object"}
Value(v, name) == IF name \in DOMAIN v.fields THEN v.fields[name] ELSE Null

\* delimited_headers: the columns are those of the first record.
Columns(records) ==
  IF records # <<>> /\ records[1].type = "object" THEN DOMAIN records[1].fields ELSE {}

EncodeDelimited(records, form) ==
  LET columns == InOrder(Columns(records))
      \* The library writes a record without fields as one empty field.
      header  == IF columns = <<>> THEN <<"">> ELSE columns
  IN  IF \A i \in DOMAIN records :
           records[i].type = "object"
             /\ \A n \in Columns(records) : ~IsNested(Value(records[i], n))
      THEN [form |-> form, header |-> header,
            rows |-> [i \in DOMAIN records |->
                        [k \in DOMAIN header |-> CellText(Value(records[i], header[k]))]]]
      ELSE Error("transform", "csv_nested")

(***************************************************************************)
(* records_to_batch: the columns' types are inferred from all records, and *)
(* one batch is read.  The library's rules, as far as they show here: a    *)
(* column of integers and floats is one of floats; one of other kinds      *)
(* together takes only texts; nulls leave no trace in the JSON read back.  *)
(***************************************************************************)
Kinds(records, name) ==
  {Value(records[i], name).type : i \in DOMAIN records} \ {"null"}
FitsColumn(v, kinds) == v = Null \/ Cardinality(kinds) = 1 \/ kinds = {"int", "float"} \/ v.type = "text"
AsColumn(v, kinds) == IF kinds = {"int", "float"} THEN Number("float", v.number) ELSE v

FirstBatch(records) == SubSeq(records, 1, IF Len(records) < BatchSize THEN Len(records) ELSE BatchSize)

Row(v, records) ==
  Object([n \in {name \in DOMAIN v.fields : v.fields[name] # Null} |->
            AsColumn(v.fields[n], Kinds(records, n))])

EncodeColumnar(records, form) ==
  LET batch == FirstBatch(records)
  IN  CASE records = <<>> -> Error("transform", "arrow_json")
        [] \E i \in DOMAIN records : records[i].type # "object" -> Error("transform", "arrow_schema")
        [] OTHER ->
             IF \E i \in DOMAIN batch : \E n \in DOMAIN batch[i].fields :
                  ~FitsColumn(batch[i].fields[n], Kinds(records, n))
             THEN Error("transform", "arrow_json")
             ELSE [form |-> form, values |-> [i \in DOMAIN batch |-> Row(batch[i], records)]]

EncodeRecords(records, form) ==
  CASE form \in {"json", "yaml"} -> [form |-> form, value |-> Array(AllSerialized(records))]
    [] form = "jsonl"            -> [form |-> form, values |-> AllSerialized(records)]
    [] form \in Delimited        -> EncodeDelimited(records, form)
    [] form \in Columnar         -> EncodeColumnar(AllSerialized(records), form)

-----------------------------------------------------------------------------
(* Detecting: the format given, the magic bytes, the path, the text.       *)
CellsOf(content) == Range(content.header) \union UNION {Range(content.rows[i]) : i \in DOMAIN content.rows}
YamlOrCsv(comma, colon) == IF colon /\ ~comma THEN "yaml" ELSE "csv"

ProbeText(content) ==
  CASE content.form = "json"  ->
         IF IsNested(content.value) THEN "json"
         ELSE YamlOrCsv(TextsIn(content.value) \intersect WithComma # {},
                        TextsIn(content.value) \intersect WithColon # {})
    [] content.form = "jsonl" ->
         CASE Len(content.values) = 0 -> "csv"
           [] Len(content.values) = 1 -> IF IsNested(content.values[1]) THEN "json" ELSE "csv"
           [] OTHER                   -> IF IsNested(content.values[1]) THEN "jsonl" ELSE "csv"
    [] content.form = "yaml"  ->
         IF content.value = Array(<<>>) THEN "json"
         ELSE YamlOrCsv(TextsIn(content.value) \intersect WithComma # {},
                        HasKey(content.value) \/ TextsIn(content.value) \intersect WithColon # {})
    [] content.form = "csv"   ->
         YamlOrCsv(Len(content.header) > 1 \/ CellsOf(content) \intersect WithComma # {},
                   CellsOf(content) \intersect WithColon # {})
    [] content.form = "tsv"   ->
         YamlOrCsv(CellsOf(content) \intersect WithComma # {}, CellsOf(content) \intersect WithColon # {})
    [] OTHER -> "jsonl"

\* Mutant: the path is believed before the magic bytes.
DetectByPath(content, extension, explicit) ==
  CASE explicit \in FormatIds -> explicit
    [] explicit \notin FormatIds /\ extension \in FormatIds -> extension
    [] OTHER -> IF content.form \in Columnar THEN content.form ELSE ProbeText(content)

DetectFormat(content, extension, explicit) ==
  CASE explicit \in FormatIds -> explicit
    [] explicit \notin FormatIds /\ content.form \in Columnar -> content.form
    [] OTHER -> IF extension \in FormatIds THEN extension ELSE ProbeText(content)

-----------------------------------------------------------------------------
(* Reading.                                                                *)
ConservativeCell(text) ==
  CASE text \in DOMAIN Integral \ ZeroLed   -> Number("int", Integral[text])
    [] text \in DOMAIN Pointed \ ZeroLed -> Number("decimal", Pointed[text])
    [] OTHER                             -> Text(text)

AggressiveCell(text) ==
  CASE text \in {"true", "TRUE", "yes"}  -> Bool(TRUE)
    [] text \in {"false", "FALSE", "no"} -> Bool(FALSE)
    [] text \in DOMAIN Pointed \ ZeroLed -> Number("float", Pointed[text])
    [] OTHER                             -> ConservativeCell(text)

\* Mutant: a leading zero is no reason to keep the text.
InferCellDropsZeros(text, infer) ==
  IF infer = "none" \/ text \notin DOMAIN Integral THEN Text(text) ELSE Number("int", Integral[text])

\* No caller gives null spellings.
InferCell(text, infer) ==
  CASE infer = "none"         -> Text(text)
    [] infer = "conservative" -> ConservativeCell(text)
    [] infer = "aggressive"   -> AggressiveCell(text)

DecodeDelimited(content, infer) ==
  [i \in DOMAIN content.rows |->
     Object([n \in Range(content.header) |->
               InferCell(content.rows[i][CHOOSE k \in DOMAIN content.header : content.header[k] = n],
                         infer)])]

RecordsFromValue(v) == IF v.type = "array" THEN v.items ELSE <<v>>
AsRecord(v) == IF v.type = "object" THEN v ELSE Object("value" :> v)

\* The outcomes decode_records may have: records, or an error.
Rows(records) == [rows |-> records]
Decodings(content, format, infer) ==
  LET form  == content.form
      lines == IF form = "jsonl" THEN content.values ELSE <<>>
  IN  CASE form = format /\ form \in Delimited -> {Rows(DecodeDelimited(content, infer))}
        [] form = format /\ form = "jsonl"     -> {Rows([i \in DOMAIN lines |-> AsRecord(lines[i])])}
        [] form = format /\ form \in Columnar  -> {Rows(content.values)}
        [] form \in {format, "json"} /\ form \in {"json", "yaml"} /\ format \in {"json", "yaml"} ->
             {Rows(RecordsFromValue(content.value))}
        [] form = "jsonl" /\ format \in {"json", "yaml"} /\ Len(lines) = 1 ->
             {Rows(RecordsFromValue(lines[1]))}
        [] form = "jsonl" /\ format = "yaml" /\ lines = <<>>      -> {Rows(<<Null>>)}
        [] form = "jsonl" /\ format \in Delimited /\ lines = <<>> -> {Rows(<<>>)}
        [] form # format /\ format \in Delimited /\ (form = "jsonl" => lines # <<>>) ->
             {Rows(<<Misread>>), Error("parse", "csv_error")}
        [] form # format /\ format = "yaml" /\ form \notin {"json", "jsonl"} ->
             {Rows(<<Misread>>), Error("parse", "yaml_error")}
        [] form = "json" /\ format = "jsonl" /\ content.value = Array(<<>>) ->
             {Rows(<<AsRecord(content.value)>>)}
        [] OTHER -> {Error("parse", "mismatch")}

=============================================================================
