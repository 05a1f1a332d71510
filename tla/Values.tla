------------------------------- MODULE Values -------------------------------
(***************************************************************************)
(* Values (value.rs).  Left out are binary, date and timestamp values,     *)
(* which no decoder makes of a text, and the unsigned ones, which decoders *)
(* make of the integers above 2^63 - 1 only.                               *)
(***************************************************************************)

Null         == [type |-> "null"]
Bool(b)      == [type |-> "bool", bool |-> b]
Number(t, n) == [type |-> t, number |-> n]   \* t is "int", "float" or "decimal"
Text(t)      == [type |-> "text", text |-> t]
Array(items) == [type |-> "array", items |-> items]
Object(f)    == [type |-> "object", fields |-> f]

=============================================================================
