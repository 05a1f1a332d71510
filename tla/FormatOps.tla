----------------------------- MODULE FormatOps ------------------------------
(***************************************************************************)
(* What Formats asks of a value and of all that is in it, for the runs.    *)
(***************************************************************************)
EXTENDS Formats, Documents, TLC

\* Nested values are serialized by the same rules.
RECURSIVE JsonOf(_)
JsonOf(parts) ==
  [x \in DOMAIN parts |->
     CASE parts[x].type = "array"  -> Array(JsonOf(parts[x].items))
       [] parts[x].type = "object" -> Object(JsonOf(parts[x].fields))
       [] OTHER                    -> SerializedAtom(parts[x])]

\* What the text probes look for in the text of a value.
RECURSIVE TextsOf(_)
TextsOf(v) ==
  CASE v.type = "text"   -> {v.text}
    [] v.type = "array"  -> UNION {TextsOf(v.items[i]) : i \in DOMAIN v.items}
    [] v.type = "object" -> DOMAIN v.fields \union UNION {TextsOf(v.fields[n]) : n \in DOMAIN v.fields}
    [] OTHER             -> {}

RECURSIVE HoldsKey(_)
HoldsKey(v) ==
  \/ v.type = "object" /\ DOMAIN v.fields # {}
  \/ v.type = "array"  /\ \E i \in DOMAIN v.items : HoldsKey(v.items[i])

=============================================================================
