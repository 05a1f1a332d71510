------------------------------ MODULE Scoring -------------------------------
(***************************************************************************)
(* How planner.rs scores one source field as the origin of one target      *)
(* field: score_pair, score_list_pair, score_names, normalized_path_match, *)
(* synonym_bonus, and the comparisons select_candidate makes.              *)
(*                                                                         *)
(* The code adds f64 constants.  A score is kept here in 1/10000, with the *)
(* last digit standing for the binary64 rounding error wherever it decides *)
(* a comparison: 0.65+0.20 is one ulp above 0.85, the sum 0.75+0.20 and    *)
(* the literal 0.95 are below 0.90 + 0.05, and 0.75+0.65+0.20 is below     *)
(* 1.60.  With that every "difference < 0.05" between two attainable       *)
(* scores comes out as it does in the program.                             *)
(***************************************************************************)
EXTENDS Schema, SequencesExt

CONSTANTS
  Words,               \* normalize_name: a name as the words left of it
  AmbiguityThreshold,  \* PlannerConfig.ambiguity_threshold, in 1/10000
  AutoAcceptThreshold  \* PlannerConfig.auto_accept_threshold, in 1/10000

Modes == {"strict", "smart"}

-----------------------------------------------------------------------------
\* The pairs of synonym_bonus, as word sequences.
Synonyms ==
  {<< <<"period">>, <<"month">> >>,
   << <<"product", "family">>, <<"product">> >>,
   << <<"total", "sales", "usd">>, <<"revenue">> >>,
   << <<"gross", "amount">>, <<"amount">> >>,
   << <<"net", "amount">>, <<"amount">> >>,
   << <<"created", "at">>, <<"timestamp">> >>,
   << <<"customer", "id">>, <<"id">> >>}

NormPath(path) == FlattenSeq([i \in DOMAIN path |-> Words[path[i]]])

ExactName(s, t) == s.field.name = t.field.name
AliasMatch(s, t) == ~ExactName(s, t) /\ t.field.name \in s.field.aliases

NormalizedName(mode, s, t) ==
  /\ mode = "smart"
  /\ Words[s.field.name] = Words[t.field.name]
  /\ ~ExactName(s, t)

DirectEvidence(mode, s, t) ==
  ExactName(s, t) \/ AliasMatch(s, t) \/ NormalizedName(mode, s, t)

NormalizedPath(mode, s, t) ==
  /\ mode = "smart"
  /\ ~DirectEvidence(mode, s, t)
  /\ \/ NormPath(s.path) = NormPath(t.path)
     \/ NormPath(s.path) = Words[t.field.name]
     \/ Words[s.field.name] = NormPath(t.path)

Synonym(mode, s, t) ==
  /\ mode = "smart"
  /\ \E pair \in Synonyms :
       \/ pair = <<Words[s.field.name], Words[t.field.name]>>
       \/ pair = <<Words[t.field.name], Words[s.field.name]>>

\* score_pair for a scalar target, score_list_pair for a list target.
Comparable(s, t) ==
  IF IsList(t.field.ty) THEN IsList(s.field.ty)
                        ELSE TypesCompatible(s.field.ty, t.field.ty)

ExactType(s, t) ==
  IF IsList(t.field.ty) THEN s.field.ty = t.field.ty
                        ELSE SameKind(s.field.ty, t.field.ty)

\* Strict mode drops a pair with neither an exact name nor an alias.
IsCandidate(mode, s, t) ==
  /\ Comparable(s, t)
  /\ mode = "strict" => ExactName(s, t) \/ AliasMatch(s, t)

Points(condition, points) == IF condition THEN points ELSE 0

Hundredths(mode, s, t) ==
    Points(ExactName(s, t) \/ AliasMatch(s, t), 80)
  + Points(NormalizedName(mode, s, t) \/ NormalizedPath(mode, s, t), 75)
  + Points(Synonym(mode, s, t), 65)
  + IF ExactType(s, t) THEN 20 ELSE 10

Score(mode, s, t) ==
  LET h == Hundredths(mode, s, t)
  IN  CASE h = 85 /\ ExactType(s, t) -> 8501   \* 0.65 + 0.20
        [] h = 95                    -> 9499   \* 0.75 + 0.20
        [] h = 160                   -> 15999  \* 0.75 + 0.65 + 0.20
        [] OTHER                     -> 100 * h

\* (best - second).abs() < 0.05
Close(a, b) == a - b < 500 /\ b - a < 500

Plausible(score) == score >= AmbiguityThreshold

=============================================================================
