----------------------- MODULE PlannerChoices_proofs ------------------------
(***************************************************************************)
(* Why the planner takes what it takes: what it maps had no rival left,    *)
(* what it omits had no source left, and what it explains is what it plans, *)
(* for all schemas, names and thresholds.                                  *)
(***************************************************************************)
EXTENDS Planner_proofs

-----------------------------------------------------------------------------
(***************************************************************************)
(* The invariant.  What the properties say of the entries of a context is  *)
(* said of one entry at a time, so that entries added after it leave it    *)
(* true.                                                                   *)
(***************************************************************************)
\* The n-th entry of c, where it maps a source, left no rival behind.
Unrivaled(mode, c, n) ==
  LET e == c.explanation[n] IN
  Len(e.source) = 1 =>
    \E i \in DOMAIN c.sources :
      /\ e.source = <<c.sources[i].path>>
      /\ \A j \in DOMAIN c.sources :
           /\ c.sources[j].path # c.sources[i].path
           /\ IsCandidate(mode, c.sources[j], e.to)
           /\ \/ Score(mode, c.sources[j], e.to) > Score(mode, c.sources[i], e.to)
              \/ /\ Close(Score(mode, c.sources[j], e.to), Score(mode, c.sources[i], e.to))
                 /\ Plausible(Score(mode, c.sources[j], e.to))
           => SpentBefore(c, n, j)

\* Where it omits a target, nothing plausible was left for it.
Forced(mode, c, n) ==
  LET e == c.explanation[n] IN
  e.action = "omit" /\ Len(e.target) = 1 =>
    \A j \in DOMAIN c.sources :
      IsCandidate(mode, c.sources[j], e.to) /\ Plausible(Score(mode, c.sources[j], e.to))
      => SpentBefore(c, n, j)

\* An entry with what every entry has: a target.
Justified(mode, c, n) ==
  Unrivaled(mode, c, n) /\ Forced(mode, c, n) /\ c.explanation[n].target # NoPlace

\* Of a context: a path is used only by an entry that says so, and the sources
\* do not change once there are entries.
Steady(mode, c) ==
  /\ \A n \in 1 .. Len(c.explanation) : Justified(mode, c, n)
  /\ \A path \in c.used : \E m \in 1 .. Len(c.explanation) : c.explanation[m].source = <<path>>
  /\ c.collect # <<>> => c.explanation = <<>>
  /\ Pairs(c.bindings) = Pairs(c.explanation)

\* The i-th source has the path, and no source that is left is as good for
\* target t.
Winner(mode, c, t, path, i) ==
  /\ c.sources[i].path = path /\ path \notin c.used
  /\ \A j \in DOMAIN c.sources :
       /\ c.sources[j].path \notin c.used /\ c.sources[j].path # path
       /\ IsCandidate(mode, c.sources[j], t)
       => /\ Score(mode, c.sources[j], t) <= Score(mode, c.sources[i], t)
          /\ ~(/\ Close(Score(mode, c.sources[i], t), Score(mode, c.sources[j], t))
               /\ Plausible(Score(mode, c.sources[j], t)))

\* The source at path may be given to target t.
Choice(mode, c, t, path) == \E i \in DOMAIN c.sources : Winner(mode, c, t, path, i)

\* A caller can still take the list whose elements are being planned.
Waits(mode, c) ==
  c.collect = <<>> /\ c.build # <<>> /\ Choice(mode, c, Head(c.build), c.list)

AllSteady ==
  /\ \A k \in 1 .. Len(stack) : Steady(request.mode, stack[k])
  /\ \A k \in 1 .. Len(stack) - 1 : Waits(request.mode, stack[k])
  /\ outcome.status = "ready" => Pairs(outcome.bindings) = Pairs(outcome.explanation)

-----------------------------------------------------------------------------
(***************************************************************************)
(* Scores, places and paths.                                               *)
(***************************************************************************)
LEMMA ScoreType == \A mode, s, t : Score(mode, s, t) \in Int
<1> SUFFICES ASSUME NEW mode, NEW s, NEW t PROVE Score(mode, s, t) \in Int
  OBVIOUS
<1>1. \A condition : Points(condition, 80) \in Int /\ Points(condition, 75) \in Int
                     /\ Points(condition, 65) \in Int
  BY DEF Points
<1>2. Hundredths(mode, s, t) \in Int
  BY <1>1 DEF Hundredths
<1> QED BY <1>2 DEF Score

\* What is nested does not look like a place of the caller's own.
LEMMA NestLength ==
  ASSUME NEW place \in Place, NEW path \in Path
  PROVE  /\ Len(Nest(place, path)) # 1
         /\ Nest(place, path) = NoPlace <=> place = NoPlace
<1>1. CASE place = NoPlace
  BY <1>1 DEF Nest, NoPlace
<1>2. CASE place # NoPlace
  <2>1. <<path>> \in Seq(Path) /\ place \in Seq(Path) /\ Len(<<path>>) = 1
    BY DEF Place
  <2>2. Len(place) \in Nat \ {0}
    BY <1>2, <2>1, EmptySeq DEF NoPlace
  <2>3. Len(Nest(place, path)) = 1 + Len(place)
    BY <1>2, <2>1, ConcatProperties DEF Nest
  <2> QED BY <1>2, <2>2, <2>3, NestPlaces
<1> QED BY <1>1, <1>2

\* The pairs of items put together.
LEMMA PairsConcat ==
  ASSUME NEW S, NEW s \in Seq(S), NEW t \in Seq(S)
  PROVE  Pairs(s \o t) = Pairs(s) \union Pairs(t)
<1> DEFINE u == s \o t
           m == Len(s)
           n == Len(t)
<1>1. /\ m \in Nat /\ n \in Nat /\ DOMAIN s = 1 .. m /\ DOMAIN t = 1 .. n
      /\ u \in Seq(S) /\ Len(u) = m + n
      /\ \A i \in 1 .. m + n : u[i] = IF i <= m THEN s[i] ELSE t[i - m]
  BY LenProperties, ConcatProperties
<1>2. DOMAIN u = 1 .. m + n
  BY <1>1, LenProperties
<1> HIDE DEF u, m, n
<1>3. ASSUME NEW i \in DOMAIN u
      PROVE  \/ i \in DOMAIN s /\ u[i] = s[i]
             \/ i - m \in DOMAIN t /\ u[i] = t[i - m]
  BY <1>1, <1>2
<1>4. ASSUME NEW i \in DOMAIN s PROVE i \in DOMAIN u /\ u[i] = s[i]
  BY <1>1, <1>2
<1>5. ASSUME NEW i \in DOMAIN t PROVE m + i \in DOMAIN u /\ u[m + i] = t[i]
  <2>1. m + i \in 1 .. m + n /\ ~(m + i <= m) /\ (m + i) - m = i
    BY <1>1
  <2> QED BY <1>1, <1>2, <2>1
<1>6. ASSUME NEW pair \in Pairs(u) PROVE pair \in Pairs(s) \union Pairs(t)
  <2>1. PICK i \in DOMAIN u : u[i].source # NoPlace /\ pair = <<u[i].target, u[i].source>>
    BY DEF Pairs
  <2> QED BY <1>3, <2>1 DEF Pairs
<1>7. Pairs(s) \subseteq Pairs(u)
  BY <1>4 DEF Pairs
<1>8. Pairs(t) \subseteq Pairs(u)
  BY <1>5 DEF Pairs
<1> QED BY <1>6, <1>7, <1>8 DEF u

LEMMA PairsOfOne ==
  ASSUME NEW x
  PROVE  Pairs(<<x>>) = IF x.source # NoPlace THEN {<<x.target, x.source>>} ELSE {}
BY DEF Pairs

LEMMA PairsAppend ==
  ASSUME NEW S, NEW s \in Seq(S), NEW x \in S
  PROVE  Pairs(Append(s, x)) = Pairs(s) \union Pairs(<<x>>)
<1>1. <<x>> \in Seq(S) /\ Append(s, x) = s \o <<x>>
  BY AppendIsConcat
<1> DEFINE one == <<x>>
<1> HIDE DEF one
<1>2. Pairs(s \o one) = Pairs(s) \union Pairs(one)
  BY <1>1, PairsConcat DEF one
<1> QED BY <1>1, <1>2 DEF one

\* What nesting does to a list of items, bindings or entries.
NestedItems(lifted, items, t, path) ==
  /\ DOMAIN lifted = DOMAIN items
  /\ \A i \in DOMAIN items :
       /\ lifted[i].target = Nest(items[i].target, t.path)
       /\ lifted[i].source = Nest(items[i].source, path)
       /\ lifted[i].source # NoPlace <=> items[i].source # NoPlace

NestedPairs(pairs, t, path) == {<<Nest(pair[1], t.path), Nest(pair[2], path)>> : pair \in pairs}

LEMMA PairsNested ==
  ASSUME NEW lifted, NEW items, NEW t, NEW path, NestedItems(lifted, items, t, path)
  PROVE  Pairs(lifted) = NestedPairs(Pairs(items), t, path)
<1>1. ASSUME NEW pair \in Pairs(lifted) PROVE pair \in NestedPairs(Pairs(items), t, path)
  <2>1. PICK i \in DOMAIN lifted :
          lifted[i].source # NoPlace /\ pair = <<lifted[i].target, lifted[i].source>>
    BY DEF Pairs
  <2> DEFINE before == <<items[i].target, items[i].source>>
  <2>2. before \in Pairs(items)
    BY <2>1 DEF NestedItems, Pairs
  <2>3. pair = <<Nest(before[1], t.path), Nest(before[2], path)>>
    BY <2>1 DEF NestedItems
  <2> HIDE DEF before
  <2> QED BY <2>2, <2>3 DEF NestedPairs
<1>2. ASSUME NEW pair \in NestedPairs(Pairs(items), t, path) PROVE pair \in Pairs(lifted)
  <2>1. PICK before \in Pairs(items) : pair = <<Nest(before[1], t.path), Nest(before[2], path)>>
    BY DEF NestedPairs
  <2>2. PICK i \in DOMAIN items :
          items[i].source # NoPlace /\ before = <<items[i].target, items[i].source>>
    BY DEF Pairs
  <2>3. i \in DOMAIN lifted /\ lifted[i].source # NoPlace
        /\ pair = <<lifted[i].target, lifted[i].source>>
    BY <2>1, <2>2 DEF NestedItems
  <2> QED BY <2>3 DEF Pairs
<1> QED BY <1>1, <1>2

LEMMA LiftedNested ==
  ASSUME NEW bindings \in Seq(Binding), NEW entries \in Seq(Entry),
         NEW t \in FieldRef, NEW path \in Path
  PROVE  /\ NestedItems(LiftBindings(bindings, t, path), bindings, t, path)
         /\ NestedItems(LiftEntries(entries, t, path), entries, t, path)
<1>1. /\ DOMAIN bindings = 1 .. Len(bindings) /\ DOMAIN entries = 1 .. Len(entries)
      /\ t.path \in Path
  BY LenProperties DEF FieldRef
<1>2. ASSUME NEW i \in 1 .. Len(bindings) PROVE bindings[i] \in Binding
  BY ElementOfSeq
<1>3. ASSUME NEW i \in 1 .. Len(entries) PROVE entries[i] \in Entry
  BY ElementOfSeq
<1>4. ASSUME NEW i \in DOMAIN bindings
      PROVE  /\ LiftBindings(bindings, t, path)[i].target = Nest(bindings[i].target, t.path)
             /\ LiftBindings(bindings, t, path)[i].source = Nest(bindings[i].source, path)
             /\ Nest(bindings[i].source, path) # NoPlace <=> bindings[i].source # NoPlace
  <2>1. bindings[i] \in Binding
    BY <1>1, <1>2
  <2>2. bindings[i].source \in Place
    BY <2>1 DEF Binding
  <2>3. Nest(bindings[i].source, path) # NoPlace <=> bindings[i].source # NoPlace
    BY <2>2, NestLength
  <2> QED BY <2>1, <2>3 DEF LiftBindings, Binding
<1>5. ASSUME NEW i \in DOMAIN entries
      PROVE  /\ LiftEntries(entries, t, path)[i].target = Nest(entries[i].target, t.path)
             /\ LiftEntries(entries, t, path)[i].source = Nest(entries[i].source, path)
             /\ Nest(entries[i].source, path) # NoPlace <=> entries[i].source # NoPlace
  <2>1. entries[i] \in Entry
    BY <1>1, <1>3
  <2>2. entries[i].source \in Place
    BY <2>1 DEF Entry
  <2>3. Nest(entries[i].source, path) # NoPlace <=> entries[i].source # NoPlace
    BY <2>2, NestLength
  <2> QED BY <2>1, <2>3 DEF LiftEntries, Entry
<1>6. /\ DOMAIN LiftBindings(bindings, t, path) = DOMAIN bindings
      /\ DOMAIN LiftEntries(entries, t, path) = DOMAIN entries
  BY DEF LiftBindings, LiftEntries
<1>7. NestedItems(LiftBindings(bindings, t, path), bindings, t, path)
  BY <1>4, <1>6 DEF NestedItems
<1>8. NestedItems(LiftEntries(entries, t, path), entries, t, path)
  BY <1>5, <1>6 DEF NestedItems
<1> QED BY <1>7, <1>8

\* Nesting the items of two lists with the same pairs gives the same pairs.
LEMMA PairsLift ==
  ASSUME NEW bindings \in Seq(Binding), NEW entries \in Seq(Entry),
         Pairs(bindings) = Pairs(entries), NEW t \in FieldRef, NEW path \in Path
  PROVE  Pairs(LiftBindings(bindings, t, path)) = Pairs(LiftEntries(entries, t, path))
BY LiftedNested, PairsNested

-----------------------------------------------------------------------------
(***************************************************************************)
(* What entries added to a context leave true.                             *)
(***************************************************************************)
LEMMA JustifiedKept ==
  ASSUME NEW mode, NEW c, NEW d, NEW n \in Nat, d.sources = c.sources,
         \A m \in 1 .. n : d.explanation[m] = c.explanation[m],
         n >= 1, Justified(mode, c, n)
  PROVE  Justified(mode, d, n)
<1>1. d.explanation[n] = c.explanation[n]
  OBVIOUS
<1>2. \A j : SpentBefore(c, n, j) => SpentBefore(d, n, j)
  <2>1. \A m \in 1 .. n - 1 : d.explanation[m] = c.explanation[m]
    OBVIOUS
  <2> QED BY <2>1 DEF SpentBefore
<1>3. Unrivaled(mode, d, n)
  BY <1>1, <1>2 DEF Justified, Unrivaled
<1>4. Forced(mode, d, n)
  BY <1>1, <1>2 DEF Justified, Forced
<1> QED BY <1>1, <1>3, <1>4 DEF Justified

LEMMA SteadySame ==
  ASSUME NEW mode, NEW c \in Context, NEW d, Steady(mode, c),
         d.explanation = c.explanation, d.used = c.used, d.sources = c.sources,
         d.collect = c.collect, Pairs(d.bindings) = Pairs(c.bindings)
  PROVE  Steady(mode, d)
<1>1. ASSUME NEW n \in 1 .. Len(d.explanation) PROVE Justified(mode, d, n)
  <2>1. Justified(mode, c, n)
    BY DEF Steady
  <2>2. n \in Nat /\ n >= 1
    BY LenProperties DEF Context
  <2> QED BY <2>1, <2>2, JustifiedKept
<1> QED BY <1>1 DEF Steady

\* A context with no entries has nothing to justify.
LEMMA SteadyEmpty ==
  ASSUME NEW mode, NEW c, c.explanation = <<>>, c.used = {}, Pairs(c.bindings) = {}
  PROVE  Steady(mode, c)
<1>1. 1 .. Len(c.explanation) = {} /\ Pairs(c.explanation) = {}
  BY DEF Pairs
<1> QED BY <1>1 DEF Steady

\* An entry about a target that got nothing.
LEMMA SteadyUnmapped ==
  ASSUME NEW mode, NEW c \in Context, Steady(mode, c), c.collect = <<>>,
         NEW t \in FieldRef, NEW action \in {"omit", "ambiguous"},
         action = "omit" =>
           \A j \in DOMAIN c.sources :
             IsCandidate(mode, c.sources[j], t) /\ Plausible(Score(mode, c.sources[j], t))
             => c.sources[j].path \in c.used,
         NEW d, d.explanation = Append(c.explanation, Explain(t, NoPlace, action)),
         d.used = c.used, d.sources = c.sources, d.collect = c.collect, d.bindings = c.bindings
  PROVE  Steady(mode, d)
<1> DEFINE e == Explain(t, NoPlace, action)
           N == Len(c.explanation)
<1>1. /\ e \in Entry /\ e.source = NoPlace /\ e.to = t /\ e.action = action /\ e.target = <<t.path>>
      /\ c.explanation \in Seq(Entry)
  BY ExplainType, NoPlaceType DEF Explain, Context
<1> HIDE DEF e
<1>2. /\ N \in Nat /\ Len(d.explanation) = N + 1 /\ d.explanation[N + 1] = e
      /\ \A m \in 1 .. N : d.explanation[m] = c.explanation[m]
  BY <1>1, AppendProperties, LenProperties DEF e
<1>3. ASSUME NEW n \in 1 .. N PROVE Justified(mode, d, n)
  <2>1. Justified(mode, c, n)
    BY DEF Steady
  <2> QED BY <1>2, <2>1, JustifiedKept
<1>4. Justified(mode, d, N + 1)
  <2>1. Len(e.source) # 1 /\ e.target # NoPlace
    BY <1>1 DEF NoPlace
  <2>2. Unrivaled(mode, d, N + 1)
    BY <1>2, <2>1 DEF Unrivaled
  <2>3. ASSUME action = "omit", NEW j \in DOMAIN c.sources,
               IsCandidate(mode, c.sources[j], t), Plausible(Score(mode, c.sources[j], t))
        PROVE  SpentBefore(d, N + 1, j)
    <3>1. PICK m \in 1 .. N : c.explanation[m].source = <<c.sources[j].path>>
      BY <2>3 DEF Steady
    <3>2. m \in 1 .. (N + 1) - 1 /\ d.explanation[m].source = <<d.sources[j].path>>
      BY <1>2, <3>1
    <3> QED BY <3>2 DEF SpentBefore
  <2>4. Forced(mode, d, N + 1)
    BY <1>1, <1>2, <2>3 DEF Forced
  <2> QED BY <1>2, <2>1, <2>2, <2>4 DEF Justified
<1>5. ASSUME NEW path \in c.used
      PROVE  \E m \in 1 .. N + 1 : d.explanation[m].source = <<path>>
  <2>1. PICK m \in 1 .. N : c.explanation[m].source = <<path>>
    BY DEF Steady
  <2> QED BY <1>2, <2>1
<1>6. Pairs(d.explanation) = Pairs(c.explanation)
  <2>1. d.explanation = Append(c.explanation, e)
    BY DEF e
  <2>2. Pairs(Append(c.explanation, e)) = Pairs(c.explanation) \union Pairs(<<e>>)
    BY <1>1, PairsAppend
  <2>3. Pairs(<<e>>) = {}
    BY <1>1, PairsOfOne
  <2> QED BY <2>1, <2>2, <2>3
<1>7. \A n \in 1 .. N + 1 : Justified(mode, d, n)
  BY <1>2, <1>3, <1>4
<1> QED BY <1>2, <1>5, <1>6, <1>7 DEF Steady

\* An entry that gives a target the source at path.
LEMMA SteadyMapped ==
  ASSUME NEW mode, NEW c \in Context, Steady(mode, c), c.collect = <<>>,
         NEW t \in FieldRef, NEW path \in Path, Choice(mode, c, t, path),
         NEW op \in {"field", "listMap"}, NEW action \in {"map", "mapElements"}
  PROVE  Steady(mode, Mapped(c, t, path, op, action))
<1> DEFINE d == Mapped(c, t, path, op, action)
           e == Explain(t, <<path>>, action)
           b == Bind(t, <<path>>, op)
           N == Len(c.explanation)
<1>1. /\ e \in Entry /\ e.source = <<path>> /\ e.to = t /\ e.action = action
      /\ e.target = <<t.path>> /\ e.target # NoPlace /\ e.source # NoPlace
      /\ b \in Binding /\ b.source = <<path>> /\ b.target = <<t.path>>
      /\ c.explanation \in Seq(Entry) /\ c.bindings \in Seq(Binding)
  <2>1. <<path>> \in Place
    BY DEF Place
  <2>2. e \in Entry /\ b \in Binding
    BY <2>1, ExplainType, BindType
  <2> QED BY <2>2 DEF Explain, Bind, Context, NoPlace
<1>2. /\ d.explanation = Append(c.explanation, e) /\ d.bindings = Append(c.bindings, b)
      /\ d.used = c.used \union {path} /\ d.sources = c.sources /\ d.collect = <<>>
  BY DEF Mapped, Context
<1> HIDE DEF d, e, b
<1>3. /\ N \in Nat /\ Len(d.explanation) = N + 1 /\ d.explanation[N + 1] = e
      /\ \A m \in 1 .. N : d.explanation[m] = c.explanation[m]
  BY <1>1, <1>2, AppendProperties, LenProperties
<1>4. ASSUME NEW n \in 1 .. N PROVE Justified(mode, d, n)
  <2>1. Justified(mode, c, n)
    BY DEF Steady
  <2> QED BY <1>2, <1>3, <2>1, JustifiedKept
<1>5. PICK i \in DOMAIN c.sources : Winner(mode, c, t, path, i)
  BY DEF Choice
<1>6. ASSUME NEW j \in DOMAIN c.sources, c.sources[j].path \in c.used
      PROVE  SpentBefore(d, N + 1, j)
  <2>1. PICK m \in 1 .. N : c.explanation[m].source = <<c.sources[j].path>>
    BY <1>6 DEF Steady
  <2>2. m \in 1 .. (N + 1) - 1 /\ d.explanation[m].source = <<d.sources[j].path>>
    BY <1>2, <1>3, <2>1
  <2> QED BY <2>2 DEF SpentBefore
<1>7. Unrivaled(mode, d, N + 1)
  <2>1. ASSUME NEW j \in DOMAIN c.sources, c.sources[j].path # c.sources[i].path,
               IsCandidate(mode, c.sources[j], t),
               \/ Score(mode, c.sources[j], t) > Score(mode, c.sources[i], t)
               \/ /\ Close(Score(mode, c.sources[j], t), Score(mode, c.sources[i], t))
                  /\ Plausible(Score(mode, c.sources[j], t))
        PROVE  c.sources[j].path \in c.used
    <3> SUFFICES ASSUME c.sources[j].path \notin c.used PROVE FALSE
      OBVIOUS
    <3>1. /\ Score(mode, c.sources[j], t) <= Score(mode, c.sources[i], t)
          /\ ~(/\ Close(Score(mode, c.sources[i], t), Score(mode, c.sources[j], t))
               /\ Plausible(Score(mode, c.sources[j], t)))
      BY <1>5, <2>1 DEF Winner
    <3>2. Score(mode, c.sources[j], t) \in Int /\ Score(mode, c.sources[i], t) \in Int
      BY ScoreType
    <3> QED BY <2>1, <3>1, <3>2 DEF Close
  <2>2. e.source = <<c.sources[i].path>>
    BY <1>1, <1>5 DEF Winner
  <2> QED BY <1>1, <1>2, <1>3, <1>5, <1>6, <2>1, <2>2 DEF Unrivaled
<1>8. Forced(mode, d, N + 1)
  BY <1>1, <1>3 DEF Forced
<1>9. ASSUME NEW free \in d.used
       PROVE  \E m \in 1 .. N + 1 : d.explanation[m].source = <<free>>
  <2>1. CASE free = path
    BY <1>1, <1>3, <2>1
  <2>2. CASE free \in c.used
    <3>1. PICK m \in 1 .. N : c.explanation[m].source = <<free>>
      BY <2>2 DEF Steady
    <3> QED BY <1>3, <3>1
  <2> QED BY <1>2, <2>1, <2>2
<1>10. Pairs(d.bindings) = Pairs(d.explanation)
  <2>1. /\ Pairs(Append(c.explanation, e)) = Pairs(c.explanation) \union {<<e.target, e.source>>}
        /\ Pairs(Append(c.bindings, b)) = Pairs(c.bindings) \union {<<b.target, b.source>>}
    <3>1. c.explanation \in Seq(Entry) /\ e \in Entry /\ c.bindings \in Seq(Binding) /\ b \in Binding
      BY <1>1
    <3>2. Pairs(Append(c.explanation, e)) = Pairs(c.explanation) \union Pairs(<<e>>)
      BY ONLY <3>1, PairsAppend
    <3>3. Pairs(Append(c.bindings, b)) = Pairs(c.bindings) \union Pairs(<<b>>)
      BY ONLY <3>1, PairsAppend
    <3>4. Pairs(<<e>>) = {<<e.target, e.source>>}
      BY <1>1, PairsOfOne
    <3>5. b.source # NoPlace
      BY <1>1
    <3>6. Pairs(<<b>>) = {<<b.target, b.source>>}
      BY <3>5, PairsOfOne
    <3> QED BY <3>2, <3>3, <3>4, <3>6
  <2>2. Pairs(c.bindings) = Pairs(c.explanation)
    BY DEF Steady
  <2> QED BY <1>1, <1>2, <2>1, <2>2
<1>11. \A n \in 1 .. N + 1 : Justified(mode, d, n)
  <2>1. Justified(mode, d, N + 1)
    BY <1>1, <1>3, <1>7, <1>8 DEF Justified
  <2> QED BY <1>3, <1>4, <2>1
<1>12. Steady(mode, d)
  BY <1>2, <1>3, <1>9, <1>10, <1>11 DEF Steady
<1> QED BY <1>12 DEF d

\* Entries of the elements' plan, which all tell of places below the list.
LEMMA SteadyLift ==
  ASSUME NEW mode, NEW c \in Context, Steady(mode, c), c.collect = <<>>,
         NEW inner \in Context, Steady(mode, inner),
         NEW t \in FieldRef, NEW path \in Path,
         NEW d, d.explanation = c.explanation \o LiftEntries(inner.explanation, t, path),
         d.bindings = c.bindings \o LiftBindings(inner.bindings, t, path),
         d.used = c.used, d.sources = c.sources, d.collect = c.collect
  PROVE  Steady(mode, d)
<1> DEFINE entries == LiftEntries(inner.explanation, t, path)
           bound == LiftBindings(inner.bindings, t, path)
           N == Len(c.explanation)
           M == Len(inner.explanation)
<1>1. /\ entries \in Seq(Entry) /\ bound \in Seq(Binding)
      /\ c.explanation \in Seq(Entry) /\ c.bindings \in Seq(Binding)
      /\ inner.explanation \in Seq(Entry) /\ inner.bindings \in Seq(Binding)
      /\ N \in Nat /\ M \in Nat
      /\ t.path \in Path
  BY LiftEntriesType, LiftBindingsType, LenProperties DEF Context, FieldRef
<1>2. /\ DOMAIN entries = 1 .. M /\ Len(entries) = M
      /\ NestedItems(entries, inner.explanation, t, path)
  <2>1. NestedItems(entries, inner.explanation, t, path)
    BY <1>1, LiftedNested
  <2>2. DOMAIN entries = DOMAIN inner.explanation /\ DOMAIN inner.explanation = 1 .. M
    BY <1>1, <2>1, LenProperties DEF NestedItems
  <2> QED BY <1>1, <2>1, <2>2, LenProperties
<1>3. Pairs(entries) = Pairs(bound)
  BY <1>1, PairsLift DEF Steady
<1>4. d.explanation = c.explanation \o entries /\ d.bindings = c.bindings \o bound
  OBVIOUS
<1> HIDE DEF entries, bound
<1>5. /\ Len(d.explanation) = N + M
      /\ \A i \in 1 .. N + M :
           d.explanation[i] = IF i <= N THEN c.explanation[i] ELSE entries[i - N]
  <2>1. /\ Len(c.explanation \o entries) = Len(c.explanation) + Len(entries)
        /\ \A i \in 1 .. Len(c.explanation) + Len(entries) : (c.explanation \o entries)[i] =
             IF i <= Len(c.explanation) THEN c.explanation[i]
                                        ELSE entries[i - Len(c.explanation)]
    BY <1>1, ConcatProperties
  <2> QED BY <1>2, <1>4, <2>1
<1>6. N = Len(c.explanation) /\ M = Len(inner.explanation)
  OBVIOUS
<1>7. N \in Nat /\ M \in Nat
  BY <1>1
<1> HIDE DEF N, M
<1>8. ASSUME NEW n \in 1 .. N
      PROVE  n \in Nat /\ n >= 1 /\ n \in 1 .. N + M /\ d.explanation[n] = c.explanation[n]
  <2>1. n \in 1 .. N + M /\ n <= N /\ n \in Nat /\ n >= 1
    BY ONLY <1>7, n \in 1 .. N
  <2> QED BY ONLY <1>5, <2>1
<1>9. ASSUME NEW k \in 1 .. M
      PROVE  d.explanation[N + k] = entries[k]
  <2>1. N + k \in 1 .. N + M /\ ~(N + k <= N) /\ (N + k) - N = k
    BY ONLY <1>7, k \in 1 .. M
  <2> QED BY ONLY <1>5, <2>1
<1>10. ASSUME NEW n \in 1 .. N PROVE Justified(mode, d, n)
  <2>1. Justified(mode, c, n)
    BY <1>6 DEF Steady
  <2>2. \A m \in 1 .. n : m \in 1 .. N
    BY ONLY <1>7, n \in 1 .. N
  <2>3. \A m \in 1 .. n : d.explanation[m] = c.explanation[m]
    BY <1>8, <2>2
  <2> QED BY <1>8, <2>1, <2>3, JustifiedKept
<1>11. ASSUME NEW k \in 1 .. M PROVE Justified(mode, d, N + k)
  <2>1. d.explanation[N + k] = entries[k]
    BY <1>9
  <2>2. Justified(mode, inner, k) /\ inner.explanation[k] \in Entry
    BY <1>1, <1>6, ElementOfSeq DEF Steady
  <2>3. inner.explanation[k].target \in Place /\ inner.explanation[k].source \in Place
    BY <2>2 DEF Entry
  <2>4. inner.explanation[k].target # NoPlace
    BY <2>2 DEF Justified
  <2>5. /\ entries[k].target = Nest(inner.explanation[k].target, t.path)
        /\ entries[k].source = Nest(inner.explanation[k].source, path)
    BY <1>2, <2>1 DEF NestedItems
  <2>6. /\ Len(entries[k].source) # 1 /\ Len(entries[k].target) # 1
        /\ entries[k].target # NoPlace
    BY <1>1, <2>3, <2>4, <2>5, NestLength
  <2> QED BY <2>1, <2>6 DEF Justified, Unrivaled, Forced
<1>12. ASSUME NEW n \in 1 .. N + M PROVE Justified(mode, d, n)
  <2>1. n \in 1 .. N \/ (n - N \in 1 .. M /\ n = N + (n - N))
    BY ONLY <1>7, n \in 1 .. N + M
  <2>2. CASE n \in 1 .. N
    BY <1>10, <2>2
  <2>3. CASE n - N \in 1 .. M /\ n = N + (n - N)
    BY <1>11, <2>3
  <2> QED BY <2>1, <2>2, <2>3
<1>13. ASSUME NEW free \in c.used
       PROVE  \E m \in 1 .. N + M : d.explanation[m].source = <<free>>
  <2>1. PICK m \in 1 .. N : c.explanation[m].source = <<free>>
    BY <1>6 DEF Steady
  <2>2. m \in 1 .. N + M /\ d.explanation[m] = c.explanation[m]
    BY <1>8
  <2> QED BY <2>1, <2>2
<1>14. Pairs(d.bindings) = Pairs(d.explanation)
  <2>1. Pairs(c.explanation \o entries) = Pairs(c.explanation) \union Pairs(entries)
    BY ONLY <1>1, PairsConcat
  <2>2. Pairs(c.bindings \o bound) = Pairs(c.bindings) \union Pairs(bound)
    BY ONLY <1>1, PairsConcat
  <2>3. Pairs(c.bindings) = Pairs(c.explanation)
    BY DEF Steady
  <2> QED BY <1>3, <1>4, <2>1, <2>2, <2>3
<1> QED BY <1>5, <1>12, <1>13, <1>14 DEF Steady

-----------------------------------------------------------------------------
(***************************************************************************)
(* A context before its first target.                                      *)
(***************************************************************************)
LEMMA SteadyNew ==
  ASSUME NEW mode, NEW source, NEW target
  PROVE  Steady(mode, NewContext(source, target))
<1> DEFINE c == NewContext(source, target)
<1>1. c.explanation = <<>> /\ c.used = {} /\ c.bindings = <<>>
  BY DEF NewContext
<1> HIDE DEF c
<1>2. Pairs(c.bindings) = {}
  BY <1>1 DEF Pairs
<1>3. Steady(mode, c)
  BY <1>1, <1>2, SteadyEmpty
<1> QED BY <1>3 DEF c

LEMMA SteadyCollect ==
  ASSUME NEW mode, NEW c, Steady(mode, c), c.collect # <<>>,
         NEW d, d.explanation = c.explanation, d.used = c.used, d.bindings = c.bindings
  PROVE  Steady(mode, d)
<1>1. c.explanation = <<>>
  BY DEF Steady
<1>2. 1 .. Len(c.explanation) = {} /\ Pairs(c.explanation) = {}
  BY <1>1 DEF Pairs
<1>3. c.used = {} /\ Pairs(d.bindings) = {}
  BY <1>2 DEF Steady
<1> QED BY <1>1, <1>3, SteadyEmpty

-----------------------------------------------------------------------------
(***************************************************************************)
(* The source chosen for the next target is a choice in the sense above.   *)
(***************************************************************************)
LEMMA ChosenChoice ==
  ASSUME TypeOK, NEW path \in ChosenPaths
  PROVE  Choice(request.mode, Top, Target, path)
<1>1. AtLeaf /\ AtTarget
  BY ChosenType DEF AtLeaf
<1>2. PICK i \in Candidates(Top, Target) : path = Top.sources[i].path /\ Chosen(Top, Target, i)
  BY <1>1 DEF ChosenPaths
<1>3. Top \in Context /\ Top.sources \in Seq(FieldRef) /\ Target \in FieldRef
  BY <1>1, TargetType DEF Context
<1>4. i \in DOMAIN Top.sources /\ path \notin Top.used
  BY <1>2 DEF Candidates
<1>5. Winner(request.mode, Top, Target, path, i)
  <2> SUFFICES ASSUME NEW j \in DOMAIN Top.sources,
                      Top.sources[j].path \notin Top.used, Top.sources[j].path # path,
                      IsCandidate(request.mode, Top.sources[j], Target)
               PROVE  /\ ScoreOf(Top, j, Target) <= ScoreOf(Top, i, Target)
                      /\ ~(/\ Close(ScoreOf(Top, i, Target), ScoreOf(Top, j, Target))
                           /\ Plausible(ScoreOf(Top, j, Target)))
    BY <1>2, <1>4 DEF Winner, ScoreOf
  <2>1. j \in Candidates(Top, Target) \ {i}
    BY <1>2 DEF Candidates
  <2>2. \/ ScoreOf(Top, j, Target) < ScoreOf(Top, i, Target)
        \/ ScoreOf(Top, j, Target) = ScoreOf(Top, i, Target)
    BY <1>2, <2>1 DEF Chosen, IsBest
  <2>3. ScoreOf(Top, j, Target) \in Int /\ ScoreOf(Top, i, Target) \in Int
    BY ScoreType DEF ScoreOf
  <2>4. ~(/\ Close(ScoreOf(Top, i, Target), ScoreOf(Top, j, Target))
          /\ Plausible(ScoreOf(Top, j, Target)))
    BY <1>2, <2>1 DEF Chosen, Accepted, Contested
  <2> QED BY <2>2, <2>3, <2>4
<1> QED BY <1>4, <1>5 DEF Choice

-----------------------------------------------------------------------------
(***************************************************************************)
(* How the shapes of a step keep every context steady.                     *)
(***************************************************************************)
LEMMA BecomeSteady ==
  ASSUME TypeOK, AllSteady, stack # <<>>, NEW c, Steady(request.mode, c), Become(c)
  PROVE  AllSteady'
<1>1. stack \in Seq(Context \union {c}) /\ Len(stack) \in 1 .. Len(stack)
  BY TopType, SeqMonotonic DEF TypeOK
<1>2. /\ Len(stack') = Len(stack)
      /\ \A k \in 1 .. Len(stack) : stack'[k] = IF k = Len(stack) THEN c ELSE stack[k]
      /\ Len(stack) \in Nat
  BY <1>1, ExceptSeq, LenProperties DEF Become
<1>3. \A k \in 1 .. Len(stack') : Steady(request.mode, stack'[k])
  BY <1>2 DEF AllSteady
<1>4. ASSUME NEW k \in 1 .. Len(stack') - 1 PROVE Waits(request.mode, stack'[k])
  <2>1. k \in 1 .. Len(stack) /\ k # Len(stack) /\ k \in 1 .. Len(stack) - 1
    BY <1>2
  <2>2. stack'[k] = stack[k]
    BY <1>2, <2>1
  <2> QED BY <2>1, <2>2 DEF AllSteady
<1>5. outcome' = outcome /\ request' = request
  BY DEF Become
<1> QED BY <1>3, <1>4, <1>5 DEF AllSteady

LEMMA ReturnSteady ==
  ASSUME NEW result, Return(result),
         result.status = "ready" => Pairs(result.bindings) = Pairs(result.explanation)
  PROVE  AllSteady'
<1>1. stack' = <<>> /\ outcome' = result
  BY DEF Return
<1>2. 1 .. Len(stack') = {} /\ 1 .. Len(stack') - 1 = {}
  BY <1>1
<1> QED BY <1>1, <1>2 DEF AllSteady

LEMMA FailedSteady ==
  ASSUME NEW code, Return(Failed(code))
  PROVE  AllSteady'
<1>1. Failed(code).status # "ready"
  BY DEF Failed
<1> QED BY <1>1, ReturnSteady

LEMMA ResumeSteady ==
  ASSUME TypeOK, CallersWait, AllSteady, CallDone, ~Outermost,
         NEW c, Steady(request.mode, c), Resume(c)
  PROVE  AllSteady'
<1> DEFINE rest == SubSeq(stack, 1, Len(stack) - 2)
<1>1. /\ Len(stack) \in Nat /\ Len(stack) - 1 \in 1 .. Len(stack)
      /\ rest \in Seq(Context \union {c})
  BY CallerType, LenProperties, SeqMonotonic DEF TypeOK
<1>2. /\ Len(rest) = Len(stack) - 2
      /\ \A k \in 1 .. Len(stack) - 2 : rest[k] = stack[k]
  BY <1>1, BelowCaller DEF TypeOK
<1> HIDE DEF rest
<1>3. /\ Len(stack') = Len(stack) - 1
      /\ \A k \in 1 .. Len(stack) - 2 : stack'[k] = stack[k]
      /\ stack'[Len(stack) - 1] = c
  <2>1. stack' = Append(rest, c)
    BY DEF Resume, rest
  <2>2. /\ Len(stack') = Len(rest) + 1
        /\ \A k \in 1 .. Len(rest) : stack'[k] = rest[k]
        /\ stack'[Len(rest) + 1] = c
    BY <1>1, <2>1, AppendProperties
  <2>3. Len(rest) + 1 = Len(stack) - 1
    BY <1>1, <1>2
  <2> QED BY <1>2, <2>2, <2>3
<1>4. ASSUME NEW k \in 1 .. Len(stack') PROVE Steady(request.mode, stack'[k])
  <2>1. CASE k = Len(stack) - 1
    BY <1>3, <2>1
  <2>2. CASE k # Len(stack) - 1
    <3>1. k \in 1 .. Len(stack) - 2 /\ k \in 1 .. Len(stack)
      BY <1>1, <1>3, <2>2
    <3> QED BY <1>3, <3>1 DEF AllSteady
  <2> QED BY <2>1, <2>2
<1>5. ASSUME NEW k \in 1 .. Len(stack') - 1 PROVE Waits(request.mode, stack'[k])
  <2>1. k \in 1 .. Len(stack) - 2 /\ k \in 1 .. Len(stack) - 1
    BY <1>1, <1>3
  <2> QED BY <1>3, <2>1 DEF AllSteady
<1>6. outcome' = outcome /\ request' = request
  BY DEF Resume
<1> QED BY <1>4, <1>5, <1>6 DEF AllSteady

-----------------------------------------------------------------------------
(***************************************************************************)
(* One lemma per kind of action.                                           *)
(***************************************************************************)
LEMMA BeginSteady ==
  ASSUME TypeOK, AllSteady, Begin \/ RejectRoot
  PROVE  AllSteady'
<1>1. CASE Begin
  <2> DEFINE c == NewContext(request.source, request.target)
  <2>1. Steady(request.mode, c)
    BY SteadyNew
  <2> HIDE DEF c
  <2>2. Len(stack') = 1 /\ stack'[1] = c /\ outcome' = outcome /\ request' = request
    BY <1>1 DEF Begin, c
  <2>3. \A k \in 1 .. Len(stack') : Steady(request.mode, stack'[k])
    BY <2>1, <2>2
  <2>4. 1 .. Len(stack') - 1 = {}
    BY <2>2
  <2> QED BY <2>2, <2>3, <2>4 DEF AllSteady
<1>2. CASE RejectRoot
  BY <1>2, FailedSteady DEF RejectRoot
<1> QED BY <1>1, <1>2

LEMMA TopSteady ==
  ASSUME TypeOK, AllSteady, stack # <<>>
  PROVE  Top \in Context /\ Steady(request.mode, Top)
BY TopType DEF AllSteady, Top

LEMMA CollectKeepsSteady ==
  ASSUME TypeOK, AllSteady, CollectRecord \/ CollectLeaf
  PROVE  AllSteady'
<1>1. stack # <<>> /\ Top.collect # <<>>
  BY DEF CollectRecord, CollectLeaf
<1>2. Top \in Context /\ Steady(request.mode, Top)
  BY <1>1, TopSteady
<1> DEFINE ref == Head(Top.collect)
<1>3. CASE CollectRecord
  <2> DEFINE d == [Top EXCEPT !.collect = ChildRefs(ref) \o Tail(@)]
  <2>1. /\ d.explanation = Top.explanation /\ d.used = Top.used
        /\ d.bindings = Top.bindings
    BY <1>2 DEF Context
  <2>2. Become(d)
    BY <1>3 DEF CollectRecord
  <2> HIDE DEF d
  <2>3. Steady(request.mode, d)
    BY <1>1, <1>2, <2>1, SteadyCollect
  <2> QED BY <1>1, <2>2, <2>3, BecomeSteady
<1>4. CASE CollectLeaf
  <2> DEFINE d == [Top EXCEPT !.collect = Tail(@), !.sources = Append(@, ref)]
  <2>1. /\ d.explanation = Top.explanation /\ d.used = Top.used
        /\ d.bindings = Top.bindings
    BY <1>2 DEF Context
  <2>2. Become(d)
    BY <1>4 DEF CollectLeaf
  <2> HIDE DEF d
  <2>3. Steady(request.mode, d)
    BY <1>1, <1>2, <2>1, SteadyCollect
  <2> QED BY <1>1, <2>2, <2>3, BecomeSteady
<1> QED BY <1>3, <1>4

\* What is left unresolved leaves the entries as they are.
LEMMA UnresolveSteady ==
  ASSUME NEW mode, NEW c \in Context, Steady(mode, c), NEW candidates,
         NEW d, d = Unresolve(c, candidates)
                \/ d = [Unresolve(c, candidates) EXCEPT !.list = <<>>]
  PROVE  Steady(mode, d)
<1>1. /\ d.explanation = c.explanation /\ d.used = c.used /\ d.sources = c.sources
      /\ d.collect = c.collect /\ d.bindings = c.bindings
  BY DEF Unresolve, Context
<1>2. Pairs(d.bindings) = Pairs(c.bindings)
  BY <1>1
<1> QED BY <1>1, <1>2, SteadySame

LEMMA QuietSteady ==
  ASSUME TypeOK, AllSteady, BuildObject \/ MissRequired
  PROVE  AllSteady'
<1>1. stack # <<>> /\ AtTarget
  BY DEF BuildObject, MissRequired, AtLeaf, AtTarget
<1>2. Top \in Context /\ Steady(request.mode, Top) /\ Target \in FieldRef
  BY <1>1, TopSteady, TargetType
<1>3. CASE BuildObject
  <2> DEFINE d == [Top EXCEPT !.build    = ChildRefs(Target) \o Tail(@),
                              !.bindings = Append(@, Bind(Target, NoPlace, "object"))]
             b == Bind(Target, NoPlace, "object")
  <2>1. Become(d)
    BY <1>3 DEF BuildObject
  <2>2. /\ d.explanation = Top.explanation /\ d.used = Top.used /\ d.sources = Top.sources
        /\ d.collect = Top.collect /\ d.bindings = Append(Top.bindings, b)
    BY <1>2 DEF Context
  <2>3. b \in Binding /\ b.source = NoPlace
    BY <1>2, BindType, NoPlaceType DEF Bind
  <2> HIDE DEF d, b
  <2>4. Top.bindings \in Seq(Binding)
    BY <1>2 DEF Context
  <2>5. Pairs(Append(Top.bindings, b)) = Pairs(Top.bindings) \union Pairs(<<b>>)
    BY ONLY <2>3, <2>4, PairsAppend
  <2>6. Pairs(<<b>>) = {}
    BY <2>3, PairsOfOne
  <2>7. Pairs(d.bindings) = Pairs(Top.bindings)
    BY <2>2, <2>5, <2>6
  <2>8. Steady(request.mode, d)
    BY <1>2, <2>2, <2>7, SteadySame
  <2> QED BY <1>1, <2>1, <2>8, BecomeSteady
<1>4. CASE MissRequired
  <2>1. Steady(request.mode, Unresolve(Top, {}))
    BY <1>2, UnresolveSteady
  <2> QED BY <1>1, <1>4, <2>1, BecomeSteady DEF MissRequired
<1> QED BY <1>3, <1>4

LEMMA NoteSteady ==
  ASSUME TypeOK, AllSteady, OmitOptional \/ ReportAmbiguous
  PROVE  AllSteady'
<1>1. stack # <<>> /\ AtTarget /\ Top.collect = <<>>
  BY DEF OmitOptional, ReportAmbiguous, AtLeaf, AtTarget
<1>2. Top \in Context /\ Steady(request.mode, Top) /\ Target \in FieldRef
  BY <1>1, TopSteady, TargetType
<1>3. CASE OmitOptional
  <2> DEFINE d == [Top EXCEPT !.build       = Tail(@),
                              !.explanation = Append(@, Explain(Target, NoPlace, "omit"))]
  <2>1. Become(d)
    BY <1>3 DEF OmitOptional
  <2>2. /\ d.explanation = Append(Top.explanation, Explain(Target, NoPlace, "omit"))
        /\ d.used = Top.used /\ d.sources = Top.sources
        /\ d.collect = Top.collect /\ d.bindings = Top.bindings
    BY <1>2 DEF Context
  <2> HIDE DEF d
  <2>3. ASSUME NEW j \in DOMAIN Top.sources,
               IsCandidate(request.mode, Top.sources[j], Target),
               Plausible(Score(request.mode, Top.sources[j], Target))
        PROVE  Top.sources[j].path \in Top.used
    BY <1>3, <2>3 DEF OmitOptional, Missing, Candidates, ScoreOf
  <2>4. Steady(request.mode, d)
    BY <1>1, <1>2, <2>2, <2>3, SteadyUnmapped
  <2> QED BY <1>1, <2>1, <2>4, BecomeSteady
<1>4. CASE ReportAmbiguous
  <2> DEFINE c == Unresolve(Top, {Top.sources[i].path : i \in Candidates(Top, Target)})
             d == [c EXCEPT !.explanation = Append(@, Explain(Target, NoPlace, "ambiguous"))]
  <2>1. Become(d)
    BY <1>4 DEF ReportAmbiguous
  <2>2. /\ d.explanation = Append(Top.explanation, Explain(Target, NoPlace, "ambiguous"))
        /\ d.used = Top.used /\ d.sources = Top.sources
        /\ d.collect = Top.collect /\ d.bindings = Top.bindings
    BY <1>2 DEF Unresolve, Context
  <2> HIDE DEF d
  <2>3. "ambiguous" # "omit"
    OBVIOUS
  <2>4. Steady(request.mode, d)
    BY <1>1, <1>2, <2>2, <2>3, SteadyUnmapped
  <2> QED BY <1>1, <2>1, <2>4, BecomeSteady
<1> QED BY <1>3, <1>4

\* Setting the list of a context leaves the choice for it as it is.
LEMMA ChoiceSame ==
  ASSUME NEW mode, NEW c, NEW d, NEW t, NEW path, Choice(mode, c, t, path),
         d.sources = c.sources, d.used = c.used
  PROVE  Choice(mode, d, t, path)
<1>1. \A i : Winner(mode, c, t, path, i) => Winner(mode, d, t, path, i)
  BY DEF Winner
<1> QED BY <1>1 DEF Choice

LEMMA EnterSteady ==
  ASSUME TypeOK, AllSteady, NEW path \in ChosenPaths, EnterElements(path)
  PROVE  AllSteady'
<1> DEFINE c == NewContext(Elements(path), Target.field.ty.element)
           d == [Top EXCEPT !.list = path]
           waiting == [stack EXCEPT ![Len(stack)] = d]
           S == Context \union {c, d}
<1>1. AtTarget /\ path \in Path
  BY ChosenType DEF AtLeaf
<1>2. /\ stack # <<>> /\ Top.collect = <<>> /\ Top.build # <<>>
      /\ Top \in Context /\ Target \in FieldRef /\ Target = Head(Top.build)
  BY <1>1, TargetType DEF AtTarget, Target
<1>3. Steady(request.mode, c)
  BY SteadyNew
<1>4. /\ d.explanation = Top.explanation /\ d.used = Top.used /\ d.sources = Top.sources
      /\ d.collect = Top.collect /\ d.bindings = Top.bindings
      /\ d.build = Top.build /\ d.list = path
  BY <1>2 DEF Context
<1>5. stack' = Append(waiting, c) /\ outcome' = outcome /\ request' = request
  BY DEF EnterElements, Top
<1>6. stack \in Seq(S) /\ Len(stack) \in 1 .. Len(stack) /\ Len(stack) \in Nat
  BY <1>2, TopType, SeqMonotonic, LenProperties DEF TypeOK
<1> HIDE DEF c, d
<1>7. Steady(request.mode, d)
  <2>1. Steady(request.mode, Top) /\ Pairs(d.bindings) = Pairs(Top.bindings)
    BY <1>2, <1>4, TopSteady
  <2> QED BY <1>2, <1>4, <2>1, SteadySame
<1>8. Waits(request.mode, d)
  <2>1. Choice(request.mode, Top, Target, path)
    BY ChosenChoice
  <2>2. Choice(request.mode, d, Target, path)
    BY <1>4, <2>1, ChoiceSame
  <2> QED BY <1>2, <1>4, <2>2 DEF Waits
<1>9. /\ waiting \in Seq(S) /\ Len(waiting) = Len(stack)
       /\ \A k \in 1 .. Len(stack) : waiting[k] = IF k = Len(stack) THEN d ELSE stack[k]
  BY <1>6, ExceptSeq
<1> HIDE DEF waiting
<1>10. /\ Len(stack') = Len(stack) + 1
       /\ \A k \in 1 .. Len(stack) : stack'[k] = waiting[k]
       /\ stack'[Len(stack) + 1] = c
  BY <1>5, <1>9, AppendProperties
<1>11. \A k \in 1 .. Len(stack') : Steady(request.mode, stack'[k])
  BY <1>3, <1>6, <1>7, <1>9, <1>10 DEF AllSteady
<1>12. ASSUME NEW k \in 1 .. Len(stack') - 1 PROVE Waits(request.mode, stack'[k])
  <2>1. k \in 1 .. Len(stack) /\ (k # Len(stack) => k \in 1 .. Len(stack) - 1)
    BY <1>6, <1>10
  <2>2. stack'[k] = IF k = Len(stack) THEN d ELSE stack[k]
    BY <1>9, <1>10, <2>1
  <2> QED BY <1>8, <2>1, <2>2 DEF AllSteady
<1> QED BY <1>5, <1>11, <1>12 DEF AllSteady

LEMMA MapSteady ==
  ASSUME TypeOK, AllSteady, NEW path \in ChosenPaths, Map(path)
  PROVE  AllSteady'
<1>1. AtTarget /\ path \in Path
  BY ChosenType DEF AtLeaf
<1>2. /\ stack # <<>> /\ Top.collect = <<>>
      /\ Top \in Context /\ Steady(request.mode, Top) /\ Target \in FieldRef
  BY <1>1, TopSteady, TargetType DEF AtTarget
<1>3. CASE TakeWhole(path)
  <2>1. Choice(request.mode, Top, Target, path)
    BY ChosenChoice
  <2>2. Steady(request.mode, Mapped(Top, Target, path, "field", "map"))
    BY <1>1, <1>2, <2>1, SteadyMapped
  <2> QED BY <1>2, <1>3, <2>2, BecomeSteady DEF TakeWhole
<1>4. CASE RejectPath(path) \/ RejectListPair(path)
  BY <1>4, FailedSteady DEF RejectPath, RejectListPair
<1>5. CASE KeepListContract(path) \/ LeaveScalarElements(path)
  <2>1. Steady(request.mode, Unresolve(Top, {path}))
    BY <1>2, UnresolveSteady
  <2> QED BY <1>2, <1>5, <2>1, BecomeSteady DEF KeepListContract, LeaveScalarElements
<1>6. CASE EnterElements(path)
  BY <1>6, EnterSteady
<1> QED BY <1>3, <1>4, <1>5, <1>6 DEF Map

LEMMA ReturnSteadyOutermost ==
  ASSUME TypeOK, AllSteady, ReturnEmpty \/ ReturnPlan \/ (ReturnUnresolved /\ Outermost)
  PROVE  AllSteady'
<1>1. stack # <<>>
  BY DEF ReturnEmpty, ReturnPlan, ReturnUnresolved, CallDone
<1>2. Pairs(Top.bindings) = Pairs(Top.explanation)
  BY <1>1, TopSteady DEF Steady
<1>3. /\ Pairs(Ready(Top).bindings) = Pairs(Ready(Top).explanation)
      /\ Ambiguous(Top).status # "ready"
  BY <1>2 DEF Ready, Ambiguous
<1> QED BY <1>3, ReturnSteady, FailedSteady DEF ReturnEmpty, ReturnPlan, ReturnUnresolved

LEMMA ReturnSteadyNested ==
  ASSUME TypeOK, CallersWait, AllSteady,
         ReturnElementPlan \/ (ReturnUnresolved /\ ~Outermost)
  PROVE  AllSteady'
<1>1. CallDone /\ ~Outermost /\ stack # <<>>
  BY DEF ReturnElementPlan, ReturnUnresolved, CallDone
<1>2. /\ Caller \in Context /\ Steady(request.mode, Caller) /\ Waits(request.mode, Caller)
      /\ Caller.build # <<>> /\ Caller.list \in Path
  <2>1. Len(stack) \in Nat /\ Len(stack) - 1 \in 1 .. Len(stack) - 1
    BY <1>1, CallerType, LenProperties DEF TypeOK
  <2> QED BY <1>1, <2>1, CallerType DEF AllSteady, Caller, Context
<1>3. Top \in Context /\ Steady(request.mode, Top)
  BY <1>1, TopSteady
<1>4. CASE ReturnUnresolved
  <2> DEFINE d == [Unresolve(Caller, {Caller.list}) EXCEPT !.list = <<>>]
  <2>1. Resume(d)
    BY <1>1, <1>4 DEF ReturnUnresolved
  <2>2. Steady(request.mode, d)
    BY <1>2, UnresolveSteady
  <2> HIDE DEF d
  <2> QED BY <1>1, <2>1, <2>2, ResumeSteady
<1>5. CASE ReturnElementPlan
  <2> DEFINE t    == Head(Caller.build)
             path == Caller.list
             c    == Mapped(Caller, t, path, "listMap", "mapElements")
             d    == [c EXCEPT
                        !.list        = <<>>,
                        !.bindings    = @ \o LiftBindings(Top.bindings, t, path),
                        !.explanation = @ \o LiftEntries(Top.explanation, t, path)]
  <2>1. IF Parses(path) THEN Resume(d) ELSE Return(Failed("invalid_path"))
    BY <1>5 DEF ReturnElementPlan
  <2>2. t \in FieldRef /\ path \in Path
    BY <1>2, HeadTailProperties DEF Context
  <2>3. c \in Context
    BY <1>2, <2>2, MappedType
  <2>4. Caller.collect = <<>> /\ Choice(request.mode, Caller, t, path)
    BY <1>2 DEF Waits
  <2>5. Steady(request.mode, c)
    BY <1>2, <2>2, <2>4, SteadyMapped
  <2>6. c.collect = <<>>
    BY <1>2, <2>4 DEF Mapped, Context
  <2> HIDE DEF c, t, path
  <2>7. /\ d.explanation = c.explanation \o LiftEntries(Top.explanation, t, path)
        /\ d.bindings = c.bindings \o LiftBindings(Top.bindings, t, path)
        /\ d.used = c.used /\ d.sources = c.sources /\ d.collect = c.collect
    BY <2>3 DEF Context
  <2> HIDE DEF d
  <2>8. Steady(request.mode, d)
    BY <1>3, <2>2, <2>3, <2>5, <2>6, <2>7, SteadyLift
  <2> QED BY <1>1, <2>1, <2>8, ResumeSteady, FailedSteady
<1> QED BY <1>4, <1>5 DEF ReturnElementPlan, ReturnUnresolved

LEMMA StepSteady ==
  ASSUME TypeOK, CallersWait, AllSteady, [Next]_vars
  PROVE  AllSteady'
<1>1. CASE UNCHANGED vars
  BY <1>1 DEF vars, AllSteady
<1>2. ASSUME NEW path \in ChosenPaths, Map(path)
      PROVE  AllSteady'
  BY <1>2, MapSteady
<1> QED BY <1>1, <1>2, BeginSteady, CollectKeepsSteady, QuietSteady, NoteSteady,
           ReturnSteadyOutermost, ReturnSteadyNested DEF Next

LEMMA AlwaysSteady == Spec => [](TypeOK /\ AllSteady)
<1>1. Init => TypeOK /\ CallersWait /\ AllSteady
  <2> SUFFICES ASSUME Init PROVE TypeOK /\ CallersWait /\ AllSteady
    OBVIOUS
  <2>1. 1 .. Len(stack) = {} /\ 1 .. Len(stack) - 1 = {} /\ outcome.status # "ready"
    BY DEF Init, Running
  <2> QED BY <2>1, InitType DEF AllSteady
<1>2. TypeOK /\ CallersWait /\ AllSteady /\ [Next]_vars => (TypeOK /\ CallersWait /\ AllSteady)'
  BY StepType, StepSteady
<1> QED BY <1>1, <1>2, PTL DEF Spec

-----------------------------------------------------------------------------
(***************************************************************************)
(* What the invariant says of the contexts of the stack.                   *)
(***************************************************************************)
LEMMA StackSteady ==
  ASSUME TypeOK, AllSteady, NEW k \in DOMAIN stack
  PROVE  /\ Steady(request.mode, stack[k])
         /\ DOMAIN stack[k].explanation = 1 .. Len(stack[k].explanation)
         /\ \A n \in DOMAIN stack[k].explanation : Justified(request.mode, stack[k], n)
<1>1. stack \in Seq(Context) /\ k \in 1 .. Len(stack)
  BY LenProperties DEF TypeOK
<1>2. stack[k] \in Context
  BY <1>1, ElementOfSeq
<1>3. DOMAIN stack[k].explanation = 1 .. Len(stack[k].explanation)
  BY <1>2, LenProperties DEF Context
<1>4. Steady(request.mode, stack[k])
  BY <1>1 DEF AllSteady
<1> QED BY <1>3, <1>4 DEF Steady

\* What a plan says it maps is what its expressions read and write, at every
\* level of nested lists, while the plan is being made and when it is returned.
THEOREM ExplanationsMatchPlans == Spec => []ExplanationMatchesPlan
<1>1. TypeOK /\ AllSteady => ExplanationMatchesPlan
  BY StackSteady DEF ExplanationMatchesPlan, Steady, AllSteady
<1> QED BY <1>1, AlwaysSteady, PTL

\* A source is mapped only when every other source that is as good for the
\* target went to an earlier target of the same call.
THEOREM NoSilentPick == Spec => []RivalsSpentEarlier
<1>1. TypeOK /\ AllSteady => RivalsSpentEarlier
  BY StackSteady DEF RivalsSpentEarlier, Justified, Unrivaled, AsGood, ScoreOf
<1> QED BY <1>1, AlwaysSteady, PTL

\* An optional target is omitted only when no plausible source was left for it.
THEOREM OmissionsForced == Spec => []OmissionForced
<1>1. TypeOK /\ AllSteady => OmissionForced
  BY StackSteady DEF OmissionForced, Justified, Forced, ScoreOf
<1> QED BY <1>1, AlwaysSteady, PTL

-----------------------------------------------------------------------------
(***************************************************************************)
(* A list is mapped as a whole or not at all, where the paths of a target  *)
(* schema tell its fields apart.                                           *)
(***************************************************************************)
AllApart(refs) ==
  \A i, j \in 1 .. Len(refs) : i # j => Apart(refs[i].path, refs[j].path)

Clear(path, refs) == \A i \in 1 .. Len(refs) : Apart(path, refs[i].path)

From(targets, refs) == \A i \in 1 .. Len(refs) : refs[i].field.ty \in targets

\* No target of c has a path like one that was settled or one still to come.
Distinct(targets, c) ==
  /\ AllApart(c.build) /\ From(targets, c.build)
  /\ \A n \in 1 .. Len(c.explanation) :
       /\ c.explanation[n].target # NoPlace
       /\ Clear(Head(c.explanation[n].target), c.build)
  /\ \A n \in 1 .. Len(c.unresolved) : Clear(c.unresolved[n].target, c.build)

AllOrNothing(c) ==
  \A u \in 1 .. Len(c.unresolved) : \A n \in 1 .. Len(c.explanation) :
    Head(c.explanation[n].target) = c.unresolved[u].target
      => c.explanation[n].source = NoPlace /\ c.explanation[n].action = "ambiguous"

Orderly(targets, c) == Distinct(targets, c) /\ AllOrNothing(c)

AllOrderly(targets) == \A k \in 1 .. Len(stack) : Orderly(targets, stack[k])

\* Paths that differ are different, whichever is longer and whatever follows.
LEMMA ApartPaths ==
  ASSUME NEW p \in Path, NEW q \in Path, Apart(p, q)
  PROVE  p # q /\ Apart(q, p)
BY DEF Apart

LEMMA ApartLonger ==
  ASSUME NEW p \in Path, NEW q \in Path, NEW r \in Path, Apart(p, q)
  PROVE  Apart(p \o r, q) /\ Apart(q, p \o r)
<1> DEFINE longer == p \o r
<1>1. /\ p \in Seq(Names) /\ r \in Seq(Names)
      /\ Len(p) \in Nat /\ Len(r) \in Nat /\ DOMAIN p = 1 .. Len(p)
  BY LenProperties DEF Path
<1>2. /\ longer \in Seq(Names) /\ Len(longer) = Len(p) + Len(r)
      /\ \A k \in 1 .. Len(p) + Len(r) : longer[k] = IF k <= Len(p) THEN p[k] ELSE r[k - Len(p)]
  BY <1>1, ConcatProperties
<1>3. DOMAIN longer = 1 .. Len(p) + Len(r)
  BY <1>2, LenProperties
<1> HIDE DEF longer
<1>4. PICK k \in DOMAIN p \intersect DOMAIN q : p[k] # q[k]
  BY DEF Apart
<1>5. k \in DOMAIN longer /\ longer[k] = p[k]
  BY <1>1, <1>2, <1>3, <1>4
<1>6. Apart(longer, q) /\ Apart(q, longer)
  BY <1>4, <1>5 DEF Apart
<1> QED BY <1>6 DEF longer

LEMMA ApartBelow ==
  ASSUME NEW p \in Path, NEW a \in Path, NEW b \in Path, Apart(a, b)
  PROVE  Apart(p \o a, p \o b)
<1> DEFINE m == Len(p)
           pa == p \o a
           pb == p \o b
<1>1. m \in Nat /\ DOMAIN a = 1 .. Len(a) /\ DOMAIN b = 1 .. Len(b) /\ Len(a) \in Nat /\ Len(b) \in Nat
  BY LenProperties DEF Path
<1>2. /\ pa \in Seq(Names) /\ Len(pa) = m + Len(a)
      /\ \A k \in 1 .. m + Len(a) : pa[k] = IF k <= m THEN p[k] ELSE a[k - m]
  BY ConcatProperties DEF Path
<1>3. /\ pb \in Seq(Names) /\ Len(pb) = m + Len(b)
      /\ \A k \in 1 .. m + Len(b) : pb[k] = IF k <= m THEN p[k] ELSE b[k - m]
  BY ConcatProperties DEF Path
<1>4. DOMAIN pa = 1 .. m + Len(a) /\ DOMAIN pb = 1 .. m + Len(b)
  BY <1>2, <1>3, LenProperties
<1> HIDE DEF pa, pb, m
<1>5. PICK k \in DOMAIN a \intersect DOMAIN b : a[k] # b[k]
  BY DEF Apart
<1>6. /\ m + k \in 1 .. m + Len(a) /\ m + k \in 1 .. m + Len(b)
      /\ ~(m + k <= m) /\ (m + k) - m = k
  BY <1>1, <1>5
<1>7. pa[m + k] = a[k] /\ pb[m + k] = b[k]
  BY <1>2, <1>3, <1>6
<1>8. Apart(pa, pb)
  BY <1>4, <1>5, <1>6, <1>7 DEF Apart
<1> QED BY <1>8 DEF pa, pb

-----------------------------------------------------------------------------
\* The refs a record, or the root of a schema, is replaced by.
LEMMA UnderApart ==
  ASSUME NEW targets, TellApart(targets), NEW ty \in targets, IsRecord(ty),
         NEW prefix \in Path, NEW at
  PROVE  LET refs == Under(prefix, at, ty.fields)
         IN  AllApart(refs) /\ From(targets, refs)
<1> DEFINE refs == Under(prefix, at, ty.fields)
<1>1. /\ ty \in Types /\ ty.fields \in Seq(Field)
      /\ \A i, j \in DOMAIN ty.fields :
           /\ ty.fields[i].ty \in targets
           /\ i # j => Apart(Dotted[ty.fields[i].name], Dotted[ty.fields[j].name])
  BY RecordFields DEF TellApart
<1>2. Len(ty.fields) \in Nat /\ DOMAIN ty.fields = 1 .. Len(ty.fields)
  BY <1>1, LenProperties
<1>3. DOMAIN refs = 1 .. Len(ty.fields) /\ Len(refs) = Len(ty.fields)
  BY <1>2 DEF Under
<1>4. ASSUME NEW i \in 1 .. Len(ty.fields)
      PROVE  /\ refs[i].path = prefix \o Dotted[ty.fields[i].name]
             /\ refs[i].field.ty = ty.fields[i].ty
             /\ Dotted[ty.fields[i].name] \in Path
  <2>1. ty.fields[i] \in Field
    BY <1>1, ElementOfSeq
  <2>2. Dotted[ty.fields[i].name] \in Path
    BY <2>1, NamesAssumption DEF Field, Path
  <2> QED BY <1>2, <2>2 DEF Under, JoinPath
<1> HIDE DEF refs
<1>5. AllApart(refs)
  <2> SUFFICES ASSUME NEW i \in 1 .. Len(ty.fields), NEW j \in 1 .. Len(ty.fields), i # j
               PROVE  Apart(refs[i].path, refs[j].path)
    BY <1>3 DEF AllApart
  <2>1. Apart(Dotted[ty.fields[i].name], Dotted[ty.fields[j].name])
    BY <1>1, <1>2
  <2> QED BY <1>4, <2>1, ApartBelow
<1>6. From(targets, refs)
  BY <1>1, <1>2, <1>3, <1>4 DEF From
<1> QED BY <1>5, <1>6 DEF refs

LEMMA DistinctNew ==
  ASSUME NEW targets, TellApart(targets), NEW source, NEW target \in targets, IsRecord(target)
  PROVE  /\ Distinct(targets, NewContext(source, target))
         /\ AllOrNothing(NewContext(source, target))
<1> DEFINE c == NewContext(source, target)
<1>1. c.build = RootRefs(target) /\ c.explanation = <<>> /\ c.unresolved = <<>>
  BY DEF NewContext
<1> HIDE DEF c
<1>2. <<>> \in Path
  BY EmptySeq DEF Path
<1>3. AllApart(c.build) /\ From(targets, c.build)
  BY <1>1, <1>2, UnderApart DEF RootRefs
<1>4. 1 .. Len(c.explanation) = {} /\ 1 .. Len(c.unresolved) = {}
  BY <1>1
<1>5. Distinct(targets, c) /\ AllOrNothing(c)
  BY <1>3, <1>4 DEF Distinct, AllOrNothing
<1> QED BY <1>5 DEF c

\* The next target, seen from the ones that follow it.
LEMMA NextTarget ==
  ASSUME NEW targets, NEW refs \in Seq(FieldRef), refs # <<>>,
         AllApart(refs), From(targets, refs)
  PROVE  /\ AllApart(Tail(refs)) /\ From(targets, Tail(refs))
         /\ Head(refs) \in FieldRef /\ Head(refs).field.ty \in targets
         /\ Clear(Head(refs).path, Tail(refs))
         /\ \A path \in Path : Clear(path, refs) =>
              Clear(path, Tail(refs)) /\ Apart(path, Head(refs).path)
<1>1. /\ Len(refs) \in Nat \ {0} /\ Head(refs) = refs[1]
      /\ Len(Tail(refs)) = Len(refs) - 1
      /\ \A i \in 1 .. Len(Tail(refs)) : Tail(refs)[i] = refs[i + 1]
  BY EmptySeq, HeadTailProperties
<1>2. /\ 1 \in 1 .. Len(refs)
      /\ \A i \in 1 .. Len(Tail(refs)) : i + 1 \in 1 .. Len(refs) /\ 1 # i + 1
      /\ \A i, j \in 1 .. Len(Tail(refs)) : i # j => i + 1 # j + 1
  BY <1>1
<1>3. AllApart(Tail(refs))
  BY <1>1, <1>2 DEF AllApart
<1>4. From(targets, Tail(refs)) /\ Head(refs).field.ty \in targets
  BY <1>1, <1>2 DEF From
<1>5. Clear(Head(refs).path, Tail(refs))
  BY <1>1, <1>2 DEF AllApart, Clear
<1>6. \A path \in Path : Clear(path, refs) =>
        Clear(path, Tail(refs)) /\ Apart(path, Head(refs).path)
  BY <1>1, <1>2 DEF Clear
<1>7. Head(refs) \in FieldRef
  BY HeadTailProperties
<1> QED BY <1>3, <1>4, <1>5, <1>6, <1>7

-----------------------------------------------------------------------------
(***************************************************************************)
(* A record target gives way to its fields.                                *)
(***************************************************************************)
LEMMA ConcatRefs ==
  ASSUME NEW s \in Seq(FieldRef), NEW r \in Seq(FieldRef)
  PROVE  /\ \A path : Clear(path, s) /\ Clear(path, r) => Clear(path, s \o r)
         /\ \A targets : From(targets, s) /\ From(targets, r) => From(targets, s \o r)
         /\ AllApart(s) /\ AllApart(r)
            /\ (\A i \in 1 .. Len(s) : Clear(s[i].path, r)) => AllApart(s \o r)
<1> DEFINE u == s \o r
           m == Len(s)
           n == Len(r)
<1>1. /\ m \in Nat /\ n \in Nat /\ Len(u) = m + n
      /\ \A i \in 1 .. m + n : u[i] = IF i <= m THEN s[i] ELSE r[i - m]
  BY LenProperties, ConcatProperties
<1> HIDE DEF u
<1>2. ASSUME NEW i \in 1 .. m + n
      PROVE  \/ i \in 1 .. m /\ u[i] = s[i]
             \/ i - m \in 1 .. n /\ u[i] = r[i - m] /\ i \notin 1 .. m
  BY <1>1
<1>3. ASSUME NEW path, Clear(path, s), Clear(path, r) PROVE Clear(path, u)
  BY <1>1, <1>2, <1>3 DEF Clear
<1>4. ASSUME NEW targets, From(targets, s), From(targets, r) PROVE From(targets, u)
  BY <1>1, <1>2, <1>4 DEF From
<1>5. ASSUME AllApart(s), AllApart(r), \A i \in 1 .. m : Clear(s[i].path, r)
      PROVE  AllApart(u)
  <2> SUFFICES ASSUME NEW i \in 1 .. m + n, NEW j \in 1 .. m + n, i # j
               PROVE  Apart(u[i].path, u[j].path)
    BY <1>1 DEF AllApart
  <2>1. CASE i \in 1 .. m /\ j \in 1 .. m
    <3>1. u[i] = s[i] /\ u[j] = s[j]
      BY <1>2, <2>1
    <3> QED BY <1>5, <2>1, <3>1 DEF AllApart
  <2>2. CASE i \in 1 .. m /\ j \notin 1 .. m
    <3>1. u[i] = s[i] /\ j - m \in 1 .. n /\ u[j] = r[j - m]
      BY <1>2, <2>2
    <3> QED BY <1>5, <2>2, <3>1 DEF Clear
  <2>3. CASE i \notin 1 .. m /\ j \in 1 .. m
    <3>1. u[j] = s[j] /\ i - m \in 1 .. n /\ u[i] = r[i - m]
      BY <1>2, <2>3
    <3>2. Apart(u[j].path, u[i].path)
      BY <1>5, <2>3, <3>1 DEF Clear
    <3> QED BY <3>2 DEF Apart
  <2>4. CASE i \notin 1 .. m /\ j \notin 1 .. m
    <3>1. /\ i - m \in 1 .. n /\ u[i] = r[i - m]
          /\ j - m \in 1 .. n /\ u[j] = r[j - m]
      BY <1>2, <2>4
    <3>2. i - m # j - m
      BY ONLY <1>1, i \in 1 .. m + n, j \in 1 .. m + n, i # j
    <3> QED BY <1>5, <3>1, <3>2 DEF AllApart
  <2> QED BY <2>1, <2>2, <2>3, <2>4
<1> QED BY <1>3, <1>4, <1>5 DEF u

LEMMA ChildrenClear ==
  ASSUME NEW t \in FieldRef, IsRecord(t.field.ty),
         NEW path \in Path, Apart(path, t.path)
  PROVE  Clear(path, ChildRefs(t))
<1>1. /\ t.path \in Path /\ t.field.ty \in Types
      /\ t.field.ty.fields \in Seq(Field)
  BY RecordFields DEF FieldRef, Field
<1> DEFINE fields == t.field.ty.fields
           refs == ChildRefs(t)
<1>2. Len(fields) \in Nat /\ DOMAIN fields = 1 .. Len(fields)
  BY <1>1, LenProperties
<1>3. DOMAIN refs = 1 .. Len(fields) /\ Len(refs) = Len(fields)
  BY <1>2 DEF ChildRefs, Under
<1>4. ASSUME NEW i \in 1 .. Len(fields) PROVE Apart(path, refs[i].path)
  <2>1. fields[i] \in Field
    BY <1>1, ElementOfSeq
  <2>2. Dotted[fields[i].name] \in Path
    BY <2>1, NamesAssumption DEF Field, Path
  <2>3. refs[i].path = t.path \o Dotted[fields[i].name]
    BY <1>2 DEF ChildRefs, Under, JoinPath
  <2>4. Apart(t.path, path)
    BY <1>1, ApartPaths
  <2> HIDE DEF refs, fields
  <2> QED BY <1>1, <2>2, <2>3, <2>4, ApartLonger
<1> QED BY <1>3, <1>4 DEF Clear

\* The first of two refs is told apart from the children of the second.
LEMMA ObjectApart ==
  ASSUME NEW targets, TellApart(targets), NEW refs \in Seq(FieldRef), refs # <<>>,
         IsRecord(Head(refs).field.ty), AllApart(refs), From(targets, refs)
  PROVE  LET fields == ChildRefs(Head(refs)) \o Tail(refs)
         IN  /\ AllApart(fields) /\ From(targets, fields)
             /\ \A path \in Path : Clear(path, refs) => Clear(path, fields)
<1> DEFINE t == Head(refs)
           s == ChildRefs(t)
           r == Tail(refs)
<1>1. /\ AllApart(r) /\ From(targets, r) /\ t \in FieldRef /\ t.field.ty \in targets
      /\ Clear(t.path, r)
      /\ \A path \in Path : Clear(path, refs) => Clear(path, r) /\ Apart(path, t.path)
  BY NextTarget
<1>2. /\ s \in Seq(FieldRef) /\ r \in Seq(FieldRef) /\ t.path \in Path
      /\ \A i \in 1 .. Len(r) : r[i].path \in Path
  <2>1. \A i \in 1 .. Len(r) : r[i] \in FieldRef
    BY HeadTailProperties, ElementOfSeq
  <2> QED BY <1>1, <2>1, ChildRefsType, HeadTailProperties DEF FieldRef
<1>3. AllApart(s) /\ From(targets, s)
  BY <1>1, <1>2, UnderApart DEF ChildRefs
<1>4. \A path \in Path : Apart(path, t.path) => Clear(path, s)
  BY <1>1, ChildrenClear
<1> HIDE DEF s, r, t
<1>5. ASSUME NEW i \in 1 .. Len(s) PROVE Clear(s[i].path, r)
  <2>1. s[i] \in FieldRef
    BY <1>2, ElementOfSeq
  <2>2. s[i].path \in Path
    BY <2>1 DEF FieldRef
  <2> SUFFICES ASSUME NEW j \in 1 .. Len(r) PROVE Apart(s[i].path, r[j].path)
    BY DEF Clear
  <2>3. Apart(t.path, r[j].path) /\ r[j].path \in Path
    BY <1>1, <1>2 DEF Clear
  <2>4. Apart(r[j].path, t.path)
    BY <1>2, <2>3, ApartPaths
  <2>5. Apart(r[j].path, s[i].path)
    BY <1>4, <2>3, <2>4 DEF Clear
  <2> QED BY <2>2, <2>3, <2>5, ApartPaths
<1>6. AllApart(s \o r) /\ From(targets, s \o r)
  BY <1>1, <1>2, <1>3, <1>5, ConcatRefs
<1>7. \A path \in Path : Clear(path, refs) => Clear(path, s \o r)
  BY <1>1, <1>2, <1>4, ConcatRefs
<1> QED BY <1>6, <1>7 DEF s, r, t

-----------------------------------------------------------------------------
(***************************************************************************)
(* A step that settles the next target t of c and makes d of it: what it   *)
(* adds is about t, and it reports t or explains it, not both, unless the  *)
(* entry says that t is ambiguous.                                         *)
(***************************************************************************)
OldEntry(c, d, n) == n \in 1 .. Len(c.explanation) /\ d.explanation[n] = c.explanation[n]

OldReport(c, d, n) == n \in 1 .. Len(c.unresolved) /\ d.unresolved[n] = c.unresolved[n]

ExplainsOnly(c, d, t) ==
  \A n \in 1 .. Len(d.explanation) :
    OldEntry(c, d, n) \/ (d.explanation[n].target # NoPlace /\ Head(d.explanation[n].target) = t.path)

ReportsOnly(c, d, t) ==
  \A n \in 1 .. Len(d.unresolved) : OldReport(c, d, n) \/ d.unresolved[n].target = t.path

NotBoth(c, d) ==
  \/ \A n \in 1 .. Len(d.unresolved) : OldReport(c, d, n)
  \/ \A n \in 1 .. Len(d.explanation) :
       OldEntry(c, d, n) \/ (d.explanation[n].source = NoPlace /\ d.explanation[n].action = "ambiguous")

\* The places of entries and reports are paths.
LEMMA PlacesArePaths ==
  ASSUME NEW c \in Context
  PROVE  /\ \A n \in 1 .. Len(c.explanation) :
              c.explanation[n].target # NoPlace => Head(c.explanation[n].target) \in Path
         /\ \A n \in 1 .. Len(c.unresolved) : c.unresolved[n].target \in Path
<1>1. c.explanation \in Seq(Entry) /\ c.unresolved \in Seq(UnresolvedTarget)
  BY DEF Context
<1>2. ASSUME NEW n \in 1 .. Len(c.explanation), c.explanation[n].target # NoPlace
      PROVE  Head(c.explanation[n].target) \in Path
  <2>1. c.explanation[n] \in Entry
    BY <1>1, ElementOfSeq
  <2>2. c.explanation[n].target \in Seq(Path)
    BY <2>1 DEF Entry, Place
  <2> QED BY <1>2, <2>2, HeadTailProperties DEF NoPlace
<1>3. ASSUME NEW n \in 1 .. Len(c.unresolved) PROVE c.unresolved[n].target \in Path
  <2>1. c.unresolved[n] \in UnresolvedTarget
    BY <1>1, ElementOfSeq
  <2> QED BY <2>1 DEF UnresolvedTarget
<1> QED BY <1>2, <1>3

LEMMA DistinctSettled ==
  ASSUME NEW targets, NEW c \in Context, c.build # <<>>,
         Distinct(targets, c), AllOrNothing(c),
         NEW t, t = Head(c.build), NEW d, d.build = Tail(c.build),
         ExplainsOnly(c, d, t), ReportsOnly(c, d, t), NotBoth(c, d)
  PROVE  Distinct(targets, d) /\ AllOrNothing(d)
<1>1. c.build \in Seq(FieldRef)
  BY DEF Context
<1>2. /\ AllApart(d.build) /\ From(targets, d.build)
      /\ Clear(t.path, d.build) /\ t \in FieldRef
      /\ \A path \in Path : Clear(path, c.build) => Clear(path, d.build) /\ Apart(path, t.path)
  BY <1>1, NextTarget DEF Distinct
<1>3. \A path \in Path : Apart(path, t.path) => path # t.path
  BY <1>2, ApartPaths DEF FieldRef
<1>4. ASSUME NEW n \in 1 .. Len(c.explanation)
      PROVE  /\ c.explanation[n].target # NoPlace
             /\ Clear(Head(c.explanation[n].target), d.build)
             /\ Head(c.explanation[n].target) # t.path
  <2>1. /\ c.explanation[n].target # NoPlace
        /\ Clear(Head(c.explanation[n].target), c.build)
    BY DEF Distinct
  <2>2. Head(c.explanation[n].target) \in Path
    BY <2>1, PlacesArePaths
  <2> QED BY <1>2, <1>3, <2>1, <2>2
<1>5. ASSUME NEW n \in 1 .. Len(c.unresolved)
      PROVE  Clear(c.unresolved[n].target, d.build) /\ c.unresolved[n].target # t.path
  <2>1. c.unresolved[n].target \in Path /\ Clear(c.unresolved[n].target, c.build)
    BY PlacesArePaths DEF Distinct
  <2> QED BY <1>2, <1>3, <2>1
<1>6. ASSUME NEW n \in 1 .. Len(d.explanation)
      PROVE  d.explanation[n].target # NoPlace /\ Clear(Head(d.explanation[n].target), d.build)
  <2>1. CASE OldEntry(c, d, n)
    BY <1>4, <2>1 DEF OldEntry
  <2>2. CASE d.explanation[n].target # NoPlace /\ Head(d.explanation[n].target) = t.path
    BY <1>2, <2>2
  <2> QED BY <2>1, <2>2 DEF ExplainsOnly
<1>7. ASSUME NEW n \in 1 .. Len(d.unresolved)
      PROVE  Clear(d.unresolved[n].target, d.build)
  <2>1. CASE OldReport(c, d, n)
    BY <1>5, <2>1 DEF OldReport
  <2>2. CASE d.unresolved[n].target = t.path
    BY <1>2, <2>2
  <2> QED BY <2>1, <2>2 DEF ReportsOnly
<1>8. ASSUME NEW u \in 1 .. Len(d.unresolved), NEW n \in 1 .. Len(d.explanation),
             Head(d.explanation[n].target) = d.unresolved[u].target
      PROVE  d.explanation[n].source = NoPlace /\ d.explanation[n].action = "ambiguous"
  <2>1. CASE OldEntry(c, d, n) /\ OldReport(c, d, u)
    BY <1>8, <2>1 DEF OldEntry, OldReport, AllOrNothing
  <2>2. CASE OldEntry(c, d, n) /\ ~OldReport(c, d, u)
    <3>1. d.unresolved[u].target = t.path
      BY <2>2 DEF ReportsOnly
    <3>2. Head(d.explanation[n].target) # t.path
      BY <1>4, <2>2 DEF OldEntry
    <3> QED BY <1>8, <3>1, <3>2
  <2>3. CASE ~OldEntry(c, d, n) /\ OldReport(c, d, u)
    <3>1. Head(d.explanation[n].target) = t.path
      BY <2>3 DEF ExplainsOnly
    <3>2. d.unresolved[u].target # t.path
      BY <1>5, <2>3 DEF OldReport
    <3> QED BY <1>8, <3>1, <3>2
  <2>4. CASE ~OldEntry(c, d, n) /\ ~OldReport(c, d, u)
    BY <2>4 DEF NotBoth
  <2> QED BY <2>1, <2>2, <2>3, <2>4
<1> QED BY <1>2, <1>6, <1>7, <1>8 DEF Distinct, AllOrNothing

\* The shapes what is added has.
LEMMA SameEntries ==
  ASSUME NEW c, NEW d, NEW t, d.explanation = c.explanation
  PROVE  /\ ExplainsOnly(c, d, t) /\ NotBoth(c, d)
BY DEF ExplainsOnly, NotBoth, OldEntry

LEMMA SameReports ==
  ASSUME NEW c, NEW d, NEW t, d.unresolved = c.unresolved
  PROVE  /\ ReportsOnly(c, d, t) /\ NotBoth(c, d)
BY DEF ReportsOnly, NotBoth, OldReport

LEMMA EntryAdded ==
  ASSUME NEW c \in Context, NEW d, NEW t, NEW e \in Entry, e.target = <<t.path>>,
         d.explanation = Append(c.explanation, e)
  PROVE  /\ ExplainsOnly(c, d, t)
         /\ e.source = NoPlace /\ e.action = "ambiguous" => NotBoth(c, d)
<1>1. c.explanation \in Seq(Entry)
  BY DEF Context
<1> DEFINE N == Len(c.explanation)
<1>2. /\ N \in Nat /\ Len(d.explanation) = N + 1 /\ d.explanation[N + 1] = e
      /\ \A m \in 1 .. N : d.explanation[m] = c.explanation[m]
  BY <1>1, AppendProperties, LenProperties
<1>3. ASSUME NEW n \in 1 .. Len(d.explanation)
      PROVE  OldEntry(c, d, n) \/ d.explanation[n] = e
  BY <1>2 DEF OldEntry
<1>4. e.target # NoPlace /\ Head(e.target) = t.path
  BY DEF NoPlace
<1> QED BY <1>3, <1>4 DEF ExplainsOnly, NotBoth

LEMMA ReportAdded ==
  ASSUME NEW c \in Context, NEW d, NEW t, NEW u \in UnresolvedTarget, u.target = t.path,
         d.unresolved = Append(c.unresolved, u)
  PROVE  ReportsOnly(c, d, t)
<1>1. c.unresolved \in Seq(UnresolvedTarget)
  BY DEF Context
<1> DEFINE N == Len(c.unresolved)
<1>2. /\ N \in Nat /\ Len(d.unresolved) = N + 1 /\ d.unresolved[N + 1] = u
      /\ \A m \in 1 .. N : d.unresolved[m] = c.unresolved[m]
  BY <1>1, AppendProperties, LenProperties
<1>3. ASSUME NEW n \in 1 .. Len(d.unresolved)
      PROVE  OldReport(c, d, n) \/ d.unresolved[n] = u
  BY <1>2 DEF OldReport
<1> QED BY <1>3 DEF ReportsOnly

\* A list mapped with the fields of its elements.
LEMMA LiftAdded ==
  ASSUME NEW c \in Context, NEW inner \in Context, NEW d, NEW t \in FieldRef,
         NEW path \in Path, NEW e \in Entry, e.target = <<t.path>>,
         \A n \in 1 .. Len(inner.explanation) : inner.explanation[n].target # NoPlace,
         d.explanation = Append(c.explanation, e) \o LiftEntries(inner.explanation, t, path)
  PROVE  ExplainsOnly(c, d, t)
<1> DEFINE first == Append(c.explanation, e)
           lifted == LiftEntries(inner.explanation, t, path)
           N == Len(c.explanation)
           M == Len(inner.explanation)
<1>1. /\ c.explanation \in Seq(Entry) /\ inner.explanation \in Seq(Entry)
      /\ inner.bindings \in Seq(Binding)
      /\ N \in Nat /\ M \in Nat /\ t.path \in Path
  BY LenProperties DEF Context, FieldRef
<1>2. /\ first \in Seq(Entry) /\ Len(first) = N + 1 /\ first[N + 1] = e
      /\ \A m \in 1 .. N : first[m] = c.explanation[m]
  BY <1>1, AppendProperties
<1>3. lifted \in Seq(Entry) /\ Len(lifted) = M
  <2>1. lifted \in Seq(Entry) /\ NestedItems(lifted, inner.explanation, t, path)
    BY <1>1, LiftedNested, LiftEntriesType
  <2>2. DOMAIN lifted = 1 .. M
    BY <1>1, <2>1, LenProperties DEF NestedItems
  <2> QED BY <1>1, <2>1, <2>2, LenProperties
<1>4. ASSUME NEW k \in 1 .. M
      PROVE  lifted[k].target # NoPlace /\ Head(lifted[k].target) = t.path
  <2>1. inner.explanation[k] \in Entry /\ k \in DOMAIN inner.explanation
    BY <1>1, ElementOfSeq, LenProperties
  <2>2. inner.explanation[k].target \in Place /\ inner.explanation[k].target # NoPlace
    BY <2>1 DEF Entry
  <2>3. lifted[k].target = Nest(inner.explanation[k].target, t.path)
    BY <1>1, <2>1, LiftedNested DEF NestedItems
  <2> QED BY <1>1, <2>2, <2>3, NestPlaces
<1> HIDE DEF first, lifted, N, M
<1>5. /\ Len(d.explanation) = (N + 1) + M
      /\ \A i \in 1 .. (N + 1) + M :
           d.explanation[i] = IF i <= N + 1 THEN first[i] ELSE lifted[i - (N + 1)]
  <2>1. /\ Len(first \o lifted) = Len(first) + Len(lifted)
        /\ \A i \in 1 .. Len(first) + Len(lifted) : (first \o lifted)[i] =
             IF i <= Len(first) THEN first[i] ELSE lifted[i - Len(first)]
    BY ONLY <1>2, <1>3, ConcatProperties
  <2>2. d.explanation = first \o lifted
    BY DEF first, lifted
  <2> QED BY <1>2, <1>3, <2>1, <2>2
<1>6. ASSUME NEW n \in 1 .. (N + 1) + M
      PROVE  \/ n \in 1 .. N
             \/ n = N + 1
             \/ n - (N + 1) \in 1 .. M /\ ~(n <= N + 1)
  BY ONLY <1>1, n \in 1 .. (N + 1) + M
<1>7. ASSUME NEW n \in 1 .. (N + 1) + M
      PROVE  \/ OldEntry(c, d, n)
             \/ d.explanation[n].target # NoPlace /\ Head(d.explanation[n].target) = t.path
  <2>1. CASE n \in 1 .. N
    <3>1. n <= N + 1
      BY ONLY <1>1, n \in 1 .. N
    <3>2. d.explanation[n] = c.explanation[n]
      BY <1>2, <1>5, <2>1, <3>1
    <3> QED BY <2>1, <3>2 DEF OldEntry, N
  <2>2. CASE n = N + 1
    <3>1. n <= N + 1
      BY ONLY <1>1, n = N + 1
    <3>2. d.explanation[n] = e
      BY <1>2, <1>5, <2>2, <3>1
    <3> QED BY <3>2 DEF NoPlace
  <2>3. CASE n - (N + 1) \in 1 .. M /\ ~(n <= N + 1)
    <3>1. d.explanation[n] = lifted[n - (N + 1)]
      BY <1>5, <2>3
    <3> QED BY <1>4, <2>3, <3>1
  <2> QED BY <1>6, <2>1, <2>2, <2>3
<1> QED BY <1>5, <1>7 DEF ExplainsOnly

-----------------------------------------------------------------------------
(***************************************************************************)
(* The stack after each shape of a step.                                   *)
(***************************************************************************)
LEMMA BecomeStack ==
  ASSUME TypeOK, stack # <<>>, NEW c, Become(c)
  PROVE  /\ Len(stack') = Len(stack)
         /\ \A k \in 1 .. Len(stack') : stack'[k] = c \/ (k \in 1 .. Len(stack) /\ stack'[k] = stack[k])
<1>1. stack \in Seq(Context \union {c}) /\ Len(stack) \in 1 .. Len(stack)
  BY TopType, SeqMonotonic DEF TypeOK
<1>2. /\ Len(stack') = Len(stack)
      /\ \A k \in 1 .. Len(stack) : stack'[k] = IF k = Len(stack) THEN c ELSE stack[k]
  BY <1>1, ExceptSeq DEF Become
<1> QED BY <1>2

LEMMA ResumeStack ==
  ASSUME TypeOK, CallersWait, CallDone, ~Outermost, NEW c, Resume(c)
  PROVE  \A k \in 1 .. Len(stack') : stack'[k] = c \/ (k \in 1 .. Len(stack) /\ stack'[k] = stack[k])
<1> DEFINE rest == SubSeq(stack, 1, Len(stack) - 2)
<1>1. /\ Len(stack) \in Nat /\ Len(stack) - 1 \in 1 .. Len(stack)
      /\ rest \in Seq(Context \union {c})
  BY CallerType, LenProperties, SeqMonotonic DEF TypeOK
<1>2. /\ Len(rest) = Len(stack) - 2
      /\ \A k \in 1 .. Len(stack) - 2 : rest[k] = stack[k]
  BY <1>1, BelowCaller DEF TypeOK
<1> HIDE DEF rest
<1>3. /\ Len(stack') = Len(rest) + 1
      /\ \A k \in 1 .. Len(rest) : stack'[k] = rest[k]
      /\ stack'[Len(rest) + 1] = c
  <2>1. stack' = Append(rest, c)
    BY DEF Resume, rest
  <2> QED BY <1>1, <2>1, AppendProperties
<1>4. ASSUME NEW k \in 1 .. Len(stack') PROVE k = Len(rest) + 1 \/ (k \in 1 .. Len(rest) /\ k \in 1 .. Len(stack))
  BY <1>1, <1>2, <1>3
<1> QED BY <1>2, <1>3, <1>4

LEMMA EnterStack ==
  ASSUME TypeOK, stack # <<>>, NEW c, NEW d,
         stack' = Append([stack EXCEPT ![Len(stack)] = d], c)
  PROVE  \A k \in 1 .. Len(stack') :
           stack'[k] = c \/ stack'[k] = d \/ (k \in 1 .. Len(stack) /\ stack'[k] = stack[k])
<1> DEFINE waiting == [stack EXCEPT ![Len(stack)] = d]
           S == Context \union {c, d}
<1>1. stack \in Seq(S) /\ Len(stack) \in 1 .. Len(stack) /\ Len(stack) \in Nat
  BY TopType, SeqMonotonic, LenProperties DEF TypeOK
<1>2. /\ waiting \in Seq(S) /\ Len(waiting) = Len(stack)
      /\ \A k \in 1 .. Len(stack) : waiting[k] = IF k = Len(stack) THEN d ELSE stack[k]
  BY <1>1, ExceptSeq
<1> HIDE DEF waiting
<1>3. /\ Len(stack') = Len(stack) + 1
      /\ \A k \in 1 .. Len(stack) : stack'[k] = waiting[k]
      /\ stack'[Len(stack) + 1] = c
  <2>1. stack' = Append(waiting, c)
    BY DEF waiting
  <2> QED BY <1>2, <2>1, AppendProperties
<1>4. ASSUME NEW k \in 1 .. Len(stack') PROVE k = Len(stack) + 1 \/ k \in 1 .. Len(stack)
  BY <1>1, <1>3
<1> QED BY <1>2, <1>3, <1>4

-----------------------------------------------------------------------------
(***************************************************************************)
(* One lemma per kind of action.                                           *)
(***************************************************************************)
LEMMA OrderlySame ==
  ASSUME NEW targets, NEW c, NEW d, Orderly(targets, c),
         d.build = c.build, d.explanation = c.explanation, d.unresolved = c.unresolved
  PROVE  Orderly(targets, d)
BY DEF Orderly, Distinct, AllOrNothing

LEMMA OrderlySettled ==
  ASSUME NEW targets, NEW c \in Context, c.build # <<>>, Orderly(targets, c),
         NEW t, t = Head(c.build), NEW d, d.build = Tail(c.build),
         ExplainsOnly(c, d, t), ReportsOnly(c, d, t), NotBoth(c, d)
  PROVE  Orderly(targets, d)
BY DistinctSettled DEF Orderly

LEMMA BecomeOrderly ==
  ASSUME TypeOK, NEW targets, AllOrderly(targets), stack # <<>>,
         NEW c, Become(c), Orderly(targets, c)
  PROVE  AllOrderly(targets)'
<1>1. \A k \in 1 .. Len(stack') : Orderly(targets, stack'[k])
  BY BecomeStack DEF AllOrderly
<1> QED BY <1>1 DEF AllOrderly

LEMMA ReturnOrderly ==
  ASSUME NEW targets, NEW result, Return(result)
  PROVE  AllOrderly(targets)'
<1>1. 1 .. Len(stack') = {}
  BY DEF Return
<1> QED BY <1>1 DEF AllOrderly

LEMMA ResumeOrderly ==
  ASSUME TypeOK, CallersWait, NEW targets, AllOrderly(targets), CallDone, ~Outermost,
         NEW c, Resume(c), Orderly(targets, c)
  PROVE  AllOrderly(targets)'
<1>1. \A k \in 1 .. Len(stack') : Orderly(targets, stack'[k])
  BY ResumeStack DEF AllOrderly
<1> QED BY <1>1 DEF AllOrderly

LEMMA TopOrderly ==
  ASSUME TypeOK, NEW targets, AllOrderly(targets), stack # <<>>
  PROVE  Top \in Context /\ Orderly(targets, Top)
BY TopType DEF AllOrderly, Top

LEMMA BeginOrderly ==
  ASSUME TypeOK, NEW targets, TellApart(targets), AllOrderly(targets), Begin \/ RejectRoot
  PROVE  AllOrderly(targets)'
<1>1. CASE Begin
  <2> DEFINE c == NewContext(request.source, request.target)
  <2>1. request.target \in targets
    BY DEF TypeOK, TellApart
  <2>2. Orderly(targets, c)
    BY <1>1, <2>1, DistinctNew DEF Begin, Orderly
  <2> HIDE DEF c
  <2>3. Len(stack') = 1 /\ stack'[1] = c
    BY <1>1 DEF Begin, c
  <2>4. \A k \in 1 .. Len(stack') : Orderly(targets, stack'[k])
    BY <2>2, <2>3
  <2> QED BY <2>4 DEF AllOrderly
<1>2. CASE RejectRoot
  BY <1>2, ReturnOrderly DEF RejectRoot
<1> QED BY <1>1, <1>2

LEMMA CollectOrderly ==
  ASSUME TypeOK, NEW targets, AllOrderly(targets), CollectRecord \/ CollectLeaf
  PROVE  AllOrderly(targets)'
<1>1. stack # <<>>
  BY DEF CollectRecord, CollectLeaf
<1>2. Top \in Context /\ Orderly(targets, Top)
  BY <1>1, TopOrderly
<1>3. ASSUME NEW d, Become(d), d.build = Top.build,
             d.explanation = Top.explanation, d.unresolved = Top.unresolved
      PROVE  AllOrderly(targets)'
  <2>1. Orderly(targets, d)
    BY <1>2, <1>3, OrderlySame
  <2> QED BY <1>1, <1>3, <2>1, BecomeOrderly
<1>4. CASE CollectRecord
  BY <1>2, <1>3, <1>4 DEF CollectRecord, Context
<1>5. CASE CollectLeaf
  BY <1>2, <1>3, <1>5 DEF CollectLeaf, Context
<1> QED BY <1>4, <1>5

LEMMA ObjectOrderly ==
  ASSUME TypeOK, NEW targets, TellApart(targets), AllOrderly(targets), BuildObject
  PROVE  AllOrderly(targets)'
<1>1. stack # <<>> /\ Top.build # <<>> /\ AtTarget
  BY DEF BuildObject, AtTarget
<1>2. Top \in Context /\ Orderly(targets, Top) /\ Top.build \in Seq(FieldRef)
  BY <1>1, TopOrderly DEF Context
<1> DEFINE d == [Top EXCEPT !.build    = ChildRefs(Target) \o Tail(@),
                            !.bindings = Append(@, Bind(Target, NoPlace, "object"))]
<1>3. Become(d)
  BY DEF BuildObject
<1>4. /\ d.build = ChildRefs(Target) \o Tail(Top.build)
      /\ d.explanation = Top.explanation /\ d.unresolved = Top.unresolved
  BY <1>2 DEF Context
<1> HIDE DEF d
<1>5. /\ AllApart(d.build) /\ From(targets, d.build)
      /\ \A path \in Path : Clear(path, Top.build) => Clear(path, d.build)
  <2>1. AllApart(Top.build) /\ From(targets, Top.build)
    BY <1>2 DEF Orderly, Distinct
  <2>2. IsRecord(Head(Top.build).field.ty)
    BY DEF BuildObject, Target
  <2> QED BY <1>1, <1>2, <1>4, <2>1, <2>2, ObjectApart DEF Target
<1>6. ASSUME NEW n \in 1 .. Len(Top.explanation)
      PROVE  /\ Top.explanation[n].target # NoPlace
             /\ Clear(Head(Top.explanation[n].target), d.build)
  <2>1. /\ Top.explanation[n].target # NoPlace
        /\ Clear(Head(Top.explanation[n].target), Top.build)
    BY <1>2 DEF Orderly, Distinct
  <2>2. Head(Top.explanation[n].target) \in Path
    BY <1>2, <2>1, PlacesArePaths
  <2> QED BY <1>5, <2>1, <2>2
<1>7. ASSUME NEW n \in 1 .. Len(Top.unresolved)
      PROVE  Clear(Top.unresolved[n].target, d.build)
  <2>1. Top.unresolved[n].target \in Path /\ Clear(Top.unresolved[n].target, Top.build)
    BY <1>2, PlacesArePaths DEF Orderly, Distinct
  <2> QED BY <1>5, <2>1
<1>8. Distinct(targets, d)
  BY <1>4, <1>5, <1>6, <1>7 DEF Distinct
<1>9. AllOrNothing(d)
  BY <1>2, <1>4 DEF Orderly, AllOrNothing
<1> QED BY <1>1, <1>3, <1>8, <1>9, BecomeOrderly DEF Orderly

\* A target left without a mapping, with or without saying why.
LEMMA UnresolveOrderly ==
  ASSUME NEW targets, NEW c \in Context, c.build # <<>>, Orderly(targets, c),
         NEW candidates \in SUBSET Path,
         NEW d, d = Unresolve(c, candidates)
                \/ d = [Unresolve(c, candidates) EXCEPT !.list = <<>>]
                \/ d = [Unresolve(c, candidates) EXCEPT !.explanation =
                          Append(@, Explain(Head(c.build), NoPlace, "ambiguous"))]
  PROVE  Orderly(targets, d)
<1> DEFINE t == Head(c.build)
           u == [target |-> t.path, candidates |-> candidates]
           e == Explain(t, NoPlace, "ambiguous")
<1>1. t \in FieldRef
  BY HeadTailProperties DEF Context
<1>2. u \in UnresolvedTarget /\ u.target = t.path
  BY <1>1 DEF UnresolvedTarget, FieldRef
<1>3. /\ e \in Entry /\ e.target = <<t.path>> /\ e.source = NoPlace /\ e.action = "ambiguous"
  BY <1>1, ExplainType, NoPlaceType DEF Explain
<1>4. /\ d.build = Tail(c.build) /\ d.unresolved = Append(c.unresolved, u)
      /\ d.explanation = c.explanation \/ d.explanation = Append(c.explanation, e)
  BY DEF Unresolve, Context
<1> HIDE DEF t, u, e
<1>5. ReportsOnly(c, d, t)
  BY <1>2, <1>4, ReportAdded
<1>6. ExplainsOnly(c, d, t) /\ NotBoth(c, d)
  <2>1. CASE d.explanation = c.explanation
    BY <2>1, SameEntries
  <2>2. CASE d.explanation = Append(c.explanation, e)
    BY <1>3, <2>2, EntryAdded
  <2> QED BY <1>4, <2>1, <2>2
<1> QED BY <1>4, <1>5, <1>6, OrderlySettled DEF t

LEMMA UnmappedOrderly ==
  ASSUME TypeOK, NEW targets, AllOrderly(targets),
         OmitOptional \/ MissRequired \/ ReportAmbiguous
  PROVE  AllOrderly(targets)'
<1>1. stack # <<>> /\ AtTarget /\ Top.build # <<>>
  BY DEF OmitOptional, MissRequired, ReportAmbiguous, AtLeaf, AtTarget
<1>2. /\ Top \in Context /\ Orderly(targets, Top)
      /\ Target \in FieldRef /\ Target = Head(Top.build)
  BY <1>1, TopOrderly, TargetType DEF Target
<1>3. CASE OmitOptional
  <2> DEFINE d == [Top EXCEPT !.build       = Tail(@),
                              !.explanation = Append(@, Explain(Target, NoPlace, "omit"))]
             e == Explain(Target, NoPlace, "omit")
  <2>1. Become(d)
    BY <1>3 DEF OmitOptional
  <2>2. /\ d.build = Tail(Top.build) /\ d.unresolved = Top.unresolved
        /\ d.explanation = Append(Top.explanation, e)
    BY <1>2 DEF Context
  <2>3. e \in Entry /\ e.target = <<Target.path>>
    BY <1>2, ExplainType, NoPlaceType DEF Explain
  <2> HIDE DEF d, e
  <2>4. ExplainsOnly(Top, d, Target)
    BY <1>2, <2>2, <2>3, EntryAdded
  <2>5. ReportsOnly(Top, d, Target) /\ NotBoth(Top, d)
    BY <2>2, SameReports
  <2>6. Orderly(targets, d)
    BY <1>1, <1>2, <2>2, <2>4, <2>5, OrderlySettled
  <2> QED BY <1>1, <2>1, <2>6, BecomeOrderly
<1>4. CASE MissRequired
  <2>1. Orderly(targets, Unresolve(Top, {}))
    BY <1>1, <1>2, UnresolveOrderly
  <2> QED BY <1>1, <1>4, <2>1, BecomeOrderly DEF MissRequired
<1>5. CASE ReportAmbiguous
  <2> DEFINE paths == {Top.sources[i].path : i \in Candidates(Top, Target)}
             d == [Unresolve(Top, paths) EXCEPT !.explanation =
                     Append(@, Explain(Target, NoPlace, "ambiguous"))]
  <2>1. Become(d)
    BY <1>5 DEF ReportAmbiguous
  <2>2. ASSUME NEW i \in Candidates(Top, Target) PROVE Top.sources[i].path \in Path
    <3>1. Top.sources \in Seq(FieldRef) /\ i \in DOMAIN Top.sources
      BY <1>2 DEF Candidates, Context
    <3>2. Top.sources[i] \in FieldRef
      BY <3>1, ElementOfSeq, LenProperties
    <3> QED BY <3>2 DEF FieldRef
  <2>3. paths \in SUBSET Path
    BY <2>2
  <2> HIDE DEF paths
  <2>4. Orderly(targets, d)
    BY <1>1, <1>2, <2>3, UnresolveOrderly
  <2> HIDE DEF d
  <2> QED BY <1>1, <2>1, <2>4, BecomeOrderly
<1> QED BY <1>3, <1>4, <1>5

LEMMA EnterOrderly ==
  ASSUME TypeOK, NEW targets, TellApart(targets), AllOrderly(targets),
         NEW path \in ChosenPaths, EnterElements(path)
  PROVE  AllOrderly(targets)'
<1> DEFINE c == NewContext(Elements(path), Target.field.ty.element)
           d == [Top EXCEPT !.list = path]
<1>1. IsList(Target.field.ty) /\ IsRecord(Target.field.ty.element)
  BY DEF EnterElements, RecordElements, ListToList
<1>2. stack # <<>> /\ Top.build # <<>> /\ AtTarget
  BY ChosenType DEF AtLeaf, AtTarget
<1>3. Top \in Context /\ Orderly(targets, Top) /\ Target = Head(Top.build)
  BY <1>2, TopOrderly DEF Target
<1>4. Orderly(targets, c)
  <2>1. Top.build \in Seq(FieldRef) /\ AllApart(Top.build) /\ From(targets, Top.build)
    BY <1>3 DEF Context, Orderly, Distinct
  <2>2. Target.field.ty \in targets
    BY <1>2, <1>3, <2>1, NextTarget
  <2>3. Target.field.ty.element \in targets
    BY <1>1, <2>2 DEF TellApart
  <2> QED BY <1>1, <2>3, DistinctNew DEF Orderly
<1>5. Orderly(targets, d)
  <2>1. d.build = Top.build /\ d.explanation = Top.explanation /\ d.unresolved = Top.unresolved
    BY <1>3 DEF Context
  <2> HIDE DEF d
  <2> QED BY <1>3, <2>1, OrderlySame
<1>6. stack' = Append([stack EXCEPT ![Len(stack)] = d], c)
  BY DEF EnterElements, Top
<1> HIDE DEF c, d
<1>7. \A k \in 1 .. Len(stack') : Orderly(targets, stack'[k])
  BY <1>2, <1>4, <1>5, <1>6, EnterStack DEF AllOrderly
<1> QED BY <1>7 DEF AllOrderly

LEMMA MapOrderly ==
  ASSUME TypeOK, NEW targets, TellApart(targets), AllOrderly(targets),
         NEW path \in ChosenPaths, Map(path)
  PROVE  AllOrderly(targets)'
<1>1. AtTarget /\ path \in Path
  BY ChosenType DEF AtLeaf
<1>2. /\ stack # <<>> /\ Top.build # <<>> /\ Top \in Context /\ Orderly(targets, Top)
      /\ Target \in FieldRef /\ Target = Head(Top.build)
  BY <1>1, TopOrderly, TargetType DEF AtTarget, Target
<1>3. CASE TakeWhole(path)
  <2> DEFINE d == Mapped(Top, Target, path, "field", "map")
             e == Explain(Target, <<path>>, "map")
  <2>1. Become(d)
    BY <1>3 DEF TakeWhole
  <2>2. /\ d.build = Tail(Top.build) /\ d.unresolved = Top.unresolved
        /\ d.explanation = Append(Top.explanation, e)
    BY <1>2 DEF Mapped, Context
  <2>3. e \in Entry /\ e.target = <<Target.path>>
    <3>1. <<path>> \in Place
      BY <1>1 DEF Place
    <3> QED BY <1>2, <3>1, ExplainType DEF Explain
  <2> HIDE DEF d, e
  <2>4. ExplainsOnly(Top, d, Target)
    BY <1>2, <2>2, <2>3, EntryAdded
  <2>5. ReportsOnly(Top, d, Target) /\ NotBoth(Top, d)
    BY <2>2, SameReports
  <2>6. Orderly(targets, d)
    BY <1>2, <2>2, <2>4, <2>5, OrderlySettled
  <2> QED BY <1>2, <2>1, <2>6, BecomeOrderly
<1>4. CASE RejectPath(path) \/ RejectListPair(path)
  BY <1>4, ReturnOrderly DEF RejectPath, RejectListPair
<1>5. CASE KeepListContract(path) \/ LeaveScalarElements(path)
  <2>1. {path} \in SUBSET Path
    BY <1>1
  <2>2. Orderly(targets, Unresolve(Top, {path}))
    BY <1>2, <2>1, UnresolveOrderly
  <2> QED BY <1>2, <1>5, <2>2, BecomeOrderly DEF KeepListContract, LeaveScalarElements
<1>6. CASE EnterElements(path)
  BY <1>6, EnterOrderly
<1> QED BY <1>3, <1>4, <1>5, <1>6 DEF Map

LEMMA ReturnsOrderly ==
  ASSUME TypeOK, CallersWait, NEW targets, AllOrderly(targets),
         ReturnUnresolved \/ ReturnEmpty \/ ReturnPlan \/ ReturnElementPlan
  PROVE  AllOrderly(targets)'
<1>1. CASE ReturnEmpty \/ ReturnPlan \/ (ReturnUnresolved /\ Outermost)
  BY <1>1, ReturnOrderly DEF ReturnEmpty, ReturnPlan, ReturnUnresolved
<1>2. CASE ReturnElementPlan \/ (ReturnUnresolved /\ ~Outermost)
  <2>1. CallDone /\ ~Outermost /\ stack # <<>>
    BY <1>2 DEF ReturnElementPlan, ReturnUnresolved, CallDone
  <2>2. /\ Caller \in Context /\ Orderly(targets, Caller)
        /\ Caller.build # <<>> /\ Caller.list \in Path
    BY <2>1, CallerType DEF AllOrderly, Caller, Context
  <2>3. CASE ReturnUnresolved
    <3> DEFINE d == [Unresolve(Caller, {Caller.list}) EXCEPT !.list = <<>>]
    <3>1. Resume(d)
      BY <2>1, <2>3 DEF ReturnUnresolved
    <3>2. {Caller.list} \in SUBSET Path
      BY <2>2
    <3>3. Orderly(targets, d)
      BY <2>2, <3>2, UnresolveOrderly
    <3> HIDE DEF d
    <3> QED BY <2>1, <3>1, <3>3, ResumeOrderly
  <2>4. CASE ReturnElementPlan
    <3> DEFINE t    == Head(Caller.build)
               path == Caller.list
               e    == Explain(t, <<path>>, "mapElements")
               d    == [Mapped(Caller, t, path, "listMap", "mapElements") EXCEPT
                          !.list        = <<>>,
                          !.bindings    = @ \o LiftBindings(Top.bindings, t, path),
                          !.explanation = @ \o LiftEntries(Top.explanation, t, path)]
    <3>1. Resume(d) \/ Return(Failed("invalid_path"))
      BY <2>4 DEF ReturnElementPlan
    <3>2. t \in FieldRef /\ path \in Path
      BY <2>2, HeadTailProperties DEF Context
    <3>3. e \in Entry /\ e.target = <<t.path>>
      <4>1. <<path>> \in Place
        BY <3>2 DEF Place
      <4> QED BY <3>2, <4>1, ExplainType DEF Explain
    <3>4. /\ d.build = Tail(Caller.build) /\ d.unresolved = Caller.unresolved
          /\ d.explanation = Append(Caller.explanation, e) \o LiftEntries(Top.explanation, t, path)
      BY <2>2 DEF Mapped, Context
    <3> HIDE DEF t, path, e, d
    <3>5. /\ Top \in Context
          /\ \A n \in 1 .. Len(Top.explanation) : Top.explanation[n].target # NoPlace
      BY <2>1, TopOrderly DEF Orderly, Distinct
    <3>6. ExplainsOnly(Caller, d, t)
      BY <2>2, <3>2, <3>3, <3>4, <3>5, LiftAdded
    <3>7. ReportsOnly(Caller, d, t) /\ NotBoth(Caller, d)
      BY <3>4, SameReports
    <3>8. Orderly(targets, d)
      BY <2>2, <3>4, <3>6, <3>7, OrderlySettled DEF t
    <3> QED BY <2>1, <3>1, <3>8, ResumeOrderly, ReturnOrderly
  <2> QED BY <1>2, <2>3, <2>4
<1> QED BY <1>1, <1>2

LEMMA StepOrderly ==
  ASSUME TypeOK, CallersWait, NEW targets, TellApart(targets), AllOrderly(targets), [Next]_vars
  PROVE  AllOrderly(targets)'
<1>1. CASE UNCHANGED vars
  BY <1>1 DEF vars, AllOrderly
<1>2. ASSUME NEW path \in ChosenPaths, Map(path)
      PROVE  AllOrderly(targets)'
  BY <1>2, MapOrderly
<1> QED BY <1>1, <1>2, BeginOrderly, CollectOrderly, ObjectOrderly, UnmappedOrderly,
           ReturnsOrderly DEF Next

\* Where the paths of a target schema tell its fields apart, a list that is
\* reported unresolved has none of its elements mapped, in any active call.
THEOREM ListsAllOrNothing ==
  ASSUME NEW targets, TellApart(targets)
  PROVE  Spec => []ListAllOrNothing
<1>1. Init => TypeOK /\ CallersWait /\ AllOrderly(targets)
  <2> SUFFICES ASSUME Init PROVE TypeOK /\ CallersWait /\ AllOrderly(targets)
    OBVIOUS
  <2>1. 1 .. Len(stack) = {}
    BY DEF Init
  <2> QED BY <2>1, InitType DEF AllOrderly
<1>2. TypeOK /\ CallersWait /\ AllOrderly(targets) /\ [Next]_vars
        => (TypeOK /\ CallersWait /\ AllOrderly(targets))'
  BY StepType, StepOrderly
<1>3. TypeOK /\ AllOrderly(targets) => ListAllOrNothing
  <2> SUFFICES ASSUME TypeOK, AllOrderly(targets), NEW k \in DOMAIN stack
               PROVE  \A u \in UnresolvedLists(stack[k]) : \A n \in DOMAIN stack[k].explanation :
                        LET e == stack[k].explanation[n]
                        IN  Head(e.target) = u.target => e.source = NoPlace /\ e.action = "ambiguous"
    BY DEF ListAllOrNothing
  <2>1. k \in 1 .. Len(stack) /\ stack[k] \in Context
    <3>1. stack \in Seq(Context) /\ k \in 1 .. Len(stack)
      BY LenProperties DEF TypeOK
    <3> QED BY <3>1, ElementOfSeq
  <2>2. /\ DOMAIN stack[k].unresolved = 1 .. Len(stack[k].unresolved)
        /\ DOMAIN stack[k].explanation = 1 .. Len(stack[k].explanation)
    BY <2>1, LenProperties DEF Context
  <2>3. AllOrNothing(stack[k])
    BY <2>1 DEF AllOrderly, Orderly
  <2> QED BY <2>2, <2>3 DEF AllOrNothing, UnresolvedLists
<1> QED BY <1>1, <1>2, <1>3, PTL DEF Spec

=============================================================================
