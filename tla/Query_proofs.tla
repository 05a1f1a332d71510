---------------------------- MODULE Query_proofs ----------------------------
(***************************************************************************)
(* What holds of any statement over any tables, whatever its expressions   *)
(* mean: which rows are kept, how they are grouped, and what the answer    *)
(* has of them.                                                            *)
(***************************************************************************)
EXTENDS Query, SequenceTheorems, FiniteSetTheorems, NaturalsInduction, WellFoundedInduction,
        TLAPS

-----------------------------------------------------------------------------
(* Lists.                                                                  *)
LEMMA SeqIsList ==
  ASSUME NEW S, NEW s \in Seq(S)
  PROVE  IsList(s)
<1>1. \A i \in 1 .. Len(s) : s[i] \in Range(s)
  BY LenProperties DEF Range
<1>2. s = [i \in 1 .. Len(s) |-> s[i]] /\ Len(s) \in Nat
  BY LenProperties
<1> QED BY <1>1, <1>2 DEF IsList

LEMMA ListShape ==
  ASSUME NEW s, IsList(s)
  PROVE  Len(s) \in Nat /\ DOMAIN s = 1 .. Len(s)
BY LenProperties DEF IsList

LEMMA ListOfNone == IsList(<<>>) /\ Len(<<>>) = 0 /\ DOMAIN <<>> = {}
<1>1. <<>> \in Seq({}) /\ Len(<<>>) = 0
  BY EmptySeq
<1>2. IsList(<<>>)
  BY <1>1, SeqIsList
<1>3. DOMAIN <<>> = 1 .. Len(<<>>)
  BY <1>1, LenProperties
<1> QED BY <1>1, <1>2, <1>3

LEMMA ListIsEmpty ==
  ASSUME NEW s, IsList(s), Len(s) = 0
  PROVE  s = <<>>
BY EmptySeq DEF IsList

LEMMA ListAppend ==
  ASSUME NEW s, IsList(s), NEW x
  PROVE  /\ IsList(Append(s, x)) /\ Len(Append(s, x)) = Len(s) + 1
         /\ \A i \in 1 .. Len(s) : Append(s, x)[i] = s[i]
         /\ Append(s, x)[Len(s) + 1] = x
<1>1. s \in Seq(Range(s) \union {x}) /\ x \in Range(s) \union {x}
  BY SeqMonotonic DEF IsList
<1> DEFINE S == Range(s) \union {x}
<1> HIDE DEF S
<1>2. /\ Append(s, x) \in Seq(S) /\ Len(Append(s, x)) = Len(s) + 1
      /\ \A i \in 1 .. Len(s) : Append(s, x)[i] = s[i]
      /\ Append(s, x)[Len(s) + 1] = x
  BY <1>1, AppendProperties DEF S
<1> QED BY <1>2, SeqIsList

\* A function on 1 .. n is a list.
LEMMA ListFrom ==
  ASSUME NEW n \in Nat, NEW f, f = [i \in 1 .. n |-> f[i]]
  PROVE  IsList(f) /\ Len(f) = n
<1>1. f \in [1 .. n -> Range(f)]
  BY DEF Range
<1>2. f \in Seq(Range(f))
  BY <1>1, SeqDef
<1>3. DOMAIN f = 1 .. n /\ DOMAIN f = 1 .. Len(f) /\ Len(f) \in Nat
  BY <1>1, <1>2, LenProperties
<1> QED BY <1>2, <1>3 DEF IsList

\* Lists of one length with the same elements are one list.
LEMMA ListEqual ==
  ASSUME NEW s, IsList(s), NEW t, IsList(t), Len(s) = Len(t),
         \A i \in 1 .. Len(s) : s[i] = t[i]
  PROVE  s = t
<1>1. s \in Seq(Range(s) \union Range(t)) /\ t \in Seq(Range(s) \union Range(t))
  BY SeqMonotonic DEF IsList
<1> QED BY <1>1, SeqEqual

LEMMA LeastIndex ==
  ASSUME NEW T \in SUBSET Nat, T # {}
  PROVE  \E n \in T : \A m \in T : n <= m
<1> DEFINE Before == OpToRel(<, Nat)
<1>1. \A m, n \in Nat : m < n => <<m, n>> \in Before
  BY Zenon DEF OpToRel
<1>2. IsWellFoundedOn(Before, Nat)
  BY NatLessThanWellFounded
<1> HIDE DEF Before
<1>3. PICK n \in T : \A m \in T : ~(<<m, n>> \in Before)
  BY <1>2, WFMin
<1>4. \A m \in T : ~(m < n)
  BY <1>1, <1>3
<1> QED BY <1>4

LEMMA MinIs ==
  ASSUME NEW T \in SUBSET Nat, NEW n \in T, \A m \in T : n <= m
  PROVE  Min(T) = n
<1>1. Min(T) \in T /\ \A m \in T : Min(T) <= m
  BY DEF Min
<1>2. Min(T) <= n /\ n <= Min(T) /\ Min(T) \in Nat /\ n \in Nat
  BY <1>1
<1> HIDE DEF Min
<1> QED BY <1>2

-----------------------------------------------------------------------------
(* Tables and tuples.                                                      *)
Known(n) == query \in Queries /\ tables \in TableSets /\ \A k \in 1 .. n : IsRegistered(Factor(k))

LEMMA JoinsShape ==
  ASSUME query \in Queries
  PROVE  /\ IsList(query.joins) /\ Len(query.joins) \in Nat
         /\ DOMAIN query.joins = 1 .. Len(query.joins)
         /\ query.limit \in Nat \union {NoLimit}
BY QueriesAssumption, ListShape

LEMMA TableShape ==
  ASSUME tables \in TableSets, NEW factor, IsRegistered(factor)
  PROVE  /\ IsList(TableRows(factor)) /\ Len(TableRows(factor)) \in Nat
         /\ DOMAIN TableRows(factor) = 1 .. Len(TableRows(factor))
         /\ \A i \in DOMAIN TableRows(factor) : IsRow(TableRows(factor)[i])
BY TablesAssumption, ListShape DEF TableRows, IsRegistered

LEMMA PositionsShape ==
  ASSUME NEW n \in Nat, Known(n), NEW k \in 1 .. n
  PROVE  /\ Len(TableRows(Factor(k))) \in Nat
         /\ Positions(k) = 1 .. Len(TableRows(Factor(k)))
BY TableShape DEF Known, Positions

LEMMA TupleShape ==
  ASSUME NEW n \in Nat, Known(n), NEW t
  PROVE  t \in Tuples(n) <=> /\ t \in Seq(Nat) /\ Len(t) = n
                             /\ \A k \in 1 .. n : t[k] = 0 \/ t[k] \in Positions(k)
<1> DEFINE All == {0} \union UNION {Positions(k) : k \in 1 .. n}
<1>1. \A k \in 1 .. n : Positions(k) \subseteq All /\ 0 \in All
  OBVIOUS
<1>2. All \subseteq Nat
  BY PositionsShape
<1> HIDE DEF All
<1>3. ASSUME t \in Tuples(n)
      PROVE  /\ t \in Seq(Nat) /\ Len(t) = n
             /\ \A k \in 1 .. n : t[k] = 0 \/ t[k] \in Positions(k)
  <2>1. t \in [1 .. n -> All] /\ \A k \in 1 .. n : t[k] # 0 => t[k] \in Positions(k)
    BY <1>3 DEF Tuples, All
  <2>2. t \in [1 .. n -> Nat]
    BY <1>2, <2>1
  <2>3. t \in Seq(Nat)
    BY <2>2, SeqDef
  <2>4. DOMAIN t = 1 .. n /\ DOMAIN t = 1 .. Len(t) /\ Len(t) \in Nat
    BY <2>2, <2>3, LenProperties
  <2> QED BY <2>1, <2>3, <2>4
<1>4. ASSUME t \in Seq(Nat), Len(t) = n,
             \A k \in 1 .. n : t[k] = 0 \/ t[k] \in Positions(k)
      PROVE  t \in Tuples(n)
  <2>1. t \in [1 .. n -> Nat]
    BY <1>4, LenProperties
  <2>2. t \in [1 .. n -> All]
    BY <1>1, <1>4, <2>1
  <2> QED BY <1>4, <2>2 DEF Tuples, All
<1> QED BY <1>3, <1>4

-----------------------------------------------------------------------------
(* The row of a tuple.                                                     *)
AgreeOn(s, t, n) == \A k \in 1 .. n : s[k] = t[k]

LEMMA SameRow ==
  ASSUME NEW n \in Nat, NEW s, NEW t, AgreeOn(s, t, n)
  PROVE  RowOf(s, n) = RowOf(t, n)
<1>1. \A k \in 1 .. n : RowAt(s, k) = RowAt(t, k)
  BY DEF RowAt, AgreeOn
<1>2. ASSUME NEW c PROVE Having(s, n, c) = Having(t, n, c)
  BY <1>1 DEF Having, AgreeOn
<1>3. ASSUME NEW c \in Columns, Having(t, n, c) # {} PROVE Min(Having(t, n, c)) \in 1 .. n
  <2>1. Having(t, n, c) \in SUBSET Nat
    BY DEF Having
  <2>2. PICK m \in Having(t, n, c) : \A k \in Having(t, n, c) : m <= k
    BY <1>3, <2>1, LeastIndex
  <2>3. Min(Having(t, n, c)) = m
    BY <2>1, <2>2, MinIs
  <2> QED BY <2>3 DEF Having
<1> DEFINE D == {c \in Columns : Having(t, n, c) # {}}
<1>4. D = {c \in Columns : Having(s, n, c) # {}}
  BY <1>2
<1>5. \A c \in D : RowAt(s, Min(Having(s, n, c)))[c] = RowAt(t, Min(Having(t, n, c)))[c]
  BY <1>1, <1>2, <1>3
<1> HIDE DEF D
<1>6. RowOf(s, n) = [c \in D |-> RowAt(s, Min(Having(s, n, c)))[c]]
  BY <1>4 DEF RowOf
<1>7. RowOf(t, n) = [c \in D |-> RowAt(t, Min(Having(t, n, c)))[c]]
  BY DEF RowOf, D
<1> QED BY <1>5, <1>6, <1>7

\* A table that gave no row adds no columns.
LEMMA RowWithout ==
  ASSUME NEW n \in Nat, NEW t, t[n + 1] = 0
  PROVE  RowOf(t, n + 1) = RowOf(t, n)
<1>1. ASSUME NEW c PROVE Having(t, n + 1, c) = Having(t, n, c)
  <2>1. \A k \in 1 .. n + 1 : k \in 1 .. n \/ k = n + 1
    OBVIOUS
  <2>2. \A k \in 1 .. n : k \in 1 .. n + 1
    OBVIOUS
  <2> QED BY <2>1, <2>2 DEF Having
<1> QED BY <1>1 DEF RowOf

\* The row of one more table is merged with what there is.
LEMMA RowWith ==
  ASSUME NEW n \in Nat, NEW t, t[n + 1] # 0, IsRow(RowAt(t, n + 1))
  PROVE  RowOf(t, n + 1) = Merged(RowOf(t, n), RowAt(t, n + 1))
<1> DEFINE new == RowAt(t, n + 1)
           H(c) == Having(t, n, c)
           M(c) == Having(t, n + 1, c)
           D == {c \in Columns : H(c) # {}}
<1>1. ASSUME NEW c
      PROVE  M(c) = H(c) \union IF c \in DOMAIN new THEN {n + 1} ELSE {}
  <2>1. \A k \in 1 .. n + 1 : k \in 1 .. n \/ k = n + 1
    OBVIOUS
  <2>2. n + 1 \in 1 .. n + 1 /\ \A k \in 1 .. n : k \in 1 .. n + 1
    OBVIOUS
  <2> QED BY <2>1, <2>2 DEF Having
<1>2. ASSUME NEW c, H(c) # {} PROVE Min(M(c)) = Min(H(c)) /\ Min(H(c)) \in 1 .. n
  <2>1. H(c) \in SUBSET Nat /\ H(c) \subseteq 1 .. n
    BY DEF Having
  <2>2. PICK m \in H(c) : \A k \in H(c) : m <= k
    BY <1>2, <2>1, LeastIndex
  <2>3. Min(H(c)) = m
    BY <2>1, <2>2, MinIs
  <2>4. M(c) \in SUBSET Nat /\ m \in M(c) /\ \A k \in M(c) : m <= k
    BY <1>1, <2>1, <2>2
  <2>5. Min(M(c)) = m
    BY <2>4, MinIs
  <2> QED BY <2>1, <2>3, <2>5
<1>3. ASSUME NEW c, H(c) = {}, c \in DOMAIN new PROVE Min(M(c)) = n + 1
  <2>1. M(c) = {n + 1}
    BY <1>1, <1>3
  <2> QED BY <2>1, MinIs
<1>4. DOMAIN RowOf(t, n) = D
  BY DEF RowOf
<1>5. {c \in Columns : M(c) # {}} = D \union DOMAIN new
  BY <1>1 DEF IsRow
<1>6. ASSUME NEW c \in D \union DOMAIN new
      PROVE  RowAt(t, Min(M(c)))[c] = IF c \in D THEN RowOf(t, n)[c] ELSE new[c]
  <2>1. CASE c \in D
    <3>1. RowOf(t, n)[c] = RowAt(t, Min(H(c)))[c]
      BY <2>1 DEF RowOf
    <3> QED BY <1>2, <2>1, <3>1
  <2>2. CASE c \notin D
    <3>1. c \in Columns
      BY <1>6, <2>2 DEF IsRow
    <3>2. H(c) = {} /\ c \in DOMAIN new
      BY <1>6, <2>2, <3>1
    <3>3. Min(M(c)) = n + 1
      BY <1>3, <3>2
    <3> HIDE DEF D
    <3> QED BY <2>2, <3>3
  <2> QED BY <2>1, <2>2
<1>7. RowOf(t, n + 1) = [c \in D \union DOMAIN new |-> RowAt(t, Min(M(c)))[c]]
  BY <1>5 DEF RowOf
<1>8. Merged(RowOf(t, n), new) =
        [c \in D \union DOMAIN new |-> IF c \in D THEN RowOf(t, n)[c] ELSE new[c]]
  BY <1>4 DEF Merged
<1> HIDE DEF D, M, new
<1> QED BY <1>6, <1>7, <1>8 DEF new

-----------------------------------------------------------------------------
(* The tuples of one more table.                                           *)
LEMMA SameJoin ==
  ASSUME NEW n \in Nat, NEW s, NEW t, AgreeOn(s, t, n + 1)
  PROVE  JoinsAt(s, n) <=> JoinsAt(t, n)
<1>1. AgreeOn(s, t, n) /\ s[n + 1] = t[n + 1]
  BY DEF AgreeOn
<1>2. RowOf(s, n) = RowOf(t, n)
  BY <1>1, SameRow
<1>3. \A i : Meets(s, n, i) <=> Meets(t, n, i)
  BY <1>2 DEF Meets
<1> QED BY <1>1, <1>3 DEF JoinsAt

LEMMA AppendTuple ==
  ASSUME NEW s \in Seq(Nat), NEW i \in Nat
  PROVE  /\ Append(s, i) \in Seq(Nat) /\ Len(Append(s, i)) = Len(s) + 1
         /\ Append(s, i)[Len(s) + 1] = i
         /\ AgreeOn(s, Append(s, i), Len(s))
BY AppendProperties DEF AgreeOn

LEMMA TuplesAgree ==
  ASSUME NEW s \in Seq(Nat), NEW t \in Seq(Nat), Len(s) = Len(t), AgreeOn(s, t, Len(s))
  PROVE  s = t
BY SeqEqual DEF AgreeOn

LEMMA CombinedShape ==
  ASSUME NEW n \in Nat, Known(n), NEW t
  PROVE  t \in Combined(n) <=>
           /\ t \in Seq(Nat) /\ Len(t) = n
           /\ \A k \in 1 .. n : t[k] = 0 \/ t[k] \in Positions(k)
           /\ t[1] # 0 /\ \A k \in 1 .. n - 1 : JoinsAt(t, k)
BY TupleShape DEF Combined

LEMMA KnownLess ==
  ASSUME NEW n \in Nat, Known(n + 1)
  PROVE  Known(n)
BY DEF Known

LEMMA CombinedOne ==
  ASSUME Known(1), NEW i \in Positions(1)
  PROVE  <<i>> \in Combined(1) /\ RowOf(<<i>>, 1) = TableRows(query.from)[i]
<1> DEFINE t == <<i>>
<1>1. i \in Nat \ {0} /\ 1 \in Nat
  BY PositionsShape
<1>2. t \in Seq(Nat) /\ Len(t) = 1 /\ t[1] = i
  BY <1>1
<1> HIDE DEF t
<1>3. t \in Combined(1)
  <2>1. \A k \in 1 .. 1 : t[k] \in Positions(k)
    BY <1>2
  <2>2. \A k \in 1 .. 1 - 1 : JoinsAt(t, k)
    OBVIOUS
  <2> QED BY <1>1, <1>2, <2>1, <2>2, CombinedShape
<1>4. RowAt(t, 1) = TableRows(query.from)[i] /\ IsRow(RowAt(t, 1))
  BY <1>2, TableShape DEF RowAt, Factor, Positions, Known
<1>5. ASSUME NEW c PROVE Having(t, 0, c) = {}
  BY DEF Having
<1>6. RowOf(t, 0 + 1) = Merged(RowOf(t, 0), RowAt(t, 1))
  BY <1>1, <1>2, <1>4, RowWith
<1>7. Merged(RowOf(t, 0), RowAt(t, 1)) = RowAt(t, 1)
  <2>1. DOMAIN RowOf(t, 0) = {}
    BY <1>5 DEF RowOf
  <2> QED BY <1>4, <2>1 DEF Merged, IsRow
<1> QED BY <1>3, <1>4, <1>6, <1>7 DEF t

\* A tuple of one more table is a tuple and a row it joins with.
LEMMA CombinedPrefix ==
  ASSUME NEW n \in Nat \ {0}, Known(n + 1), NEW t \in Combined(n + 1)
  PROVE  /\ t[n + 1] = 0 \/ t[n + 1] \in Positions(n + 1)
         /\ JoinsAt(t, n)
         /\ \E s \in Combined(n) : t = Append(s, t[n + 1])
<1>1. /\ t \in Seq(Nat) /\ Len(t) = n + 1
      /\ \A k \in 1 .. n + 1 : t[k] = 0 \/ t[k] \in Positions(k)
      /\ t[1] # 0 /\ \A k \in 1 .. n : JoinsAt(t, k)
  BY CombinedShape
<1> DEFINE s == SubSeq(t, 1, n)
<1>2. \A k \in 1 .. n + 1 : t[k] \in Nat
  BY <1>1, ElementOfSeq
<1>3. s \in Seq(Nat) /\ Len(s) = n /\ AgreeOn(s, t, n)
  <2>1. \A k \in 1 .. n : t[k] \in Nat
    BY <1>2
  <2> QED BY <2>1, SubSeqProperties DEF AgreeOn
<1> HIDE DEF s
<1>4. s \in Combined(n)
  <2>1. ASSUME NEW k \in 1 .. n - 1 PROVE JoinsAt(s, k)
    <3>1. AgreeOn(s, t, k + 1)
      BY <1>3 DEF AgreeOn
    <3> QED BY <1>1, <3>1, SameJoin
  <2>2. \A k \in 1 .. n : s[k] = 0 \/ s[k] \in Positions(k)
    BY <1>1, <1>3 DEF AgreeOn
  <2>3. s[1] # 0
    BY <1>1, <1>3 DEF AgreeOn
  <2> QED BY <1>3, <2>1, <2>2, <2>3, KnownLess, CombinedShape
<1>5. t = Append(s, t[n + 1])
  <2>1. t[n + 1] \in Nat
    BY <1>2
  <2> DEFINE u == Append(s, t[n + 1])
  <2>2. /\ u \in Seq(Nat) /\ Len(u) = n + 1 /\ u[n + 1] = t[n + 1]
        /\ AgreeOn(s, u, n)
    BY <1>3, <2>1, AppendTuple
  <2> HIDE DEF u
  <2>3. AgreeOn(t, u, n + 1)
    <3>1. \A k \in 1 .. n + 1 : k \in 1 .. n \/ k = n + 1
      OBVIOUS
    <3> QED BY <1>3, <2>2, <3>1 DEF AgreeOn
  <2>4. t = u
    BY <1>1, <2>2, <2>3, TuplesAgree
  <2> QED BY <2>4 DEF u
<1> QED BY <1>1, <1>4, <1>5

LEMMA CombinedMore ==
  ASSUME NEW n \in Nat \ {0}, Known(n + 1), NEW s \in Combined(n),
         NEW i, i = 0 \/ i \in Positions(n + 1),
         IF i = 0 THEN query.joins[n].kind = "left" /\ \A j \in Positions(n + 1) : ~Meets(s, n, j)
         ELSE Meets(s, n, i)
  PROVE  /\ Append(s, i) \in Combined(n + 1)
         /\ RowOf(Append(s, i), n + 1) =
              IF i = 0 THEN RowOf(s, n) ELSE Merged(RowOf(s, n), TableRows(Factor(n + 1))[i])
<1> DEFINE t == Append(s, i)
<1>1. /\ s \in Seq(Nat) /\ Len(s) = n
      /\ \A k \in 1 .. n : s[k] = 0 \/ s[k] \in Positions(k)
      /\ s[1] # 0 /\ \A k \in 1 .. n - 1 : JoinsAt(s, k)
  BY KnownLess, CombinedShape
<1>2. i \in Nat /\ (i # 0 <=> i \in Positions(n + 1))
  <2>1. n + 1 \in 1 .. n + 1 /\ n + 1 \in Nat
    OBVIOUS
  <2> QED BY <2>1, PositionsShape
<1>3. t \in Seq(Nat) /\ Len(t) = n + 1 /\ t[n + 1] = i /\ AgreeOn(s, t, n)
  BY <1>1, <1>2, AppendTuple
<1> HIDE DEF t
<1>4. RowOf(s, n) = RowOf(t, n)
  BY <1>3, SameRow
<1>5. JoinsAt(t, n)
  <2>1. \A j : Meets(t, n, j) <=> Meets(s, n, j)
    BY <1>4 DEF Meets
  <2> QED BY <1>3, <2>1 DEF JoinsAt
<1>6. t \in Combined(n + 1)
  <2>1. ASSUME NEW k \in 1 .. n PROVE JoinsAt(t, k)
    <3>1. CASE k = n
      BY <1>5, <3>1
    <3>2. CASE k # n
      <4>1. k \in 1 .. n - 1 /\ AgreeOn(s, t, k + 1)
        BY <1>3, <3>2 DEF AgreeOn
      <4> QED BY <1>1, <4>1, SameJoin
    <3> QED BY <3>1, <3>2
  <2>2. \A k \in 1 .. n + 1 : k \in 1 .. n \/ k = n + 1
    OBVIOUS
  <2>3. \A k \in 1 .. n + 1 : t[k] = 0 \/ t[k] \in Positions(k)
    BY <1>1, <1>3, <2>2 DEF AgreeOn
  <2>4. t[1] # 0
    BY <1>1, <1>3 DEF AgreeOn
  <2>5. (n + 1) - 1 = n /\ n + 1 \in Nat
    OBVIOUS
  <2> QED BY <1>3, <2>1, <2>3, <2>4, <2>5, CombinedShape
<1>7. CASE i = 0
  BY <1>3, <1>4, <1>6, <1>7, RowWithout DEF t
<1>8. CASE i # 0
  <2>1. RowAt(t, n + 1) = TableRows(Factor(n + 1))[i] /\ IsRow(RowAt(t, n + 1))
    <3>1. IsRegistered(Factor(n + 1)) /\ tables \in TableSets
      BY DEF Known
    <3> QED BY <1>2, <1>3, <1>8, <3>1, TableShape DEF RowAt, Positions
  <2>2. RowOf(t, n + 1) = Merged(RowOf(t, n), RowAt(t, n + 1))
    BY <1>3, <1>8, <2>1, RowWith
  <2> QED BY <1>4, <1>6, <1>8, <2>1, <2>2 DEF t
<1> QED BY <1>7, <1>8

-----------------------------------------------------------------------------
(* Lists of tuples in the order of the tables.                             *)
LEMMA EarlierAppended ==
  ASSUME NEW s \in Seq(Nat), NEW t \in Seq(Nat), Len(s) = Len(t), Earlier(s, t),
         NEW i \in Nat, NEW j \in Nat
  PROVE  Earlier(Append(s, i), Append(t, j))
<1> DEFINE u == Append(s, i)
           v == Append(t, j)
<1>1. Len(s) \in Nat /\ DOMAIN s = 1 .. Len(s)
  BY LenProperties
<1>2. /\ u \in Seq(Nat) /\ Len(u) = Len(s) + 1 /\ AgreeOn(s, u, Len(s))
      /\ v \in Seq(Nat) /\ AgreeOn(t, v, Len(s))
  BY AppendTuple
<1> HIDE DEF u, v
<1>3. PICK k \in DOMAIN s : s[k] < t[k] /\ \A m \in 1 .. k - 1 : s[m] = t[m]
  BY DEF Earlier
<1>4. DOMAIN u = 1 .. Len(s) + 1
  BY <1>2, LenProperties
<1>5. k \in DOMAIN u /\ u[k] = s[k] /\ v[k] = t[k]
  BY <1>1, <1>2, <1>3, <1>4 DEF AgreeOn
<1>6. \A m \in 1 .. k - 1 : m \in 1 .. Len(s)
  BY <1>1, <1>3
<1>7. \A m \in 1 .. k - 1 : u[m] = v[m]
  BY <1>2, <1>3, <1>6 DEF AgreeOn
<1>8. Earlier(u, v)
  BY <1>3, <1>5, <1>7 DEF Earlier
<1> QED BY <1>8 DEF u, v

LEMMA EarlierLast ==
  ASSUME NEW s \in Seq(Nat), NEW i \in Nat, NEW j \in Nat, i < j
  PROVE  Earlier(Append(s, i), Append(s, j))
<1> DEFINE u == Append(s, i)
           v == Append(s, j)
<1>1. Len(s) \in Nat
  BY LenProperties
<1>2. /\ u \in Seq(Nat) /\ Len(u) = Len(s) + 1 /\ u[Len(s) + 1] = i /\ AgreeOn(s, u, Len(s))
      /\ v \in Seq(Nat) /\ v[Len(s) + 1] = j /\ AgreeOn(s, v, Len(s))
  BY AppendTuple
<1> HIDE DEF u, v
<1>3. Len(s) + 1 \in DOMAIN u
  BY <1>1, <1>2, LenProperties
<1>4. \A m \in 1 .. (Len(s) + 1) - 1 : u[m] = v[m]
  BY <1>1, <1>2 DEF AgreeOn
<1>5. Earlier(u, v)
  BY <1>2, <1>3, <1>4 DEF Earlier
<1> QED BY <1>5 DEF u, v

LEMMA EarlierDiffers ==
  ASSUME NEW s \in Seq(Nat), NEW t, Earlier(s, t)
  PROVE  s # t
<1>1. PICK k \in DOMAIN s : s[k] < t[k]
  BY DEF Earlier
<1>2. s[k] \in Nat
  BY LenProperties, ElementOfSeq
<1>3. s[k] # t[k]
  BY <1>1, <1>2
<1> QED BY <1>3

LEMMA ListsNone ==
  ASSUME NEW n
  PROVE  Lists(<<>>, {}, n)
BY ListOfNone DEF Lists

\* A row that comes from a tuple later than all there are is put last.
LEMMA ListsMore ==
  ASSUME NEW values, IsList(values), NEW set, NEW n, Lists(values, set, n),
         NEW r, r.row = RowOf(r.from, n), \A s \in set : Earlier(s, r.from)
  PROVE  Lists(Append(values, r), set \union {r.from}, n)
<1> DEFINE more == Append(values, r)
           m == Len(values)
<1>1. m \in Nat /\ DOMAIN values = 1 .. m
  BY ListShape
<1>2. /\ IsList(more) /\ Len(more) = m + 1 /\ more[m + 1] = r
      /\ \A i \in 1 .. m : more[i] = values[i]
  BY ListAppend
<1>3. DOMAIN more = 1 .. m + 1
  BY <1>2, ListShape
<1> HIDE DEF more, m
<1>4. \A i \in 1 .. m + 1 : i \in 1 .. m \/ i = m + 1
  BY <1>1
<1>5. m + 1 \in 1 .. m + 1 /\ \A i \in 1 .. m : i \in 1 .. m + 1
  BY <1>1
<1>6. {more[i].from : i \in DOMAIN more} = {values[i].from : i \in DOMAIN values} \union {r.from}
  BY <1>1, <1>2, <1>3, <1>4, <1>5
<1>7. ASSUME NEW i \in DOMAIN more, NEW j \in DOMAIN more, i < j
      PROVE  Earlier(more[i].from, more[j].from)
  <2>1. i \in 1 .. m
    BY <1>1, <1>3, <1>7
  <2>2. CASE j \in 1 .. m
    BY <1>1, <1>2, <1>7, <2>1, <2>2 DEF Lists
  <2>3. CASE j = m + 1
    BY <1>1, <1>2, <2>1, <2>3 DEF Lists
  <2> QED BY <1>3, <1>4, <2>2, <2>3
<1>8. \A i \in DOMAIN more : more[i].row = RowOf(more[i].from, n)
  BY <1>1, <1>2, <1>3, <1>4 DEF Lists
<1>9. Lists(more, set \union {r.from}, n)
  BY <1>6, <1>7, <1>8 DEF Lists
<1> QED BY <1>9 DEF more

-----------------------------------------------------------------------------
(***************************************************************************)
(* A comparison that orders the values leaves no two of them tied once     *)
(* their places are taken into account, so each rank is taken once.        *)
(***************************************************************************)
LEMMA StaysBeforeOrders ==
  ASSUME NEW values, IsList(values), IsWeakOrder(values)
  PROVE  \A i, j, k \in DOMAIN values :
           /\ ~StaysBefore(values, i, i)
           /\ StaysBefore(values, i, j) /\ StaysBefore(values, j, k) => StaysBefore(values, i, k)
           /\ i = j \/ StaysBefore(values, i, j) \/ StaysBefore(values, j, i)
<1> DEFINE B(m, n) == Precedes(query.order, values[m].row, values[n].row)
<1>1. \A i, j, k \in DOMAIN values :
        /\ ~(B(i, j) /\ B(j, i))
        /\ B(i, k) => B(i, j) \/ B(j, k)
  BY DEF IsWeakOrder
<1>2. \A i, j : StaysBefore(values, i, j) <=> B(i, j) \/ (i < j /\ ~B(j, i))
  BY DEF StaysBefore
<1>3. \A i \in DOMAIN values : i \in Nat
  BY ListShape
<1> HIDE DEF B
<1> QED BY <1>1, <1>2, <1>3

LEMMA SortedIs ==
  ASSUME NEW values, IsList(values), IsWeakOrder(values)
  PROVE  \E sel \in [DOMAIN values -> DOMAIN values] :
           /\ Sorted(values) = [r \in DOMAIN values |-> values[sel[r]]]
           /\ \A r, s \in DOMAIN values : r < s => StaysBefore(values, sel[r], sel[s])
<1> DEFINE D == DOMAIN values
           n == Len(values)
           SB(i, j) == StaysBefore(values, i, j)
           First(i) == {j \in D : SB(j, i)}
           rank == [i \in D |-> Cardinality(First(i)) + 1]
<1>1. n \in Nat /\ D = 1 .. n
  BY ListShape
<1>2. IsFiniteSet(D) /\ Cardinality(D) = n
  <2> HIDE DEF D, n
  <2>1. IsFiniteSet(1 .. n) /\ Cardinality(1 .. n) = IF 1 > n THEN 0 ELSE n - 1 + 1
    BY <1>1, FS_Interval
  <2> QED BY <1>1, <2>1
<1>3. \A i, j, k \in D : /\ ~SB(i, i)
                         /\ SB(i, j) /\ SB(j, k) => SB(i, k)
                         /\ i = j \/ SB(i, j) \/ SB(j, i)
  BY StaysBeforeOrders
<1> HIDE DEF D, SB, n
<1>4. ASSUME NEW i \in D
      PROVE  IsFiniteSet(First(i)) /\ Cardinality(First(i)) \in 0 .. n - 1
  <2>1. First(i) \in SUBSET (D \ {i})
    BY <1>3
  <2>2. IsFiniteSet(D \ {i}) /\ Cardinality(D \ {i}) = n - 1
    BY <1>2, <1>4, FS_RemoveElement
  <2> HIDE DEF First
  <2>3. IsFiniteSet(First(i)) /\ Cardinality(First(i)) <= n - 1
    BY <2>1, <2>2, FS_Subset
  <2>4. Cardinality(First(i)) \in Nat
    BY <2>3, FS_CardinalityType
  <2> QED BY <1>1, <2>3, <2>4
<1>5. ASSUME NEW i \in D, NEW j \in D, SB(i, j)
      PROVE  Cardinality(First(i)) < Cardinality(First(j))
  <2>1. First(i) \in SUBSET First(j) /\ i \in First(j) /\ i \notin First(i)
    BY <1>3, <1>5
  <2>2. /\ IsFiniteSet(First(j)) /\ Cardinality(First(i)) \in Nat
        /\ Cardinality(First(j)) \in Nat
    BY <1>4
  <2> HIDE DEF First
  <2>3. /\ Cardinality(First(i)) <= Cardinality(First(j))
        /\ Cardinality(First(i)) = Cardinality(First(j)) => First(j) = First(i)
    BY <2>1, <2>2, FS_Subset
  <2> QED BY <2>1, <2>2, <2>3
<1> HIDE DEF First
<1>6. rank \in [D -> D]
  BY <1>1, <1>4
<1>7. \A i, j \in D : rank[i] = rank[j] => i = j
  <2>1. \A i \in D : Cardinality(First(i)) \in Nat
    BY <1>4
  <2>2. \A i, j \in D : SB(i, j) => rank[i] # rank[j]
    BY <1>5, <2>1
  <2> HIDE DEF rank
  <2> QED BY <1>3, <2>2
<1> DEFINE sel == [r \in D |-> CHOOSE i \in D : Cardinality(First(i)) = r - 1]
<1>8. \A r \in D : \E i \in D : rank[i] = r
  <2>1. rank \in Injection(D, D)
    <3> HIDE DEF rank
    <3> QED BY <1>6, <1>7 DEF Injection, IsInjective
  <2> HIDE DEF rank
  <2>2. rank \in Surjection(D, D)
    BY <1>2, <2>1, FS_Injection
  <2> QED BY <2>2 DEF Surjection
<1>9. \A r \in D : sel[r] \in D /\ Cardinality(First(sel[r])) = r - 1
  <2>1. ASSUME NEW r \in D
        PROVE  \E i \in D : Cardinality(First(i)) = r - 1
    <3>1. PICK i \in D : rank[i] = r
      BY <1>8
    <3>2. Cardinality(First(i)) \in Nat /\ r \in Nat
      BY <1>1, <1>4
    <3> QED BY <3>1, <3>2
  <2> QED BY <2>1
<1>10. sel \in [D -> D]
  BY <1>9
<1>11. \A r, s \in D : r < s => SB(sel[r], sel[s])
  <2> HIDE DEF sel
  <2>1. ASSUME NEW r \in D, NEW s \in D, r < s PROVE SB(sel[r], sel[s])
    <3>1. r \in Nat /\ s \in Nat
      BY <1>1
    <3>2. /\ sel[r] \in D /\ Cardinality(First(sel[r])) = r - 1
          /\ sel[s] \in D /\ Cardinality(First(sel[s])) = s - 1
      BY <1>9
    <3>3. sel[r] # sel[s]
      BY <2>1, <3>1, <3>2
    <3>4. ~SB(sel[s], sel[r])
      <4>1. SUFFICES ASSUME SB(sel[s], sel[r]) PROVE FALSE
        OBVIOUS
      <4>2. s - 1 < r - 1
        BY <1>5, <3>2, <4>1
      <4> QED BY <2>1, <3>1, <4>2
    <3> QED BY <1>3, <3>2, <3>3, <3>4
  <2> QED BY <2>1
<1>12. Sorted(values) = [r \in D |-> values[sel[r]]]
  BY DEF Sorted, D, sel, First, SB
<1> HIDE DEF sel
<1> QED BY <1>10, <1>11, <1>12 DEF D, SB

-----------------------------------------------------------------------------
(***************************************************************************)
(* Types.                                                                  *)
(***************************************************************************)
LEMMA SourcedNone == AreSourced(<<>>) /\ AreMerged(<<>>)
BY ListOfNone DEF AreSourced, AreMerged

LEMMA SourcedMore ==
  ASSUME NEW values, AreSourced(values),
         NEW r, DOMAIN r = {"row", "from"}, r.from \in Seq(Nat)
  PROVE  /\ AreSourced(Append(values, r))
         /\ AreMerged(values) /\ IsRow(r.row) => AreMerged(Append(values, r))
<1> DEFINE more == Append(values, r)
           m == Len(values)
<1>1. IsList(values) /\ m \in Nat /\ DOMAIN values = 1 .. m
  BY ListShape DEF AreSourced
<1>2. /\ IsList(more) /\ Len(more) = m + 1 /\ more[m + 1] = r
      /\ \A i \in 1 .. m : more[i] = values[i]
  BY <1>1, ListAppend
<1>3. DOMAIN more = 1 .. m + 1
  BY <1>2, ListShape
<1> HIDE DEF more, m
<1>4. \A i \in 1 .. m + 1 : i \in 1 .. m \/ i = m + 1
  BY <1>1
<1>5. AreSourced(more)
  BY <1>1, <1>2, <1>3, <1>4 DEF AreSourced
<1>6. AreMerged(values) /\ IsRow(r.row) => AreMerged(more)
  BY <1>1, <1>2, <1>3, <1>4 DEF AreMerged
<1> QED BY <1>5, <1>6 DEF more

LEMMA SourcedPick ==
  ASSUME NEW values, AreSourced(values), NEW sel \in [DOMAIN values -> DOMAIN values]
  PROVE  LET picked == [r \in DOMAIN values |-> values[sel[r]]]
         IN  AreSourced(picked) /\ Len(picked) = Len(values)
<1> DEFINE picked == [r \in DOMAIN values |-> values[sel[r]]]
<1>1. Len(values) \in Nat /\ DOMAIN values = 1 .. Len(values)
  BY ListShape DEF AreSourced
<1>2. IsList(picked) /\ Len(picked) = Len(values)
  <2>1. picked = [r \in 1 .. Len(values) |-> picked[r]]
    BY <1>1
  <2> HIDE DEF picked
  <2> QED BY <1>1, <2>1, ListFrom
<1>3. AreSourced(picked)
  <2>1. \A r \in DOMAIN picked : picked[r] = values[sel[r]] /\ sel[r] \in DOMAIN values
    OBVIOUS
  <2> HIDE DEF picked
  <2> QED BY <1>2, <2>1 DEF AreSourced
<1> QED BY <1>2, <1>3

LEMMA CutShape ==
  ASSUME NEW s, IsList(s), NEW n \in 0 .. Len(s)
  PROVE  /\ IsList(SubSeq(s, 1, n)) /\ Len(SubSeq(s, 1, n)) = n
         /\ \A i \in 1 .. n : SubSeq(s, 1, n)[i] = s[i]
<1>1. Len(s) \in Nat /\ \A i \in 1 .. Len(s) : s[i] \in Range(s)
  BY ListShape DEF Range
<1>2. \A i \in 1 .. n : s[i] \in Range(s)
  BY <1>1
<1> DEFINE S == Range(s)
<1>3. \A i \in 1 .. n : s[i] \in S
  BY <1>2
<1> HIDE DEF S
<1>4. /\ SubSeq(s, 1, n) \in Seq(S)
      /\ Len(SubSeq(s, 1, n)) = IF 1 <= n THEN n - 1 + 1 ELSE 0
      /\ \A i \in 1 .. n - 1 + 1 : SubSeq(s, 1, n)[i] = s[1 + i - 1]
  BY <1>1, <1>3, SubSeqProperties
<1>5. Len(SubSeq(s, 1, n)) = n
  BY <1>1, <1>4
<1>6. \A i \in 1 .. n : SubSeq(s, 1, n)[i] = s[i]
  BY <1>1, <1>4
<1> QED BY <1>4, <1>5, <1>6, SeqIsList

LEMMA RowMerged ==
  ASSUME NEW left, NEW right, IsRow(left), IsRow(right)
  PROVE  IsRow(Merged(left, right))
BY DEF IsRow, Merged

\* What a loop that has not begun has done.
Fresh ==
  /\ stage = "from" => joined = 0 /\ rows = <<>> /\ pos = 0 /\ out = <<>>
  /\ stage \in {"from", "join"} => groups = <<>>
  /\ stage = "group" => Len(groups) <= pos
  /\ stage = "groups" => Len(groups) <= Len(rows)
  /\ stage \in {"order", "limit"} => pos = 0

Typed == TypeOK /\ Fresh

LEMMA TypedInit ==
  ASSUME Init
  PROVE  Typed
<1>1. /\ AreSourced(rows) /\ AreSourced(out) /\ AreSourced(kept) /\ AreSourced(answers)
      /\ AreMerged(rows) /\ AreMerged(out) /\ AreMerged(kept)
  BY SourcedNone DEF Init
<1>2. query \in Queries /\ tables \in TableSets /\ stage \in Stages /\ joined \in 0 .. Len(query.joins)
  BY JoinsShape DEF Init, Stages
<1>3. IsList(groups) /\ DOMAIN groups = {} /\ Len(groups) = 0 /\ Len(rows) = 0
  BY ListOfNone DEF Init
<1>4. pos \in 0 .. (IF stage = "groups" THEN Len(groups) ELSE Len(rows))
  BY <1>3 DEF Init
<1>5. compared = 0 /\ matched \in BOOLEAN
  BY DEF Init
<1>6. Fresh
  BY DEF Init, Fresh
<1> QED BY <1>1, <1>2, <1>3, <1>4, <1>5, <1>6 DEF Typed, TypeOK

-----------------------------------------------------------------------------
(* The parts of TypeOK, and how each step keeps them.                      *)
Framed ==
  query \in Queries /\ tables \in TableSets /\ stage \in Stages /\ joined \in 0 .. Len(query.joins)
RowsTyped ==
  /\ AreSourced(rows) /\ AreSourced(out) /\ AreSourced(kept) /\ AreSourced(answers)
  /\ AreMerged(kept) /\ (stage \in {"join", "group", "project"} => AreMerged(rows))
  /\ stage = "join" => AreMerged(out)
GroupsTyped ==
  /\ IsList(groups)
  /\ \A g \in DOMAIN groups :
       /\ DOMAIN groups[g] = {"key", "members"}
       /\ AreSourced(groups[g].members) /\ AreMerged(groups[g].members)
ScanTyped ==
  /\ pos \in 0 .. (IF stage = "groups" THEN Len(groups) ELSE Len(rows))
  /\ compared \in Nat /\ matched \in BOOLEAN
  /\ compared # 0 => Joining /\ CanJoin /\ pos < Len(rows) /\ compared <= Len(TableRows(Join.table))

LEMMA TypeParts == TypeOK <=> Framed /\ RowsTyped /\ GroupsTyped /\ ScanTyped
BY DEF TypeOK, Framed, RowsTyped, GroupsTyped, ScanTyped, MembersOf

LEMMA TypeFacts ==
  ASSUME TypeOK
  PROVE  /\ Len(rows) \in Nat /\ DOMAIN rows = 1 .. Len(rows)
         /\ Len(out) \in Nat /\ Len(kept) \in Nat /\ Len(answers) \in Nat
         /\ Len(groups) \in Nat /\ DOMAIN groups = 1 .. Len(groups)
         /\ Len(query.joins) \in Nat /\ joined \in Nat /\ pos \in Nat
BY TypeParts, ListShape, JoinsShape DEF Framed, RowsTyped, GroupsTyped, ScanTyped, AreSourced

LEMMA CurrentIs ==
  ASSUME TypeOK, pos < Len(rows)
  PROVE  /\ pos + 1 \in DOMAIN rows /\ Current = rows[pos + 1]
         /\ DOMAIN Current = {"row", "from"} /\ Current.from \in Seq(Nat)
         /\ AreMerged(rows) => IsRow(Current.row)
<1>1. pos + 1 \in DOMAIN rows
  BY TypeFacts
<1> QED BY <1>1, TypeParts DEF Current, RowsTyped, AreSourced, AreMerged

\* Abandoning a query leaves everything as it is.
LEMMA TypedAbandon ==
  ASSUME Typed, Abandon, compared = 0
  PROVE  Typed'
<1> USE DEF Abandon, pair
<1>1. Framed'
  BY TypeParts DEF Typed, Framed, Stages
<1>2. RowsTyped'
  BY TypeParts DEF Typed, RowsTyped, AreSourced, AreMerged
<1>3. GroupsTyped'
  BY TypeParts DEF Typed, GroupsTyped, AreSourced, AreMerged
<1>4. pos <= Len(rows) /\ pos \in Nat
  BY TypeFacts, TypeParts DEF Typed, ScanTyped, Fresh
<1>5. ScanTyped'
  BY <1>4, TypeFacts, TypeParts DEF Typed, ScanTyped
<1>6. Fresh'
  BY DEF Fresh
<1> QED BY <1>1, <1>2, <1>3, <1>5, <1>6, TypeParts, PTL DEF Typed

\* FROM.
LEMMA TypedLoad ==
  ASSUME Typed, LoadTable
  PROVE  Typed'
<1> DEFINE table == TableRows(query.from)
<1> USE DEF LoadTable, pair
<1>1. /\ IsList(table) /\ Len(table) \in Nat /\ DOMAIN table = 1 .. Len(table)
      /\ \A i \in DOMAIN table : IsRow(table[i])
  BY TypeParts, TableShape DEF Typed, Framed
<1>2. rows' = [i \in 1 .. Len(table) |-> [row |-> table[i], from |-> <<i>>]]
  BY <1>1
<1> HIDE DEF table
<1>3. AreSourced(rows') /\ AreMerged(rows')
  <2>1. rows' = [i \in 1 .. Len(table) |-> rows'[i]]
    BY <1>2
  <2>2. IsList(rows') /\ DOMAIN rows' = 1 .. Len(table)
    BY <1>1, <1>2, <2>1, ListFrom
  <2>3. ASSUME NEW i \in DOMAIN rows'
        PROVE  /\ DOMAIN rows'[i] = {"row", "from"} /\ rows'[i].from \in Seq(Nat)
               /\ IsRow(rows'[i].row)
    <3>1. rows'[i] = [row |-> table[i], from |-> <<i>>] /\ i \in Nat
      BY <1>1, <1>2, <2>2
    <3>2. <<i>> \in Seq(Nat) /\ IsRow(table[i])
      BY <1>1, <2>2, <3>1
    <3> QED BY <3>1, <3>2
  <2> QED BY <2>2, <2>3 DEF AreSourced, AreMerged
<1>4. Framed'
  BY TypeParts DEF Typed, Framed, Stages
<1>5. RowsTyped'
  <2>1. out' = <<>>
    BY DEF Typed, Fresh
  <2>2. AreSourced(kept') /\ AreSourced(answers') /\ AreMerged(kept')
    BY TypeParts DEF Typed, RowsTyped
  <2>3. AreSourced(out') /\ AreMerged(out')
    BY <2>1, SourcedNone
  <2> QED BY <1>3, <2>2, <2>3 DEF RowsTyped
<1>6. GroupsTyped'
  BY TypeParts DEF Typed, GroupsTyped
<1>7. ScanTyped'
  <2>1. compared = 0
    BY TypeParts DEF Typed, ScanTyped, Joining
  <2>2. pos = 0 /\ Len(rows') \in Nat
    BY <1>3, ListShape DEF Typed, Fresh, AreSourced
  <2>3. compared' = 0 /\ matched' \in BOOLEAN
    BY <2>1, TypeParts DEF Typed, ScanTyped
  <2> QED BY <2>2, <2>3 DEF ScanTyped
<1>8. Fresh'
  BY DEF Typed, Fresh
<1> QED BY <1>4, <1>5, <1>6, <1>7, <1>8, TypeParts, PTL DEF Typed

\* The steps of a join.
LEMMA TypedPair ==
  ASSUME Typed, MatchRow \/ SkipRow
  PROVE  Typed'
<1>1. /\ Compares /\ stage = "join" /\ compared' = compared + 1 /\ matched' \in BOOLEAN
      /\ UNCHANGED <<query, tables, stage, joined, rows, pos, groups, kept, answers>>
  BY TypeParts DEF MatchRow, SkipRow, Compares, Joining, Typed, ScanTyped
<1>2. Framed' /\ GroupsTyped' /\ Fresh'
  BY <1>1, TypeParts DEF Typed, Framed, GroupsTyped, Fresh
<1>3. AreSourced(out') /\ AreMerged(out')
  <2>1. AreSourced(out) /\ AreMerged(out) /\ AreMerged(rows)
    BY <1>1, TypeParts DEF Typed, RowsTyped
  <2>2. CASE SkipRow
    BY <2>1, <2>2 DEF SkipRow
  <2>3. CASE MatchRow
    <3> DEFINE other == TableRows(Join.table)[compared + 1]
               new   == [row |-> Merged(Current.row, other), from |-> Append(Current.from, compared + 1)]
    <3>1. pos < Len(rows) /\ compared + 1 \in Nat
      BY <1>1, TypeParts DEF Compares, Typed, ScanTyped
    <3>2. Current.from \in Seq(Nat) /\ IsRow(Current.row)
      BY <2>1, <3>1, CurrentIs DEF Typed
    <3>3. IsRow(other)
      <4>1. IsRegistered(Join.table) /\ compared < Len(TableRows(Join.table)) /\ compared \in Nat
        BY <1>1, TypeParts DEF Compares, CanJoin, Typed, ScanTyped
      <4>2. /\ Len(TableRows(Join.table)) \in Nat
            /\ DOMAIN TableRows(Join.table) = 1 .. Len(TableRows(Join.table))
            /\ \A i \in DOMAIN TableRows(Join.table) : IsRow(TableRows(Join.table)[i])
        BY <4>1, TypeParts, TableShape DEF Typed, Framed
      <4>3. compared + 1 \in DOMAIN TableRows(Join.table)
        BY <4>1, <4>2
      <4> QED BY <4>2, <4>3
    <3>4. IsRow(Merged(Current.row, other))
      BY <3>2, <3>3, RowMerged
    <3>5. DOMAIN new = {"row", "from"} /\ new.from \in Seq(Nat) /\ IsRow(new.row)
      BY <3>1, <3>2, <3>4, AppendTuple
    <3>6. out' = Append(out, new)
      BY <2>3 DEF MatchRow
    <3> HIDE DEF new
    <3> QED BY <2>1, <3>5, <3>6, SourcedMore
  <2> QED BY <2>2, <2>3
<1>4. RowsTyped'
  BY <1>1, <1>3, TypeParts DEF Typed, RowsTyped
<1>5. ScanTyped'
  <2>1. compared' \in Nat /\ compared' <= Len(TableRows(Join.table))
    <3>1. compared \in Nat /\ compared < Len(TableRows(Join.table)) /\ IsRegistered(Join.table)
      BY <1>1, TypeParts DEF Compares, CanJoin, Typed, ScanTyped
    <3>2. Len(TableRows(Join.table)) \in Nat
      BY <3>1, TypeParts, TableShape DEF Typed, Framed
    <3> QED BY <1>1, <3>1, <3>2
  <2>2. Joining' /\ CanJoin' /\ TableRows(Join.table)' = TableRows(Join.table)
    BY <1>1 DEF Compares, Joining, CanJoin, Join, IsRegistered, TableRows, NameOf
  <2> QED BY <1>1, <2>1, <2>2, TypeParts DEF Typed, ScanTyped, Compares
<1> QED BY <1>2, <1>4, <1>5, TypeParts, PTL DEF Typed

LEMMA TypedEndRow ==
  ASSUME Typed, EndRow
  PROVE  Typed'
<1> USE DEF EndRow
<1>1. Framed' /\ GroupsTyped' /\ Fresh'
  BY TypeParts DEF Typed, Framed, GroupsTyped, Fresh, Joining
<1>2. RowsTyped'
  <2> DEFINE new == [row |-> Current.row, from |-> Append(Current.from, 0)]
  <2>1. /\ stage = "join" /\ AreSourced(out) /\ AreMerged(out) /\ AreMerged(rows)
        /\ AreSourced(rows) /\ AreSourced(kept) /\ AreSourced(answers) /\ AreMerged(kept)
    BY TypeParts DEF Typed, RowsTyped, Joining
  <2>2. Current.from \in Seq(Nat) /\ IsRow(Current.row)
    BY <2>1, CurrentIs DEF Typed
  <2>3. DOMAIN new = {"row", "from"} /\ new.from \in Seq(Nat) /\ IsRow(new.row)
    BY <2>2, AppendTuple
  <2>4. out' = Append(out, new) \/ out' = out
    OBVIOUS
  <2> HIDE DEF new
  <2>5. AreSourced(out') /\ AreMerged(out')
    BY <2>1, <2>3, <2>4, SourcedMore
  <2> QED BY <2>1, <2>5 DEF RowsTyped
<1>3. ScanTyped'
  <2>1. pos + 1 \in 0 .. Len(rows) /\ stage = "join"
    BY TypeFacts DEF Typed, Joining
  <2> QED BY <2>1 DEF ScanTyped
<1> QED BY <1>1, <1>2, <1>3, TypeParts, PTL DEF Typed

LEMMA TypedEndJoin ==
  ASSUME Typed, EndJoin
  PROVE  Typed'
<1> USE DEF EndJoin, pair
<1>1. stage = "join" /\ joined + 1 \in 0 .. Len(query.joins)
  BY TypeFacts DEF Typed, Joining
<1>2. Framed' /\ GroupsTyped' /\ Fresh'
  BY <1>1, TypeParts DEF Typed, Framed, GroupsTyped, Fresh
<1>3. RowsTyped'
  BY <1>1, TypeParts, SourcedNone DEF Typed, RowsTyped
<1>4. ScanTyped'
  <2>1. compared = 0 /\ matched \in BOOLEAN
    BY TypeFacts, TypeParts DEF Typed, ScanTyped
  <2>2. Len(out) \in Nat
    BY TypeFacts DEF Typed
  <2> QED BY <1>1, <2>1, <2>2 DEF ScanTyped
<1> QED BY <1>2, <1>3, <1>4, TypeParts, PTL DEF Typed

\* WHERE.
LEMMA TypedFilterRow ==
  ASSUME Typed, FilterRow
  PROVE  Typed'
<1> USE DEF FilterRow, pair
<1>1. Framed' /\ GroupsTyped' /\ Fresh'
  BY TypeParts DEF Typed, Framed, GroupsTyped, Fresh, Filtering
<1>2. RowsTyped'
  <2>1. /\ stage = "join" /\ AreSourced(out) /\ AreMerged(out) /\ AreMerged(rows)
        /\ AreSourced(rows) /\ AreSourced(kept) /\ AreSourced(answers) /\ AreMerged(kept)
    BY TypeParts DEF Typed, RowsTyped, Filtering
  <2>2. DOMAIN Current = {"row", "from"} /\ Current.from \in Seq(Nat) /\ IsRow(Current.row)
    BY <2>1, CurrentIs DEF Typed
  <2>3. out' = Append(out, Current) \/ out' = out
    OBVIOUS
  <2>4. AreSourced(out') /\ AreMerged(out')
    BY <2>1, <2>2, <2>3, SourcedMore
  <2> QED BY <2>1, <2>4 DEF RowsTyped
<1>3. ScanTyped'
  <2>1. pos + 1 \in 0 .. Len(rows) /\ stage = "join"
    BY TypeFacts DEF Typed, Filtering
  <2>2. compared = 0 /\ matched \in BOOLEAN
    <3>1. ~Joining
      BY TypeFacts DEF Typed, Joining, Filtering
    <3> QED BY <3>1, TypeParts DEF Typed, ScanTyped
  <2> QED BY <2>1, <2>2 DEF ScanTyped
<1> QED BY <1>1, <1>2, <1>3, TypeParts, PTL DEF Typed

LEMMA TypedEndFilter ==
  ASSUME Typed, EndFilter
  PROVE  Typed'
<1> USE DEF EndFilter, pair
<1>1. stage = "join" /\ stage' \in {"group", "project"} /\ ~Joining
  BY TypeFacts DEF Typed, Filtering, Joining
<1>2. Framed' /\ GroupsTyped'
  BY <1>1, TypeParts DEF Typed, Framed, GroupsTyped, Stages
<1>3. RowsTyped'
  BY <1>1, TypeParts, SourcedNone DEF Typed, RowsTyped
<1>4. Len(out) \in Nat /\ groups = <<>>
  BY <1>1, TypeFacts DEF Typed, Fresh
<1>5. ScanTyped'
  <2>1. compared = 0 /\ matched \in BOOLEAN
    BY <1>1, TypeParts DEF Typed, ScanTyped
  <2> QED BY <1>1, <1>4, <2>1 DEF ScanTyped
<1>6. Fresh'
  BY <1>1, <1>4, ListOfNone DEF Fresh
<1> QED BY <1>2, <1>3, <1>5, <1>6, TypeParts, PTL DEF Typed

\* GROUP BY.
LEMMA GroupIs ==
  ASSUME NEW key, \E g \in DOMAIN groups : groups[g].key = key
  PROVE  GroupOf(key) \in DOMAIN groups /\ groups[GroupOf(key)].key = key
BY DEF GroupOf

\* What a row does to the groups.
LEMMA GroupsMore ==
  ASSUME Typed, GroupRow
  PROVE  LET key == GroupKey(query.keys, Current.row)
         IN  /\ Len(groups) \in Nat /\ DOMAIN groups = 1 .. Len(groups) /\ IsList(groups')
             /\ (\E g \in DOMAIN groups : groups[g].key = key) =>
                  /\ GroupOf(key) \in DOMAIN groups /\ groups[GroupOf(key)].key = key
                  /\ DOMAIN groups' = DOMAIN groups /\ Len(groups') = Len(groups)
                  /\ \A g \in DOMAIN groups : g # GroupOf(key) => groups'[g] = groups[g]
                  /\ LET g == GroupOf(key)
                     IN  /\ DOMAIN groups'[g] = {"key", "members"} /\ groups'[g].key = key
                         /\ groups'[g].members = Append(groups[g].members, Current)
             /\ (~\E g \in DOMAIN groups : groups[g].key = key) =>
                  /\ Len(groups') = Len(groups) + 1 /\ DOMAIN groups' = 1 .. Len(groups) + 1
                  /\ \A g \in DOMAIN groups : groups'[g] = groups[g]
                  /\ groups'[Len(groups) + 1] = [key |-> key, members |-> <<Current>>]
<1> DEFINE key == GroupKey(query.keys, Current.row)
           g0  == GroupOf(key)
<1>1. IsList(groups) /\ Len(groups) \in Nat /\ DOMAIN groups = 1 .. Len(groups)
  BY TypeFacts, TypeParts DEF Typed, GroupsTyped
<1>2. \A g \in DOMAIN groups : DOMAIN groups[g] = {"key", "members"}
  BY TypeParts DEF Typed, GroupsTyped
<1>3. groups' = IF \E g \in DOMAIN groups : groups[g].key = key
                THEN [groups EXCEPT ![g0].members = Append(@, Current)]
                ELSE Append(groups, [key |-> key, members |-> <<Current>>])
  BY DEF GroupRow
<1> HIDE DEF key, g0
<1>4. CASE \E g \in DOMAIN groups : groups[g].key = key
  <2>1. g0 \in DOMAIN groups /\ groups[g0].key = key
    BY <1>4, GroupIs DEF g0
  <2>2. groups' = [groups EXCEPT ![g0] = [groups[g0] EXCEPT !.members = Append(groups[g0].members, Current)]]
    BY <1>3, <1>4
  <2> DEFINE new == [groups[g0] EXCEPT !.members = Append(groups[g0].members, Current)]
  <2>3. DOMAIN new = {"key", "members"} /\ new.key = key /\ new.members = Append(groups[g0].members, Current)
    BY <1>2, <2>1
  <2>4. groups' = [groups EXCEPT ![g0] = new]
    BY <2>2
  <2> HIDE DEF new
  <2>5. /\ DOMAIN groups' = DOMAIN groups /\ groups'[g0] = new
        /\ \A g \in DOMAIN groups : g # g0 => groups'[g] = groups[g]
    BY <2>1, <2>4
  <2>6. IsList(groups') /\ Len(groups') = Len(groups)
    <3>1. groups' = [g \in 1 .. Len(groups) |-> groups'[g]]
      BY <1>1, <2>4
    <3> QED BY <1>1, <3>1, ListFrom
  <2> QED BY <1>1, <1>4, <2>1, <2>3, <2>5, <2>6 DEF g0, key
<1>5. CASE ~\E g \in DOMAIN groups : groups[g].key = key
  <2> DEFINE new == [key |-> key, members |-> <<Current>>]
  <2>1. groups' = Append(groups, new)
    BY <1>3, <1>5
  <2>2. new = [key |-> key, members |-> <<Current>>]
    OBVIOUS
  <2> HIDE DEF new
  <2>3. /\ IsList(groups') /\ Len(groups') = Len(groups) + 1
        /\ \A g \in 1 .. Len(groups) : groups'[g] = groups[g]
        /\ groups'[Len(groups) + 1] = new
    BY <1>1, <2>1, ListAppend
  <2>4. DOMAIN groups' = 1 .. Len(groups) + 1
    BY <2>3, ListShape
  <2> QED BY <1>1, <1>5, <2>2, <2>3, <2>4 DEF key
<1> QED BY <1>4, <1>5 DEF key

LEMMA SourcedOne ==
  ASSUME NEW r, DOMAIN r = {"row", "from"}, r.from \in Seq(Nat), IsRow(r.row)
  PROVE  AreSourced(<<r>>) /\ AreMerged(<<r>>)
<1>1. IsList(<<r>>) /\ DOMAIN <<r>> = {1} /\ <<r>>[1] = r
  <2> DEFINE one == <<r>>
  <2>1. Len(one) = 1 /\ one[1] = r /\ one \in Seq({r})
    OBVIOUS
  <2> HIDE DEF one
  <2>2. IsList(one) /\ DOMAIN one = 1 .. 1
    BY <2>1, SeqIsList, ListShape
  <2> QED BY <2>1, <2>2 DEF one
<1> QED BY <1>1 DEF AreSourced, AreMerged

LEMMA TypedGroupRow ==
  ASSUME Typed, GroupRow
  PROVE  Typed'
<1> DEFINE key == GroupKey(query.keys, Current.row)
<1>1. /\ stage = "group" /\ pos < Len(rows) /\ pos' = pos + 1
      /\ UNCHANGED <<query, tables, stage, joined, rows, pair, out, kept, answers>>
  BY DEF GroupRow, AtRow
<1>2. Framed' /\ RowsTyped'
  BY <1>1, TypeParts DEF Typed, Framed, RowsTyped
<1>3. DOMAIN Current = {"row", "from"} /\ Current.from \in Seq(Nat) /\ IsRow(Current.row)
  BY <1>1, CurrentIs, TypeParts DEF Typed, RowsTyped
<1>4. \A g \in DOMAIN groups : /\ DOMAIN groups[g] = {"key", "members"}
                              /\ AreSourced(groups[g].members) /\ AreMerged(groups[g].members)
  BY TypeParts DEF Typed, GroupsTyped
<1>5. GroupsTyped'
  <2>1. IsList(groups')
    BY GroupsMore
  <2>2. ASSUME NEW g \in DOMAIN groups'
        PROVE  /\ DOMAIN groups'[g] = {"key", "members"}
               /\ AreSourced(groups'[g].members) /\ AreMerged(groups'[g].members)
    <3>1. CASE \E h \in DOMAIN groups : groups[h].key = key
      <4>1. CASE g = GroupOf(key)
        <5>1. /\ g \in DOMAIN groups /\ DOMAIN groups'[g] = {"key", "members"}
              /\ groups'[g].members = Append(groups[g].members, Current)
          BY <3>1, <4>1, GroupsMore
        <5> QED BY <1>3, <1>4, <5>1, SourcedMore
      <4>2. CASE g # GroupOf(key)
        BY <1>4, <2>2, <3>1, <4>2, GroupsMore
      <4> QED BY <4>1, <4>2
    <3>2. CASE ~\E h \in DOMAIN groups : groups[h].key = key
      <4>1. CASE g = Len(groups) + 1
        <5>1. groups'[g] = [key |-> key, members |-> <<Current>>]
          BY <3>2, <4>1, GroupsMore
        <5> QED BY <1>3, <5>1, SourcedOne
      <4>2. CASE g # Len(groups) + 1
        <5>1. /\ Len(groups) \in Nat /\ DOMAIN groups = 1 .. Len(groups)
              /\ DOMAIN groups' = 1 .. Len(groups) + 1
          BY <3>2, GroupsMore
        <5>2. g \in DOMAIN groups
          BY <2>2, <4>2, <5>1
        <5> QED BY <1>4, <3>2, <5>2, GroupsMore
      <4> QED BY <4>1, <4>2
    <3> QED BY <3>1, <3>2
  <2> QED BY <2>1, <2>2 DEF GroupsTyped
<1>6. ScanTyped'
  <2>1. pos + 1 \in 0 .. Len(rows)
    BY <1>1, TypeFacts DEF Typed
  <2>2. compared = 0 /\ matched \in BOOLEAN
    BY <1>1, TypeParts DEF Typed, ScanTyped, Joining
  <2> QED BY <1>1, <2>1, <2>2 DEF ScanTyped, pair
<1>7. Fresh'
  <2>1. Len(groups') <= Len(groups) + 1 /\ Len(groups) \in Nat /\ Len(groups') \in Nat
    <3>1. Len(groups) \in Nat /\ (Len(groups') = Len(groups) \/ Len(groups') = Len(groups) + 1)
      BY GroupsMore
    <3> QED BY <3>1
  <2>2. Len(groups) <= pos /\ pos \in Nat
    BY <1>1, TypeFacts DEF Typed, Fresh
  <2> QED BY <1>1, <2>1, <2>2 DEF Fresh
<1> QED BY <1>2, <1>5, <1>6, <1>7, TypeParts, PTL DEF Typed

LEMMA TypedEndGroups ==
  ASSUME Typed, EndGroups
  PROVE  Typed'
<1> USE DEF EndGroups, AtEnd, pair
<1>1. Framed' /\ RowsTyped' /\ GroupsTyped'
  BY TypeParts DEF Typed, Framed, RowsTyped, GroupsTyped, Stages
<1>2. ScanTyped'
  <2>1. compared = 0 /\ matched \in BOOLEAN /\ Len(groups) \in Nat
    BY TypeFacts, TypeParts DEF Typed, ScanTyped, Joining
  <2> QED BY <2>1 DEF ScanTyped
<1>3. Fresh'
  BY TypeFacts DEF Typed, Fresh
<1> QED BY <1>1, <1>2, <1>3, TypeParts, PTL DEF Typed

\* The select list.
LEMMA TypedProject ==
  ASSUME Typed, ProjectNextGroup \/ ProjectNextRow
  PROVE  Typed'
<1>1. /\ stage \in {"groups", "project"} /\ pos' = pos + 1
      /\ UNCHANGED <<query, tables, stage, joined, rows, pair, groups, kept, answers>>
      /\ pos < IF stage = "groups" THEN Len(groups) ELSE Len(rows)
  BY DEF ProjectNextGroup, ProjectNextRow, AtRow
<1>2. Framed' /\ GroupsTyped' /\ Fresh'
  BY <1>1, TypeParts DEF Typed, Framed, GroupsTyped, Fresh
<1>3. AreSourced(out')
  <2>1. PICK r : DOMAIN r = {"row", "from"} /\ r.from \in Seq(Nat) /\ out' = Append(out, r)
    <3>1. CASE ProjectNextGroup
      <4>1. <<pos + 1>> \in Seq(Nat)
        BY TypeFacts DEF Typed
      <4> QED BY <3>1, <4>1 DEF ProjectNextGroup
    <3>2. CASE ProjectNextRow
      BY <3>2, CurrentIs DEF Typed, ProjectNextRow, AtRow
    <3> QED BY <3>1, <3>2
  <2> QED BY <2>1, SourcedMore, TypeParts DEF Typed, RowsTyped
<1>4. RowsTyped'
  BY <1>1, <1>3, TypeParts DEF Typed, RowsTyped
<1>5. ScanTyped'
  <2>1. pos + 1 \in 0 .. (IF stage = "groups" THEN Len(groups) ELSE Len(rows))
    BY <1>1, TypeFacts DEF Typed
  <2>2. compared = 0 /\ matched \in BOOLEAN
    BY <1>1, TypeParts DEF Typed, ScanTyped, Joining
  <2> QED BY <1>1, <2>1, <2>2 DEF ScanTyped, pair
<1> QED BY <1>2, <1>4, <1>5, TypeParts, PTL DEF Typed

LEMMA TypedEndProjection ==
  ASSUME Typed, EndProjection
  PROVE  Typed'
<1>1. /\ stage \in {"groups", "project"} /\ stage' = "order"
      /\ rows' = out /\ answers' = out /\ out' = <<>> /\ pos' = 0
      /\ UNCHANGED <<query, tables, joined, pair, groups, kept>>
  BY DEF EndProjection, AtEnd
<1>2. Framed' /\ GroupsTyped' /\ Fresh'
  BY <1>1, TypeParts DEF Typed, Framed, GroupsTyped, Fresh, Stages
<1>3. RowsTyped'
  BY <1>1, SourcedNone, TypeParts DEF Typed, RowsTyped
<1>4. ScanTyped'
  <2>1. compared = 0 /\ matched \in BOOLEAN /\ Len(out) \in Nat
    BY <1>1, TypeFacts, TypeParts DEF Typed, ScanTyped, Joining
  <2> QED BY <1>1, <2>1 DEF ScanTyped, pair
<1> QED BY <1>2, <1>3, <1>4, TypeParts, PTL DEF Typed

\* ORDER BY and LIMIT.
LEMMA SortPicks ==
  ASSUME Typed, SortRows
  PROVE  \E sel \in [DOMAIN rows -> DOMAIN rows] :
           /\ rows' = [r \in DOMAIN rows |-> rows[sel[r]]]
           /\ \A r, s \in DOMAIN rows : sel[r] = sel[s] => r = s
           /\ IsWeakOrder(rows) =>
                \A r, s \in DOMAIN rows : r < s => StaysBefore(rows, sel[r], sel[s])
<1>1. IsList(rows) /\ Len(rows) \in Nat /\ DOMAIN rows = 1 .. Len(rows)
  BY TypeFacts, TypeParts DEF Typed, RowsTyped, AreSourced
<1>2. CASE IsWeakOrder(rows)
  <2>1. PICK sel \in [DOMAIN rows -> DOMAIN rows] :
          /\ Sorted(rows) = [r \in DOMAIN rows |-> rows[sel[r]]]
          /\ \A r, s \in DOMAIN rows : r < s => StaysBefore(rows, sel[r], sel[s])
    BY <1>1, <1>2, SortedIs
  <2>2. rows' = Sorted(rows)
    BY <1>2 DEF SortRows
  <2>3. ASSUME NEW r \in DOMAIN rows, NEW s \in DOMAIN rows, sel[r] = sel[s] PROVE r = s
    <3>1. \A i \in DOMAIN rows : ~StaysBefore(rows, i, i)
      BY <1>1, <1>2, StaysBeforeOrders
    <3>2. sel[r] \in DOMAIN rows
      OBVIOUS
    <3>3. ~(r < s) /\ ~(s < r)
      BY <2>1, <2>3, <3>1, <3>2
    <3> QED BY <1>1, <3>3
  <2> QED BY <1>2, <2>1, <2>2, <2>3
<1>3. CASE ~IsWeakOrder(rows)
  <2>1. rows' \in Rearranged(rows)
    BY <1>3 DEF SortRows
  <2>2. PICK f \in [DOMAIN rows -> DOMAIN rows] :
          IsInjective(f) /\ rows' = [r \in DOMAIN rows |-> rows[f[r]]]
    BY <2>1 DEF Rearranged
  <2>3. \A r, s \in DOMAIN rows : f[r] = f[s] => r = s
    BY <2>2 DEF IsInjective
  <2> QED BY <1>3, <2>2, <2>3
<1> QED BY <1>2, <1>3

LEMMA TypedSort ==
  ASSUME Typed, SortRows
  PROVE  Typed'
<1>1. /\ stage = "order" /\ stage' = "limit"
      /\ UNCHANGED <<query, tables, joined, pos, pair, out, groups, kept, answers>>
  BY DEF SortRows
<1>2. Framed' /\ GroupsTyped' /\ Fresh'
  BY <1>1, TypeParts DEF Typed, Framed, GroupsTyped, Fresh, Stages
<1>3. AreSourced(rows') /\ Len(rows') = Len(rows)
  <2>1. PICK sel \in [DOMAIN rows -> DOMAIN rows] : rows' = [r \in DOMAIN rows |-> rows[sel[r]]]
    BY SortPicks
  <2>2. AreSourced(rows)
    BY TypeParts DEF Typed, RowsTyped
  <2> QED BY <2>1, <2>2, SourcedPick
<1>4. RowsTyped'
  BY <1>1, <1>3, TypeParts DEF Typed, RowsTyped
<1>5. ScanTyped'
  BY <1>1, <1>3, TypeParts DEF Typed, ScanTyped, Joining, pair
<1> QED BY <1>2, <1>4, <1>5, TypeParts, PTL DEF Typed

LEMMA CutRows ==
  ASSUME Typed, Truncate
  PROVE  /\ CutTo(Len(rows)) \in 0 .. Len(rows)
         /\ IsList(rows') /\ Len(rows') = CutTo(Len(rows))
         /\ DOMAIN rows' = 1 .. Len(rows')
         /\ \A i \in 1 .. Len(rows') : rows'[i] = rows[i]
<1>1. IsList(rows) /\ Len(rows) \in Nat
  BY TypeFacts, TypeParts DEF Typed, RowsTyped, AreSourced
<1>2. CutTo(Len(rows)) \in 0 .. Len(rows)
  <2>1. query.limit \in Nat \union {NoLimit}
    BY JoinsShape, TypeParts DEF Typed, Framed
  <2> QED BY <1>1, <2>1 DEF CutTo, NoLimit
<1>3. CASE query.limit = NoLimit \/ query.limit > Len(rows)
  <2>1. rows' = rows
    BY <1>3 DEF Truncate
  <2> QED BY <1>1, <1>2, <1>3, <2>1, ListShape DEF CutTo
<1>4. CASE ~(query.limit = NoLimit \/ query.limit > Len(rows))
  <2>1. rows' = SubSeq(rows, 1, query.limit) /\ CutTo(Len(rows)) = query.limit
    BY <1>4 DEF Truncate, CutTo
  <2>2. /\ IsList(rows') /\ Len(rows') = query.limit
        /\ \A i \in 1 .. query.limit : rows'[i] = rows[i]
    BY <1>1, <1>2, <2>1, CutShape
  <2> QED BY <1>2, <2>1, <2>2, ListShape
<1> QED BY <1>3, <1>4

LEMMA TypedTruncate ==
  ASSUME Typed, Truncate
  PROVE  Typed'
<1>1. /\ stage = "limit" /\ stage' = "done"
      /\ UNCHANGED <<query, tables, joined, pos, pair, out, groups, kept, answers>>
  BY DEF Truncate
<1>2. Framed' /\ GroupsTyped' /\ Fresh'
  BY <1>1, TypeParts DEF Typed, Framed, GroupsTyped, Fresh, Stages
<1>3. AreSourced(rows')
  <2>1. AreSourced(rows) /\ DOMAIN rows = 1 .. Len(rows) /\ Len(rows) \in Nat
    BY TypeFacts, TypeParts DEF Typed, RowsTyped
  <2>2. /\ CutTo(Len(rows)) \in 0 .. Len(rows) /\ IsList(rows') /\ Len(rows') = CutTo(Len(rows))
        /\ DOMAIN rows' = 1 .. Len(rows')
        /\ \A i \in 1 .. Len(rows') : rows'[i] = rows[i]
    BY CutRows
  <2>3. \A i \in DOMAIN rows' : i \in DOMAIN rows
    BY <2>1, <2>2
  <2> QED BY <2>1, <2>2, <2>3 DEF AreSourced
<1>4. RowsTyped'
  BY <1>1, <1>3, TypeParts DEF Typed, RowsTyped
<1>5. ScanTyped'
  <2>1. pos' = 0 /\ Len(rows') \in Nat
    BY <1>1, <1>3, ListShape DEF Typed, Fresh, AreSourced
  <2>2. compared = 0 /\ matched \in BOOLEAN
    BY <1>1, TypeParts DEF Typed, ScanTyped, Joining
  <2> QED BY <1>1, <2>1, <2>2 DEF ScanTyped, pair
<1> QED BY <1>2, <1>4, <1>5, TypeParts, PTL DEF Typed

\* Every step keeps the types, and so does a query that is abandoned.
LEMMA TypedNext ==
  ASSUME Typed, [Next]_vars
  PROVE  Typed'
<1>1. CASE UNCHANGED vars
  <2>1. Framed' /\ GroupsTyped' /\ Fresh'
    BY <1>1, TypeParts DEF Typed, Framed, GroupsTyped, Fresh, vars
  <2>2. RowsTyped'
    BY <1>1, TypeParts DEF Typed, RowsTyped, vars
  <2>3. ScanTyped'
    <3>1. (Joining /\ CanJoin)' <=> Joining /\ CanJoin
      BY <1>1 DEF Joining, CanJoin, Join, IsRegistered, NameOf, vars
    <3>2. TableRows(Join.table)' = TableRows(Join.table)
      BY <1>1 DEF Join, TableRows, NameOf, vars
    <3> QED BY <1>1, <3>1, <3>2, TypeParts DEF Typed, ScanTyped, vars
  <2> QED BY <2>1, <2>2, <2>3, TypeParts, PTL DEF Typed
<1>2. CASE Abandon /\ stage # "join"
  BY <1>2, TypedAbandon, TypeParts DEF Typed, ScanTyped, Joining
<1>3. CASE Abandon /\ ~CanJoin
  BY <1>3, TypedAbandon, TypeParts DEF Typed, ScanTyped
<1>4. CASE RefuseQuery
  BY <1>2, <1>4 DEF RefuseQuery
<1>5. CASE RefuseJoin
  BY <1>3, <1>5 DEF RefuseJoin
<1>6. CASE RowFails
  BY <1>2, <1>6 DEF RowFails, AtRow
<1>7. CASE SortFails
  BY <1>2, <1>7 DEF SortFails
<1> QED
  BY <1>1, <1>4, <1>5, <1>6, <1>7, TypedLoad, TypedPair, TypedEndRow, TypedEndJoin, TypedFilterRow,
     TypedEndFilter, TypedGroupRow, TypedEndGroups, TypedProject, TypedEndProjection, TypedSort,
     TypedTruncate DEF Next

\* Rows say where they come from, those of tables have columns and values of
\* tables, and no loop is past its end.
THEOREM TypeCorrect == Spec => []TypeOK
<1>1. Spec => []Typed
  BY TypedInit, TypedNext, PTL DEF Spec
<1> QED BY <1>1, PTL DEF Typed

-----------------------------------------------------------------------------
(***************************************************************************)
(* A step that leaves the statement and the tables alone leaves what they  *)
(* mean alone.                                                             *)
(***************************************************************************)
SameTables == UNCHANGED <<query, tables>>

LEMMA SameFactor ==
  ASSUME SameTables, NEW k
  PROVE  /\ Factor(k)' = Factor(k) /\ TableRows(Factor(k))' = TableRows(Factor(k))
         /\ IsRegistered(Factor(k))' <=> IsRegistered(Factor(k))
BY DEF SameTables, Factor, TableRows, NameOf, IsRegistered

LEMMA SameRowOf ==
  ASSUME SameTables, NEW t, NEW n
  PROVE  RowOf(t, n)' = RowOf(t, n)
<1>1. \A k : RowAt(t, k)' = RowAt(t, k)
  BY SameFactor DEF RowAt
<1>2. \A c : Having(t, n, c)' = Having(t, n, c)
  BY <1>1 DEF Having
<1> QED BY <1>1, <1>2 DEF RowOf

LEMMA SameCombined ==
  ASSUME SameTables, NEW n
  PROVE  Combined(n)' = Combined(n)
<1>1. \A k : Positions(k)' = Positions(k)
  BY SameFactor DEF Positions
<1>2. Tuples(n)' = Tuples(n)
  BY <1>1 DEF Tuples
<1>3. ASSUME NEW t, NEW k, NEW i PROVE Meets(t, k, i)' <=> Meets(t, k, i)
  <2>1. /\ RowOf(t, k)' = RowOf(t, k) /\ query' = query
        /\ Factor(k + 1)' = Factor(k + 1) /\ TableRows(Factor(k + 1))' = TableRows(Factor(k + 1))
    BY SameFactor, SameRowOf DEF SameTables
  <2> QED BY <2>1 DEF Meets, CalledAs
<1>4. \A t, k : JoinsAt(t, k)' <=> JoinsAt(t, k)
  BY <1>1, <1>3 DEF JoinsAt, SameTables
<1> QED BY <1>2, <1>4 DEF Combined

LEMMA SameChosen ==
  ASSUME SameTables
  PROVE  Chosen' = Chosen /\ Width' = Width
<1>1. Width' = Width
  BY DEF Width, SameTables
<1>2. Combined(Width)' = Combined(Width)
  BY <1>1, SameCombined
<1>3. \A t : RowOf(t, Width)' = RowOf(t, Width)
  BY <1>1, SameRowOf
<1> QED BY <1>1, <1>2, <1>3 DEF Chosen, SameTables

LEMMA SameLists ==
  ASSUME SameTables, NEW values, NEW set, NEW n
  PROVE  Lists(values, set, n)' <=> Lists(values, set, n)
BY SameRowOf DEF Lists, Earlier

LEMMA SameKnown ==
  ASSUME SameTables, NEW n
  PROVE  Known(n)' <=> Known(n)
BY SameFactor DEF Known, SameTables

-----------------------------------------------------------------------------
(***************************************************************************)
(* A join has made the rows of the tuples whose left row was compared with *)
(* all of the table, and of those of the next left row, as far as it was   *)
(* compared.                                                               *)
(***************************************************************************)
Reached(t) ==
  \E i \in 1 .. Len(rows) :
    /\ AgreeOn(rows[i].from, t, joined + 1)
    /\ i <= pos \/ (i = pos + 1 /\ t[joined + 2] \in 1 .. compared)
Covered == {t \in Combined(joined + 2) : Reached(t)}

Retained ==
  {t \in Combined(Width) : /\ Selects(query.where, RowOf(t, Width))
                           /\ \E i \in 1 .. pos : t = rows[i].from}

JoinedSoFar == Known(joined + 1) /\ Lists(rows, Combined(joined + 1), joined + 1)
HasMatched == \E i \in 1 .. compared : MatchesWith(Current.row, i)

AsJoined ==
  /\ stage = "from" => ~matched /\ compared = 0
  /\ stage = "join" => JoinedSoFar
  /\ Joining /\ CanJoin => Lists(out, Covered, joined + 2) /\ (matched <=> HasMatched)
  /\ Filtering => Lists(out, Retained, Width)

\* The left row and the table a join compares.
LEMMA LeftRow ==
  ASSUME Typed, Joining, CanJoin, JoinedSoFar
  PROVE  /\ joined + 1 \in Nat \ {0} /\ Known(joined + 2) /\ (joined + 1) + 1 = joined + 2
         /\ Factor(joined + 2) = Join.table
         /\ Len(TableRows(Join.table)) \in Nat
         /\ Positions(joined + 2) = 1 .. Len(TableRows(Join.table))
         /\ \A i \in DOMAIN rows : /\ rows[i].from \in Combined(joined + 1)
                                   /\ rows[i].from \in Seq(Nat) /\ Len(rows[i].from) = joined + 1
                                   /\ rows[i].row = RowOf(rows[i].from, joined + 1)
         /\ pos < Len(rows) =>
              \A i : MatchesWith(Current.row, i) <=> Meets(Current.from, joined + 1, i)
<1>1. joined \in Nat /\ joined + 1 \in Nat \ {0} /\ joined + 2 \in Nat /\ (joined + 1) + 1 = joined + 2
  BY TypeFacts DEF Typed
<1>2. Factor(joined + 2) = Join.table
  BY <1>1 DEF Factor, Join
<1>3. Known(joined + 2)
  <2>1. \A k \in 1 .. joined + 2 : k \in 1 .. joined + 1 \/ k = joined + 2
    BY <1>1
  <2> QED BY <1>2, <2>1 DEF Known, JoinedSoFar, CanJoin
<1>4. Len(TableRows(Join.table)) \in Nat /\ Positions(joined + 2) = 1 .. Len(TableRows(Join.table))
  <2>1. joined + 2 \in 1 .. joined + 2
    BY <1>1
  <2> QED BY <1>1, <1>2, <1>3, <2>1, PositionsShape
<1>5. ASSUME NEW i \in DOMAIN rows
      PROVE  /\ rows[i].from \in Combined(joined + 1)
             /\ rows[i].from \in Seq(Nat) /\ Len(rows[i].from) = joined + 1
             /\ rows[i].row = RowOf(rows[i].from, joined + 1)
  <2>1. rows[i].from \in Combined(joined + 1) /\ rows[i].row = RowOf(rows[i].from, joined + 1)
    BY DEF JoinedSoFar, Lists
  <2> QED BY <1>1, <2>1, CombinedShape DEF JoinedSoFar
<1>6. ASSUME pos < Len(rows), NEW i
      PROVE  MatchesWith(Current.row, i) <=> Meets(Current.from, joined + 1, i)
  <2>1. Current.row = RowOf(Current.from, joined + 1)
    BY <1>5, <1>6, CurrentIs DEF Typed
  <2> QED BY <1>1, <1>2, <2>1 DEF MatchesWith, Meets, Join
<1> QED BY <1>1, <1>2, <1>3, <1>4, <1>5, <1>6

\* What was reached before the next left row comes before its tuples.
LEMMA ReachedBefore ==
  ASSUME Typed, Joining, CanJoin, JoinedSoFar, pos < Len(rows), NEW i \in Nat,
         NEW t \in Covered, i > compared \/ (i = 0 /\ ~HasMatched)
  PROVE  Earlier(t, Append(Current.from, i))
<1>1. /\ Len(rows) \in Nat /\ DOMAIN rows = 1 .. Len(rows) /\ pos \in Nat
      /\ pos + 1 \in DOMAIN rows /\ Current = rows[pos + 1] /\ compared \in Nat
  BY TypeFacts, CurrentIs, TypeParts DEF Typed, ScanTyped
<1>2. /\ t[joined + 2] = 0 \/ t[joined + 2] \in Positions(joined + 2)
      /\ JoinsAt(t, joined + 1)
  BY LeftRow, CombinedPrefix DEF Covered
<1>3. PICK s \in Combined(joined + 1) : t = Append(s, t[joined + 2])
  BY LeftRow, CombinedPrefix DEF Covered
<1>4. s \in Seq(Nat) /\ Len(s) = joined + 1 /\ t[joined + 2] \in Nat
  BY <1>2, <1>3, LeftRow, CombinedShape DEF JoinedSoFar
<1>5. AgreeOn(s, t, joined + 1)
  BY <1>3, <1>4, AppendTuple
<1>6. PICK k \in 1 .. Len(rows) :
        /\ AgreeOn(rows[k].from, t, joined + 1)
        /\ k <= pos \/ (k = pos + 1 /\ t[joined + 2] \in 1 .. compared)
  BY DEF Covered, Reached
<1>7. s = rows[k].from
  <2>1. AgreeOn(s, rows[k].from, joined + 1)
    BY <1>5, <1>6 DEF AgreeOn
  <2> QED BY <1>1, <1>4, <2>1, LeftRow, TuplesAgree
<1>8. Current.from \in Seq(Nat) /\ Len(Current.from) = joined + 1
  BY <1>1, LeftRow
<1>9. CASE k <= pos
  <2>1. Earlier(s, Current.from)
    BY <1>1, <1>7, <1>9 DEF JoinedSoFar, Lists
  <2> QED BY <1>3, <1>4, <1>8, <2>1, EarlierAppended
<1>10. CASE k = pos + 1 /\ t[joined + 2] \in 1 .. compared
  <2>1. s = Current.from
    BY <1>1, <1>7, <1>10
  <2>2. HasMatched
    <3>1. Meets(t, joined + 1, t[joined + 2])
      BY <1>2, <1>10, LeftRow DEF JoinsAt
    <3>2. RowOf(t, joined + 1) = RowOf(Current.from, joined + 1)
      BY <1>5, <2>1, LeftRow, SameRow
    <3>3. MatchesWith(Current.row, t[joined + 2])
      BY <3>1, <3>2, LeftRow DEF Meets
    <3> QED BY <1>10, <3>3 DEF HasMatched
  <2>3. t[joined + 2] < i
    BY <1>1, <1>10, <2>2
  <2> QED BY <1>3, <1>4, <2>1, <2>3, EarlierLast
<1> QED BY <1>6, <1>9, <1>10

\* A loop that is about to begin has reached nothing.
Begins == Len(rows) \in Nat /\ pos = 0 /\ compared = 0 /\ out = <<>> /\ ~matched
JoinBegun == Lists(out, Covered, joined + 2) /\ (matched <=> HasMatched)
FilterBegun == Lists(out, Retained, Width)

LEMMA NothingReached ==
  ASSUME Begins
  PROVE  JoinBegun /\ FilterBegun
<1> USE DEF Begins
<1>1. Covered = {}
  BY DEF Covered, Reached
<1>2. Retained = {}
  BY DEF Retained
<1>3. ~HasMatched
  BY DEF HasMatched
<1> QED BY <1>1, <1>2, <1>3, ListsNone DEF JoinBegun, FilterBegun

LEMMA LoadJoins ==
  ASSUME Typed, AsJoined, LoadTable
  PROVE  AsJoined'
<1> DEFINE table == TableRows(query.from)
           more  == [i \in DOMAIN table |-> [row |-> table[i], from |-> <<i>>]]
<1>1. /\ stage = "from" /\ stage' = "join" /\ IsRegistered(query.from) /\ rows' = more
      /\ UNCHANGED <<query, tables, joined, pos, compared, matched, out>>
  BY DEF LoadTable, pair
<1>2. joined = 0 /\ pos = 0 /\ out = <<>> /\ compared = 0 /\ ~matched
  BY <1>1 DEF Typed, Fresh, AsJoined
<1>3. Known(1) /\ Factor(1) = query.from
  BY <1>1, TypeParts DEF Typed, Framed, Known, Factor
<1>4. Positions(1) = DOMAIN table /\ DOMAIN table = 1 .. Len(table) /\ Len(table) \in Nat
  BY <1>1, <1>3, TableShape DEF Positions, Known
<1>5. ASSUME NEW t \in Combined(1)
      PROVE  t[1] \in DOMAIN table /\ t = <<t[1]>>
  <2>1. t \in Seq(Nat) /\ Len(t) = 1 /\ t[1] \in Positions(1)
    <3>1. 1 \in Nat /\ 1 \in 1 .. 1
      OBVIOUS
    <3>2. /\ t \in Seq(Nat) /\ Len(t) = 1 /\ t[1] # 0
          /\ \A k \in 1 .. 1 : t[k] = 0 \/ t[k] \in Positions(k)
      BY <1>3, <3>1, CombinedShape
    <3> QED BY <3>1, <3>2
  <2> DEFINE u == <<t[1]>>
  <2>2. t[1] \in Nat
    BY <1>4, <2>1
  <2>3. u \in Seq(Nat) /\ Len(u) = 1 /\ u[1] = t[1]
    BY <2>2
  <2> HIDE DEF u
  <2>4. t = u
    BY <2>1, <2>3, TuplesAgree DEF AgreeOn
  <2> QED BY <1>4, <2>1, <2>4 DEF u
<1>6. \A i \in DOMAIN table : <<i>> \in Combined(1) /\ RowOf(<<i>>, 1) = table[i]
  BY <1>3, <1>4, CombinedOne
<1>7. Lists(more, Combined(1), 1)
  <2>1. \A i \in DOMAIN more : more[i].from = <<i>> /\ more[i].row = table[i] /\ i \in DOMAIN table
    OBVIOUS
  <2>2. DOMAIN more = DOMAIN table
    OBVIOUS
  <2> HIDE DEF more, table
  <2>3. {more[i].from : i \in DOMAIN more} = Combined(1)
    BY <1>5, <1>6, <2>1, <2>2
  <2>4. ASSUME NEW i \in DOMAIN more, NEW j \in DOMAIN more, i < j
        PROVE  Earlier(<<i>>, <<j>>)
    <3> DEFINE s == <<i>>
               t == <<j>>
    <3>1. 1 \in DOMAIN s /\ s[1] = i /\ t[1] = j /\ \A k \in 1 .. 1 - 1 : s[k] = t[k]
      OBVIOUS
    <3> HIDE DEF s, t
    <3>2. Earlier(s, t)
      BY <2>4, <3>1 DEF Earlier
    <3> QED BY <3>2 DEF s, t
  <2> QED BY <1>6, <2>1, <2>3, <2>4 DEF Lists
<1> HIDE DEF more, table
<1>8. JoinedSoFar'
  <2>1. SameTables
    BY <1>1 DEF SameTables
  <2>2. joined' + 1 = 1 /\ Combined(1)' = Combined(1)
    BY <1>1, <1>2, <2>1, SameCombined
  <2>3. Known(joined + 1)'
    BY <1>3, <2>1, <2>2, SameKnown
  <2>4. Combined(joined + 1)' = Combined(1)
    BY <2>1, <2>2, SameCombined
  <2>5. Lists(rows, Combined(joined + 1), joined + 1)'
    BY <1>1, <1>7, <2>1, <2>2, <2>4, SameLists
  <2> QED BY <2>3, <2>5 DEF JoinedSoFar
<1>9. Begins'
  <2>1. rows' = [i \in 1 .. Len(table) |-> rows'[i]]
    BY <1>1, <1>4 DEF more
  <2> QED BY <1>1, <1>2, <1>4, <2>1, ListFrom DEF Begins
<1>10. JoinBegun' /\ FilterBegun'
  BY <1>9, NothingReached, PTL
<1> QED BY <1>1, <1>8, <1>10 DEF AsJoined, JoinBegun, FilterBegun

LEMMA AppendIs ==
  ASSUME NEW s \in Seq(Nat), NEW t \in Seq(Nat), Len(t) = Len(s) + 1, AgreeOn(s, t, Len(s))
  PROVE  t = Append(s, t[Len(s) + 1])
<1>1. Len(s) \in Nat /\ t[Len(s) + 1] \in Nat
  <2>1. Len(s) \in Nat
    BY LenProperties
  <2>2. Len(s) + 1 \in 1 .. Len(t)
    BY <2>1
  <2> QED BY <2>1, <2>2, ElementOfSeq
<1> DEFINE u == Append(s, t[Len(s) + 1])
<1>2. u \in Seq(Nat) /\ Len(u) = Len(s) + 1 /\ u[Len(s) + 1] = t[Len(s) + 1] /\ AgreeOn(s, u, Len(s))
  BY <1>1, AppendTuple
<1> HIDE DEF u
<1>3. AgreeOn(t, u, Len(s) + 1)
  <2>1. \A k \in 1 .. Len(s) + 1 : k \in 1 .. Len(s) \/ k = Len(s) + 1
    BY <1>1
  <2> QED BY <1>2, <2>1 DEF AgreeOn
<1>4. t = u
  BY <1>2, <1>3, TuplesAgree
<1> QED BY <1>4 DEF u

LEMMA SameMatches ==
  ASSUME UNCHANGED <<query, tables, joined, rows, pos>>, NEW i
  PROVE  MatchesWith(Current.row, i)' <=> MatchesWith(Current.row, i)
BY DEF MatchesWith, Current, Join, TableRows, NameOf, CalledAs

\* What a step within a join has to show.
LEMMA JoinGoesOn ==
  ASSUME Typed, AsJoined, Joining, CanJoin, UNCHANGED <<query, tables, stage, joined, rows>>,
         NEW set \in SUBSET Combined(joined + 2),
         \A t \in Combined(joined + 2) : Reached(t)' <=> t \in set,
         Lists(out', set, joined + 2), matched' <=> HasMatched'
  PROVE  AsJoined'
<1>1. SameTables /\ stage = "join" /\ stage' = "join" /\ joined' + 2 = joined + 2
  BY DEF SameTables, Joining
<1>2. JoinedSoFar'
  <2>1. Combined(joined + 1)' = Combined(joined + 1) /\ Known(joined + 1)'
    BY <1>1, SameCombined, SameKnown DEF AsJoined, JoinedSoFar
  <2>2. Lists(rows, Combined(joined + 1), joined + 1)'
    BY <1>1, <2>1, SameLists DEF AsJoined, JoinedSoFar
  <2> QED BY <2>1, <2>2 DEF JoinedSoFar
<1>3. Covered' = set
  <2>1. Combined(joined + 2)' = Combined(joined + 2)
    BY <1>1, SameCombined
  <2> QED BY <2>1 DEF Covered
<1>4. Lists(out, Covered, joined + 2)'
  BY <1>1, <1>3, SameLists
<1>5. ~Filtering'
  BY TypeFacts DEF Typed, Filtering, Joining
<1> QED BY <1>1, <1>2, <1>4, <1>5 DEF AsJoined

LEMMA MatchJoins ==
  ASSUME Typed, AsJoined, MatchRow
  PROVE  AsJoined'
<1> DEFINE last == compared + 1
           new  == [row  |-> Merged(Current.row, TableRows(Join.table)[last]),
                    from |-> Append(Current.from, last)]
<1>1. /\ Joining /\ CanJoin /\ pos < Len(rows) /\ compared < Len(TableRows(Join.table))
      /\ MatchesWith(Current.row, last) /\ out' = Append(out, new)
      /\ matched' /\ compared' = last
      /\ UNCHANGED <<query, tables, stage, joined, rows, pos>>
  BY DEF MatchRow, Compares, NextMatches
<1>2. JoinedSoFar /\ Lists(out, Covered, joined + 2)
  BY <1>1 DEF AsJoined, Joining
<1>3. /\ pos \in Nat /\ compared \in Nat /\ DOMAIN rows = 1 .. Len(rows)
      /\ pos + 1 \in DOMAIN rows /\ Current = rows[pos + 1] /\ IsList(out)
  BY <1>1, TypeFacts, CurrentIs, TypeParts DEF Typed, ScanTyped, RowsTyped, AreSourced
<1>4. /\ Current.from \in Combined(joined + 1) /\ Current.from \in Seq(Nat)
      /\ Len(Current.from) = joined + 1 /\ Current.row = RowOf(Current.from, joined + 1)
  BY <1>1, <1>2, <1>3, LeftRow
<1>5. last \in Nat \ {0} /\ last \in Positions(joined + 2) /\ Meets(Current.from, joined + 1, last)
  BY <1>1, <1>2, <1>3, LeftRow
<1> HIDE DEF last
<1>6. new.from \in Combined(joined + 2) /\ new.row = RowOf(new.from, joined + 2)
  <2>1. /\ joined + 1 \in Nat \ {0} /\ Known(joined + 2) /\ (joined + 1) + 1 = joined + 2
        /\ Factor(joined + 2) = Join.table
    BY <1>1, <1>2, LeftRow
  <2> QED BY <1>4, <1>5, <2>1, CombinedMore
<1>7. \A s \in Covered : Earlier(s, new.from)
  BY <1>1, <1>2, <1>3, <1>5, ReachedBefore DEF last
<1> DEFINE set == Covered \union {new.from}
<1>8. Lists(out', set, joined + 2)
  <2> HIDE DEF new
  <2> QED BY <1>1, <1>2, <1>3, <1>6, <1>7, ListsMore
<1>9. ASSUME NEW t \in Combined(joined + 2)
      PROVE  Reached(t)' <=> t \in set
  <2>1. t \in Seq(Nat) /\ Len(t) = joined + 2 /\ joined + 2 = (joined + 1) + 1
    BY <1>1, <1>2, LeftRow, CombinedShape
  <2>2. \A i \in 1 .. last : i \in 1 .. compared \/ i = last
    BY <1>3 DEF last
  <2>3. last \in 1 .. last /\ \A i \in 1 .. compared : i \in 1 .. last
    BY <1>3 DEF last
  <2>4. Reached(t)' <=> \/ Reached(t)
                        \/ AgreeOn(Current.from, t, joined + 1) /\ t[joined + 2] = last
    BY <1>1, <1>3, <2>2, <2>3 DEF Reached, AgreeOn
  <2>5. AgreeOn(Current.from, t, joined + 1) /\ t[joined + 2] = last <=> t = new.from
    <3>1. /\ new.from[joined + 2] = last /\ AgreeOn(Current.from, new.from, joined + 1)
      BY <1>4, <1>5, <2>1, AppendTuple
    <3>2. ASSUME AgreeOn(Current.from, t, joined + 1), t[joined + 2] = last
          PROVE  t = Append(Current.from, last)
      BY <1>4, <2>1, <3>2, AppendIs
    <3> QED BY <3>1, <3>2
  <2> QED BY <2>4, <2>5 DEF Covered
<1>10. HasMatched'
  <2>1. PICK m : m = last
    OBVIOUS
  <2>2. m \in 1 .. compared' /\ MatchesWith(Current.row, m)
    BY <1>1, <1>5, <2>1
  <2>3. MatchesWith(Current.row, m)'
    BY <1>1, <2>2, SameMatches
  <2> QED BY <2>2, <2>3 DEF HasMatched
<1>11. set \in SUBSET Combined(joined + 2)
  BY <1>6 DEF Covered
<1> HIDE DEF set
<1> QED BY <1>1, <1>8, <1>9, <1>10, <1>11, JoinGoesOn

LEMMA SkipJoins ==
  ASSUME Typed, AsJoined, SkipRow
  PROVE  AsJoined'
<1> DEFINE last == compared + 1
<1>1. /\ Joining /\ CanJoin /\ pos < Len(rows) /\ compared < Len(TableRows(Join.table))
      /\ ~MatchesWith(Current.row, last) /\ compared' = last
      /\ UNCHANGED <<query, tables, stage, joined, rows, pos, matched, out>>
  BY DEF SkipRow, Compares, NextMatches
<1>2. JoinedSoFar /\ Lists(out, Covered, joined + 2) /\ (matched <=> HasMatched)
  BY <1>1 DEF AsJoined, Joining
<1>3. /\ pos \in Nat /\ compared \in Nat /\ DOMAIN rows = 1 .. Len(rows)
      /\ pos + 1 \in DOMAIN rows /\ Current = rows[pos + 1]
  BY <1>1, TypeFacts, CurrentIs, TypeParts DEF Typed, ScanTyped
<1>4. last # 0 /\ ~Meets(Current.from, joined + 1, last)
  BY <1>1, <1>2, <1>3, LeftRow
<1>5. /\ \A i \in 1 .. last : i \in 1 .. compared \/ i = last
      /\ \A i \in 1 .. compared : i \in 1 .. last
  BY <1>3
<1> HIDE DEF last
<1>6. ASSUME NEW t \in Combined(joined + 2)
      PROVE  Reached(t)' <=> t \in Covered
  <2>1. ~(AgreeOn(Current.from, t, joined + 1) /\ t[joined + 2] = last)
    <3>1. SUFFICES ASSUME AgreeOn(Current.from, t, joined + 1), t[joined + 2] = last
                   PROVE  FALSE
      OBVIOUS
    <3>2. JoinsAt(t, joined + 1) /\ joined + 1 \in Nat /\ (joined + 1) + 1 = joined + 2
      BY <1>1, <1>2, LeftRow, CombinedPrefix
    <3>3. Meets(t, joined + 1, last)
      BY <1>4, <3>1, <3>2 DEF JoinsAt
    <3>4. RowOf(t, joined + 1) = RowOf(Current.from, joined + 1)
      BY <3>1, <3>2, SameRow
    <3> QED BY <1>4, <3>3, <3>4 DEF Meets
  <2>2. Reached(t)' <=> Reached(t)
    BY <1>1, <1>3, <1>5, <2>1 DEF Reached, AgreeOn
  <2> QED BY <2>2 DEF Covered
<1>7. HasMatched' <=> HasMatched
  <2>1. \A i : MatchesWith(Current.row, i)' <=> MatchesWith(Current.row, i)
    BY <1>1, SameMatches
  <2> QED BY <1>1, <1>5, <2>1 DEF HasMatched
<1>8. Covered \in SUBSET Combined(joined + 2)
  BY DEF Covered
<1> QED BY <1>1, <1>2, <1>6, <1>7, <1>8, JoinGoesOn

LEMMA EndRowJoins ==
  ASSUME Typed, AsJoined, EndRow
  PROVE  AsJoined'
<1> DEFINE alone == Join.kind = "left" /\ ~matched
           new   == [row |-> Current.row, from |-> Append(Current.from, 0)]
           set   == Covered \union (IF alone THEN {new.from} ELSE {})
<1>1. /\ Joining /\ CanJoin /\ pos < Len(rows) /\ compared = Len(TableRows(Join.table))
      /\ out' = (IF alone THEN Append(out, new) ELSE out)
      /\ pos' = pos + 1 /\ compared' = 0 /\ ~matched'
      /\ UNCHANGED <<query, tables, stage, joined, rows>>
  BY DEF EndRow
<1>2. JoinedSoFar /\ Lists(out, Covered, joined + 2) /\ (matched <=> HasMatched)
  BY <1>1 DEF AsJoined, Joining
<1>3. /\ pos \in Nat /\ Len(rows) \in Nat /\ DOMAIN rows = 1 .. Len(rows)
      /\ pos + 1 \in DOMAIN rows /\ Current = rows[pos + 1] /\ IsList(out)
  BY <1>1, TypeFacts, CurrentIs, TypeParts DEF Typed, RowsTyped, AreSourced
<1>4. /\ Current.from \in Combined(joined + 1) /\ Current.from \in Seq(Nat)
      /\ Len(Current.from) = joined + 1 /\ Current.row = RowOf(Current.from, joined + 1)
  BY <1>1, <1>2, <1>3, LeftRow
<1>5. /\ joined + 1 \in Nat \ {0} /\ Known(joined + 2) /\ (joined + 1) + 1 = joined + 2
      /\ Positions(joined + 2) = 1 .. compared
      /\ \A i : MatchesWith(Current.row, i) <=> Meets(Current.from, joined + 1, i)
  BY <1>1, <1>2, LeftRow
<1>6. matched <=> \E i \in Positions(joined + 2) : Meets(Current.from, joined + 1, i)
  BY <1>2, <1>5 DEF HasMatched
<1>7. ASSUME alone
      PROVE  new.from \in Combined(joined + 2) /\ new.row = RowOf(new.from, joined + 2)
  <2>1. query.joins[joined + 1].kind = "left"
    BY <1>7 DEF Join
  <2>2. \A j \in Positions(joined + 2) : ~Meets(Current.from, joined + 1, j)
    BY <1>6, <1>7
  <2> QED BY <1>4, <1>5, <2>1, <2>2, CombinedMore
<1>8. ASSUME alone, NEW s \in Covered
      PROVE  Earlier(s, new.from)
  BY <1>1, <1>2, <1>8, ReachedBefore
<1>9. Lists(out', set, joined + 2)
  <2>1. CASE alone
    <3> HIDE DEF new, alone
    <3>1. out' = Append(out, new) /\ set = Covered \union {new.from}
      BY <1>1, <2>1
    <3> HIDE DEF set
    <3> QED BY <1>2, <1>3, <1>7, <1>8, <2>1, <3>1, ListsMore
  <2>2. CASE ~alone
    BY <1>1, <1>2, <2>2
  <2> QED BY <2>1, <2>2
<1>10. ASSUME NEW t \in Combined(joined + 2)
       PROVE  Reached(t)' <=> t \in set
  <2>1. /\ t \in Seq(Nat) /\ Len(t) = joined + 2 /\ JoinsAt(t, joined + 1)
        /\ t[joined + 2] = 0 \/ t[joined + 2] \in Positions(joined + 2)
    BY <1>5, CombinedShape, CombinedPrefix
  <2>2. Reached(t)' <=> Reached(t) \/ AgreeOn(Current.from, t, joined + 1)
    <3>1. \A i \in 1 .. Len(rows) : i <= pos + 1 <=> i <= pos \/ i = pos + 1
      BY <1>3
    <3>2. \A i \in 1 .. 0 : FALSE
      OBVIOUS
    <3> QED BY <1>1, <1>3, <3>1, <3>2 DEF Reached, AgreeOn
  <2>3. ASSUME AgreeOn(Current.from, t, joined + 1), ~Reached(t)
        PROVE  alone /\ t = new.from
    <3>1. t[joined + 2] = 0
      BY <1>3, <1>5, <2>1, <2>3 DEF Reached
    <3>2. t = new.from
      BY <1>4, <1>5, <2>1, <2>3, <3>1, AppendIs
    <3>3. RowOf(t, joined + 1) = RowOf(Current.from, joined + 1)
      BY <1>5, <2>3, SameRow
    <3>4. \A i : Meets(t, joined + 1, i) <=> Meets(Current.from, joined + 1, i)
      BY <3>3 DEF Meets
    <3>5. alone
      BY <1>5, <1>6, <2>1, <3>1, <3>4 DEF JoinsAt, Join
    <3> QED BY <3>2, <3>5
  <2>4. AgreeOn(Current.from, new.from, joined + 1)
    BY <1>4, AppendTuple
  <2>5. t \in set <=> Reached(t) \/ (alone /\ t = new.from)
    BY DEF Covered
  <2> HIDE DEF alone, new, set
  <2> QED BY <2>2, <2>3, <2>4, <2>5
<1>11. matched' <=> HasMatched'
  BY <1>1 DEF HasMatched
<1>12. set \in SUBSET Combined(joined + 2)
  BY <1>7 DEF Covered
<1> HIDE DEF set
<1> QED BY <1>1, <1>9, <1>10, <1>11, <1>12, JoinGoesOn

LEMMA EndJoinJoins ==
  ASSUME Typed, AsJoined, EndJoin
  PROVE  AsJoined'
<1>1. /\ Joining /\ CanJoin /\ pos = Len(rows) /\ rows' = out /\ out' = <<>> /\ pos' = 0
      /\ joined' = joined + 1 /\ UNCHANGED <<query, tables, stage, compared, matched>>
  BY DEF EndJoin, pair
<1>2. JoinedSoFar /\ Lists(out, Covered, joined + 2) /\ (matched <=> HasMatched)
  BY <1>1 DEF AsJoined, Joining
<1>3. compared = 0 /\ Len(rows) \in Nat /\ DOMAIN rows = 1 .. Len(rows) /\ Len(out) \in Nat
  BY <1>1, TypeFacts, TypeParts DEF Typed, ScanTyped
<1>4. SameTables /\ joined' + 1 = joined + 2
  <2>1. joined \in Nat
    BY TypeFacts DEF Typed
  <2> QED BY <1>1, <2>1 DEF SameTables
<1>5. Covered = Combined(joined + 2)
  <2>1. ASSUME NEW t \in Combined(joined + 2)
        PROVE  Reached(t)
    <3>1. PICK s \in Combined(joined + 1) : t = Append(s, t[joined + 2])
      BY <1>1, <1>2, LeftRow, CombinedPrefix
    <3>2. s \in Seq(Nat) /\ Len(s) = joined + 1 /\ t[joined + 2] \in Nat
      <4>1. joined + 1 \in Nat \ {0} /\ (joined + 1) + 1 = joined + 2 /\ Known(joined + 2)
            /\ \A i \in Positions(joined + 2) : i \in Nat
        BY <1>1, <1>2, LeftRow
      <4>2. t[joined + 2] = 0 \/ t[joined + 2] \in Positions(joined + 2)
        BY <4>1, CombinedPrefix
      <4> QED BY <1>2, <4>1, <4>2, CombinedShape DEF JoinedSoFar
    <3>3. AgreeOn(s, t, joined + 1)
      BY <3>1, <3>2, AppendTuple
    <3>4. PICK i \in DOMAIN rows : rows[i].from = s
      BY <1>2 DEF JoinedSoFar, Lists
    <3> QED BY <1>1, <1>3, <3>3, <3>4 DEF Reached
  <2> QED BY <2>1 DEF Covered
<1>6. JoinedSoFar'
  <2>1. Combined(joined + 1)' = Combined(joined + 2)
    BY <1>4, SameCombined
  <2>2. Known(joined + 1)'
    BY <1>1, <1>2, <1>4, LeftRow, SameKnown
  <2>3. Lists(rows, Combined(joined + 1), joined + 1)'
    BY <1>1, <1>2, <1>4, <1>5, <2>1, SameLists
  <2> QED BY <2>2, <2>3 DEF JoinedSoFar
<1>7. Begins'
  BY <1>1, <1>2, <1>3 DEF Begins, HasMatched
<1>8. JoinBegun' /\ FilterBegun'
  BY <1>7, NothingReached, PTL
<1> QED BY <1>1, <1>6, <1>8 DEF AsJoined, JoinBegun, FilterBegun, Joining

\* WHERE.
LEMMA FilterRowJoins ==
  ASSUME Typed, AsJoined, FilterRow
  PROVE  AsJoined'
<1> DEFINE chosen == Selects(query.where, Current.row)
           set    == Retained \union (IF chosen THEN {Current.from} ELSE {})
<1>1. /\ Filtering /\ pos < Len(rows) /\ pos' = pos + 1
      /\ out' = (IF chosen THEN Append(out, Current) ELSE out)
      /\ UNCHANGED <<query, tables, stage, joined, rows>>
  BY DEF FilterRow
<1>2. /\ stage = "join" /\ ~Joining /\ JoinedSoFar /\ Lists(out, Retained, Width)
      /\ joined + 1 = Width /\ SameTables
  BY <1>1, TypeFacts DEF Typed, AsJoined, Filtering, Joining, Width, SameTables
<1>3. /\ pos \in Nat /\ Len(rows) \in Nat /\ DOMAIN rows = 1 .. Len(rows)
      /\ pos + 1 \in DOMAIN rows /\ Current = rows[pos + 1] /\ IsList(out)
  BY <1>1, TypeFacts, CurrentIs, TypeParts DEF Typed, RowsTyped, AreSourced
<1>4. Current.from \in Combined(Width) /\ Current.row = RowOf(Current.from, Width)
  BY <1>2, <1>3 DEF JoinedSoFar, Lists
<1>5. \A s \in Retained : Earlier(s, Current.from)
  BY <1>2, <1>3 DEF Retained, JoinedSoFar, Lists
<1>6. Lists(out', set, Width)
  BY <1>1, <1>2, <1>3, <1>4, <1>5, ListsMore
<1>7. Retained' = set
  <2>1. Combined(Width)' = Combined(Width) /\ \A t : RowOf(t, Width)' = RowOf(t, Width)
    <3>1. Width' = Width
      BY <1>2, SameChosen
    <3> QED BY <1>2, <3>1, SameCombined, SameRowOf
  <2>2. \A i : i \in 1 .. pos + 1 <=> i \in 1 .. pos \/ i = pos + 1
    BY <1>3
  <2> QED BY <1>1, <1>3, <1>4, <2>1, <2>2 DEF Retained
<1>8. Lists(out, Retained, Width)'
  BY <1>2, <1>6, <1>7, SameChosen, SameLists
<1>9. JoinedSoFar'
  <2>1. Combined(joined + 1)' = Combined(joined + 1) /\ Known(joined + 1)'
    BY <1>1, <1>2, SameCombined, SameKnown DEF JoinedSoFar
  <2>2. Lists(rows, Combined(joined + 1), joined + 1)'
    BY <1>1, <1>2, <2>1, SameLists DEF JoinedSoFar
  <2> QED BY <2>1, <2>2 DEF JoinedSoFar
<1> QED BY <1>1, <1>2, <1>8, <1>9 DEF AsJoined, Joining

\* What follows WHERE has the rows of the tuples it chose.
Later == {"group", "groups", "project", "order", "limit", "done"}
AsKept ==
  /\ stage \in Later => Lists(kept, Chosen, Width)
  /\ stage \in {"group", "project"} => rows = kept

LEMMA EndFilterKeeps ==
  ASSUME Typed, AsJoined, EndFilter
  PROVE  AsKept'
<1>1. /\ Filtering /\ pos = Len(rows) /\ rows' = out /\ kept' = out /\ stage' \in {"group", "project"}
      /\ UNCHANGED <<query, tables>>
  BY DEF EndFilter
<1>2. /\ stage = "join" /\ JoinedSoFar /\ Lists(out, Retained, Width)
      /\ joined + 1 = Width /\ SameTables /\ DOMAIN rows = 1 .. Len(rows)
  BY <1>1, TypeFacts DEF Typed, AsJoined, Filtering, Width, SameTables
<1>3. Retained = Chosen
  BY <1>1, <1>2 DEF Retained, Chosen, JoinedSoFar, Lists
<1>4. Lists(kept, Chosen, Width)'
  BY <1>1, <1>2, <1>3, SameChosen, SameLists
<1> QED BY <1>1, <1>4 DEF AsKept, Later

\* Later steps leave the rows kept, the statement and the tables alone.
LEMMA KeptStays ==
  ASSUME AsKept, stage \in Later \/ stage' \notin Later, UNCHANGED <<query, tables, kept>>,
         stage' \in {"group", "project"} => stage' = stage /\ rows' = rows
  PROVE  AsKept'
<1>1. SameTables
  BY DEF SameTables
<1>2. stage \in Later => Lists(kept, Chosen, Width)'
  BY <1>1, SameChosen, SameLists DEF AsKept
<1> QED BY <1>2 DEF AsKept

LEMMA KeptNext ==
  ASSUME Typed, AsJoined, AsKept, [Next]_vars
  PROVE  AsJoined' /\ AsKept'
<1>1. CASE UNCHANGED vars
  <2>1. SameTables
    BY <1>1 DEF vars, SameTables
  <2>2. AsKept'
    BY <1>1, KeptStays DEF vars
  <2>3. AsJoined'
    <3>1. (Joining /\ CanJoin)' <=> Joining /\ CanJoin
      BY <1>1 DEF Joining, CanJoin, Join, IsRegistered, NameOf, vars
    <3>2. JoinedSoFar' <=> JoinedSoFar
      <4>1. /\ Known(joined + 1)' <=> Known(joined + 1)
            /\ Combined(joined + 1)' = Combined(joined + 1)
        BY <1>1, <2>1, SameKnown, SameCombined DEF vars
      <4> QED BY <1>1, <2>1, <4>1, SameLists DEF JoinedSoFar, vars
    <3>3. Covered' = Covered
      <4>1. Combined(joined + 2)' = Combined(joined + 2)
        BY <1>1, <2>1, SameCombined DEF vars
      <4> QED BY <1>1, <4>1 DEF Covered, Reached, AgreeOn, vars
    <3>4. Retained' = Retained /\ Width' = Width
      <4>1. Width' = Width
        BY <2>1, SameChosen
      <4>2. Combined(Width)' = Combined(Width) /\ \A t : RowOf(t, Width)' = RowOf(t, Width)
        BY <2>1, <4>1, SameCombined, SameRowOf
      <4> QED BY <1>1, <4>1, <4>2 DEF Retained, vars
    <3>5. HasMatched' <=> HasMatched
      <4>1. \A i : MatchesWith(Current.row, i)' <=> MatchesWith(Current.row, i)
        BY <1>1, SameMatches DEF vars
      <4> QED BY <1>1, <4>1 DEF HasMatched, vars
    <3>6. Lists(out, Covered, joined + 2)' <=> Lists(out, Covered, joined + 2)
      BY <1>1, <2>1, <3>3, SameLists DEF vars
    <3>7. Lists(out, Retained, Width)' <=> Lists(out, Retained, Width)
      BY <1>1, <2>1, <3>4, SameLists DEF vars
    <3>8. Filtering' <=> Filtering
      BY <1>1 DEF Filtering, vars
    <3> QED BY <1>1, <3>1, <3>2, <3>5, <3>6, <3>7, <3>8 DEF AsJoined, vars
  <2> QED BY <2>2, <2>3
<1>2. ASSUME stage' \notin {"from", "join"} PROVE AsJoined'
  BY <1>2 DEF AsJoined, Joining, Filtering
<1>3. CASE LoadTable
  <2>1. stage' \notin Later /\ stage' \notin {"group", "project"} /\ UNCHANGED <<query, tables, kept>>
    BY <1>3 DEF LoadTable, Later
  <2> QED BY <1>3, <2>1, LoadJoins, KeptStays
<1>4. CASE RefuseQuery \/ RefuseJoin \/ RowFails \/ SortFails
  <2>1. stage' = "failed" /\ UNCHANGED <<query, tables, kept>>
    BY <1>4 DEF RefuseQuery, RefuseJoin, RowFails, SortFails, Abandon
  <2> QED BY <1>2, <2>1, KeptStays DEF Later
<1>5. CASE MatchRow \/ SkipRow \/ EndRow \/ EndJoin \/ FilterRow
  <2>1. stage' = "join" /\ UNCHANGED <<query, tables, kept>>
    BY <1>5 DEF MatchRow, SkipRow, EndRow, EndJoin, FilterRow, Compares, Joining, Filtering
  <2>2. AsKept'
    BY <2>1, KeptStays DEF Later
  <2> QED BY <1>5, <2>2, MatchJoins, SkipJoins, EndRowJoins, EndJoinJoins, FilterRowJoins
<1>6. CASE EndFilter
  <2>1. stage' \in {"group", "project"}
    BY <1>6 DEF EndFilter
  <2> QED BY <1>2, <1>6, <2>1, EndFilterKeeps
<1>7. CASE \/ GroupRow \/ EndGroups \/ ProjectNextGroup \/ ProjectNextRow
           \/ EndProjection \/ SortRows \/ Truncate
  <2>1. /\ stage \in Later /\ stage' \in Later /\ UNCHANGED <<query, tables, kept>>
        /\ stage' \in {"group", "project"} => stage' = stage /\ rows' = rows
    BY <1>7 DEF GroupRow, EndGroups, ProjectNextGroup, ProjectNextRow, EndProjection, SortRows,
                Truncate, AtRow, AtEnd, Later
  <2> QED BY <1>2, <2>1, KeptStays DEF Later
<1> QED BY <1>1, <1>3, <1>4, <1>5, <1>6, <1>7 DEF Next

Kept == Typed /\ AsJoined /\ AsKept

LEMMA KeptInit ==
  ASSUME Init
  PROVE  Kept
BY TypedInit DEF Init, Kept, AsJoined, AsKept, Joining, Filtering, Later

LEMMA KeptHolds == Spec => []Kept
<1>1. Kept /\ [Next]_vars => Kept'
  BY TypedNext, KeptNext, PTL DEF Kept
<1> QED BY <1>1, KeptInit, PTL DEF Spec

\* Whatever the conditions of the joins and of WHERE are, the rows kept are
\* those of the tuples every join combines and WHERE chooses, each once, in the
\* order of the tables (equi_join, execute_query).
THEOREM RowsKeptAsJoined == Spec => []KeptAsJoined
<1>1. Kept => KeptAsJoined
  BY DEF Kept, AsKept, KeptAsJoined, Later
<1> QED BY <1>1, KeptHolds, PTL

-----------------------------------------------------------------------------
(***************************************************************************)
(* The groups divide the rows that were read.                              *)
(***************************************************************************)
Read == {rows[i].from : i \in 1 .. pos}

AsGrouped ==
  /\ stage = "group" => Divide(Read)
  /\ stage = "groups" => Divide(Chosen)

LEMMA SameKey ==
  ASSUME SameTables, NEW t
  PROVE  KeyAt(t)' = KeyAt(t)
<1>1. RowOf(t, Width)' = RowOf(t, Width)
  BY SameChosen, SameRowOf
<1> QED BY <1>1 DEF KeyAt, SameTables

\* What a step has to show of the groups it leaves.
LEMMA DivideNext ==
  ASSUME SameTables, NEW set,
         \A g \in DOMAIN groups' :
           /\ groups'[g].members # <<>>
           /\ Lists(groups'[g].members, {t \in set : KeyAt(t) = groups'[g].key}, Width),
         \A t \in set : \E g \in DOMAIN groups' : KeyAt(t) = groups'[g].key,
         \A g, h \in DOMAIN groups' : g < h =>
           /\ groups'[g].key # groups'[h].key
           /\ Earlier(groups'[g].members[1].from, groups'[h].members[1].from)
  PROVE  Divide(set)'
<1>1. \A t : KeyAt(t)' = KeyAt(t)
  BY SameKey
<1>2. ASSUME NEW values, NEW k, Lists(values, {t \in set : KeyAt(t) = k}, Width)
      PROVE  Lists(values, {t \in set : KeyAt(t) = k}, Width)'
  <2>1. {t \in set : KeyAt(t) = k}' = {t \in set : KeyAt(t) = k} /\ Width' = Width
    BY <1>1, SameChosen
  <2> QED BY <1>2, <2>1, SameLists
<1>3. \A g \in DOMAIN groups' :
        /\ groups'[g].members # <<>>
        /\ Lists(groups[g].members, {t \in set : KeyAt(t) = groups[g].key}, Width)'
  BY <1>2
<1>4. \A t \in set : \E g \in DOMAIN groups' : KeyAt(t)' = groups'[g].key
  BY <1>1
<1>5. \A g, h \in DOMAIN groups' : g < h =>
        /\ groups'[g].key # groups'[h].key
        /\ Earlier(groups'[g].members[1].from, groups'[h].members[1].from)
  OBVIOUS
<1> QED BY <1>3, <1>4, <1>5 DEF Divide, MembersOf, Earlier

LEMMA SameDivide ==
  ASSUME SameTables, groups' = groups, NEW set, Divide(set)
  PROVE  Divide(set)'
BY DivideNext DEF Divide, MembersOf

\* The rows of a group, as a step finds them.
LEMMA MembersShape ==
  ASSUME Typed, NEW set, Divide(set), NEW g \in DOMAIN groups
  PROVE  /\ IsList(groups[g].members) /\ Len(groups[g].members) \in Nat \ {0}
         /\ DOMAIN groups[g].members = 1 .. Len(groups[g].members)
         /\ Lists(groups[g].members, {t \in set : KeyAt(t) = groups[g].key}, Width)
         /\ groups[g].members[1].from \in set
<1>1. IsList(groups[g].members)
  BY TypeParts DEF Typed, GroupsTyped, AreSourced
<1>2. /\ Lists(groups[g].members, {t \in set : KeyAt(t) = groups[g].key}, Width)
      /\ groups[g].members # <<>>
  BY DEF Divide, MembersOf
<1>3. /\ Len(groups[g].members) \in Nat \ {0}
      /\ DOMAIN groups[g].members = 1 .. Len(groups[g].members)
  BY <1>1, <1>2, ListShape, ListIsEmpty
<1>4. 1 \in DOMAIN groups[g].members
  BY <1>3
<1>5. groups[g].members[1].from \in set
  BY <1>2, <1>4 DEF Lists
<1> QED BY <1>1, <1>2, <1>3, <1>5

LEMMA GroupRowDivides ==
  ASSUME Typed, AsKept, AsGrouped, GroupRow
  PROVE  Divide(Read)'
<1> DEFINE t0  == Current.from
           key == GroupKey(query.keys, Current.row)
           n   == Len(groups)
           set == Read \union {t0}
<1>1. /\ stage = "group" /\ pos < Len(rows) /\ pos' = pos + 1
      /\ UNCHANGED <<query, tables, rows>> /\ SameTables
  BY DEF GroupRow, AtRow, SameTables
<1>2. /\ pos \in Nat /\ pos + 1 \in DOMAIN rows /\ Current = rows[pos + 1]
      /\ DOMAIN rows = 1 .. Len(rows) /\ Len(rows) \in Nat
  BY <1>1, TypeFacts, CurrentIs DEF Typed
<1>3. rows = kept /\ Lists(rows, Chosen, Width) /\ Divide(Read)
  BY <1>1 DEF AsKept, AsGrouped, Later
<1>4. Read' = set
  <2>1. \A i : i \in 1 .. pos + 1 <=> i \in 1 .. pos \/ i = pos + 1
    BY <1>2
  <2> QED BY <1>1, <1>2, <2>1 DEF Read
<1>5. Current.row = RowOf(t0, Width) /\ key = KeyAt(t0)
  BY <1>2, <1>3 DEF Lists, KeyAt
<1>6. \A s \in Read : Earlier(s, t0)
  BY <1>2, <1>3 DEF Read, Lists
<1>7. n \in Nat /\ DOMAIN groups = 1 .. n
  BY GroupsMore
<1>8. \A g \in DOMAIN groups :
        /\ IsList(groups[g].members) /\ Len(groups[g].members) \in Nat \ {0}
        /\ DOMAIN groups[g].members = 1 .. Len(groups[g].members)
        /\ Lists(groups[g].members, {t \in Read : KeyAt(t) = groups[g].key}, Width)
        /\ groups[g].members[1].from \in Read
  BY <1>3, MembersShape
<1>9. /\ \A t \in Read : \E g \in DOMAIN groups : KeyAt(t) = groups[g].key
      /\ \A g, h \in DOMAIN groups : g < h =>
           /\ groups[g].key # groups[h].key
           /\ Earlier(groups[g].members[1].from, groups[h].members[1].from)
  BY <1>3 DEF Divide, MembersOf
<1> HIDE DEF key, t0, n
<1>10. CASE \E g \in DOMAIN groups : groups[g].key = key
  <2> DEFINE g0 == GroupOf(key)
  <2>1. /\ g0 \in DOMAIN groups /\ groups[g0].key = key /\ DOMAIN groups' = DOMAIN groups
        /\ \A g \in DOMAIN groups : g # g0 => groups'[g] = groups[g]
        /\ groups'[g0].key = key /\ groups'[g0].members = Append(groups[g0].members, Current)
    BY <1>10, GroupsMore DEF key
  <2> HIDE DEF g0
  <2>2. \A g \in DOMAIN groups : g # g0 => groups[g].key # key
    BY <1>7, <1>9, <2>1
  <2>3. Lists(groups'[g0].members, {t \in set : KeyAt(t) = key}, Width)
    <3> DEFINE old == {t \in Read : KeyAt(t) = key}
    <3>1. {t \in set : KeyAt(t) = key} = old \union {t0}
      BY <1>5
    <3>2. \A s \in old : Earlier(s, Current.from)
      BY <1>6 DEF t0
    <3>3. Lists(groups[g0].members, old, Width) /\ IsList(groups[g0].members)
      BY <1>8, <2>1
    <3> HIDE DEF old
    <3>4. Lists(Append(groups[g0].members, Current), old \union {Current.from}, Width)
      BY <1>5, <3>2, <3>3, ListsMore DEF t0
    <3> QED BY <2>1, <3>1, <3>4 DEF t0
  <2>4. groups'[g0].members[1] = groups[g0].members[1] /\ groups'[g0].members # <<>>
    <3>1. PICK members : members = groups[g0].members
      OBVIOUS
    <3>2. IsList(members) /\ Len(members) \in Nat \ {0}
      BY <1>8, <2>1, <3>1
    <3>3. 1 \in 1 .. Len(members)
      BY <3>2
    <3>4. Append(members, Current)[1] = members[1] /\ Len(Append(members, Current)) # 0
      BY <3>2, <3>3, ListAppend
    <3> QED BY <2>1, <3>1, <3>4, ListOfNone
  <2>5. ASSUME NEW g \in DOMAIN groups'
        PROVE  /\ groups'[g].members # <<>>
               /\ Lists(groups'[g].members, {t \in set : KeyAt(t) = groups'[g].key}, Width)
               /\ groups'[g].key = groups[g].key
               /\ groups'[g].members[1] = groups[g].members[1]
    <3>1. CASE g = g0
      BY <2>1, <2>3, <2>4, <3>1
    <3>2. CASE g # g0
      <4>1. groups'[g] = groups[g] /\ g \in DOMAIN groups /\ groups[g].key # key
        BY <2>1, <2>2, <2>5, <3>2
      <4>2. {t \in set : KeyAt(t) = groups[g].key} = {t \in Read : KeyAt(t) = groups[g].key}
        BY <1>5, <4>1
      <4> QED BY <1>8, <4>1, <4>2, ListOfNone
    <3> QED BY <3>1, <3>2
  <2>6. \A t \in set : \E g \in DOMAIN groups' : KeyAt(t) = groups'[g].key
    BY <1>5, <1>9, <2>1, <2>5
  <2>7. ASSUME NEW g \in DOMAIN groups', NEW h \in DOMAIN groups', g < h
        PROVE  /\ groups'[g].key # groups'[h].key
               /\ Earlier(groups'[g].members[1].from, groups'[h].members[1].from)
    <3>1. /\ g \in DOMAIN groups /\ h \in DOMAIN groups
          /\ groups'[g].key = groups[g].key /\ groups'[h].key = groups[h].key
          /\ groups'[g].members[1] = groups[g].members[1]
          /\ groups'[h].members[1] = groups[h].members[1]
      BY <2>1, <2>5
    <3> QED BY <1>9, <2>7, <3>1
  <2> HIDE DEF set
  <2>8. \A more : more = set => Divide(more)'
    BY <1>1, <2>5, <2>6, <2>7, DivideNext
  <2> QED BY <1>4, <2>8
<1>11. CASE ~\E g \in DOMAIN groups : groups[g].key = key
  <2>1. /\ DOMAIN groups' = 1 .. n + 1
        /\ \A g \in DOMAIN groups : groups'[g] = groups[g]
        /\ groups'[n + 1] = [key |-> key, members |-> <<Current>>]
    BY <1>11, GroupsMore DEF key, n
  <2>2. \A t \in Read : KeyAt(t) # key
    BY <1>9, <1>11
  <2>3. Lists(<<Current>>, {t \in set : KeyAt(t) = key}, Width)
    <3>1. {t \in set : KeyAt(t) = key} = {} \union {t0}
      BY <1>5, <2>2
    <3>2. Append(<<>>, Current) = <<Current>>
      OBVIOUS
    <3> QED BY <1>5, <3>1, <3>2, ListsNone, ListOfNone, ListsMore DEF t0
  <2>4. ASSUME NEW g \in DOMAIN groups
        PROVE  /\ groups'[g].members # <<>>
               /\ Lists(groups'[g].members, {t \in set : KeyAt(t) = groups'[g].key}, Width)
    <3>1. {t \in set : KeyAt(t) = groups[g].key} = {t \in Read : KeyAt(t) = groups[g].key}
      BY <1>5, <1>11
    <3> QED BY <1>8, <2>1, <3>1, ListOfNone
  <2>5. \A g \in DOMAIN groups' : g \in DOMAIN groups \/ g = n + 1
    BY <1>7, <2>1
  <2>6. ASSUME NEW g \in DOMAIN groups'
        PROVE  /\ groups'[g].members # <<>>
               /\ Lists(groups'[g].members, {t \in set : KeyAt(t) = groups'[g].key}, Width)
    <3>1. CASE g \in DOMAIN groups
      BY <2>4, <3>1
    <3>2. CASE g = n + 1
      <4>1. groups'[g].members = <<Current>> /\ groups'[g].key = key
        BY <2>1, <3>2
      <4> HIDE DEF set
      <4> QED BY <2>3, <4>1
    <3> QED BY <2>5, <3>1, <3>2
  <2>7. n + 1 \in DOMAIN groups' /\ \A g \in DOMAIN groups : g \in DOMAIN groups' /\ g < n + 1
    BY <1>7, <2>1
  <2>8. \A t \in set : \E g \in DOMAIN groups' : KeyAt(t) = groups'[g].key
    BY <1>5, <1>9, <2>1, <2>7
  <2>9. ASSUME NEW g \in DOMAIN groups', NEW h \in DOMAIN groups', g < h
        PROVE  /\ groups'[g].key # groups'[h].key
               /\ Earlier(groups'[g].members[1].from, groups'[h].members[1].from)
    <3>1. g \in DOMAIN groups
      BY <1>7, <2>1, <2>9
    <3>2. CASE h \in DOMAIN groups
      BY <1>9, <2>1, <2>9, <3>1, <3>2
    <3>3. CASE h = n + 1
      <4>1. groups'[h].key = key /\ groups'[h].members[1].from = t0
        BY <2>1, <3>3 DEF t0
      <4> QED BY <1>6, <1>8, <1>11, <2>1, <3>1, <4>1
    <3> QED BY <2>5, <3>2, <3>3
  <2> HIDE DEF set
  <2>10. \A more : more = set => Divide(more)'
    BY <1>1, <2>6, <2>8, <2>9, DivideNext
  <2> QED BY <1>4, <2>10
<1> QED BY <1>10, <1>11

LEMMA GroupedNext ==
  ASSUME Typed, AsJoined, AsKept, AsGrouped, [Next]_vars
  PROVE  AsGrouped'
<1>1. CASE UNCHANGED vars
  <2>1. SameTables /\ groups' = groups /\ Read' = Read /\ stage' = stage
    BY <1>1 DEF vars, SameTables, Read
  <2>2. Chosen' = Chosen
    BY <2>1, SameChosen
  <2> QED BY <2>1, <2>2, SameDivide DEF AsGrouped
<1>2. ASSUME stage' \notin {"group", "groups"} PROVE AsGrouped'
  BY <1>2 DEF AsGrouped
<1>3. CASE EndFilter
  <2>1. /\ groups' = <<>> /\ pos' = 0 /\ SameTables /\ stage' \in {"group", "project"}
    BY <1>3 DEF EndFilter, Typed, Fresh, Filtering, SameTables
  <2>2. \A set : set = {} => Divide(set)'
    BY <2>1, ListOfNone, DivideNext
  <2>3. Read' = {}
    BY <2>1 DEF Read
  <2> QED BY <2>1, <2>2, <2>3 DEF AsGrouped
<1>4. CASE GroupRow
  BY <1>4, GroupRowDivides DEF AsGrouped, GroupRow, AtRow
<1>5. CASE EndGroups
  <2>1. /\ stage = "group" /\ stage' = "groups" /\ pos = Len(rows) /\ DOMAIN rows = 1 .. Len(rows)
        /\ SameTables /\ groups' = groups
    BY <1>5, TypeFacts DEF EndGroups, AtEnd, SameTables, Typed
  <2>2. Read = Chosen
    BY <2>1 DEF Read, AsKept, Later, Lists
  <2>3. Divide(Chosen)'
    BY <2>1, <2>2, SameDivide, SameChosen DEF AsGrouped
  <2> QED BY <2>1, <2>3 DEF AsGrouped
<1>6. CASE ProjectNextGroup
  <2>1. stage = "groups" /\ stage' = "groups" /\ SameTables /\ groups' = groups
    BY <1>6 DEF ProjectNextGroup, SameTables
  <2> QED BY <2>1, SameDivide, SameChosen DEF AsGrouped
<1>7. CASE RefuseQuery \/ RefuseJoin \/ RowFails \/ SortFails
  BY <1>2, <1>7 DEF RefuseQuery, RefuseJoin, RowFails, SortFails, Abandon
<1>8. CASE LoadTable \/ EndProjection \/ SortRows \/ Truncate \/ ProjectNextRow
  BY <1>2, <1>8 DEF LoadTable, EndProjection, SortRows, Truncate, ProjectNextRow, AtRow
<1>9. CASE MatchRow \/ SkipRow \/ EndRow \/ EndJoin \/ FilterRow
  BY <1>2, <1>9 DEF MatchRow, SkipRow, EndRow, EndJoin, FilterRow, Compares, Joining, Filtering
<1> QED BY <1>1, <1>3, <1>4, <1>5, <1>6, <1>7, <1>8, <1>9 DEF Next

LEMMA GroupedHolds == Spec => []AsGrouped
<1>1. Init => AsGrouped
  BY DEF Init, AsGrouped
<1>2. Kept /\ AsGrouped /\ [Next]_vars => AsGrouped'
  BY GroupedNext DEF Kept
<1> QED BY <1>1, <1>2, KeptHolds, PTL DEF Spec

\* Whatever keys rows have, the groups divide the rows kept: every tuple is in
\* the one group with its key, and groups come in the order of their first
\* members (group_by).
THEOREM RowsAreGrouped == Spec => []GroupsDivide
<1>1. AsGrouped => GroupsDivide
  BY DEF AsGrouped, GroupsDivide
<1> QED BY <1>1, GroupedHolds, PTL

-----------------------------------------------------------------------------
(***************************************************************************)
(* The answer has the projections: first as they come, then in a stable    *)
(* order, then cut.                                                        *)
(***************************************************************************)
OutIs(n) == Len(out) = n /\ \A i \in 1 .. n : out[i] = Projected[i]

Arranged(values) ==
  \E sel \in [DOMAIN values -> DOMAIN values] :
    /\ rows = [r \in DOMAIN values |-> values[sel[r]]]
    /\ \A r, s \in DOMAIN values : sel[r] = sel[s] => r = s
    /\ IsWeakOrder(values) =>
         \A r, s \in DOMAIN values : r < s => StaysBefore(values, sel[r], sel[s])

AsProjected ==
  /\ stage = "group" => Grouped /\ out = <<>>
  /\ stage = "groups" => Grouped /\ OutIs(pos)
  /\ stage = "project" => ~Grouped /\ OutIs(pos)
  /\ stage = "order" => rows = Projected
  /\ stage = "limit" => Arranged(Projected)
  /\ stage = "done" => TakenFrom(Projected)

LEMMA SameProjected ==
  ASSUME UNCHANGED <<query, groups, kept>>
  PROVE  Projected' = Projected /\ Grouped' = Grouped
<1>1. Grouped' = Grouped
  BY DEF Grouped
<1>2. \A g : AnswerOf(g)' = AnswerOf(g)
  BY DEF AnswerOf, MembersOf
<1> QED BY <1>1, <1>2 DEF Projected

\* No two rows are projected from the same ones.
LEMMA ProjectedShape ==
  ASSUME Typed, AsKept, stage \in Later
  PROVE  /\ IsList(Projected) /\ Len(Projected) = (IF Grouped THEN Len(groups) ELSE Len(kept))
         /\ Len(Projected) \in Nat /\ DOMAIN Projected = 1 .. Len(Projected)
         /\ \A i, j \in DOMAIN Projected : Projected[i] = Projected[j] => i = j
<1>1. /\ Len(groups) \in Nat /\ DOMAIN groups = 1 .. Len(groups)
      /\ Len(kept) \in Nat /\ DOMAIN kept = 1 .. Len(kept)
      /\ \A i \in DOMAIN kept : kept[i].from \in Seq(Nat)
  BY TypeFacts, TypeParts, ListShape DEF Typed, RowsTyped, AreSourced
<1>2. CASE Grouped
  <2>1. Projected = [g \in 1 .. Len(groups) |-> [row |-> AnswerOf(g), from |-> <<g>>]]
    BY <1>1, <1>2 DEF Projected
  <2>2. Projected = [g \in 1 .. Len(groups) |-> Projected[g]]
    BY <2>1
  <2>3. IsList(Projected) /\ Len(Projected) = Len(groups)
    BY <1>1, <2>2, ListFrom
  <2>4. DOMAIN Projected = 1 .. Len(Projected)
    BY <2>3, ListShape
  <2>5. ASSUME NEW i \in DOMAIN Projected, NEW j \in DOMAIN Projected, Projected[i] = Projected[j]
        PROVE  i = j
    <3>1. Projected[i].from = <<i>> /\ Projected[j].from = <<j>>
      BY <2>1, <2>3, <2>4
    <3>2. <<i>>[1] = i /\ <<j>>[1] = j
      OBVIOUS
    <3>3. <<i>> = <<j>>
      BY <2>5, <3>1
    <3> QED BY <3>2, <3>3
  <2> QED BY <1>1, <1>2, <2>3, <2>4, <2>5
<1>3. CASE ~Grouped
  <2>1. Projected = [i \in 1 .. Len(kept) |->
                       [row |-> ProjectRow(query.items, kept[i].row), from |-> kept[i].from]]
    BY <1>1, <1>3 DEF Projected
  <2>2. Projected = [i \in 1 .. Len(kept) |-> Projected[i]]
    BY <2>1
  <2>3. IsList(Projected) /\ Len(Projected) = Len(kept)
    BY <1>1, <2>2, ListFrom
  <2>4. DOMAIN Projected = 1 .. Len(Projected)
    BY <2>3, ListShape
  <2>5. ASSUME NEW i \in DOMAIN Projected, NEW j \in DOMAIN Projected, Projected[i] = Projected[j]
        PROVE  i = j
    <3>1. kept[i].from = kept[j].from /\ i \in DOMAIN kept /\ j \in DOMAIN kept
      BY <1>1, <2>1, <2>3, <2>4, <2>5
    <3>2. /\ i < j => Earlier(kept[i].from, kept[j].from)
          /\ j < i => Earlier(kept[j].from, kept[i].from)
      BY <3>1 DEF AsKept, Lists
    <3>3. ~(i < j) /\ ~(j < i)
      BY <1>1, <3>1, <3>2, EarlierDiffers
    <3> QED BY <1>1, <3>1, <3>3
  <2> QED BY <1>1, <1>3, <2>3, <2>4, <2>5
<1> QED BY <1>2, <1>3

LEMMA ProjectOne ==
  ASSUME Typed, AsKept, AsProjected, ProjectNextGroup \/ ProjectNextRow
  PROVE  AsProjected'
<1>1. /\ stage \in {"groups", "project"} /\ stage' = stage /\ pos' = pos + 1 /\ OutIs(pos)
      /\ pos < (IF stage = "groups" THEN Len(groups) ELSE Len(rows))
      /\ (stage = "groups" <=> Grouped) /\ UNCHANGED <<query, groups, kept>>
  BY DEF ProjectNextGroup, ProjectNextRow, AtRow, AsProjected
<1>2. /\ pos \in Nat /\ IsList(out) /\ Len(groups) \in Nat /\ DOMAIN groups = 1 .. Len(groups)
      /\ Len(rows) \in Nat /\ DOMAIN rows = 1 .. Len(rows)
  BY TypeFacts, TypeParts DEF Typed, RowsTyped, AreSourced
<1>3. out' = Append(out, Projected[pos + 1])
  <2>1. CASE stage = "groups"
    <3>1. pos + 1 \in DOMAIN groups
      BY <1>1, <1>2, <2>1
    <3>2. Projected[pos + 1] = [row |-> AnswerOf(pos + 1), from |-> <<pos + 1>>]
      BY <1>1, <2>1, <3>1 DEF Projected
    <3> QED BY <2>1, <3>2 DEF ProjectNextGroup, ProjectNextRow, AtRow
  <2>2. CASE stage = "project"
    <3>1. rows = kept /\ pos + 1 \in DOMAIN kept
      BY <1>1, <1>2, <2>2 DEF AsKept
    <3>2. Projected[pos + 1] =
            [row |-> ProjectRow(query.items, Current.row), from |-> Current.from]
      BY <1>1, <2>2, <3>1 DEF Projected, Current
    <3> QED BY <2>2, <3>2 DEF ProjectNextGroup, ProjectNextRow
  <2> QED BY <1>1, <2>1, <2>2
<1>4. Len(out') = pos + 1 /\ \A i \in 1 .. pos + 1 : out'[i] = Projected[i]
  <2>1. /\ Len(out') = Len(out) + 1 /\ out'[Len(out) + 1] = Projected[pos + 1]
        /\ \A i \in 1 .. Len(out) : out'[i] = out[i]
    BY <1>2, <1>3, ListAppend
  <2>2. \A i \in 1 .. pos + 1 : i \in 1 .. pos \/ i = pos + 1
    BY <1>2
  <2> QED BY <1>1, <2>1, <2>2 DEF OutIs
<1>5. OutIs(pos)'
  BY <1>1, <1>4, SameProjected DEF OutIs
<1> QED BY <1>1, <1>5, SameProjected DEF AsProjected

LEMMA ProjectAllDone ==
  ASSUME Typed, AsKept, AsProjected, EndProjection
  PROVE  AsProjected'
<1>1. /\ stage \in {"groups", "project"} /\ stage' = "order" /\ rows' = out /\ OutIs(pos)
      /\ pos = (IF stage = "groups" THEN Len(groups) ELSE Len(rows))
      /\ (stage = "groups" <=> Grouped) /\ UNCHANGED <<query, groups, kept>>
  BY DEF EndProjection, AtEnd, AsProjected
<1>2. pos = Len(Projected) /\ IsList(Projected)
  BY <1>1, ProjectedShape DEF Later, AsKept
<1>3. IsList(out)
  BY TypeParts DEF Typed, RowsTyped, AreSourced
<1>4. out = Projected
  BY <1>1, <1>2, <1>3, ListEqual DEF OutIs
<1> QED BY <1>1, <1>4, SameProjected DEF AsProjected

LEMMA SortArranges ==
  ASSUME Typed, AsProjected, SortRows
  PROVE  AsProjected'
<1>1. /\ stage = "order" /\ stage' = "limit" /\ rows = Projected
      /\ UNCHANGED <<query, groups, kept>>
  BY DEF SortRows, AsProjected
<1> DEFINE P == Projected
<1>2. PICK sel \in [DOMAIN P -> DOMAIN P] :
        /\ rows' = [r \in DOMAIN P |-> P[sel[r]]]
        /\ \A r, s \in DOMAIN P : sel[r] = sel[s] => r = s
        /\ IsWeakOrder(P) => \A r, s \in DOMAIN P : r < s => StaysBefore(P, sel[r], sel[s])
  BY <1>1, SortPicks
<1>3. P' = P
  BY <1>1, SameProjected
<1> HIDE DEF P
<1>4. Arranged(P)'
  BY <1>1, <1>2, <1>3 DEF Arranged, IsWeakOrder, StaysBefore
<1>5. Arranged(Projected)'
  BY <1>4 DEF P
<1> QED BY <1>1, <1>5 DEF AsProjected

\* A place for each element is an element for each place.
LEMMA EveryPlaceTaken ==
  ASSUME NEW n \in Nat, NEW sel \in [1 .. n -> 1 .. n],
         \A r, s \in 1 .. n : sel[r] = sel[s] => r = s
  PROVE  \A i \in 1 .. n : \E r \in 1 .. n : sel[r] = i
<1> DEFINE D == 1 .. n
<1>1. IsFiniteSet(D)
  BY FS_Interval
<1> HIDE DEF D
<1>2. sel \in Injection(D, D)
  BY DEF Injection, IsInjective, D
<1>3. sel \in Surjection(D, D)
  BY <1>1, <1>2, FS_Injection
<1> QED BY <1>3 DEF Surjection, D

LEMMA CutTakes ==
  ASSUME Typed, AsKept, AsProjected, Truncate
  PROVE  AsProjected'
<1>1. /\ stage = "limit" /\ stage' = "done" /\ Arranged(Projected)
      /\ UNCHANGED <<query, groups, kept>>
  BY DEF Truncate, AsProjected
<1> DEFINE P == Projected
           n == Len(P)
<1>2. /\ n \in Nat /\ DOMAIN P = 1 .. n /\ IsList(P)
      /\ \A i, j \in 1 .. n : P[i] = P[j] => i = j
  BY <1>1, ProjectedShape DEF Later
<1>3. PICK sel \in [1 .. n -> 1 .. n] :
        /\ rows = [r \in 1 .. n |-> P[sel[r]]]
        /\ \A r, s \in 1 .. n : sel[r] = sel[s] => r = s
        /\ IsWeakOrder(P) => \A r, s \in 1 .. n : r < s => StaysBefore(P, sel[r], sel[s])
  BY <1>1, <1>2 DEF Arranged
<1>4. Len(rows) = n
  <2>1. DOMAIN rows = 1 .. n /\ DOMAIN rows = 1 .. Len(rows) /\ Len(rows) \in Nat
    BY <1>3, TypeFacts DEF Typed
  <2> HIDE DEF n
  <2> QED BY <1>2, <2>1
<1>5. P' = P
  BY <1>1, SameProjected
<1> HIDE DEF P, n
<1>6. \A i \in 1 .. n : \E r \in 1 .. n : sel[r] = i
  BY <1>2, <1>3, EveryPlaceTaken
<1> DEFINE m == CutTo(n)
<1>7. /\ m \in 0 .. n /\ Len(rows') = m /\ DOMAIN rows' = 1 .. m
      /\ \A r \in 1 .. m : rows'[r] = P[sel[r]] /\ r \in 1 .. n
  <2>1. /\ m \in 0 .. n /\ Len(rows') = m /\ DOMAIN rows' = 1 .. m
        /\ \A r \in 1 .. m : rows'[r] = rows[r]
    BY <1>4, CutRows
  <2> HIDE DEF m
  <2>2. \A r \in 1 .. m : r \in 1 .. n
    BY <1>2, <2>1
  <2> QED BY <1>3, <2>1, <2>2
<1> HIDE DEF m
<1>8. ASSUME NEW r \in 1 .. m
      PROVE  rows'[r] \in Range(P) /\ rows'[r] \notin {rows'[q] : q \in 1 .. r - 1}
  <2>1. rows'[r] \in Range(P)
    BY <1>2, <1>7, <1>8 DEF Range
  <2>2. ASSUME NEW q \in 1 .. r - 1 PROVE rows'[q] # rows'[r]
    <3>1. q \in 1 .. m /\ q # r
      BY <1>7, <1>8, <2>2
    <3> QED BY <1>2, <1>3, <1>7, <1>8, <3>1
  <2> QED BY <2>1, <2>2
<1>9. ASSUME IsWeakOrder(P), NEW k \in 1 .. n, NEW i \in 1 .. n, NEW r \in 1 .. m,
             P[k] = rows'[r], P[i] \notin {rows'[q] : q \in 1 .. r}
      PROVE  StaysBefore(P, k, i)
  <2>1. k = sel[r] /\ r \in 1 .. n
    BY <1>2, <1>7, <1>9
  <2>2. PICK s \in 1 .. n : sel[s] = i
    BY <1>6
  <2>3. s \notin 1 .. r
    <3>1. SUFFICES ASSUME s \in 1 .. r PROVE FALSE
      OBVIOUS
    <3>2. s \in 1 .. m
      BY <1>7, <3>1
    <3> QED BY <1>7, <1>9, <2>2, <3>1, <3>2
  <2>4. r < s
    BY <1>9, <2>1, <2>3
  <2> QED BY <1>3, <1>9, <2>1, <2>2, <2>4
<1>10. TakenFrom(P)'
  <2>1. /\ CutTo(Len(P))' = m /\ IsWeakOrder(P)' = IsWeakOrder(P) /\ (DOMAIN P)' = 1 .. n
        /\ \A i, j : StaysBefore(P, i, j)' <=> StaysBefore(P, i, j)
    BY <1>1, <1>2, <1>5 DEF CutTo, IsWeakOrder, StaysBefore, m, n
  <2> QED BY <1>5, <1>7, <1>8, <1>9, <2>1 DEF TakenFrom, PlacedUpTo
<1>11. TakenFrom(Projected)'
  BY <1>10 DEF P
<1> QED BY <1>1, <1>11 DEF AsProjected

LEMMA ProjectedNext ==
  ASSUME Typed, AsKept, AsProjected, [Next]_vars
  PROVE  AsProjected'
<1>1. CASE UNCHANGED vars
  <2>1. Projected' = Projected /\ Grouped' = Grouped /\ UNCHANGED <<query, stage, pos, out, rows>>
    BY <1>1, SameProjected DEF vars
  <2>2. (OutIs(pos) => OutIs(pos)') /\ (Arranged(Projected) => Arranged(Projected)')
    BY <2>1 DEF OutIs, Arranged, IsWeakOrder, StaysBefore
  <2>3. TakenFrom(Projected) => TakenFrom(Projected)'
    BY <2>1 DEF TakenFrom, PlacedUpTo, CutTo, IsWeakOrder, StaysBefore
  <2> QED BY <2>1, <2>2, <2>3 DEF AsProjected
<1>2. ASSUME stage' \notin Later PROVE AsProjected'
  BY <1>2 DEF AsProjected, Later
<1>3. CASE LoadTable \/ RefuseQuery \/ RefuseJoin \/ RowFails \/ SortFails
  BY <1>2, <1>3 DEF LoadTable, RefuseQuery, RefuseJoin, RowFails, SortFails, Abandon, Later
<1>4. CASE MatchRow \/ SkipRow \/ EndRow \/ EndJoin \/ FilterRow
  BY <1>2, <1>4 DEF MatchRow, SkipRow, EndRow, EndJoin, FilterRow, Compares, Joining, Filtering, Later
<1>5. CASE EndFilter \/ EndGroups
  <2>1. /\ pos' = 0 /\ out' = <<>> /\ Grouped' = Grouped
        /\ \/ stage' = "groups" /\ Grouped
           \/ stage' = (IF Grouped THEN "group" ELSE "project")
    BY <1>5 DEF EndFilter, EndGroups, AtEnd, AsProjected, Grouped
  <2>2. OutIs(pos)'
    BY <2>1, ListOfNone DEF OutIs
  <2> QED BY <2>1, <2>2 DEF AsProjected
<1>6. CASE GroupRow
  BY <1>6 DEF GroupRow, AtRow, AsProjected, Grouped
<1> QED
  BY <1>1, <1>3, <1>4, <1>5, <1>6, ProjectOne, ProjectAllDone, SortArranges, CutTakes DEF Next

\* Whatever projection and comparison do, the answer has each row kept, or each
\* group, at most once, as projected; if the comparison orders them, ties are as
\* they were, and what LIMIT cuts sorts last (sort_by, execute_query).
THEOREM AnswersAreInOrder == Spec => []AnswersInOrder
<1>1. Init => AsProjected
  BY DEF Init, AsProjected
<1>2. Kept /\ AsProjected /\ [Next]_vars => AsProjected'
  BY ProjectedNext DEF Kept
<1>3. AsProjected => AnswersInOrder
  BY DEF AsProjected, AnswersInOrder
<1> QED BY <1>1, <1>2, <1>3, KeptHolds, PTL DEF Spec

=============================================================================
