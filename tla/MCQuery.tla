------------------------------ MODULE MCQuery -------------------------------
(***************************************************************************)
(* Small queries over one to three tables of up to four rows, and what     *)
(* SQL says they answer.                                                   *)
(***************************************************************************)
EXTENDS SqlOps

MCCollation == <<"", "-", "1", "10", "2", "5", "9", "false", "true", "x">>
MCNumerals  == [t \in {"1", "10", "2", "5", "9"} |->
                  CASE t = "1" -> 1 [] t = "10" -> 10 [] t = "2" -> 2 [] t = "5" -> 5 [] t = "9" -> 9]
MCSpelling  == [n \in -200 .. 200 |->
                  CASE n = 1 -> "1" [] n = 2 -> "2" [] n = 5 -> "5" [] n = 9 -> "9"
                    [] n = 10 -> "10" [] OTHER -> "-"]

Long(n) == Number("int", n)
Col(table, name) == [expr |-> "column", table |-> table, name |-> name]
Lit(v) == [expr |-> "literal", value |-> v]
Bin(op, l, r) == [expr |-> "binary", op |-> op, left |-> l, right |-> r]
Agg(function, arg) == [expr |-> "aggregate", function |-> function, arg |-> arg]
Item(e, name) == [expr |-> e, name |-> name]
Star == Item(Wildcard, "")

\* Tables: b repeats a key of a, c has rows without one, and numbers as texts.
TableA == << "id" :> Long(1) @@ "x" :> Long(9), "id" :> Long(2) @@ "x" :> Long(10),
             "id" :> Long(1) @@ "x" :> Null, "id" :> Long(1) @@ "x" :> Long(10) >>
TableB == << "id" :> Text("1") @@ "y" :> Long(2), "id" :> Long(1) @@ "y" :> Text("x"),
             "id" :> Null @@ "y" :> Number("float", 2) >>
TableC == << "z" :> Text("x"), "z" :> Long(2) @@ "id" :> Long(2) >>
Mixed  == << "id" :> Long(1) @@ "x" :> Long(9), "id" :> Long(2) @@ "x" :> Text("5"),
             "x" :> Long(10), "id" :> Bool(TRUE) @@ "x" :> Number("decimal", 10) >>
AllTables ==
  {"a" :> TableA @@ "b" :> TableB @@ "c" :> TableC,
   "a" :> TableB @@ "b" :> TableC,
   "sales" :> Mixed @@ "input" :> TableB,
   "a" :> <<>> @@ "b" :> TableA @@ "c" :> TableB}

Table(name, alias) == [name |-> name, alias |-> alias]
JoinOn(kind, table, on) == [kind |-> kind, table |-> table, on |-> on]

A == Table("a", "")
B == Table("b", "")
C == Table("c", "t")
OnIds == Bin("=", Col("a", "id"), Col("b", "id"))
Froms ==
  {[from |-> A, joins |-> <<>>], [from |-> Table("sale", "sales"), joins |-> <<>>],
   [from |-> Table("nothing", ""), joins |-> <<>>]}
  \union {[from |-> A, joins |-> <<JoinOn(kind, B, on)>>] :
            kind \in {"inner", "left"},
            on \in {OnIds, Bin(">=", Col("b", "y"), Col("", "x")), Bin("and", OnIds, Col("", "y")),
                    Bin("+", Col("b", "y"), Col("", "x"))}}
  \union {[from |-> A, joins |-> <<JoinOn("other", B, OnIds)>>]}
  \union {[from |-> A, joins |-> <<JoinOn(k1, B, OnIds), JoinOn(k2, C, on)>>] :
            k1 \in {"inner", "left"}, k2 \in {"inner", "left"},
            on \in {Bin("=", Col("t", "z"), Col("b", "y")), Bin("=", Col("", "y"), Col("", "z")),
                    Bin("=", Col("b", "id"), Col("t", "id"))}}

Wheres == {Lit(Bool(TRUE)), Bin(">", Col("", "x"), Lit(Long(5))), Bin("=", Col("b", "y"), Lit(Long(2))),
           Bin("or", Col("a", "x"), Bin("+", Col("b", "y"), Lit(Long(1)))),
           Bin("<>", Col("t", "id"), Lit(Null))}

Id == Item(Col("", "id"), "id")
X  == Item(Col("", "x"), "x")
Y  == Item(Col("", "y"), "y")
Count == Item(Agg("count", NoArgument), "count")
Total(function, column) == Item(Agg(function, Col("", column)), function)
Selections ==
  {<<Star>>, <<X>>, <<Item(Col("a", "x"), "x"), Item(Col("b", "y"), "y")>>,
   <<Item(Bin("-", Col("", "y"), Lit(Long(1))), "x"), X>>,
   <<Count>>}

\* ORDER BY and LIMIT.
Orderings ==
  {[order |-> <<>>, limit |-> 2],
   [order |-> <<[by |-> Col("", "x"), descending |-> FALSE]>>, limit |-> NoLimit],
   [order |-> <<[by |-> Col("", "y"), descending |-> TRUE],
                [by |-> Col("", "x"), descending |-> FALSE]>>, limit |-> 1]}

Statement(f) ==
  [supported |-> TRUE, from |-> f.from, joins |-> f.joins, where |-> Lit(Bool(TRUE)),
   items |-> <<Star>>, keys |-> <<>>, groupAll |-> FALSE, order |-> <<>>, orderable |-> TRUE,
   limit |-> NoLimit]

Plain ==
  {[Statement(f) EXCEPT !.where = w, !.items = items, !.order = o.order, !.limit = o.limit] :
     f \in Froms, w \in Wheres, items \in Selections, o \in Orderings}

GroupLists ==
  {[keys |-> <<Id.expr>>, items |-> <<Id, Count, Total("sum", "x"), Total("min", "x")>>],
   [keys |-> <<X.expr, Y.expr>>, items |-> <<X, Count>>],
   [keys |-> <<X.expr>>, items |-> <<X, Count, Total("max", "y")>>],
   [keys |-> <<Y.expr>>, items |-> <<Y, Total("sum", "x"), Count, Total("max", "x")>>],
   [keys |-> <<Bin("+", X.expr, Lit(Long(1)))>>, items |-> <<X, Total("sum", "x")>>],
   [keys |-> <<Y.expr>>, items |-> <<Star>>]}
Groupings ==
  {[Statement(f) EXCEPT !.where = w, !.keys = l.keys, !.items = l.items,
                        !.order = <<[by |-> Col("", "count"), descending |-> TRUE]>>, !.limit = 2] :
     f \in Froms, w \in Wheres, l \in GroupLists}

Odd ==
  {[Statement([from |-> A, joins |-> <<>>]) EXCEPT !.supported = FALSE],
   [Statement([from |-> A, joins |-> <<>>]) EXCEPT !.orderable = FALSE]}
  \union {[Statement(f) EXCEPT !.groupAll = TRUE, !.items = items] :
            f \in Froms, items \in {<<Count>>, <<Count, Total("sum", "x")>>, <<Star>>}}

AllQueries == Plain \union Groupings \union Odd

AllColumns == {"id", "x", "y", "z", "count", "sum", "min", "max"}
AllValues ==
  {Null} \union {Bool(b) : b \in BOOLEAN} \union {Text(t) : t \in ToSet(MCCollation)}
    \union [type: {"int", "float", "decimal"}, number: -200 .. 200]

MCQueries == AllQueries
MCTableSets == AllTables
MCColumns == AllColumns
MCValues == AllValues

-----------------------------------------------------------------------------
(***************************************************************************)
(* What SQL says.  The factors of FROM, in order; a tuple has a position   *)
(* in the rows of each, or 0 for a row of nulls.                           *)
(***************************************************************************)
Factors == <<query.from>> \o [j \in DOMAIN query.joins |-> query.joins[j].table]
Scope(k) == 1 .. k
Called(j) == CalledAs(Factors[j])
Has(j, name) == \E i \in DOMAIN TableRows(Factors[j]) : name \in DOMAIN TableRows(Factors[j])[i]

Cell(j, tuple, name) ==
  IF tuple[j] = 0 THEN Null ELSE Lookup(TableRows(Factors[j])[tuple[j]], name)

\* The factor a column belongs to, among the first k.
Owners(k, column) ==
  {j \in Scope(k) : IF column.table = "" THEN Has(j, column.name) ELSE Called(j) = column.table}

RECURSIVE Means(_, _)
Means(e, tuple) ==
  CASE e.expr = "column"  ->
         LET owners == Owners(Len(tuple), e)
         IN  IF owners = {} THEN Null ELSE Cell(Min(owners), tuple, e.name)
    [] e.expr = "literal" -> e.value
    [] e.expr = "binary"  -> Binary(e.op, Means(e.left, tuple), Means(e.right, tuple))
    [] OTHER              -> Failure

RECURSIVE TuplesOf(_)
TuplesOf(k) ==
  IF k = 1 THEN {<<i>> : i \in DOMAIN TableRows(query.from)}
  ELSE LET join == query.joins[k - 1]
           Matching(t) == {i \in DOMAIN TableRows(join.table) : Holds(Means(join.on, Append(t, i)))}
       IN  UNION {{Append(t, i) : i \in IF Matching(t) = {} /\ join.kind = "left" THEN {0}
                                        ELSE Matching(t)} : t \in TuplesOf(k - 1)}

Selected == {t \in TuplesOf(Len(Factors)) : Holds(Means(query.where, t))}

(***************************************************************************)
(* A column reads plainly where the code, which merges the rows of a join  *)
(* and forgets whose column is whose, can tell: no other table there is    *)
(* has a column of this name, or the name is qualified with the table that *)
(* is being joined.                                                        *)
(***************************************************************************)
RECURSIVE ColumnsIn(_)
ColumnsIn(e) ==
  CASE e.expr = "column" -> {e}
    [] e.expr = "binary" -> ColumnsIn(e.left) \union ColumnsIn(e.right)
    [] OTHER             -> {}

Sole(k, column) ==
  /\ Cardinality(Owners(k, column)) = 1
  /\ {j \in Scope(k) : Has(j, column.name)} \subseteq Owners(k, column)

ReadsPlainly(k, column) == column.table = Called(k) \/ Sole(IF column.table = "" THEN k ELSE k - 1, column)

PlainFrom ==
  /\ \A j \in DOMAIN query.joins : \A column \in ColumnsIn(query.joins[j].on) :
       ReadsPlainly(j + 1, column)
  /\ \A column \in ColumnsIn(query.where) : Sole(Len(Factors), column)

\* The rows that are kept are those SQL selects, in the order of the tables,
\* each once: for INNER and LEFT JOINs on any condition (RFC 16.4).
RowsAsSql ==
  stage \in {"group", "project"} /\ pos = 0 /\ PlainFrom =>
    /\ {kept[i].from : i \in DOMAIN kept} = Selected
    /\ \A i \in 1 .. Len(kept) - 1 : Earlier(kept[i].from, kept[i + 1].from)

\* The whole statement reads plainly.
Arguments(e) == IF e.expr = "aggregate" THEN ColumnsIn(e.arg) ELSE ColumnsIn(e)
PlainQuery ==
  /\ PlainFrom
  /\ \A e \in ToSet(query.keys) \union {query.items[i].expr : i \in DOMAIN query.items} :
       \A column \in Arguments(e) : Sole(Len(Factors), column)

\* What an item stands for in a group of tuples, where SQL and the code agree:
\* an aggregate of anything but numbers is left to the code.
Summable(e, peers) == \A t \in peers : IsNumber(Means(e.arg, t))
Figures(e, peers) == {Means(e.arg, t).number : t \in peers}
AgreesWith(value, e, peers) ==
  CASE e.expr # "aggregate" -> \E t \in peers : value = Means(e, t)
    [] e.expr = "aggregate" /\ e.function = "count" -> value = Number("int", Cardinality(peers))
    [] e.expr = "aggregate" /\ e.function # "count" ->
         Summable(e, peers) =>
           value = Number("float",
             CASE e.function = "sum" -> MapThenSumSet(LAMBDA t : Means(e.arg, t).number, peers)
               [] e.function = "min" -> Min(Figures(e, peers))
               [] e.function = "max" -> Max(Figures(e, peers)))

\* A grouped query answers one row for every distinct key of the selected
\* tuples, in the order in which the keys first occur, and its aggregates are
\* over all and only the tuples with that key.
GroupsAsSql ==
  stage = "order" /\ Grouped /\ PlainQuery =>
    LET KeyOfTuple(t) == [k \in DOMAIN query.keys |-> Means(query.keys[k], t)]
        Peers(t)  == {s \in Selected : KeyOfTuple(s) = KeyOfTuple(t)}
        Firsts    == {t \in Selected : \A s \in Peers(t) : s = t \/ Earlier(t, s)}
        Rank(t)   == Cardinality({s \in Firsts : Earlier(s, t)}) + 1
    IN  /\ Len(answers) = Cardinality(Firsts)
        /\ \A t \in Firsts : \A n \in DOMAIN query.items :
             AgreesWith(answers[Rank(t)].row[query.items[n].name], query.items[n].expr, Peers(t))

\* The expressions that give the columns of the answer their values.
Giving(name) ==
  IF query.items = <<Star>> THEN {Col("", name)}
  ELSE {query.items[i].expr : i \in {n \in DOMAIN query.items : query.items[n].name = name}}

Ranks == [k \in DOMAIN query.order |-> CHOOSE e \in Giving(query.order[k].by.name) : TRUE]

\* Sorting is by columns of the answer, as projection comes first.
PlainOrder ==
  /\ \A k \in DOMAIN query.order :
       /\ Cardinality(Giving(query.order[k].by.name)) = 1
       /\ \A column \in ColumnsIn(Ranks[k]) : Sole(Len(Factors), column)
  /\ IsWeakOrder(answers)

SortsBefore(s, t) ==
  \E k \in DOMAIN query.order :
    LET Smaller(j, u, v) == IF query.order[j].descending
                            THEN Less(Means(Ranks[j], v), Means(Ranks[j], u))
                            ELSE Less(Means(Ranks[j], u), Means(Ranks[j], v))
    IN  /\ Smaller(k, s, t)
        /\ \A j \in 1 .. k - 1 : ~Smaller(j, s, t) /\ ~Smaller(j, t, s)

Leads(s, t) == SortsBefore(s, t) \/ (~SortsBefore(t, s) /\ Earlier(s, t))

\* Without groups the answer is the selected tuples that sort first, as many as
\* LIMIT says, ties in table order, each column with its expression's value.
AnswerAsSql ==
  stage = "done" /\ ~Grouped /\ PlainQuery /\ PlainOrder =>
    LET first == {t \in Selected :
                    \/ query.limit = NoLimit
                    \/ Cardinality({s \in Selected : Leads(s, t)}) < query.limit}
    IN  /\ {rows[i].from : i \in DOMAIN rows} = first
        /\ \A i \in 1 .. Len(rows) - 1 : Leads(rows[i].from, rows[i + 1].from)
        /\ \A i \in DOMAIN rows, n \in DOMAIN query.items :
             Giving(query.items[n].name) = {query.items[n].expr} =>
               rows[i].row[query.items[n].name] = Means(query.items[n].expr, rows[i].from)

\* Wherever the code can tell whose column is meant, a statement keeps the rows,
\* forms the groups and gives the answer that SQL does.
StatementsAsSql == RowsAsSql /\ GroupsAsSql /\ AnswerAsSql

=============================================================================
