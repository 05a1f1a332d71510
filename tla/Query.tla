-------------------------------- MODULE Query --------------------------------
(***************************************************************************)
(* execute_query of crates/shapeport-core/src/query.rs: one SELECT over    *)
(* tables in memory.  What expressions evaluate to is a parameter, defined *)
(* by SqlOps as the code does; here is what is done with the rows.  A row  *)
(* is a function from its columns to values.                               *)
(***************************************************************************)
EXTENDS Integers, Sequences, FiniteSets, SequencesExt

CONSTANTS
  Queries,             \* the parsed statements: records with supported (one SELECT,
                       \* no WITH), from, joins, where, items, keys, groupAll, order,
                       \* orderable (not ORDER BY ALL) and limit
  TableSets,           \* the registered tables: functions from names to sequences of rows
  Columns, Values,     \* all columns and values of tables
  OnHolds(_, _, _, _), \* eval_join_bool: expression, left row, right row, right name
  Selects(_, _),       \* eval_bool: expression, row (an error counts as false)
  GroupKey(_, _),      \* group_key: expressions, row -> key, or Failure
  ProjectRow(_, _),    \* project_row: items, row -> row, or Failure
  ProjectGroup(_, _),  \* project_group: items, rows -> row, or Failure
  Precedes(_, _, _)    \* the comparison of sort_by is Less: order, row, row

Failure  == [kind |-> "failure"]
NoLimit  == -1

VARIABLES
  query,   \* the statement
  tables,  \* the registered tables
  stage,   \* what is done next; at the end "done" or "failed"
  joined,  \* how many joins are done
  rows,    \* the rows so far
  pos,     \* how many of them were looked at in this stage
  compared, \* how many rows of the table to join the next of them was compared with
  matched, \* whether one of those matched
  out,     \* the rows this stage made
  groups,  \* the groups, in the order in which they were met
  kept,    \* the rows after WHERE (not in the code)
  answers  \* the rows before ORDER BY (not in the code)

vars == <<query, tables, stage, joined, rows, pos, compared, matched, out, groups, kept, answers>>
pair == <<compared, matched>>

Stages == {"from", "join", "group", "groups", "project", "order", "limit", "done", "failed"}

IsList(s) == s \in Seq(Range(s))
IsRow(row) == DOMAIN row \subseteq Columns /\ row \in [DOMAIN row -> Values]

ASSUME QueriesAssumption ==
  \A q \in Queries : IsList(q.joins) /\ q.limit \in Nat \union {NoLimit}

ASSUME TablesAssumption ==
  \A registered \in TableSets : \A name \in DOMAIN registered :
    /\ IsList(registered[name])
    /\ \A i \in DOMAIN registered[name] : IsRow(registered[name][i])

(***************************************************************************)
(* named_table_rows: a table is looked up by its name, by its alias, and   *)
(* is "input" if there is no such table.                                   *)
(***************************************************************************)
NameOf(factor) ==
  IF factor.name \in DOMAIN tables THEN factor.name
  ELSE IF factor.alias \in DOMAIN tables THEN factor.alias ELSE "input"
IsRegistered(factor) == NameOf(factor) \in DOMAIN tables
TableRows(factor) == tables[NameOf(factor)]

\* A row carries where it comes from: its position in each table it was made
\* of, 0 if there was no match (not in the code).
Current == rows[pos + 1]
AtRow(name) == stage = name /\ pos < Len(rows)
AtEnd(name) == stage = name /\ pos = Len(rows)

Abandon ==
  /\ stage' = "failed"
  /\ UNCHANGED <<query, tables, joined, rows, pos, pair, out, groups, kept, answers>>

-----------------------------------------------------------------------------
(* FROM and JOIN.                                                          *)
LoadTable ==
  /\ stage = "from" /\ query.supported /\ IsRegistered(query.from)
  /\ rows' = [i \in DOMAIN TableRows(query.from) |->
                [row |-> TableRows(query.from)[i], from |-> <<i>>]]
  /\ stage' = "join"
  /\ UNCHANGED <<query, tables, joined, pos, pair, out, groups, kept, answers>>

RefuseQuery ==
  /\ stage = "from" /\ ~(query.supported /\ IsRegistered(query.from))
  /\ Abandon

Joining == stage = "join" /\ joined < Len(query.joins)
Join == query.joins[joined + 1]

\* table_factor_name: the name a column is qualified by.
CalledAs(factor) == IF factor.alias # "" THEN factor.alias ELSE factor.name

\* merge_objects: the left row's columns win.
Merged(left, right) ==
  [column \in DOMAIN left \union DOMAIN right |->
     IF column \in DOMAIN left THEN left[column] ELSE right[column]]

CanJoin == IsRegistered(Join.table) /\ Join.kind # "other"

RefuseJoin == Joining /\ ~CanJoin /\ Abandon

\* eval_join_bool on the next left row and a right one.
MatchesWith(left, i) == OnHolds(Join.on, left, TableRows(Join.table)[i], CalledAs(Join.table))
Compares == Joining /\ CanJoin /\ pos < Len(rows) /\ compared < Len(TableRows(Join.table))
NextMatches == MatchesWith(Current.row, compared + 1)

\* Mutant: a match is merged with the first right row.
MatchWithFirst ==
  /\ Compares /\ NextMatches
  /\ out' = Append(out, [row  |-> Merged(Current.row, TableRows(Join.table)[1]),
                         from |-> Append(Current.from, compared + 1)])
  /\ matched' = TRUE /\ compared' = compared + 1
  /\ UNCHANGED <<query, tables, stage, joined, rows, pos, groups, kept, answers>>

MatchRow ==
  /\ Compares /\ NextMatches
  /\ out' = Append(out, [row  |-> Merged(Current.row, TableRows(Join.table)[compared + 1]),
                         from |-> Append(Current.from, compared + 1)])
  /\ matched' = TRUE /\ compared' = compared + 1
  /\ UNCHANGED <<query, tables, stage, joined, rows, pos, groups, kept, answers>>

SkipRow ==
  /\ Compares /\ ~NextMatches
  /\ compared' = compared + 1
  /\ UNCHANGED <<query, tables, stage, joined, rows, pos, matched, out, groups, kept, answers>>

\* A LEFT JOIN keeps a row that matched none.
EndRow ==
  /\ Joining /\ CanJoin /\ pos < Len(rows) /\ compared = Len(TableRows(Join.table))
  /\ out' = IF Join.kind = "left" /\ ~matched
            THEN Append(out, [row |-> Current.row, from |-> Append(Current.from, 0)]) ELSE out
  /\ pos' = pos + 1 /\ compared' = 0 /\ matched' = FALSE
  /\ UNCHANGED <<query, tables, stage, joined, rows, groups, kept, answers>>

\* Mutant: the next join starts where this one ended.
EndJoinKeepingPosition ==
  /\ Joining /\ CanJoin /\ pos = Len(rows)
  /\ rows' = out /\ out' = <<>> /\ pos' = pos
  /\ joined' = joined + 1
  /\ UNCHANGED <<query, tables, stage, pair, groups, kept, answers>>

EndJoin ==
  /\ Joining /\ CanJoin /\ pos = Len(rows)
  /\ rows' = out /\ out' = <<>> /\ pos' = 0
  /\ joined' = joined + 1
  /\ UNCHANGED <<query, tables, stage, pair, groups, kept, answers>>

-----------------------------------------------------------------------------
(* WHERE, GROUP BY and the select list.                                    *)

\* is_grouped: GROUP BY ALL has no keys, and groups if there is an aggregate.
Grouped ==
  \/ query.keys # <<>>
  \/ /\ query.groupAll
     /\ \E i \in DOMAIN query.items : query.items[i].expr.expr = "aggregate"

Filtering == stage = "join" /\ joined = Len(query.joins)

FilterRow ==
  /\ Filtering /\ pos < Len(rows)
  /\ out' = IF Selects(query.where, Current.row) THEN Append(out, Current) ELSE out
  /\ pos' = pos + 1
  /\ UNCHANGED <<query, tables, stage, joined, rows, pair, groups, kept, answers>>

EndFilter ==
  /\ Filtering /\ pos = Len(rows)
  /\ rows' = out /\ kept' = out /\ out' = <<>> /\ pos' = 0
  /\ stage' = IF Grouped THEN "group" ELSE "project"
  /\ UNCHANGED <<query, tables, joined, pair, groups, answers>>

GroupOf(key) == CHOOSE g \in DOMAIN groups : groups[g].key = key

\* Mutant: only neighbours with one key are put in one group.
GroupRowWithLast ==
  /\ AtRow("group")
  /\ GroupKey(query.keys, Current.row) # Failure
  /\ LET key  == GroupKey(query.keys, Current.row)
         last == Len(groups)
     IN  groups' = IF groups # <<>> /\ groups[last].key = key
                   THEN [groups EXCEPT ![last].members = Append(@, Current)]
                   ELSE Append(groups, [key |-> key, members |-> <<Current>>])
  /\ pos' = pos + 1
  /\ UNCHANGED <<query, tables, stage, joined, rows, pair, out, kept, answers>>

\* groups.entry(key).or_default().push(row)
GroupRow ==
  /\ AtRow("group")
  /\ GroupKey(query.keys, Current.row) # Failure
  /\ LET key == GroupKey(query.keys, Current.row)
     IN  groups' = IF \E g \in DOMAIN groups : groups[g].key = key
                   THEN [groups EXCEPT ![GroupOf(key)].members = Append(@, Current)]
                   ELSE Append(groups, [key |-> key, members |-> <<Current>>])
  /\ pos' = pos + 1
  /\ UNCHANGED <<query, tables, stage, joined, rows, pair, out, kept, answers>>

EndGroups ==
  /\ AtEnd("group")
  /\ stage' = "groups" /\ pos' = 0
  /\ UNCHANGED <<query, tables, joined, rows, pair, out, groups, kept, answers>>

MembersOf(g) == groups[g].members

RowsOf(members) == [i \in DOMAIN members |-> members[i].row]
AnswerOf(g) == ProjectGroup(query.items, RowsOf(MembersOf(g)))

ProjectNextGroup ==
  /\ stage = "groups" /\ pos < Len(groups)
  /\ AnswerOf(pos + 1) # Failure
  /\ out' = Append(out, [row |-> AnswerOf(pos + 1), from |-> <<pos + 1>>])
  /\ pos' = pos + 1
  /\ UNCHANGED <<query, tables, stage, joined, rows, pair, groups, kept, answers>>

ProjectNextRow ==
  /\ AtRow("project")
  /\ ProjectRow(query.items, Current.row) # Failure
  /\ out' = Append(out, [row |-> ProjectRow(query.items, Current.row), from |-> Current.from])
  /\ pos' = pos + 1
  /\ UNCHANGED <<query, tables, stage, joined, rows, pair, groups, kept, answers>>

RowFails ==
  /\ \/ AtRow("group") /\ GroupKey(query.keys, Current.row) = Failure
     \/ stage = "groups" /\ pos < Len(groups) /\ AnswerOf(pos + 1) = Failure
     \/ AtRow("project") /\ ProjectRow(query.items, Current.row) = Failure
  /\ Abandon

EndProjection ==
  /\ \/ AtEnd("project")
     \/ stage = "groups" /\ pos = Len(groups)
  /\ rows' = out /\ answers' = out /\ out' = <<>> /\ pos' = 0
  /\ stage' = "order"
  /\ UNCHANGED <<query, tables, joined, pair, groups, kept>>

-----------------------------------------------------------------------------
(* ORDER BY and LIMIT.                                                     *)

(***************************************************************************)
(* values_cmp is no order on every set of values: a text may lie between   *)
(* two numbers as a text and not as a number.  sort_by then leaves the     *)
(* rows in any order, or panics.                                           *)
(***************************************************************************)
IsWeakOrder(values) ==
  \A i, j, k \in DOMAIN values :
    LET Before(m, n) == Precedes(query.order, values[m].row, values[n].row)
    IN  /\ ~(Before(i, j) /\ Before(j, i))
        /\ Before(i, k) => Before(i, j) \/ Before(j, k)

\* A stable sort leaves row i before row j.
StaysBefore(values, i, j) ==
  \/ Precedes(query.order, values[i].row, values[j].row)
  \/ i < j /\ ~Precedes(query.order, values[j].row, values[i].row)

\* Mutant: rows that compare equal swap places.
SortedUnstably(values) ==
  LET Before(i, j) == \/ Precedes(query.order, values[i].row, values[j].row)
                      \/ j < i /\ ~Precedes(query.order, values[j].row, values[i].row)
  IN  [r \in DOMAIN values |->
         values[CHOOSE i \in DOMAIN values :
                  Cardinality({j \in DOMAIN values : Before(j, i)}) = r - 1]]

Sorted(values) ==
  [r \in DOMAIN values |->
     values[CHOOSE i \in DOMAIN values :
              Cardinality({j \in DOMAIN values : StaysBefore(values, j, i)}) = r - 1]]

Rearranged(values) ==
  {[r \in DOMAIN values |-> values[order[r]]] :
     order \in {f \in [DOMAIN values -> DOMAIN values] : IsInjective(f)}}

SortRows ==
  /\ stage = "order" /\ query.orderable
  /\ IF IsWeakOrder(rows) THEN rows' = Sorted(rows) ELSE rows' \in Rearranged(rows)
  /\ stage' = "limit"
  /\ UNCHANGED <<query, tables, joined, pos, pair, out, groups, kept, answers>>

\* ORDER BY ALL, and a comparison that is no order.
SortFails ==
  /\ stage = "order"
  /\ query.orderable => ~IsWeakOrder(rows)
  /\ Abandon

Truncate ==
  /\ stage = "limit"
  /\ rows' = IF query.limit = NoLimit \/ query.limit > Len(rows) THEN rows
             ELSE SubSeq(rows, 1, query.limit)
  /\ stage' = "done"
  /\ UNCHANGED <<query, tables, joined, pos, pair, out, groups, kept, answers>>

Init ==
  /\ query \in Queries
  /\ tables \in TableSets
  /\ stage = "from" /\ joined = 0
  /\ rows = <<>> /\ pos = 0 /\ compared = 0 /\ matched = FALSE
  /\ out = <<>> /\ groups = <<>> /\ kept = <<>> /\ answers = <<>>

Next ==
  \/ LoadTable \/ RefuseQuery
  \/ MatchRow \/ SkipRow \/ EndRow \/ EndJoin \/ RefuseJoin
  \/ FilterRow \/ EndFilter
  \/ GroupRow \/ EndGroups
  \/ ProjectNextGroup \/ ProjectNextRow \/ RowFails \/ EndProjection
  \/ SortRows \/ SortFails
  \/ Truncate

Spec == Init /\ [][Next]_vars

-----------------------------------------------------------------------------
(***************************************************************************)
(* Rows say where they come from, those made of tables have columns and    *)
(* values of tables, and no loop is past its end.                          *)
(***************************************************************************)
AreSourced(values) ==
  /\ IsList(values)
  /\ \A i \in DOMAIN values :
       DOMAIN values[i] = {"row", "from"} /\ values[i].from \in Seq(Nat)

AreMerged(values) == \A i \in DOMAIN values : IsRow(values[i].row)

TypeOK ==
  /\ query \in Queries /\ tables \in TableSets
  /\ stage \in Stages
  /\ joined \in 0 .. Len(query.joins)
  /\ \A values \in {rows, out, kept, answers} : AreSourced(values)
  /\ AreMerged(kept) /\ (stage \in {"join", "group", "project"} => AreMerged(rows))
  /\ stage = "join" => AreMerged(out)
  /\ IsList(groups)
  /\ \A g \in DOMAIN groups :
       /\ DOMAIN groups[g] = {"key", "members"}
       /\ AreSourced(MembersOf(g)) /\ AreMerged(MembersOf(g))
  /\ pos \in 0 .. (IF stage = "groups" THEN Len(groups) ELSE Len(rows))
  /\ compared \in Nat /\ matched \in BOOLEAN
  /\ compared # 0 => Joining /\ CanJoin /\ pos < Len(rows) /\ compared <= Len(TableRows(Join.table))

(***************************************************************************)
(* A tuple has a position in the rows of each of the first n tables, or 0  *)
(* where a LEFT JOIN found nothing.  The row it stands for has the columns *)
(* of all its rows; of two with one name, that of the earlier table.       *)
(***************************************************************************)
Factor(k) == IF k = 1 THEN query.from ELSE query.joins[k - 1].table
Positions(k) == DOMAIN TableRows(Factor(k))
Tuples(n) ==
  {t \in [1 .. n -> {0} \union UNION {Positions(k) : k \in 1 .. n}] :
     \A k \in 1 .. n : t[k] # 0 => t[k] \in Positions(k)}

RowAt(t, k) == TableRows(Factor(k))[t[k]]
Having(t, n, column) == {k \in 1 .. n : t[k] # 0 /\ column \in DOMAIN RowAt(t, k)}
RowOf(t, n) ==
  [column \in {c \in Columns : Having(t, n, c) # {}} |->
     RowAt(t, Min(Having(t, n, column)))[column]]

Meets(t, n, i) ==
  OnHolds(query.joins[n].on, RowOf(t, n), TableRows(Factor(n + 1))[i], CalledAs(Factor(n + 1)))

\* Every table is joined with what was joined before it.
JoinsAt(t, n) ==
  IF t[n + 1] = 0
  THEN query.joins[n].kind = "left" /\ \A i \in Positions(n + 1) : ~Meets(t, n, i)
  ELSE Meets(t, n, t[n + 1])
Combined(n) == {t \in Tuples(n) : t[1] # 0 /\ \A k \in 1 .. n - 1 : JoinsAt(t, k)}

Width == Len(query.joins) + 1
Chosen == {t \in Combined(Width) : Selects(query.where, RowOf(t, Width))}

\* Tuples in the order of the tables, the first table first.
Earlier(s, t) == \E k \in DOMAIN s : s[k] < t[k] /\ \A j \in 1 .. k - 1 : s[j] = t[j]

\* Rows are those of a set of tuples, each once, in this order.
Lists(values, set, n) ==
  /\ {values[i].from : i \in DOMAIN values} = set
  /\ \A i, j \in DOMAIN values : i < j => Earlier(values[i].from, values[j].from)
  /\ \A i \in DOMAIN values : values[i].row = RowOf(values[i].from, n)

(***************************************************************************)
(* Joins and WHERE, whatever the conditions are: the rows kept are those   *)
(* of the tuples every join combines and WHERE chooses, each once, in the  *)
(* order of the tables; no left row of a LEFT JOIN is lost, and none that  *)
(* matches comes without its match (equi_join, execute_query).             *)
(***************************************************************************)
KeptAsJoined == stage \in {"group", "project"} /\ pos = 0 => Lists(kept, Chosen, Width)

(***************************************************************************)
(* The groups divide the rows kept: each tuple is in the one group with    *)
(* its key, which has no others, and groups come in the order of their     *)
(* first members (group_by).                                               *)
(***************************************************************************)
KeyAt(t) == GroupKey(query.keys, RowOf(t, Width))
Divide(set) ==
  /\ \A g \in DOMAIN groups :
       /\ MembersOf(g) # <<>>
       /\ Lists(MembersOf(g), {t \in set : KeyAt(t) = groups[g].key}, Width)
  /\ \A t \in set : \E g \in DOMAIN groups : KeyAt(t) = groups[g].key
  /\ \A g, h \in DOMAIN groups : g < h =>
       /\ groups[g].key # groups[h].key
       /\ Earlier(MembersOf(g)[1].from, MembersOf(h)[1].from)
GroupsDivide == stage = "groups" /\ pos = 0 => Divide(Chosen)

(***************************************************************************)
(* The answer has the projections of the rows kept, or of the groups, one  *)
(* each; ORDER BY loses and repeats none and leaves ties as they were, and *)
(* LIMIT cuts what sorts last (project_or_group, sort_by, execute_query).  *)
(***************************************************************************)
Projected ==
  IF Grouped
  THEN [g \in DOMAIN groups |-> [row |-> AnswerOf(g), from |-> <<g>>]]
  ELSE [i \in DOMAIN kept |-> [row |-> ProjectRow(query.items, kept[i].row), from |-> kept[i].from]]

CutTo(n) == IF query.limit = NoLimit \/ query.limit > n THEN n ELSE query.limit

\* The rows placed up to r, and what must come after them.
PlacedUpTo(r) == {rows[q] : q \in 1 .. r}
TakenFrom(values) ==
  /\ Len(rows) = CutTo(Len(values))
  /\ \A r \in DOMAIN rows : rows[r] \in Range(values) /\ rows[r] \notin PlacedUpTo(r - 1)
  /\ IsWeakOrder(values) =>
       \A m, i \in DOMAIN values : \A r \in DOMAIN rows :
         values[m] = rows[r] /\ values[i] \notin PlacedUpTo(r) => StaysBefore(values, m, i)

AnswersInOrder == stage = "done" => TakenFrom(Projected)

=============================================================================
