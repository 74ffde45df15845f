------------------------------ MODULE RuleMeaning ------------------------------
(***************************************************************************)
(* What it takes for a block to have a result, by the rules of SQL: a block *)
(* is evaluated in stages, and an expression can be stuck in its stage, or  *)
(* have more than one value where rows have been grouped.  The reference    *)
(* that the rules of QueryRules are held to; which clause of which dialect  *)
(* sees aliases is taken from the code.                                     *)
(***************************************************************************)
EXTENDS QueryRules

CONSTANT
  Domain,   \* what columns hold
  MaxTable  \* how many rows a table holds

Stuck == <<>>
Some(v) == <<v>>
Number(b) == IF b THEN 1 ELSE 0

\* Where an expression is evaluated: one row of every table, the group of such
\* rows it stands for, the stage, the place of the expression and its locals.
\* A "row" has no groups yet, a "group" no windows.
Env(row, group, stage, place) == [row |-> row, group |-> group, stage |-> stage, place |-> place, locals |-> <<>>]

Columns(table) == Names(Schema[table])

\* The tables of one FROM item are joined from left to right.
Inputs(ref, place) ==
  {p \in (DOMAIN BlockTables) \X (1..3) :
     LET table == BlockTables[p[1]]
         item  == table.item
         join  == JoinedTables[place.index].at
     IN  /\ ref.table \in {"", IF item.alias = "" THEN item.name ELSE item.alias}
         /\ place.clause = "on" => table.at \in {join[1]} \X (0..join[2])
         /\ p[2] \in DOMAIN Columns(item.name) /\ Columns(item.name)[p[2]] = ref.column}

\* The projections whose aliases an expression in a place can name.
AliasesAt(place) ==
  CASE place.clause = "select" -> IF dialect \in LateralAliases THEN 1..(place.index - 1) ELSE {}
    [] place.clause = "group" /\ dialect = "PostgreSQL" /\ ~place.whole -> {}
    [] OTHER -> IF ClauseAllowsAliases(place.clause) THEN DOMAIN query.select ELSE {}

AliasNamed(ref, place) == {i \in AliasesAt(place) : ref.table = "" /\ query.select[i].alias = ref.column}

\* A whole item of ORDER BY is an output first, any other column an input.
Meant(ref, place) ==
  IF AliasNamed(ref, place) # {} /\ (Inputs(ref, place) = {} \/ (place.clause = "order" /\ place.whole))
  THEN [alias |-> AliasNamed(ref, place), input |-> {}]
  ELSE [alias |-> {}, input |-> Inputs(ref, place)]

Sum(values) == FoldLeft(LAMBDA sum, v : sum + v[1], 0, values)
AnyStuck(values) == \E i \in DOMAIN values : values[i] = Stuck

RECURSIVE Evaluate(_, _)
Evaluate(e, env) ==
  LET At(es, where) == [i \in DOMAIN es |-> Evaluate(es[i], where)]
      meant   == Meant(e.ref, env.place)
      args    == At(e.args, env)
      perRow  == {[env EXCEPT !.stage = "row", !.row = r, !.group = {}] : r \in env.group}
      members == [m \in perRow |-> At(e.args \o e.filter, m)]
      over    == At(e.args \o e.over, [env EXCEPT !.stage = "group"]) \o At(e.filter, [env EXCEPT !.stage = "row", !.group = {}])
  IN  CASE e.op = "literal" -> Some(e.value)
        [] e.op = "column" ->
             IF e.ref.table = "" /\ e.ref.column \in DOMAIN env.locals THEN Some(env.locals[e.ref.column])
             ELSE IF meant.alias # {}
             THEN LET i == CHOOSE k \in meant.alias : TRUE
                  IN  Evaluate(query.select[i].expr, [env EXCEPT !.place = Place("select", i, FALSE), !.locals = <<>>])
             ELSE IF Cardinality(meant.input) = 1 THEN LET p == CHOOSE q \in meant.input : TRUE IN Some(env.row[p[1]][p[2]])
             ELSE Stuck
        [] e.over # <<>> -> IF env.stage # "window" \/ AnyStuck(over) THEN Stuck ELSE Some(Sum([i \in DOMAIN over |-> <<i * over[i][1]>>]))
        [] e.over = <<>> /\ e.op \in WindowOnly -> Stuck
        [] e.over = <<>> /\ e.op \in Aggregates ->
             IF env.stage = "row" \/ (\E m \in perRow : AnyStuck(members[m])) THEN Stuck
             ELSE Some(MapThenSumSet(LAMBDA m : Sum(members[m]), perRow))
        [] e.op = "TRANSFORM" ->
             IF args[1] = Stuck THEN Stuck
             ELSE Evaluate(e.args[2], [env EXCEPT !.locals = [n \in DOMAIN @ \cup {e.local} |-> IF n = e.local THEN args[1][1] ELSE @[n]]])
        [] e.op = "()" -> args[1]
        [] e.op = "TUPLE" -> IF AnyStuck(args) THEN Stuck ELSE Some(args)
        [] e.op = "+" -> IF AnyStuck(args) THEN Stuck ELSE Some(Sum(args))
        [] e.op = "=" -> IF AnyStuck(args) THEN Stuck ELSE Some(Number(args[1] = args[2]))

-------------------------------------------------------------------------------
RECURSIVE Aggregating(_, _)
Aggregating(e, place) ==
  \/ e.over = <<>> /\ e.op \in Aggregates
  \/ e.op = "column" /\ \E i \in Meant(e.ref, place).alias : Aggregating(query.select[i].expr, Place("select", i, FALSE))
  \/ \E p \in Range(Parts(e)) : Aggregating(p.expr, place)

\* A number in GROUP BY or ORDER BY is the projection it counts.
Counted(item) == IF item.expr.op = "literal" /\ item.expr.value \in DOMAIN query.select THEN Projection(item.expr.value) ELSE item

\* The result of the block with the tables' rows, as what is asked of it: that
\* nothing is stuck, and that the rows of a group agree.
HasResult(tables) ==
  LET All(items, row, group, stage) ==
        [i \in DOMAIN items |-> Evaluate(Counted(items[i]).expr, Env(row, group, stage, Counted(items[i]).place))]
      PerRow(items, row) == [i \in DOMAIN items |-> Evaluate(items[i].expr, Env(row, {}, "row", items[i].place))]
      kept     == Clauses.on \o Clauses.where
      from     == {row \in [DOMAIN BlockTables -> UNION {tables[t] : t \in DOMAIN tables}] :
                     \A i \in DOMAIN BlockTables : row[i] \in tables[BlockTables[i].item.name]}
      rows     == {row \in from : \A v \in Range(PerRow(kept, row)) : v # Stuck /\ v[1] # 0}
      keys     == [row \in rows |-> All(Clauses.group, row, {}, "row")]
      grouping == \/ query.groupBy # <<>> \/ query.having # <<>>
                  \/ \E item \in Range(Clauses.select \o Clauses.qualify \o Clauses.order) : Aggregating(item.expr, item.place)
      groups   == IF ~grouping THEN {{row} : row \in rows}
                  ELSE IF query.groupBy = <<>> THEN {rows} ELSE {{row \in rows : keys[row] = k} : k \in Range(keys)}
      Outcome(row, group) ==
        All(Clauses.having, row, group, "group") \o All(Clauses.select \o Clauses.qualify \o Clauses.order, row, group, "window")
  IN  /\ \A row \in from : ~AnyStuck(PerRow(kept, row))
      /\ \A row \in rows : ~AnyStuck(keys[row])
      /\ \A group \in groups : \A row \in group : ~AnyStuck(Outcome(row, group))
      /\ dialect \notin {"SQLite", "MySQL"} =>
           \A group \in groups : \A r, s \in group : Outcome(r, group) = Outcome(s, group)

\* Only PostgreSQL relies on a key that is declared.
RowsOfTable(table) == [DOMAIN Schema[table] -> Domain]
KeyPlaces(columns, table) == {i \in DOMAIN Schema[table] : Columns(table)[i] \in columns}
Used == {BlockTables[i].item.name : i \in DOMAIN BlockTables}
TablesPossible ==
  {tables \in [Used -> UNION {kSubset(n, RowsOfTable(t)) : n \in 1..MaxTable, t \in Used}] :
     \A t \in Used :
       /\ tables[t] \subseteq RowsOfTable(t)
       /\ dialect = "PostgreSQL" /\ PrimaryKey[t] # {} =>
            \A r, s \in tables[t] : (\A i \in KeyPlaces(PrimaryKey[t], t) : r[i] = s[i]) => r = s}

-------------------------------------------------------------------------------
\* A block is accepted exactly if it has a result whatever its tables hold: its
\* names mean something where they stand, its aggregates have groups and its windows
\* a result to range over, and the rows of a group agree on what is shown, kept and
\* ordered by; through every alias, ordinal and lambda the block uses.  No error is
\* reported for nothing: there are rows with which such a block has no result.
AcceptedIfItHasAResult ==
  issues # <<>> => ((issues = <<{}>>) <=> \A tables \in TablesPossible : HasResult(tables))
===============================================================================
