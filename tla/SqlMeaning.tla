------------------------------ MODULE SqlMeaning ------------------------------
(***************************************************************************)
(* What a query returns, by the rules of SQL, for the trees of Semantics:   *)
(* the reference that what semantics.go says of its outputs is held to.     *)
(* Tables and results are sets of rows; a value is <<n>>, and <<>> for NULL.*)
(***************************************************************************)
EXTENDS Semantics

CONSTANTS
  Catalog,     \* the columns tables really have: [name, type, nullable]
  Values,      \* what rows of tables are made of
  MaxRows      \* how many rows the tables hold together

VARIABLES
  database,    \* the rows of each table
  result       \* <<>>, and then <<what the query returns>>

vars == <<query, dialect, analysis, database, result>>

Null    == <<>>
Truth(b) == <<IF b THEN 1 ELSE 0>>
IsTrue(v) == v # Null /\ v[1] # 0
IsFalse(v) == v # Null /\ v[1] = 0

-------------------------------------------------------------------------------
(***************************************************************************)
(* An environment is a sequence of levels, the innermost first: relations,  *)
(* a row of each, the group of such rows it stands for, and aliases.        *)
(***************************************************************************)
Shape(name, columns) == [name |-> name, columns |-> columns]
At(shapes, row, group) == [shapes |-> shapes, row |-> row, group |-> group, aliases |-> <<>>]

Places(level, ref) ==
  {p \in (DOMAIN level.shapes) \X (1..3) :
     /\ Called(level.shapes[p[1]], ref.table)
     /\ p[2] \in DOMAIN level.shapes[p[1]].columns
     /\ level.shapes[p[1]].columns[p[2]] = ref.column}

RECURSIVE Lookup(_, _)
Lookup(ref, env) ==
  LET level == env[1]
      places == Places(level, ref)
      place == CHOOSE p \in places : TRUE
  IN  IF places # {} THEN level.row[place[1]][place[2]]
      ELSE IF ref.table = "" /\ ref.column \in DOMAIN level.aliases THEN level.aliases[ref.column]
      ELSE Lookup(ref, Tail(env))

\* Arithmetic gives a number or fails; which number does not matter here.
Apply(op, vs) ==
  LET null == \E i \in DOMAIN vs : vs[i] = Null
      v    == vs[1]
      Below(a, b) == a[1] <= b[1]
      Strict(w) == IF null THEN Null ELSE w
  IN  CASE op = "-" -> IF null THEN Null ELSE <<-v[1]>>
        [] op = "NOT" -> Strict(Truth(~IsTrue(v)))
        [] op = "=" -> Strict(Truth(v = vs[2]))
        [] op \in {"+", "/", "UPPER", "LENGTH", "FLOOR"} -> Strict(<<0>>)
        [] op = "AND" -> IF \E w \in Range(vs) : IsFalse(w) THEN Truth(FALSE) ELSE Strict(Truth(TRUE))
        [] op = "OR" -> IF \E w \in Range(vs) : IsTrue(w) THEN Truth(TRUE) ELSE Strict(Truth(FALSE))
        [] op = "BETWEEN" -> IF null THEN Null ELSE Truth(Below(vs[2], v) /\ Below(v, vs[3]))
        [] op = "IS NULL" -> Truth(v = Null)
        [] op = "CAST" -> v
        [] op = "TRY_CAST" -> Null
        [] op = "ABS" -> IF null THEN Null ELSE IF v[1] < 0 THEN <<-v[1]>> ELSE v
        [] op = "COALESCE" -> LET some == SelectSeq(vs, LAMBDA w : w # Null) IN IF some = <<>> THEN Null ELSE some[1]
        [] op = "NULLIF" -> IF v # Null /\ v = vs[2] THEN Null ELSE v
        [] op = "IF" -> IF IsTrue(v) THEN vs[2] ELSE vs[3]
        [] op = "CASE" ->
             LET chosen == {i \in 1..(Len(vs) \div 2) : IsTrue(vs[2 * i - 1])}
             IN  IF chosen # {} THEN vs[2 * Min(chosen)] ELSE IF Len(vs) % 2 = 1 THEN Last(vs) ELSE Null

\* value IN the others: true if one is equal, else null if one is not known.
InAny(v, others) ==
  IF others = {} THEN Truth(FALSE)
  ELSE IF v # Null /\ v \in others THEN Truth(TRUE)
  ELSE IF v = Null \/ Null \in others THEN Null ELSE Truth(FALSE)

\* Over the values of a group, with a copy for every row.
Aggregate(op, members, ValueIn(_)) ==
  LET given  == {m \in members : ValueIn(m) # Null}
      values == {ValueIn(m)[1] : m \in given}
  IN  CASE op = "COUNT" -> <<Cardinality(given)>>
        [] given = {} /\ op # "COUNT" -> Null
        [] given # {} /\ op = "SUM" -> <<FoldSet(LAMBDA m, sum : sum + ValueIn(m)[1], 0, given)>>
        [] given # {} /\ op \in {"MIN", "ANY_VALUE"} -> <<Min(values)>>

RECURSIVE Eval(_, _, _), Run(_, _, _), HasAggregate(_)
HasAggregate(e) == e.op \in Aggregates \/ \E a \in Range(e.args) : HasAggregate(a)

Eval(e, env, ctes) ==
  LET arg(i) == Eval(e.args[i], env, ctes)
      args   == [i \in DOMAIN e.args |-> arg(i)]
      rows   == Run(e.query[1], env, ctes).rows
      firsts == {r[1] : r \in rows}
  IN  CASE e.op = "column" -> Lookup(e.ref, env)
        [] e.op = "literal" -> <<e.value>>
        [] e.op = "null" -> Null
        [] e.op = "EXISTS" -> Truth(rows # {})
        [] e.op = "SUBQUERY" -> IF rows = {} THEN Null ELSE CHOOSE v \in firsts : TRUE
        [] e.op = "IN" -> InAny(args[1], Range(Tail(args)) \cup (IF e.query = <<>> THEN {} ELSE firsts))
        [] e.op \in Aggregates ->
             Aggregate(e.op, env[1].group,
                       LAMBDA m : Eval(e.args[1], <<At(env[1].shapes, m, {})>> \o Tail(env), ctes))
        [] OTHER -> Apply(e.op, args)

-------------------------------------------------------------------------------
(***************************************************************************)
(* FROM: shapes, and rows with a row of each                                *)
(***************************************************************************)
NullRow(shapes) == [i \in DOMAIN shapes |-> [k \in DOMAIN shapes[i].columns |-> Null]]

JoinRows(kind, left, right, On(_)) ==
  LET pairs   == {<<l, r>> \in left.rows \X right.rows : On(l \o r)}
      joined  == {p[1] \o p[2] : p \in pairs}
      lonelyL == {l \o NullRow(right.shapes) : l \in left.rows \ {p[1] : p \in pairs}}
      lonelyR == {NullRow(left.shapes) \o r : r \in right.rows \ {p[2] : p \in pairs}}
  IN  [shapes |-> left.shapes \o right.shapes,
       rows   |-> joined \cup (IF kind \in {"LEFT", "FULL"} THEN lonelyL ELSE {})
                         \cup (IF kind \in {"RIGHT", "FULL"} THEN lonelyR ELSE {})]

RECURSIVE ItemRows(_, _, _)
TableRows(t, env, ctes) ==
  FoldLeft(LAMBDA left, join :
             LET right == ItemRows(join.right, env, ctes)
             IN  JoinRows(join.kind, left, right,
                          LAMBDA row : IsTrue(Eval(join.on, <<At(left.shapes \o right.shapes, row, {})>> \o env, ctes))),
           ItemRows(t.primary, env, ctes), t.joins)

ItemRows(item, env, ctes) ==
  LET name == IF item.alias = "" THEN item.name ELSE item.alias
      Single(columns, rows) == [shapes |-> <<Shape(name, columns)>>, rows |-> {<<r>> : r \in rows}]
  IN  CASE item.kind = "table" /\ item.name \in DOMAIN ctes -> Single(ctes[item.name].columns, ctes[item.name].rows)
        [] item.kind = "table" /\ item.name \notin DOMAIN ctes -> Single(Names(Catalog[item.name]), database[item.name])
        [] item.kind = "derived" -> LET r == Run(item.query[1], env, ctes) IN Single(r.columns, r.rows)
        [] item.kind = "group" -> TableRows(item.items[1], env, ctes)

FromRows(from, env, ctes) ==
  FoldLeft(LAMBDA before, t : JoinRows("CROSS", before, TableRows(t, env, ctes), LAMBDA row : TRUE),
           [shapes |-> <<>>, rows |-> {<<>>}], from)

-------------------------------------------------------------------------------
(***************************************************************************)
(* Queries: the names of the columns, and the rows                          *)
(***************************************************************************)
StarPlaces(item, shapes) ==
  LET of == [i \in DOMAIN shapes |-> IF Called(shapes[i], item.of) THEN [k \in DOMAIN shapes[i].columns |-> <<i, k>>] ELSE <<>>]
  IN  SelectSeq(FlattenSeq(of), LAMBDA p : shapes[p[1]].columns[p[2]] \notin item.except)

Header(items, shapes) ==
  FlattenSeq([i \in DOMAIN items |->
    IF items[i].star
    THEN LET places == StarPlaces(items[i], shapes) IN [k \in DOMAIN places |-> shapes[places[k][1]].columns[places[k][2]]]
    ELSE <<ProjectionName(items[i])>>])

\* One row of the result, an alias being known to the projections after it.
OutputRow(items, level, env, ctes) ==
  LET One(state, item) ==
        LET places == StarPlaces(item, level.shapes)
            v      == Eval(item.expr, <<state.level>> \o env, ctes)
        IN  IF item.star THEN [state EXCEPT !.row = @ \o [k \in DOMAIN places |-> level.row[places[k][1]][places[k][2]]]]
            ELSE [row   |-> Append(state.row, v),
                  level |-> IF item.alias = "" \/ dialect \notin LateralAliases THEN state.level
                            ELSE [state.level EXCEPT !.aliases = [a \in DOMAIN @ \cup {item.alias} |-> IF a = item.alias THEN v ELSE @[a]]]]
  IN  FoldLeft(One, [row |-> <<>>, level |-> level], items).row

\* The groups of rows that give a row of the result each.
GroupsOf(q, rows, Level1(_), env, ctes) ==
  LET Key(row) == [i \in DOMAIN q.groupBy |-> Eval(q.groupBy[i], <<Level1(row)>> \o env, ctes)]
  IN  CASE q.groupBy # <<>> -> {{m \in rows : Key(m) = k} : k \in {Key(r) : r \in rows}}
        [] q.groupBy = <<>> /\ (\E i \in DOMAIN q.select : HasAggregate(q.select[i].expr)) -> {rows}
        [] OTHER -> {{r} : r \in rows}

SelectRows(q, env, ctes) ==
  LET source == FromRows(q.from, env, ctes)
      Level1(row) == At(source.shapes, row, {})
      rows == {r \in source.rows : \A w \in Range(q.where) : IsTrue(Eval(w, <<Level1(r)>> \o env, ctes))}
      groups == GroupsOf(q, rows, Level1, env, ctes)
      rowOf(g) == IF g = {} THEN NullRow(source.shapes) ELSE CHOOSE r \in g : TRUE
  IN  [columns |-> Header(q.select, source.shapes),
       rows    |-> {OutputRow(q.select, At(source.shapes, rowOf(g), g), env, ctes) : g \in groups}]

\* UNION, by position or by name.
Union(l, r, byName) ==
  LET columns == l.columns \o SelectSeq(r.columns, LAMBDA c : c \notin Range(l.columns))
      Under(row, names) == [i \in DOMAIN columns |->
        IF columns[i] \in Range(names) THEN row[CHOOSE k \in DOMAIN names : names[k] = columns[i]] ELSE Null]
  IN  IF byName THEN [columns |-> columns,
                      rows |-> {Under(row, l.columns) : row \in l.rows} \cup {Under(row, r.columns) : row \in r.rows}]
      ELSE [columns |-> l.columns, rows |-> l.rows \cup r.rows]

Run(q, env, ctes) ==
  LET Known(cs, cte) ==
        LET r == Run(cte.query, env, cs)
            columns == [i \in DOMAIN r.columns |-> IF i \in DOMAIN cte.columns THEN cte.columns[i] ELSE r.columns[i]]
        IN  [n \in DOMAIN cs \cup {cte.name} |-> IF n = cte.name THEN [r EXCEPT !.columns = columns] ELSE cs[n]]
      inside == FoldLeft(Known, ctes, q.with)
      left   == IF q.left = <<>> THEN SelectRows(q, env, inside) ELSE Run(q.left[1], env, inside)
  IN  IF q.right = <<>> THEN SelectRows(q, env, inside) ELSE Union(left, Run(q.right[1], env, inside), q.byName)

-------------------------------------------------------------------------------
(***************************************************************************)
(* A query is analysed with what is declared, then run on what there is     *)
(***************************************************************************)
RowsOf(table) ==
  LET columns == Catalog[table]
  IN  {row \in [DOMAIN columns -> {<<n>> : n \in Values} \cup {Null}] :
         \A i \in DOMAIN columns : IF row[i] = Null THEN columns[i].nullable ELSE Holds(columns[i].type, row[i][1])}

Init ==
  /\ SemanticsInit
  /\ database = [t \in DOMAIN Catalog |-> {}]
  /\ result = <<>>

Analyse == AnalyzeQuery /\ UNCHANGED <<database, result>>

Insert(table, row) ==
  /\ result = <<>> /\ analysis # <<>> /\ row \notin database[table]
  /\ MapThenSumSet(LAMBDA t : Cardinality(database[t]), DOMAIN database) < MaxRows
  /\ database' = [database EXCEPT ![table] = @ \cup {row}]
  /\ UNCHANGED <<query, dialect, analysis, result>>

RunQuery ==
  /\ result = <<>> /\ analysis # <<>>
  /\ result' = <<Run(query, <<>>, <<>>)>>
  /\ UNCHANGED <<query, dialect, analysis, database>>

Next == Analyse \/ RunQuery \/ \E t \in DOMAIN Catalog : \E row \in RowsOf(t) : Insert(t, row)

Spec == Init /\ [][Next]_vars

-------------------------------------------------------------------------------
Rows     == result[1].rows
Said     == analysis[1].output

\* A query and all queries in its CTEs, its FROM clause and its arms.
RECURSIVE QueriesIn(_), QueriesOf(_)
QueriesOf(item) ==
  UNION ({QueriesIn(q) : q \in Range(item.query)}
         \cup UNION {{QueriesOf(i) : i \in {t.primary} \cup {j.right : j \in Range(t.joins)}} : t \in Range(item.items)})
QueriesIn(q) ==
  {q} \cup UNION ({QueriesIn(cte.query) : cte \in Range(q.with)}
                  \cup {QueriesOf([TableAs("", "") EXCEPT !.items = q.from])}
                  \cup {QueriesIn(arm) : arm \in Range(q.left) \cup Range(q.right)})

\* A star over a table whose columns the schema does not have.
Undeclared(item) == item.kind = "table" /\ item.name \in DOMAIN Catalog \ DOMAIN Schema
HasOpenStar(q) ==
  \E b \in QueriesIn(q) :
    /\ \E i \in Range(b.select) : i.star
    /\ \E t \in Range(b.from) : Undeclared(t.primary) \/ \E j \in Range(t.joins) : Undeclared(j.right)

\* The two places where the analysis takes such a star for no columns: a CTE, of
\* which namesComplete is not kept, and an arm whose partner then stands alone.
CteIsOpen(q) == \E b \in QueriesIn(q) : \E cte \in Range(b.with) : HasOpenStar(cte.query)
ArmIsOpen(q) == \E b \in QueriesIn(q) : b.right # <<>> /\ HasOpenStar([b EXCEPT !.with = <<>>])

\* With a star over a table nobody declared, outputs have no places to speak of.
Answered == result # <<>> /\ Len(Said) = Len(result[1].columns) /\ ~CteIsOpen(query) /\ ~ArmIsOpen(query)

\* An output said to be non_null is NULL in no row, whatever the tables hold, and
\* however the query joins, groups, nests and unites them: the nullability that
\* semantics.go collects from the schema, joins and functions is a promise.
NullabilityIsSound ==
  Answered => \A i \in DOMAIN Said : Said[i].nullability = "non_null" => \A row \in Rows : row[i] # Null

\* An output of an integer type has only values that fit its width: coercion and
\* DuckDB's narrowing to a column's type choose no type that is too small.
ValuesFitTheirTypes ==
  Answered => \A i \in DOMAIN Said : \A row \in Rows : row[i] # Null => Holds(Said[i].type, row[i][1])

\* Output names said to be complete are the names of the result, in its order: a
\* wildcard over a table without schema, in the query, in a derived table or in an
\* arm, leaves them incomplete.  A CTE with such a wildcard does not
\* (semantics.go:91, 188), against what it should; CteIsOpen sets it apart.
NamesAreComplete ==
  result # <<>> /\ analysis[1].namesComplete /\ ~CteIsOpen(query) => Names(Said) = result[1].columns
===============================================================================
