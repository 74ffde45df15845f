------------------------------ MODULE QueryRules ------------------------------
(***************************************************************************)
(* What a validation says of one query block: semantic_rules.go, the        *)
(* aliases of lexical_expressions.go and validateBoundSchema of             *)
(* validation.go in pkg/golyglot, with a strict schema.  Each is a walk     *)
(* over the clauses of the block that goes on in the expression an alias    *)
(* stands for, where other aliases are visible.                             *)
(*                                                                          *)
(* The FROM clause is a list of declared tables, named apart; their columns *)
(* are bound by queryScope.resolve (NameBinding).  Expressions are trees    *)
(* without positions, so that an expression's text is the tree; GROUP BY    *)
(* ALL, grouping sets, named windows, LIMIT, raw expressions, and what      *)
(* selectScope says of the shape of a query are left out.                   *)
(***************************************************************************)
EXTENDS Semantics

CONSTANT PrimaryKey   \* the columns of each declared table's primary key

VARIABLE issues       \* <<>>, and then <<the codes of the errors reported>>

Binder == INSTANCE NameBinding

-------------------------------------------------------------------------------
(***************************************************************************)
(* What names mean                                                          *)
(***************************************************************************)
\* The tables of the block in order, each at its FROM item and its join there, and
\* the joins in the same order.
BlockTables ==
  FlattenSeq([i \in DOMAIN query.from |->
    <<[item |-> query.from[i].primary, at |-> <<i, 0>>]>>
    \o [j \in DOMAIN query.from[i].joins |-> [item |-> query.from[i].joins[j].right, at |-> <<i, j>>]]])
JoinedTables == SelectSeq(BlockTables, LAMBDA table : table.at[2] > 0)

\* Where an expression stands: its clause, its position there, and whether it is
\* the whole item.
Place(clause, index, whole) == [clause |-> clause, index |-> index, whole |-> whole]

\* The condition of a join sees the tables of its FROM item up to the join.
SeenFrom(place) ==
  LET join == JoinedTables[place.index]
  IN  {n \in DOMAIN BlockTables : place.clause = "on" => BlockTables[n].at[1] = join.at[1] /\ BlockTables[n].at[2] <= join.at[2]}

TableFacts(n) ==
  LET table == BlockTables[n].item.name
  IN  [id |-> n, name |-> table, alias |-> BlockTables[n].item.alias, known |-> table \in DOMAIN Schema,
       columns |-> IF table \in DOMAIN Schema THEN Names(Schema[table]) ELSE <<>>]

Visible(place) ==
  [coalesced |-> [c \in STRING |-> <<>>],
   relations |-> [n \in 1..Cardinality(SeenFrom(place)) |-> TableFacts(n + Min(SeenFrom(place)) - 1)]]

Bound(ref, place) == Binder!Resolve(<<Visible(place)>>, ref)

Clauses ==
  LET Of(clause, es) == [i \in DOMAIN es |-> [expr |-> es[i], place |-> Place(clause, i, es[i].op = "column")]]
      Expressions(items) == [i \in DOMAIN items |-> items[i].expr]
      conditions == [i \in DOMAIN JoinedTables |-> query.from[JoinedTables[i].at[1]].joins[JoinedTables[i].at[2]].on]
  IN  [select |-> Of("select", Expressions(query.select)), on |-> Of("on", conditions), where |-> Of("where", query.where),
       group |-> Of("group", query.groupBy), having |-> Of("having", query.having), qualify |-> Of("qualify", query.qualify),
       order |-> Of("order", query.orderBy)]

ClauseAllowsAliases(clause) ==
  \/ clause \in {"order", "qualify"}
  \/ clause = "group" /\ dialect \notin {"Trino", "Presto", "Athena", "TSQL"}
  \/ clause = "having" /\ dialect \notin {"PostgreSQL", "Trino", "Presto", "Athena", "TSQL"}
  \/ clause = "where" /\ dialect \in {"DuckDB", "Snowflake", "SQLite"}

\* Mutant: a projection sees the aliases of those after it.
AliasLimit_Forward(place, aliases) ==
  LET allowed == IF place.clause \in {"where", "having", "qualify", "group"}
                 THEN ClauseAllowsAliases(place.clause) /\ (place.clause = "group" /\ dialect = "PostgreSQL" => place.whole)
                 ELSE aliases
  IN  IF place.clause = "select" /\ dialect \in LateralAliases THEN Len(query.select)
      ELSE IF allowed THEN Len(query.select) ELSE 0

\* How many projections have an alias that is visible at the place.  PostgreSQL
\* groups by an alias, not by an expression over it.
AliasLimit(place, aliases) ==
  LET allowed == IF place.clause \in {"where", "having", "qualify", "group"}
                 THEN ClauseAllowsAliases(place.clause) /\ (place.clause = "group" /\ dialect = "PostgreSQL" => place.whole)
                 ELSE aliases
  IN  IF place.clause = "select" /\ dialect \in LateralAliases THEN place.index - 1
      ELSE IF allowed THEN Len(query.select) ELSE 0

\* aliasForReference: at most one projection.  A column of the input comes first,
\* except where aliases are preferred.
AliasFor(ref, place, aliases, prefer) ==
  LET named == {i \in 1..AliasLimit(place, aliases) : query.select[i].alias = ref.column}
  IN  IF ref.table # "" \/ named = {} \/ (~prefer /\ Bound(ref, place).status # "missing") THEN {} ELSE {Min(named)}

Projection(i) == Clauses.select[i]

\* The expressions of a node in the place of the node, with a lambda's parameter
\* for its body.
Parts(e) ==
  [i \in DOMAIN e.args |-> [expr |-> e.args[i], local |-> IF e.local # "" /\ i = 2 THEN {e.local} ELSE {}]]
  \o [i \in DOMAIN (e.filter \o e.over) |-> [expr |-> (e.filter \o e.over)[i], local |-> {}]]

IsLocal(ref, locals) == (IF ref.table = "" THEN ref.column ELSE ref.table) \in locals

RECURSIVE ColumnsOf(_, _), ExpandedReferences(_, _, _, _, _)
\* walkLexicalColumns
ColumnsOf(e, locals) ==
  IF e.op = "column" THEN IF IsLocal(e.ref, locals) THEN {} ELSE {e.ref}
  ELSE UNION {ColumnsOf(p.expr, locals \cup p.local) : p \in Range(Parts(e))}

\* An alias that is being expanded is looked up as a column.
ExpandedReferences(e, place, aliases, prefer, visiting) ==
  UNION {LET alias == AliasFor(ref, place, aliases, prefer) \ visiting
         IN  IF alias = {} THEN {[ref |-> ref, binding |-> Bound(ref, place)]}
             ELSE UNION {ExpandedReferences(Projection(i).expr, Projection(i).place, FALSE, FALSE, visiting \cup {i}) : i \in alias}
           : ref \in ColumnsOf(e, {})}

-------------------------------------------------------------------------------
(***************************************************************************)
(* Placement of aggregates and window functions                             *)
(***************************************************************************)
May(aggregate, window) == [aggregate |-> aggregate, window |-> window, inAggregate |-> FALSE, inWindow |-> FALSE, visiting |-> {}]
Mark(condition, code) == IF condition THEN {code} ELSE {}

WindowOnly == {"RANK"}

RECURSIVE Placed(_, _, _)
\* The errors in an expression, and "aggregate" where it has one.
Placed(e, place, may) ==
  LET window    == e.over # <<>>
      aggregate == e.op \in Aggregates /\ ~window
      arguments == [may EXCEPT !.inAggregate = @ \/ aggregate, !.inWindow = @ \/ window]
      All(es, m) == UNION {Placed(x, place, m) : x \in Range(es)}
      alias     == AliasFor(e.ref, place, TRUE, FALSE) \ may.visiting
  IN  IF e.op = "column"
      THEN UNION {Placed(Projection(i).expr, Projection(i).place, [may EXCEPT !.visiting = @ \cup {i}]) : i \in alias}
      ELSE Mark(aggregate, "aggregate")
           \cup Mark(aggregate /\ (~may.aggregate \/ may.inAggregate), "E231")
           \cup Mark(window /\ (~may.window \/ may.inWindow \/ may.inAggregate), "E232")
           \cup Mark(e.op \in WindowOnly /\ ~window, "E232")
           \cup All(e.args, arguments)
           \cup All(IF e.local = "" THEN <<>> ELSE <<Col("", e.local)>>, arguments)
           \cup All(e.filter, [arguments EXCEPT !.aggregate = FALSE, !.window = FALSE])
           \cup All(e.over, [May(TRUE, FALSE) EXCEPT !.inWindow = TRUE, !.visiting = may.visiting])

-------------------------------------------------------------------------------
(***************************************************************************)
(* Grouping                                                                 *)
(***************************************************************************)
\* clauseExpression: an ordinal or a bare alias stands for its projection.
ClauseExpression(item, group) ==
  LET e      == item.expr
      chosen == CASE e.op = "literal" -> {e.value} \cap DOMAIN query.select
                  [] e.op = "column"  -> AliasFor(e.ref, item.place, TRUE, ~group)
                  [] OTHER -> {}
  IN  IF chosen = {} THEN item ELSE Projection(CHOOSE i \in chosen : TRUE)

GroupItems == [i \in DOMAIN Clauses.group |-> ClauseExpression(Clauses.group[i], TRUE)]

RECURSIVE Opened(_)
Opened(e) == IF e.op \in {"()", "TUPLE"} THEN UNION {Opened(a) : a \in Range(e.args)} ELSE {e}

GroupedBy == UNION {{[expr |-> e, place |-> g.place] : e \in Opened(g.expr)} : g \in Range(GroupItems)}

Key(r) == [of |-> r.binding.sources, table |-> IF r.binding.sources = {} THEN r.ref.table ELSE "", column |-> r.ref.column]

GroupColumns ==
  UNION {{Key(r) : r \in ExpandedReferences(g.expr, g.place, TRUE, FALSE, {})} : g \in {h \in GroupedBy : h.expr.op = "column"}}

\* PostgreSQL takes the columns of a table for grouped when its key is.
Functional(sources) ==
  /\ dialect = "PostgreSQL"
  /\ \E i \in sources :
       /\ BlockTables[i].item.name \in DOMAIN PrimaryKey /\ PrimaryKey[BlockTables[i].item.name] # {}
       /\ \A c \in PrimaryKey[BlockTables[i].item.name] : [of |-> {i}, table |-> "", column |-> c] \in GroupColumns

RECURSIVE Ungrouped(_, _, _, _)
\* checkGrouped: whether a column outside of aggregates is not grouped.
Ungrouped(e, place, locals, visiting) ==
  LET alias == AliasFor(e.ref, place, TRUE, FALSE) \ visiting
      bound == [ref |-> e.ref, binding |-> Bound(e.ref, place)]
  IN  /\ e \notin {g.expr : g \in GroupedBy}
      /\ e.op \in Aggregates => e.over # <<>>
      /\ IF e.op # "column" THEN \E p \in Range(Parts(e)) : Ungrouped(p.expr, place, locals \cup p.local, visiting)
         ELSE IF IsLocal(e.ref, locals) THEN FALSE
         ELSE IF alias # {} THEN \E i \in alias : Ungrouped(Projection(i).expr, Projection(i).place, locals, visiting \cup {i})
         ELSE Key(bound) \notin GroupColumns /\ ~Functional(bound.binding.sources)

-------------------------------------------------------------------------------
(***************************************************************************)
(* The rules of a block                                                     *)
(***************************************************************************)
Placements ==
  LET In(items, may) == UNION {Placed(item.expr, item.place, may) : item \in Range(items)}
  IN  In(Clauses.select \o Clauses.qualify \o Clauses.order, May(TRUE, TRUE)) \cup In(Clauses.having, May(TRUE, FALSE))
      \cup In(Clauses.on \o Clauses.where \o GroupItems, May(FALSE, FALSE))

\* Rows of one group are told apart where bare columns are not allowed.
GroupingIssues ==
  LET aggregates == "aggregate" \in Placements \/ query.groupBy # <<>> \/ query.having # <<>>
      order      == [i \in DOMAIN Clauses.order |-> ClauseExpression(Clauses.order[i], FALSE)]
      checked    == Clauses.select \o Clauses.having \o Clauses.qualify \o order
  IN  Mark(/\ aggregates /\ dialect \notin {"SQLite", "MySQL"}
           /\ \E item \in Range(checked) : Ungrouped(item.expr, item.place, {}, {}), "E230")

\* validateBoundSchema: of an alias, the references of its expression.
NameIssues ==
  LET bindings(item) ==
        LET clause == item.place.clause
        IN  UNION {LET alias == AliasFor(ref, item.place, clause \in {"order", "group", "having", "qualify"}, clause = "order")
                   IN  IF alias = {} THEN {Bound(ref, item.place)}
                       ELSE UNION {{r.binding : r \in ExpandedReferences(Projection(i).expr, Projection(i).place, FALSE, FALSE, {})} : i \in alias}
                     : ref \in ColumnsOf(item.expr, {})}
      all == Clauses.select \o Clauses.on \o Clauses.where \o Clauses.group \o Clauses.having \o Clauses.qualify \o Clauses.order
      statuses == UNION {{b.status : b \in bindings(item)} : item \in Range(all)}
  IN  Mark("ambiguous" \in statuses, "SEMANTIC_AMBIGUOUS_COLUMN")
      \cup Mark(statuses \cap {"missing", "unknown"} # {}, "SCHEMA_UNKNOWN_COLUMN")

\* One validation of the block, with all its rules.
Validate ==
  /\ issues = <<>>
  /\ issues' = <<(Placements \ {"aggregate"}) \cup GroupingIssues \cup NameIssues>>
  /\ UNCHANGED <<query, dialect, analysis>>
===============================================================================
