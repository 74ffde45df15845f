-------------------------------- MODULE Lineage --------------------------------
(***************************************************************************)
(* Lineage of pkg/golyglot/lineage.go: from an output column of a query to  *)
(* the columns of tables it is computed from.  It does not use the scopes   *)
(* of the binder: it looks names up in a list of the relations of a block,  *)
(* the nested ones included (relationFacts of analysis.go), and finds the   *)
(* query behind a name again by that name.  The recursion of lineageChildren*)
(* is an explicit stack of frames, one per expression in its query.         *)
(*                                                                          *)
(* The binder and bindingUpstream (ColumnUpstream) answer the same question *)
(* for a use of a column; their answer, with every table's columns known,   *)
(* is the reference here.  Set operations BY NAME take another path         *)
(* (set_lineage.go), and a star in the outermost block has no references.   *)
(***************************************************************************)
EXTENDS ColumnUpstream

VARIABLES
  asked,   \* the output position asked for, 0 before the walk
  trace,   \* calls of lineageChildren that have not returned
  nodes    \* the nodes of the answer that have nothing downstream

lineage == <<asked, trace, nodes>>
lineageVars == <<allVars, lineage>>

-------------------------------------------------------------------------------
(***************************************************************************)
(* relationFacts and outputNames                                            *)
(***************************************************************************)
Fact(item, name, kind, columns) ==
  [name |-> name, alias |-> item.alias, kind |-> kind, columns |-> columns,
   qualified |-> item.kind = "table" /\ item.qualified]

Items(from) ==
  FlattenSeq([i \in DOMAIN from |-> <<from[i].primary>> \o [j \in DOMAIN from[i].joins |-> from[i].joins[j].right]])

FunctionName(item) == IF item.alias # Unnamed THEN item.alias ELSE item.name

CtesNamed(q, name) == {i \in DOMAIN q.with : q.with[i].name = name}

RECURSIVE RelationFacts(_), ItemFacts(_, _), OutputNames(_)

\* A CTE or a derived table is followed by the relations of its own query; only
\* the first item of a group's table is taken.
ItemFacts(item, q) ==
  CASE item.kind = "table" /\ CtesNamed(q, item.name) # {} ->
         LET body == q.with[Max(CtesNamed(q, item.name))].query
         IN  <<Fact(item, item.name, "cte", OutputNames(body))>> \o RelationFacts(body)
    [] item.kind = "table" /\ CtesNamed(q, item.name) = {} ->
         <<Fact(item, item.name, "table", IF item.name \in schema["given"] THEN Catalog[item.name] ELSE <<>>)>>
    [] item.kind = "derived" -> <<Fact(item, item.alias, "derived", OutputNames(item.query))>> \o RelationFacts(item.query)
    [] item.kind = "group" -> FlattenSeq([i \in DOMAIN item.items |-> ItemFacts(item.items[i].primary, q)])
    [] item.kind = "table_function" ->
         <<Fact(item, FunctionName(item), item.kind, IF item.columns = <<>> THEN <<item.name>> ELSE item.columns)>>
    [] item.kind = "raw" -> <<Fact(item, item.name, item.kind, <<>>)>>

RelationFacts(q) == FlattenSeq([i \in DOMAIN Items(q.from) |-> ItemFacts(Items(q.from)[i], q)])

FactsNamed(facts, name) == {i \in DOMAIN facts : name \in {facts[i].name, facts[i].alias}}

Shown(facts, star) ==
  CASE star.table = Unnamed -> FlattenSeq([i \in DOMAIN facts |-> facts[i].columns])
    [] star.table # Unnamed /\ FactsNamed(facts, star.table) # {} -> facts[Min(FactsNamed(facts, star.table))].columns
    [] OTHER -> <<>>

OutputNames(q) ==
  FlattenSeq([i \in DOMAIN q.select |->
    IF q.select[i].star THEN Shown(RelationFacts(q), q.select[i]) ELSE <<q.select[i].name>>])

-------------------------------------------------------------------------------
(***************************************************************************)
(* Lookups by name                                                          *)
(***************************************************************************)
\* lineageRelationForReference: at most one fact.  A qualifier takes the first
\* of that name; a bare column the one that has it, or the only relation.
Owning(facts, column) == UNION {{<<i, k>> : k \in MatchesColumn(facts[i], column)} : i \in DOMAIN facts}

\* Mutant: a qualifier takes the last fact of that name.
RelationFor_Last(ref, facts) ==
  {i \in DOMAIN facts :
     \/ ref.table # Unnamed /\ FactsNamed(facts, ref.table) # {} /\ i = Max(FactsNamed(facts, ref.table))
     \/ /\ ref.table = Unnamed
        /\ \/ Cardinality(Owning(facts, ref.column)) = 1 /\ MatchesColumn(facts[i], ref.column) # {}
           \/ Owning(facts, ref.column) = {} /\ Len(facts) = 1}

RelationFor(ref, facts) ==
  {i \in DOMAIN facts :
     \/ ref.table # Unnamed /\ FactsNamed(facts, ref.table) # {} /\ i = Min(FactsNamed(facts, ref.table))
     \/ /\ ref.table = Unnamed
        /\ \/ Cardinality(Owning(facts, ref.column)) = 1 /\ MatchesColumn(facts[i], ref.column) # {}
           \/ Owning(facts, ref.column) = {} /\ Len(facts) = 1}

First(candidates) == LET found == SelectSeq(candidates, LAMBDA c : c # <<>>) IN IF found = <<>> THEN <<>> ELSE Head(found)

\* The query behind a fact, if there is one: a CTE of this block of that name,
\* else its first derived table of that alias, or the first if it has none.
RelationQuery(q, fact) ==
  First([i \in DOMAIN q.with |-> IF q.with[i].name = fact.name /\ ~fact.qualified THEN <<q.with[i].query>> ELSE <<>>]
        \o [i \in DOMAIN Items(q.from) |->
              LET item == Items(q.from)[i]
              IN  IF item.kind = "derived" /\ fact.alias \in {Unnamed, item.alias} THEN <<item.query>> ELSE <<>>])

RECURSIVE FunctionSources(_, _), ItemSources(_, _)

\* The arguments of the first table function of that name, wherever it is.
ItemSources(item, fact) ==
  CASE item.kind = "table_function" ->
         IF FunctionName(item) = fact.name \/ (item.alias # Unnamed /\ item.alias = fact.alias) THEN item.args ELSE <<>>
    [] item.kind = "group" -> First([i \in DOMAIN Items(item.items) |-> ItemSources(Items(item.items)[i], fact)])
    [] item.kind = "derived" -> FunctionSources(item.query, fact)
    [] OTHER -> <<>>

FunctionSources(q, fact) ==
  First([i \in DOMAIN Items(q.from) |-> ItemSources(Items(q.from)[i], fact)]
        \o [i \in DOMAIN q.with |-> FunctionSources(q.with[i].query, fact)])

-------------------------------------------------------------------------------
(***************************************************************************)
(* lineageChildren and lineageReferenceChildren                             *)
(***************************************************************************)
Expression(q, refs) == [query |-> q, refs |-> refs]

LineageFrame(expression) == [expression |-> expression, pending |-> expression.refs, seen |-> {}]

RefsOf(projection) == IF projection.star THEN <<>> ELSE projection.refs

Projects(q, column) == {k \in DOMAIN q.select : ~q.select[k].star /\ q.select[k].name = column}

frame == Last(trace)
Tracing == trace # <<>> /\ frame.pending # <<>>
reference == Head(frame.pending)
relation == LET facts == RelationFacts(frame.expression.query)
            IN  [i \in RelationFor(reference, facts) |-> facts[i]]
Known == DOMAIN relation # {}
fact == relation[CHOOSE i \in DOMAIN relation : TRUE]

\* A node is told from its siblings by its name.
NodeName == <<IF ~Known THEN Unnamed ELSE IF fact.alias # Unnamed THEN fact.alias ELSE fact.name, reference.column>>

\* What the reference is computed from.  The arguments of a table function are
\* read in the query of the reference; only the first projection of that name
\* counts, and of a set operation only the block's own projections.
Downstream ==
  LET q == frame.expression.query
      body == RelationQuery(q, fact)
  IN  CASE ~Known -> Expression(q, <<>>)
        [] Known /\ fact.kind = "table_function" -> Expression(q, FunctionSources(q, fact))
        [] Known /\ fact.kind \in {"cte", "derived"} /\ body # <<>> ->
             LET position == Projects(body[1], reference.column)
             IN  Expression(body[1], IF position = {} THEN <<>> ELSE RefsOf(body[1].select[Min(position)]))
        [] OTHER -> Expression(q, <<>>)

Seeing == Front(trace) \o <<[frame EXCEPT !.pending = Tail(@), !.seen = @ \cup {NodeName}]>>

Repeated ==
  /\ Tracing
  /\ NodeName \in frame.seen
  /\ trace' = Seeing
  /\ UNCHANGED <<allVars, asked, nodes>>

Leaf ==
  /\ Tracing
  /\ NodeName \notin frame.seen
  /\ Downstream.refs = <<>>
  /\ trace' = Seeing
  /\ nodes' = nodes \cup {[kind |-> IF Known THEN fact.kind ELSE "unknown",
                           name |-> IF Known THEN fact.name ELSE Unnamed, column |-> reference.column]}
  /\ UNCHANGED <<allVars, asked>>

Expand ==
  /\ Tracing
  /\ NodeName \notin frame.seen
  /\ Downstream.refs # <<>>
  /\ trace' = Seeing \o <<LineageFrame(Downstream)>>
  /\ UNCHANGED <<allVars, asked, nodes>>

EndChildren ==
  /\ trace # <<>>
  /\ frame.pending = <<>>
  /\ trace' = Front(trace)
  /\ UNCHANGED <<allVars, asked, nodes>>

\* The two branches of the outermost set operation, not those nested in them.
Branches(q) == (IF Has(q.left) THEN q.left ELSE <<q>>) \o q.right

\* lineageFor: the position is one of the projections that the query itself has.
StartLineage ==
  /\ Bound
  /\ asked = 0
  /\ \A s \in scopes : ~s.query.byName
  /\ asked' \in DOMAIN query.select
  /\ LET branches == SelectSeq(Branches(query), LAMBDA q : asked' \in DOMAIN q.select)
     IN  trace' = [i \in DOMAIN branches |-> LineageFrame(Expression(branches[i], RefsOf(branches[i].select[asked'])))]
  /\ UNCHANGED <<allVars, nodes>>

LineageInit == WalkInit /\ asked = 0 /\ trace = <<>> /\ nodes = {}

BindFirst == Bind /\ UNCHANGED lineage

LineageNext == BindFirst \/ StartLineage \/ Repeated \/ Leaf \/ Expand \/ EndChildren

LineageSpec == LineageInit /\ [][LineageNext]_lineageVars

-------------------------------------------------------------------------------
(***************************************************************************)
(* Properties                                                               *)
(***************************************************************************)
Traced == asked # 0 /\ trace = <<>>

\* The columns of tables the answer names, and those the column comes from.
Named == {<<n.name, n.column>> : n \in {m \in nodes : m.kind = "table"}}

Truth ==
  LET keys == UNION {PhysicalUpstream(b, "full") : b \in ToSet(OutputBindings(Output("full", <<>>, asked)).bindings)}
  IN  {<<RelationAt(k.id).name, k.column>> : k \in keys}

\* Lineage returns: an expression is never traced while it is being traced.  It
\* is a function of the expression and its query, so it would go on for ever.
\* The comment in analysis.go says that a table function's arguments are never
\* resolved back through the same table function.
LineageReturns ==
  \A m, n \in DOMAIN trace : trace[m].expression = trace[n].expression => m = n

\* Where blocks name their relations and every name means one thing, lineage and
\* column use agree: the answer names exactly the columns of tables that the
\* output column is computed from, through CTEs, nested derived tables, table
\* functions and both branches of a union.
LineageIsExact == Traced => Named = Truth
===============================================================================
