------------------------------ MODULE QueryScope ------------------------------
(***************************************************************************)
(* The name binder of pkg/golyglot/query_scope.go: queryBindings.build      *)
(* walks a query and its nested queries and records what each block can     *)
(* see; queryScope.resolve binds a column reference in what it recorded.    *)
(* The recursion of build is an explicit stack of frames, each with the     *)
(* agenda of what is left of its query.                                     *)
(*                                                                          *)
(* The binder works with the schema its caller supplied, which may lack     *)
(* tables.  The model binds every query under two schemas at once, in two   *)
(* views that share the control: "given", the supplied one, and "full",     *)
(* the same schema with the missing tables filled in.  What the binder      *)
(* claims with the given schema can so be compared with what it would have  *)
(* said had it known more.                                                  *)
(***************************************************************************)
EXTENDS NameBinding

CONSTANTS
  Tables,       \* names of tables; CTEs may take the same names
  Columns,      \* names of columns
  Catalog,      \* the columns of each table, were its schema supplied
  Queries,      \* bound: the queries that are bound
  Nodes         \* the nodes that they are made of, by kind

References == [table : Tables \cup {Unnamed}, column : Columns]

\* What the nodes of a query are made of, as the parser builds them.
IsGrammar(nodes) ==
  /\ \A q \in nodes.blocks : /\ q.with \in Seq(nodes.ctes) /\ q.from \in Seq(nodes.tables)
                            /\ {q.left, q.right, q.where} \subseteq Seq(nodes.blocks)
                            /\ q.select \in Seq(nodes.projections) /\ q.values \in Seq(Columns \cup {Unnamed})
  /\ \A p \in nodes.projections : ~p.star => p.refs \in Seq(References)
  /\ \A c \in nodes.ctes : c.name \in Tables /\ c.query \in nodes.blocks /\ c.columns \in Seq(Columns)
  /\ \A t \in nodes.tables : t.primary \in nodes.items /\ t.joins \in Seq(nodes.joins)
  /\ \A j \in nodes.joins : j.right \in nodes.items /\ j.on \in Seq(nodes.blocks)
  /\ \A i \in nodes.items : /\ i.kind = "table" => i.name \in Tables
                            /\ i.kind = "derived" => i.query \in nodes.blocks
                            /\ i.kind = "group" => i.items \in Seq(nodes.tables)
                            /\ i.kind # "group" => i.columns \in Seq(Columns)
                            /\ i.kind \in {"table_function", "raw"} => i.args \in Seq(References)

ASSUME CatalogAssumption ==
  /\ Unnamed \notin Columns
  /\ Catalog \in [Tables -> Seq(Columns)]

ASSUME QueriesAssumption == IsGrammar(Nodes) /\ Queries \subseteq Nodes.blocks

Views == {"given", "full"}

VARIABLES
  query,      \* the query being bound
  schema,     \* the tables of the supplied schema
  stack,      \* calls of build that have not returned, the innermost last
  scopes,     \* the scopes that are finished
  returned    \* outputs and completeness of the last scope finished

vars == <<query, schema, stack, scopes, returned>>

(***************************************************************************)
(* A query block is identified by its path from the root: the CTE, FROM     *)
(* item, set arm or expression that holds it, innermost last.  A relation   *)
(* is identified by the path of its owner and its number in that block.     *)
(***************************************************************************)
Step(role, index) == [role |-> role, index |-> index]

EmptyLevel == [relations |-> <<>>, coalesced |-> [v \in Views |-> [c \in Columns |-> <<>>]]]
NoOutputs  == [slots |-> [v \in Views |-> <<>>], left |-> [v \in Views |-> 0], complete |-> [v \in Views |-> TRUE]]

\* What a level, or a chain of levels, is in one of the views.
Seen(level, v) ==
  [relations |-> [i \in DOMAIN level.relations |->
                    LET r == level.relations[i]
                    IN  [id |-> r.id, name |-> r.name, alias |-> r.alias, columns |-> r.columns[v], known |-> r.known[v]]],
   coalesced |-> level.coalesced[v]]

ChainSeen(chain, v) == [k \in DOMAIN chain |-> Seen(chain[k], v)]

\* An output of a block: an expression with its references, or the column of a
\* relation that a star expanded to.
Slot(name, owner, sources, refs) == [name |-> name, owner |-> owner, sources |-> sources, refs |-> refs]

NamesOf(slots) == [k \in DOMAIN slots |-> slots[k].name]

\* The columns of a relation whose names come from the query, not from a schema.
Written(columns) == [v \in Views |-> columns]

-------------------------------------------------------------------------------
(***************************************************************************)
(* The frame of a call of build and its agenda                              *)
(***************************************************************************)
Has(optional) == optional # <<>>

Todo(do, what) == [do |-> do, what |-> what]

Agenda(q) ==
     [i \in DOMAIN q.with |-> Todo("cte", i)]
  \o [i \in DOMAIN q.from |-> Todo("table", q.from[i])]
  \o (IF Has(q.left) THEN <<Todo("left", 1)>> ELSE <<Todo("outputs", 1)>>)
  \o (IF Has(q.right) THEN <<Todo("right", 1), Todo("order", 1)>> ELSE <<>>)
  \o [i \in DOMAIN q.where |-> Todo("subquery", [role |-> "where", index |-> i, query |-> q.where[i]])]

Frame(q, path, parent, ctes) ==
  [query |-> q, path |-> path, parent |-> parent, ctes |-> ctes, level |-> EmptyLevel,
   joins |-> <<>>, outputs |-> NoOutputs, compoundOrder |-> <<>>, todo |-> Agenda(q)]

top == Last(stack)

Doing(what) == stack # <<>> /\ top.todo # <<>> /\ Head(top.todo).do = what
what == Head(top.todo).what

\* The frame goes on with `next` in place of the head of its agenda.
Goes(frame, next) == [frame EXCEPT !.todo = next \o Tail(@)]

Continue(frame, next) ==
  /\ stack' = Front(stack) \o <<Goes(frame, next)>>
  /\ UNCHANGED <<query, schema, scopes, returned>>

\* build is called for a nested query; the caller then goes on with `next`.
Call(frame, child, next) ==
  /\ stack' = Front(stack) \o <<Goes(frame, next), child>>
  /\ UNCHANGED <<query, schema, scopes, returned>>

NextId == [owner |-> top.path, index |-> Len(top.level.relations) + 1]

WithRelation(frame, relation) == [frame EXCEPT !.level.relations = Append(@, relation)]

-------------------------------------------------------------------------------
(***************************************************************************)
(* WITH: each CTE is bound with those before it, and with itself if it is   *)
(* recursive; it is not visible to those before it.                         *)
(***************************************************************************)
NoCte == [declared |-> FALSE]

CteBody(cte, index) == Append(top.path, Step(IF cte.recursive THEN "recursive" ELSE "cte", index))

\* While its own body is being built a recursive CTE has no source.
Cte(body, built, columns, known) ==
  [declared |-> TRUE, body |-> body, built |-> built, columns |-> columns, known |-> known]

\* setOutputColumns: the outputs of the source, renamed by the alias list.
OutputColumns(aliases) ==
  [v \in Views |->
     aliases \o SubSeq(NamesOf(returned.slots[v]), Len(aliases) + 1, Len(returned.slots[v]))]

\* Mutant: every CTE sees itself.
BuildCte_SeesItself ==
  /\ Doing("cte")
  /\ LET cte   == top.query.with[what]
         body  == CteBody(cte, what)
         frame == [top EXCEPT !.ctes[cte.name] = Cte(body, FALSE, Written(cte.columns), [v \in Views |-> cte.columns # <<>>])]
     IN  Call(frame, Frame(cte.query, body, top.parent, frame.ctes), <<Todo("bind_cte", what)>>)

BuildCte ==
  /\ Doing("cte")
  /\ LET cte   == top.query.with[what]
         body  == CteBody(cte, what)
         self  == Cte(body, FALSE, Written(cte.columns), [v \in Views |-> cte.columns # <<>>])
         frame == IF cte.recursive THEN [top EXCEPT !.ctes[cte.name] = self] ELSE top
     IN  Call(frame, Frame(cte.query, body, top.parent, frame.ctes), <<Todo("bind_cte", what)>>)

BindCte ==
  /\ Doing("bind_cte")
  /\ LET cte  == top.query.with[what]
         body == CteBody(cte, what)
     IN  Continue([top EXCEPT !.ctes[cte.name] = Cte(body, TRUE, OutputColumns(cte.columns), returned.complete)], <<>>)

-------------------------------------------------------------------------------
(***************************************************************************)
(* FROM: collectTable and collectItem                                       *)
(***************************************************************************)
CollectTable ==
  /\ Doing("table")
  /\ Continue(top, <<Todo("item", what.primary)>>
                   \o [i \in DOMAIN what.joins |->
                         Todo("join", [join |-> what.joins[i], start |-> Len(top.level.relations)])])

\* A qualified name is never a CTE.
CteFor(item) == IF item.qualified THEN NoCte ELSE top.ctes[item.name]

TableRelation(item) ==
  LET cte     == CteFor(item)
      columns == CASE item.columns # <<>> -> Written(item.columns)
                   [] item.columns = <<>> /\ cte.declared -> cte.columns
                   [] OTHER -> [v \in Views |-> IF item.name \in schema[v] THEN Catalog[item.name] ELSE <<>>]
  IN  [id |-> NextId, name |-> item.name, alias |-> item.alias, qualified |-> item.qualified, columns |-> columns,
       kind  |-> IF cte.declared THEN "cte" ELSE "table",
       body  |-> IF cte.declared THEN cte.body ELSE <<>>, built |-> cte.declared /\ cte.built, args |-> <<>>,
       known |-> IF cte.declared THEN cte.known ELSE [v \in Views |-> item.name \in schema[v]]]

CollectName ==
  /\ Doing("item")
  /\ what.kind = "table"
  /\ Continue(WithRelation(top, TableRelation(what)), <<>>)

\* A table function or a raw item: its columns are those the query writes.  A
\* table function without a column list has one, named after the function.
CollectFunctionOrRaw ==
  /\ Doing("item")
  /\ what.kind \in {"table_function", "raw"}
  /\ LET columns == IF what.columns = <<>> /\ what.kind = "table_function" THEN <<what.name>> ELSE what.columns
     IN  Continue(WithRelation(top, [id |-> NextId, name |-> what.name, alias |-> what.alias, qualified |-> FALSE, kind |-> what.kind,
                                     body |-> <<>>, built |-> FALSE, args |-> what.args, columns |-> Written(columns),
                                     known |-> [v \in Views |-> columns # <<>>]]), <<>>)

CollectGroup ==
  /\ Doing("item")
  /\ what.kind = "group"
  /\ Continue(top, [i \in DOMAIN what.items |-> Todo("table", what.items[i])])

DerivedBody(item) == Append(top.path, Step(IF item.lateral THEN "lateral" ELSE "derived", NextId.index))

\* Mutant: every derived table sees the FROM items before it.
BuildDerived_AlwaysLateral ==
  /\ Doing("item")
  /\ what.kind = "derived"
  /\ Call(top, Frame(what.query, DerivedBody(what), <<top.level>> \o top.parent, top.ctes),
          <<Todo("bind_derived", what)>>)

\* Only the FROM items before it are visible to a lateral derived table, as all
\* derived tables are in DuckDB.
BuildDerived ==
  /\ Doing("item")
  /\ what.kind = "derived"
  /\ LET outer == IF what.lateral THEN <<top.level>> \o top.parent ELSE top.parent
     IN  Call(top, Frame(what.query, DerivedBody(what), outer, top.ctes),
              <<Todo("bind_derived", what)>>)

BindDerived ==
  /\ Doing("bind_derived")
  /\ Continue(WithRelation(top, [id |-> NextId, name |-> what.alias, alias |-> what.alias, qualified |-> FALSE, kind |-> "derived",
                                 body |-> DerivedBody(what), built |-> TRUE, args |-> <<>>,
                                 columns |-> OutputColumns(what.columns), known |-> returned.complete]), <<>>)

-------------------------------------------------------------------------------
(***************************************************************************)
(* Joins.  USING binds its columns on each side alone and merges the        *)
(* relations they resolve to; the condition sees the whole join so far.     *)
(***************************************************************************)
From(level, first) == [level EXCEPT !.relations = SubSeq(@, first + 1, Len(@))]

Join ==
  /\ Doing("join")
  /\ Continue(top, <<Todo("item", what.join.right),
                     Todo("joined", [join |-> what.join, start |-> what.start, left |-> From(top.level, what.start),
                                     before |-> Len(top.level.relations)])>>)

\* Mutant: a column that is merged already does not bind.
Side_ForgetsMerged(level, column, v) ==
  LET binding == Decide(Seen(level, v), [table |-> Unnamed, column |-> column])
  IN  IF binding.status = "resolved" THEN <<CHOOSE id \in binding.sources : TRUE>> ELSE <<>>

\* What a USING column binds to on one side, in the order of its relations.
Side(level, column, v) ==
  LET binding == Decide(Seen(level, v), [table |-> Unnamed, column |-> column])
  IN  CASE binding.status = "coalesced" -> level.coalesced[v][column]
        [] binding.status = "resolved"  -> <<CHOOSE id \in binding.sources : TRUE>>
        [] OTHER -> <<>>

\* Empty unless the column resolved on both sides.
Merged(left, right, column, v) ==
  IF <<>> \in {Side(left, column, v), Side(right, column, v)} THEN <<>>
  ELSE Side(left, column, v) \o Side(right, column, v)

Coalesce(level, left, right, using) ==
  [level EXCEPT !.coalesced =
     [v \in Views |-> [c \in Columns |->
        LET merged == IF c \in ToSet(using) THEN Merged(left, right, c, v) ELSE <<>>
        IN  IF Len(merged) > 1 THEN merged ELSE @[v][c]]]]

\* A subquery of the condition is bound in the join the condition belongs to,
\* after the outputs and before the subqueries of WHERE.
OnSubqueries(join, before) ==
  [i \in DOMAIN join.on |-> Todo("subquery", [role |-> "on", index |-> before + i, query |-> join.on[i]])]

BeforeWhere(todo, subqueries) ==
  LET rest == Len(todo) - Len(top.query.where)
  IN  SubSeq(todo, 1, rest) \o subqueries \o SubSeq(todo, rest + 1, Len(todo))

Joined ==
  /\ Doing("joined")
  /\ LET level == Coalesce(top.level, what.left, From(top.level, what.before), what.join.using)
         frame == [top EXCEPT !.level = level,
                              !.joins = @ \o [i \in DOMAIN what.join.on |-> From(level, what.start)],
                              !.todo  = BeforeWhere(@, OnSubqueries(what.join, Len(top.joins)))]
     IN  Continue(frame, <<>>)

-------------------------------------------------------------------------------
(***************************************************************************)
(* The outputs of the block: collectOutputs and the set operations          *)
(***************************************************************************)
Starred(projection) == {i \in DOMAIN top.level.relations :
  projection.table # Unnamed => Matches(top.level.relations[i], projection.table)}

\* The columns of a relation, but for those that the star excepts.
Expanded(r, except, v) ==
  FlattenSeq([k \in DOMAIN r.columns[v] |->
                IF r.columns[v][k] \in except THEN <<>> ELSE <<Slot(r.columns[v][k], top.path, {r.id}, <<>>)>>])

StarSlots(projection, v) ==
  LET starred == Starred(projection)
  IN  FlattenSeq([i \in DOMAIN top.level.relations |->
                    IF i \in starred THEN Expanded(top.level.relations[i], projection.except, v) ELSE <<>>])

Projected(projection, v) ==
  IF projection.star THEN StarSlots(projection, v)
  ELSE <<Slot(projection.name, top.path, {}, projection.refs)>>

\* Mutant: an expanded star counts as complete.
IsComplete_StarAlways(projection, v) == projection.star \/ projection.name # Unnamed

IsComplete(projection, v) ==
  IF projection.star
  THEN Starred(projection) # {} /\ \A i \in Starred(projection) : top.level.relations[i].known[v]
  ELSE projection.name # Unnamed

\* The first row of a VALUES list has outputs too, named or not.
Collected(q) ==
  LET slots == [v \in Views |-> FlattenSeq([i \in DOMAIN q.select |-> Projected(q.select[i], v)])
                                  \o [i \in DOMAIN q.values |-> Slot(q.values[i], top.path, {}, <<>>)]]
  IN  [slots    |-> slots,
       left     |-> [v \in Views |-> Len(slots[v])],
       complete |-> [v \in Views |-> \A i \in DOMAIN q.select : IsComplete(q.select[i], v)]]

CollectOutputs ==
  /\ Doing("outputs")
  /\ Continue([top EXCEPT !.outputs = Collected(top.query)], <<>>)

BuildLeft ==
  /\ Doing("left")
  /\ Call(top, Frame(top.query.left[1], Append(top.path, Step("left", 1)), top.parent, top.ctes),
          <<Todo("bind_left", 1)>>)

BindLeft ==
  /\ Doing("bind_left")
  /\ Continue([top EXCEPT !.outputs = [returned EXCEPT !.left = [v \in Views |-> Len(returned.slots[v])]]], <<>>)

BuildRight ==
  /\ Doing("right")
  /\ Call(top, Frame(top.query.right[1], Append(top.path, Step("right", 1)), top.parent, top.ctes),
          <<Todo("bind_right", 1)>>)

\* The slot of that name, 0 if there is none.
OutputIndex(slots, name) == Max({0} \cup {k \in DOMAIN slots : slots[k].name = name /\ \A i \in 1..(k - 1) : slots[i].name # name})

\* UNION BY NAME appends the outputs that only the right arm has, each name once.
WithNew(left, right) ==
  left \o FlattenSeq([k \in DOMAIN right |->
                        IF OutputIndex(left \o SubSeq(right, 1, k - 1), right[k].name) # 0 THEN <<>> ELSE <<right[k]>>])

ByName(left, right) ==
  [left EXCEPT
     !.slots    = [v \in Views |-> WithNew(@[v], right.slots[v])],
     !.complete = [v \in Views |-> @[v] /\ right.complete[v]]]

BindRight ==
  /\ Doing("bind_right")
  /\ Continue([top EXCEPT !.outputs = IF top.query.byName THEN ByName(@, returned) ELSE @], <<>>)

-------------------------------------------------------------------------------
(***************************************************************************)
(* ORDER BY after a set operation.  The parser leaves it with the arm it    *)
(* follows; it is bound to the outputs of the whole, and again each time    *)
(* the whole turns out to be an arm without parentheses itself.             *)
(***************************************************************************)
\* The arms that a set operation under way leads to by its last arms.
LastArms(path) ==
  {s \in scopes : IsStrictPrefix(path, s.path) /\ \A n \in (Len(path) + 1)..Len(s.path) : s.path[n].role = "right"}

\* Mutant: an ORDER BY leaves the parentheses it is written in.
Trails_ThroughParentheses(s) ==
  /\ s.query.order
  /\ \A r \in LastArms(top.path) : IsPrefix(r.path, s.path) => (r.query.order => r = s)

Trails(s) ==
  /\ s.query.order
  /\ \A r \in LastArms(top.path) : IsPrefix(r.path, s.path) => ~r.query.parenthesized /\ (r.query.order => r = s)

BindCompoundOrder ==
  /\ Doing("order")
  /\ LET Combined(s) == [s EXCEPT !.compoundOrder = <<top.path>>]
         owners == IF top.query.order THEN {} ELSE {s \in LastArms(top.path) : Trails(s)}
         frame  == IF top.query.order THEN Combined(top) ELSE top
     IN  /\ stack' = Front(stack) \o <<Goes(frame, <<>>)>>
         /\ scopes' = (scopes \ owners) \cup {Combined(s) : s \in owners}
  /\ UNCHANGED <<query, schema, returned>>

ScopeAt(path) == CHOOSE s \in scopes : s.path = path

\* A set operation, its arms and theirs.
ArmScopes(path) ==
  {s \in scopes : IsPrefix(path, s.path) /\ \A n \in (Len(path) + 1)..Len(s.path) : s.path[n].role \in {"left", "right"}}

\* In the order of the text.
Arms(path) ==
  LET Before(p, q) == \/ IsStrictPrefix(p, q)
                      \/ \E n \in DOMAIN p \cap DOMAIN q :
                           SubSeq(p, 1, n - 1) = SubSeq(q, 1, n - 1) /\ p[n].role = "left" /\ q[n].role = "right"
  IN  SetToSortSeq(ArmScopes(path), LAMBDA s, r : Before(s.path, r.path))

\* The blocks from a set operation down to an arm.
Way(arm, path) == [n \in 1..(1 + Len(arm.path) - Len(path)) |-> ScopeAt(SubSeq(arm.path, 1, Len(path) + n - 1))]

\* Which outputs of the first of a row of blocks, each an arm of the one before,
\* those of the last become; 0 is none.
Climbed(slots, byName) ==
  LET Down(positions, n) ==
        [k \in DOMAIN slots[n] |->
           LET up == IF byName[n - 1] THEN OutputIndex(slots[n - 1], slots[n][k].name) ELSE k
           IN  IF up \in DOMAIN positions THEN positions[up] ELSE 0]
  IN  FoldLeft(Down, [k \in DOMAIN slots[1] |-> k], [n \in 1..(Len(slots) - 1) |-> n + 1])

Positions(arm, path, v) ==
  LET way == Way(arm, path)
  IN  Climbed([n \in DOMAIN way |-> way[n].outputs.slots[v]], [n \in DOMAIN way |-> way[n].query.byName])

\* The names of an arm, with the outputs of the whole they mean.
Lent(arm, path, v) ==
  LET positions == Positions(arm, path, v)
      slots     == arm.outputs.slots[v]
  IN  [k \in DOMAIN slots |-> [name |-> slots[k].name, position |-> positions[k]]]

InOrder(numbers) == SetToSortSeq(numbers, <)

FirstOfEach(names) ==
  LET aliases == {i \in DOMAIN names : names[i].name # Unnamed /\ names[i].position # 0}
      firsts  == {i \in aliases : \A j \in aliases : j < i => names[j].name # names[i].name}
      order   == InOrder(firsts)
  IN  [k \in DOMAIN order |-> names[order[k]]]

\* The names that ORDER BY can use, with the outputs they mean.  DuckDB takes
\* those of all arms, the first of each name.
OrderNames(path, v, duckdb) ==
  LET lent == [arm \in ArmScopes(path) |-> Lent(arm, path, v)]
      arms == Arms(path)
  IN  IF duckdb THEN FirstOfEach(FlattenSeq([i \in DOMAIN arms |-> lent[arms[i]]])) ELSE Lent(ScopeAt(path), path, v)

\* What a column in such an ORDER BY is bound to: a status and outputs.
OrderBinding(path, c, v, duckdb) ==
  LET names == OrderNames(path, v, duckdb)
      level == [relations |-> <<[id |-> path, name |-> Unnamed, alias |-> Unnamed,
                                 known |-> ScopeAt(path).outputs.complete[v], columns |-> NamesOf(names)]>>,
                coalesced |-> [d \in Columns |-> <<>>]]
  IN  [status |-> Resolve(<<level>>, [table |-> Unnamed, column |-> c]).status,
       outputs |-> {names[k].position : k \in MatchesColumn(level.relations[1], c)}]

(***************************************************************************)
(* A subquery of an expression sees the whole block, or the join whose      *)
(* condition holds it.                                                      *)
(***************************************************************************)
BuildSubquery ==
  /\ Doing("subquery")
  /\ LET level == IF what.role = "on" THEN top.joins[what.index] ELSE top.level
     IN  Call(top, Frame(what.query, Append(top.path, Step(what.role, what.index)), <<level>> \o top.parent, top.ctes), <<>>)

Return ==
  /\ stack # <<>>
  /\ top.todo = <<>>
  /\ stack' = Front(stack)
  /\ returned' = top.outputs
  /\ scopes' = scopes \cup {[path |-> top.path, query |-> top.query, chain |-> <<top.level>> \o top.parent,
                             joins |-> top.joins, ctes |-> top.ctes, outputs |-> top.outputs, compoundOrder |-> top.compoundOrder]}
  /\ UNCHANGED <<query, schema>>

Init ==
  /\ query \in Queries
  /\ \E known \in SUBSET Tables : schema = [v \in Views |-> IF v = "given" THEN known ELSE Tables]
  /\ stack = <<Frame(query, <<>>, <<>>, [n \in Tables |-> NoCte])>>
  /\ scopes = {}
  /\ returned = NoOutputs

Next ==
  \/ BuildCte \/ BindCte
  \/ CollectTable \/ CollectName \/ CollectFunctionOrRaw \/ CollectGroup \/ BuildDerived \/ BindDerived
  \/ Join \/ Joined
  \/ CollectOutputs \/ BuildLeft \/ BindLeft \/ BuildRight \/ BindRight \/ BindCompoundOrder
  \/ BuildSubquery \/ Return

Spec == Init /\ [][Next]_vars

-------------------------------------------------------------------------------
(***************************************************************************)
(* Properties                                                               *)
(***************************************************************************)
Bound == stack = <<>>

\* Where a reference of the block can be: in its clauses or in a join condition.
Chains(s) == {s.chain} \cup {<<s.joins[j]>> \o Tail(s.chain) : j \in DOMAIN s.joins}

\* In DuckDB every arm lends its names to an ORDER BY after a set operation, but
\* the binder does not ask whether it knows them: what it says of a name is bound
\* to stay so only if all the arms are complete.
OrderIsStable ==
  \A s \in {s \in scopes : Has(s.compoundOrder)}, c \in Columns, duckdb \in BOOLEAN :
    LET path  == s.compoundOrder[1]
        given == OrderBinding(path, c, "given", duckdb)
    IN  /\ given.status \in {"resolved", "missing"}
        /\ duckdb => \A arm \in ArmScopes(path) : arm.outputs.complete["given"]
        => OrderBinding(path, c, "full", duckdb) = given

\* What the binder says of a column with an incomplete schema it still says when
\* the schema is completed: a column it resolved does not turn out to come from
\* another relation or to be ambiguous, and one it called missing is not found.
\* This is what resolve's "unknown" is for.
KnowledgeIsStable ==
  Bound =>
    /\ \A s \in scopes : \A chain \in Chains(s), ref \in References :
         LET given == Resolve(ChainSeen(chain, "given"), ref)
         IN  given.status \in {"resolved", "coalesced", "missing"} => Resolve(ChainSeen(chain, "full"), ref) = given
    /\ OrderIsStable

\* A block whose outputs the binder calls complete has exactly those outputs,
\* through stars, CTEs, derived tables, alias lists and set operations.
CompleteIsExact ==
  Bound => \A s \in scopes :
    s.outputs.complete["given"] => /\ s.outputs.complete["full"]
                                   /\ NamesOf(s.outputs.slots["given"]) = NamesOf(s.outputs.slots["full"])

\* What SQL scoping lets a block see of the blocks around it: an expression
\* subquery the block that holds it, a lateral derived table the FROM items before
\* it, and a CTE, a plain derived table or a set arm none of its siblings.
MaySee(path, r) ==
  LET way == path[Len(r.id.owner) + 1]
  IN  way.role \in {"where", "on"} \/ (way.role = "lateral" /\ r.id.index < way.index)

\* The CTEs of that name that are in scope at a path, among those of some blocks:
\* those of the block there and of the blocks around it, but from inside a CTE only
\* the earlier siblings, and itself if it is recursive.
Declares(block, i, name, path) ==
  /\ block.query.with[i].name = name
  /\ Len(path) > Len(block.path) /\ path[Len(block.path) + 1].role \in {"cte", "recursive"}
       => LET body == path[Len(block.path) + 1]
          IN  i < body.index \/ (i = body.index /\ body.role = "recursive")

DeclarationsOf(name, path, blocks) ==
  UNION {{<<Len(b.path), i>> : i \in {i \in DOMAIN b.query.with : Declares(b, i, name, path)}}
           : b \in {b \in blocks : IsPrefix(b.path, path)}}

\* A body is that of the last of some declarations in the innermost block.
IsLatest(body, path, visible) ==
  \E d \in visible : /\ \A e \in visible : e[1] < d[1] \/ (e[1] = d[1] /\ e[2] <= d[2])
                     /\ Front(body) = SubSeq(path, 1, d[1])
                     /\ Last(body).index = d[2]

\* A name in FROM means the declaration that SQL says, none if it is qualified.
IsMeant(r, path, blocks) ==
  LET visible == IF r.qualified THEN {} ELSE DeclarationsOf(r.name, path, blocks)
  IN  IF r.kind = "table" THEN visible = {} ELSE IsLatest(r.body, path, visible)

\* The set operation that an ORDER BY sorts: the largest that it is written after,
\* with no parenthesis between.
SortedBy(s) ==
  LET on(path) == {r \in scopes : IsPrefix(r.path, s.path) /\ Len(r.path) > Len(path)}
      whole    == {r \in scopes : Has(r.query.right) /\ IsPrefix(r.path, s.path)
                                  /\ \A t \in on(r.path) : Last(t.path).role = "right" /\ ~t.query.parenthesized}
  IN  {r.path : r \in {r \in whole : \A t \in whole : Len(r.path) <= Len(t.path)}}

\* What a name means in it, all names being known: an output of the set operation,
\* or in DuckDB what the first block to have the name puts into the columns of the
\* whole.  UNION BY NAME has the names of all its arms for its own.
OrderMeaning(path, c, duckdb) ==
  LET blocks == SelectSeq(Arms(path), LAMBDA s :
                  /\ s.query.byName \/ ~Has(s.query.left)
                  /\ \A r \in scopes : IsStrictPrefix(r.path, s.path) /\ Len(r.path) >= Len(path) => ~r.query.byName)
      In(block) == {k \in DOMAIN ScopeAt(path).outputs.slots["full"] \cap DOMAIN block.outputs.slots["full"] :
                      block.outputs.slots["full"][k].name = c}
      having    == {i \in DOMAIN blocks : In(blocks[i]) # {}}
  IN  CASE ~duckdb      -> In(ScopeAt(path))
        [] having # {} -> {Min(In(blocks[Min(having)]))}
        [] OTHER       -> {}

\* An ORDER BY after a set operation is bound to the outputs of all of it.
OrderIsCombined ==
  Bound => \A s \in scopes :
    /\ ToSet(s.compoundOrder) = IF s.query.order THEN SortedBy(s) ELSE {}
    /\ \A path \in ToSet(s.compoundOrder), c \in Columns, duckdb \in BOOLEAN :
         LET meant == OrderMeaning(path, c, duckdb)
         IN  ScopeAt(path).outputs.complete["full"] =>
               OrderBinding(path, c, "full", duckdb) =
                 [status |-> CASE meant = {} -> "missing" [] Cardinality(meant) = 1 -> "resolved" [] OTHER -> "ambiguous",
                  outputs |-> meant]

\* One level for each block, the innermost first.
InnermostFirst(chain) ==
  \A k, l \in DOMAIN chain : \A r \in ToSet(chain[k].relations), q \in ToSet(chain[l].relations) :
    /\ k = l => q.id.owner = r.id.owner
    /\ k < l => Len(q.id.owner) < Len(r.id.owner)

\* The relations that a block, or a join condition in it, resolves against are its
\* own and those it may see of the blocks around it, in a level for each block and
\* never in a flattened list.
LevelsAreLexical ==
  \A s \in scopes : \A chain \in Chains(s) :
    /\ \A k \in DOMAIN chain : \A r \in ToSet(chain[k].relations) :
         /\ IsPrefix(r.id.owner, s.path)
         /\ r.id.owner = s.path <=> k = 1
         /\ k > 1 => MaySee(s.path, r)
    /\ InnermostFirst(chain)

\* A name in FROM means the CTE that is in scope there, or else the table; "later
\* sibling CTEs cannot leak backwards".
NamesMeanTheirCtes ==
  \A s \in scopes : \A r \in ToSet(s.chain[1].relations) :
    r.kind \in {"table", "cte"} => IsMeant(r, s.path, scopes)

\* Scoping is lexical: once the query is bound, every level of every chain that
\* build made, and every name it looked up in FROM, is as the place in the text says.
ScopesAreLexical == Bound => LevelsAreLexical /\ NamesMeanTheirCtes

\* An ambiguity is reported only when the column is ambiguous: completing the
\* schema does not make it resolve.  The comment on boundReference.status says
\* that "unknown" is the answer when a relation's schema is incomplete.
AmbiguityIsCertain ==
  Bound => \A s \in scopes : \A chain \in Chains(s), ref \in References :
    Resolve(ChainSeen(chain, "given"), ref).status = "ambiguous" => Resolve(ChainSeen(chain, "full"), ref).status = "ambiguous"
===============================================================================
