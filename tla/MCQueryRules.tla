---------------------------- MODULE MCQueryRules ----------------------------
(***************************************************************************)
(* A caller asks for the semantics of a query, as in MCSemantics, or has a  *)
(* query validated.  The blocks to validate are all small ones over two     *)
(* tables, clause by clause, with aliases, ordinals, windows, lambdas and   *)
(* aggregates where they may and may not be.                                *)
(***************************************************************************)
EXTENDS MCSemantics, RuleMeaning

Keys == [t |-> {"a"}, u |-> {}]
Few == {0, 1}

Plus(x, y)   == Op("+", <<x, y>>)
SumOf(x)     == Op("SUM", <<x>>)
RankBy(x)    == [Op("RANK", <<>>) EXCEPT !.over = <<x>>]
SumOver(x, by) == [SumOf(x) EXCEPT !.over = <<by>>]
SumWhere(x, e) == [SumOf(x) EXCEPT !.filter = <<e>>]
\* A parameter that no alias shares.
Transform(x, body) == [Op("TRANSFORM", <<x, body>>) EXCEPT !.local = "p"]
P == Col("", "p")
X == Col("", "x")
Y == Col("", "y")

Block(items, tables, where, group, having, qualify, order) ==
  [SelectStmt(items, [i \in DOMAIN tables |-> TableExpr(tables[i], <<>>)])
     EXCEPT !.where = where, !.groupBy = group, !.having = having, !.qualify = qualify, !.orderBy = order]

FirstItems == { A, SumOf(B), Eq(A, B), SumOver(B, A), RankBy(A), Transform(A, Plus(P, B)), Lit(1) }
LaterItems == { B, X, Eq(X, X), Eq(A, B), SumOf(X), SumOver(SumOf(B), X), SumWhere(B, Eq(X, Lit(1))), Col("t", "a") }
Groups     == { <<>>, <<A>>, <<X>>, <<Lit(1)>>, <<Eq(A, B)>>, <<Lit(2)>>, <<Op("()", <<Op("TUPLE", <<A, B>>)>>)>>, <<Eq(X, X)>> }

\* With two values a + b says whether a = b: a pair the rules could not know of.
\* Two projections, the second under an alias that only ORDER BY and those like it see.
Grouping ==
  { Block(<<As(e, "x"), As(f, "y")>>, <<T>>, <<>>, g, <<>>, <<>>, o) :
      <<e, f>> \in (FirstItems \X LaterItems) \ {<<Transform(A, Plus(P, B)), Eq(A, B)>>}, g \in Groups, o \in { <<>>, <<Y>> } }

\* One projection, and each of the other clauses.
Clausal ==
  { Block(<<As(e, "x")>>, <<T>>, w, g, h, q, o) :
      e \in { A, SumOf(B), RankBy(B) }, w \in { <<>>, <<Eq(X, X)>>, <<SumOf(B)>> }, g \in { <<>>, <<A>>, <<X>> },
      h \in { <<>>, <<X>>, <<B>>, <<SumOf(B)>>, <<RankBy(A)>> }, q \in { <<>>, <<Eq(RankBy(A), X)>> }, o \in { <<Lit(1)>>, <<SumOf(A), B>> } }

\* Names: aliases before and after their use, and named like a column; windows
\* and aggregates in each other; two tables, one of them twice.
Named2 ==
  { Block(<<As(e, "x"), As(f, n)>>, ts, w, <<>>, <<>>, <<>>, o) :
      e \in { Y, X, B, Eq(X, A) }, f \in { X, A, Transform(B, Eq(P, X)), Op("RANK", <<>>), RankBy(SumOf(A)), SumOver(RankBy(A), B), SumOf(RankBy(A)) },
      n \in { "y", "a" }, ts \in { <<T>>, <<T, U>>, <<T, TableAs("t", "s")>> },
      w \in { <<>>, <<Col("s", "a")>>, <<Y>> }, o \in { <<>>, <<Plus(A, A)>> } }

\* The condition of a join sees no alias, aggregate or window, and of the tables
\* those of its own FROM item that have been joined.
OnCondition ==
  { [Block(<<As(e, "x"), As(C, "y")>>, <<T>>, <<>>, <<>>, <<>>, <<>>, o)
       EXCEPT !.from = <<TableExpr(T, <<Join("INNER", U, Eq(l, r))>>)>>] :
      e \in { A, RankBy(C), Transform(C, Eq(P, A)) }, l \in { A, X, Y, SumOf(B), Col("t", "c") }, r \in { C, RankBy(A) },
      o \in { <<>>, <<X, Eq(Y, B)>> } }
  \cup
  { [Block(<<As(e, "x")>>, <<T>>, <<>>, <<>>, <<>>, <<>>, <<>>)
       EXCEPT !.from = <<TableExpr(U, <<>>), TableExpr(T, <<Join("INNER", TableAs("u", "r"), Eq(A, f)), Join("INNER", TableAs("u", "s"), Eq(g, B))>>)>>] :
      e \in { A, C }, f \in { C, Col("r", "c"), Col("s", "c"), Col("u", "c") }, g \in { C, Col("r", "c"), Col("s", "c") } }

\* Not among them: an alias in parentheses in GROUP BY, a parameter named like an
\* alias, and ORDER BY an expression over an alias that is an ambiguous column.
Validated == Grouping \cup Clausal \cup Named2 \cup OnCondition

RuleDialects(q) == IF q \in Validated THEN {"DuckDB", "PostgreSQL", "TSQL", "SQLite"} ELSE DialectsFor(q)

AllAsked == AllQueries \cup Validated

-------------------------------------------------------------------------------
CallerInit == Init /\ issues = <<>>

Analysed == query \in AllQueries /\ Next /\ UNCHANGED issues

Checked == query \in Validated /\ Validate /\ UNCHANGED <<database, result>>

CallerSpec == CallerInit /\ [][Analysed \/ Checked]_<<vars, issues>>
===============================================================================
