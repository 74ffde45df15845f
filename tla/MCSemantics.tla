----------------------------- MODULE MCSemantics -----------------------------
(***************************************************************************)
(* Queries over two declared tables and one nobody declared.               *)
(***************************************************************************)
EXTENDS SqlMeaning

Tables ==
  [t |-> <<[name |-> "a", type |-> "INTEGER", nullable |-> FALSE], [name |-> "b", type |-> "TINYINT", nullable |-> TRUE]>>,
   u |-> <<[name |-> "c", type |-> "BIGINT", nullable |-> FALSE]>>,
   w |-> <<[name |-> "d", type |-> "TINYINT", nullable |-> TRUE]>>]

Declared ==
  [n \in {"t", "u"} |->
     [i \in DOMAIN Tables[n] |->
        Column(Tables[n][i].name, Tables[n][i].type, IF Tables[n][i].nullable THEN "nullable" ELSE "non_null")]]

T == TableAs("t", "")
U == TableAs("u", "")
W == TableAs("w", "")
A == Col("", "a")
B == Col("", "b")
C == Col("", "c")
Only(t)     == <<TableExpr(t, <<>>)>>
As(e, n)    == Item(e, n)
Plain(e)    == Item(e, "")
Select(items, t) == SelectStmt(items, Only(t))
Eq(x, y)    == Op("=", <<x, y>>)
Coal(x, y)  == Op("COALESCE", <<x, y>>)
Unite(l, r, byName) == [SelectStmt(<<>>, <<>>) EXCEPT !.left = <<l>>, !.right = <<r>>, !.byName = byName]
Where(q, e) == [q EXCEPT !.where = <<e>>]
GroupBy(q, e) == [q EXCEPT !.groupBy = <<e>>]
With(q, name, columns, body) == [q EXCEPT !.with = Append(@, [name |-> name, columns |-> columns, query |-> body])]

\* Expressions over the columns of t.
Exprs ==
  { A, B, Op("-", <<B>>), Op("NOT", <<Eq(A, B)>>), Op("AND", <<Eq(A, Lit(1)), Eq(B, Lit(1))>>),
    Op("OR", <<Eq(A, Lit(1)), Op("IS NULL", <<B>>)>>), Op("BETWEEN", <<A, B, Lit(7)>>),
    Op("+", <<A, B>>), Op("/", <<A, Lit(2)>>), Op("IN", <<A, Lit(1), B>>),
    CastTo("CAST", B, "BIGINT"), CastTo("TRY_CAST", A, "TINYINT"),
    Coal(B, A), Coal(A, B), Coal(B, Lit(1)), Coal(B, Lit(7)), Coal(B, NullLit), Coal(A, Lit(9)),
    Op("NULLIF", <<A, B>>), Op("IF", <<Eq(A, Lit(1)), B, Lit(7)>>), Op("IF", <<Eq(A, Lit(1)), A, B>>),
    Op("CASE", <<Eq(A, Lit(1)), B, A>>), Op("CASE", <<Eq(A, Lit(1)), A>>),
    Op("CASE", <<Op("IS NULL", <<B>>), Lit(7), Eq(A, Lit(1)), A, B>>),
    Op("ABS", <<B>>), Op("FLOOR", <<B>>), Op("UPPER", <<A>>), Op("LENGTH", <<B>>),
    Over("EXISTS", <<>>, Select(<<Plain(A)>>, U)),
    Over("IN", <<A>>, Select(<<Plain(C)>>, U)), Over("IN", <<A>>, Select(<<Plain(Col("", "d"))>>, W)),
    Over("IN", <<A>>, Where(Select(<<Plain(C)>>, U), Eq(C, B))) }

Alone == { Select(<<Plain(e)>>, T) : e \in Exprs }

Joins ==
  { SelectStmt(<<Plain(A), Plain(B), Plain(C)>>, <<TableExpr(T, <<Join(kind, U, Eq(A, C))>>)>>) :
      kind \in {"INNER", "LEFT", "RIGHT", "FULL"} }
  \cup
  { SelectStmt(<<Plain(Col("x", "a")), StarOf("u"), Plain(Col("y", "a"))>>,
               <<TableExpr(TableAs("t", "x"), <<Join(k1, U, Eq(Col("x", "a"), C)), Join(k2, TableAs("t", "y"), Eq(Col("y", "a"), C))>>)>>) :
      k1 \in {"LEFT", "RIGHT", "FULL"}, k2 \in {"INNER", "LEFT", "RIGHT", "FULL"} }
  \cup
  { SelectStmt(<<StarOf("")>>,
               <<TableExpr(T, <<Join(k1, Grouped(TableExpr(U, <<Join(k2, W, Eq(C, Col("", "d")))>>)), Eq(A, C))>>)>>) :
      k1 \in {"INNER", "LEFT", "FULL"}, k2 \in {"RIGHT", "INNER"} }

Aggregated ==
  { Select(<<As(Op(f, <<B>>), "m")>>, T) : f \in Aggregates }
  \cup { Select(<<Plain(Op("SUM", <<A>>)), Plain(Op("COUNT", <<A>>))>>, T),
         GroupBy(Select(<<Plain(B), Plain(Op("SUM", <<A>>)), Plain(Op("MIN", <<A>>))>>, T), B),
         Select(<<Plain(Coal(Op("SUM", <<B>>), Lit(0)))>>, T),
         Select(<<Plain(Op("+", <<Op("COUNT", <<B>>), Lit(1)>>))>>, T) }

\* An alias that a later projection names.
Lateral == Select(<<As(Op("IF", <<Eq(A, Lit(1)), A, NullLit>>), "x"), As(Coal(Col("", "x"), Lit(1)), "y"), Plain(B)>>, T)

Nested ==
  { Select(<<StarOf("s")>>, Derived(Select(<<Plain(B), As(Coal(B, A), "m")>>, T), "s")),
    Select(<<Plain(Col("s", "m"))>>, Derived(Select(<<As(Op("MIN", <<A>>), "m")>>, T), "s")),
    SelectStmt(<<StarOf("")>>,
               <<TableExpr(U, <<Join("LEFT", Derived(Select(<<As(Op("COUNT", <<A>>), "m")>>, T), "s"), Eq(C, Col("s", "m")))>>)>>),
    With(Select(<<StarOf("")>>, TableAs("r", "")), "r", <<"p">>, Select(<<Plain(A), Plain(B)>>, T)),
    With(With(Select(<<Plain(Col("r", "p"))>>, TableAs("s", "r")), "r", <<"p", "q">>, Select(<<Plain(B), Plain(A)>>, T)),
         "s", <<"p">>, Select(<<Plain(Col("", "q"))>>, TableAs("r", ""))),
    With(Select(<<StarOf("")>>, TableAs("t", "")), "t", <<>>, Select(<<As(C, "a")>>, U)),
    Select(<<As(B, "a"), Plain(A)>>, T),
    Select(<<[StarOf("") EXCEPT !.except = {"a"}]>>, T),
    Where(Select(<<Plain(A)>>, T), Over("EXISTS", <<>>, Where(Select(<<Plain(C)>>, U), Eq(C, A)))),
    Select(<<StarOf(""), Plain(Lit(1))>>, W), Select(<<Plain(Col("", "d")), Plain(Lit(1))>>, W),
    SelectStmt(<<StarOf("")>>, <<TableExpr(T, <<>>), TableExpr(U, <<>>)>>) }

Arms ==
  { Select(<<Plain(A), Plain(B)>>, T), Select(<<Plain(C), As(Lit(1), "b")>>, U), Select(<<As(C, "b"), As(C, "a")>>, U),
    Select(<<Plain(B), As(NullLit, "a")>>, T) }
United ==
  { Unite(l, r, byName) : l \in Arms, r \in Arms, byName \in BOOLEAN }
  \cup { Unite(Select(<<Plain(A), Plain(B)>>, T), Select(<<Plain(C)>>, U), TRUE),
         Unite(Select(<<Plain(C)>>, U), Select(<<Plain(B), Plain(C)>>, Grouped(TableExpr(T, <<Join("LEFT", U, Eq(A, C))>>))), TRUE),
         With(Unite(Select(<<Plain(Col("", "p"))>>, TableAs("r", "")), Select(<<Plain(A)>>, T), FALSE), "r", <<"p">>, Select(<<Plain(C)>>, U)),
         Select(<<Plain(Col("s", "b"))>>, Derived(Unite(Select(<<Plain(A)>>, T), Select(<<Plain(A), Plain(B)>>, T), TRUE), "s")) }

\* Stars over the table nobody declared: behind a derived table, in either arm of a
\* set operation, and in CTEs, with columns of it that are named beside them.
Star(t) == Select(<<StarOf("")>>, t)
R == TableAs("r", "")
Open ==
  { Star(Derived(Star(W), "s")), Select(<<StarOf("s"), As(C, "d")>>, Grouped(TableExpr(Derived(Star(W), "s"), <<Join("LEFT", U, Eq(C, Lit(1)))>>))),
    Star(Derived(Unite(Select(<<Plain(A)>>, T), Star(W), TRUE), "s")), Star(Derived(With(Star(R), "r", <<>>, Star(T)), "s")),
    With(Star(R), "r", <<>>, Star(W)), With(Star(R), "r", <<"p">>, Star(Derived(Star(W), "s"))),
    With(Star(R), "r", <<>>, Select(<<Plain(Col("", "d"))>>, W)), With(Star(R), "r", <<"p">>, Unite(Star(U), Select(<<Plain(Col("", "d"))>>, W), FALSE)) }
  \cup { Unite(Select(<<Plain(A)>>, T), Star(W), byName) : byName \in BOOLEAN }
  \cup { Unite(Star(W), Select(<<Plain(A)>>, T), byName) : byName \in BOOLEAN }
  \cup { With(Unite(Select(<<Plain(A)>>, T), Star(R), byName), "r", <<>>, Star(body)) : byName \in BOOLEAN, body \in {W, U} }

SomeValues == {-1, 1, 5}

AllQueries == Alone \cup Joins \cup Aggregated \cup Nested \cup United \cup Open \cup {Lateral}

\* UNION BY NAME and such aliases are DuckDB's; "/" divides integers in PostgreSQL.
DialectsFor(q) == IF q.right # <<>> \/ q = Lateral \/ q \in Open THEN {"DuckDB"} ELSE {"DuckDB", "PostgreSQL"}
===============================================================================
