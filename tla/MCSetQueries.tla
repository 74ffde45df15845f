----------------------------- MODULE MCSetQueries -----------------------------
(***************************************************************************)
(* Texts for model checking SetQueries: one to three arms, bare or in       *)
(* parentheses, with and without clauses of their own, and what follows.    *)
(***************************************************************************)
EXTENDS SetQueries

Sel(a)    == <<SelectOf(a, <<>>)>>
SelTop(a, rows) == <<SelectOf(a, <<rows>>)>>
Op(o)     == <<Mark(o)>>
Paren(ts) == Parens(ts, 1)

Ordered == [NoTail EXCEPT !.order = "x"]
Limited == [NoTail EXCEPT !.limit = <<Rows("3")>>]
Page    == [Ordered EXCEPT !.limit = <<Rows("3")>>, !.offset = TRUE]
Fetched(rows) == [Ordered EXCEPT !.fetch = <<rows>>]
Clause(tail) == IF tail = NoTail THEN <<>> ELSE <<TailOf(tail)>>

\* Modifiers with and without an OFFSET, for the clauses that have them.
Part == [Rows("5") EXCEPT !.percent = TRUE]
Tied == [Rows("5") EXCEPT !.ties = TRUE]
Modified == UNION {{[Ordered EXCEPT !.limit = <<Part>>, !.offset = o], [Fetched(Part) EXCEPT !.offset = o],
                    [Fetched(Tied) EXCEPT !.offset = o], [Fetched(Rows("5")) EXCEPT !.offset = o]} : o \in BOOLEAN}

Tails == {NoTail, Ordered, Limited, Page, [Limited EXCEPT !.limit = <<Rows("ALL")>>],
          Fetched(Rows(Omitted))} \cup Modified

Bare(a)   == {Sel(a), SelTop(a, Rows("5")), SelTop(a, Part), SelTop(a, Tied)}
Closed(a) == {Paren(Sel(a)), Paren(Sel(a) \o Clause(Page)), Paren(SelTop(a, Rows("5")) \o Clause(Ordered)),
              Paren(Sel(a) \o Op("EXCEPT") \o Sel("d") \o Clause(Limited)),
              Paren(SelTop(a, Rows("5")) \o Op("UNION") \o Sel("d"))}

\* A text with TOP is of a dialect whose LIMIT and FETCH have no modifiers, and
\* a SELECT with TOP has no LIMIT of its own.
Topped(ts) == \E i \in DOMAIN ts : ts[i].is = "SELECT" /\ ts[i].top # <<>>
TailsAfter(ts) == IF Topped(ts) THEN {NoTail, Ordered, Limited, Page} ELSE Tails
Alone == {s \o Clause(t) : s \in {Sel("a")}, t \in Tails} \cup {s \o Clause(t) : s \in Bare("a"), t \in {NoTail, Ordered}}

Pairs(left, right) == {l \o Op(o) \o r : l \in left, r \in right, o \in {"UNION", "EXCEPT"}}
Triples(left, middle) ==
  {l \o Op(o[1]) \o m \o Op(o[2]) \o r : l \in left, m \in middle,
     r \in {Sel("c"), SelTop("c", Rows("5")), Paren(Sel("c") \o Clause(Limited))},
     o \in {<<"UNION", "EXCEPT">>, <<"EXCEPT", "INTERSECT">>, <<"INTERSECT", "UNION">>}}

\* Read by the parser as the grammar has it: no operand in parentheses after WITH,
\* no INTERSECT after two operands in parentheses.
Compounds ==
  LET open == Pairs(Bare("a"), Bare("b") \cup Closed("b")) \cup Triples(Bare("a"), Bare("b"))
  IN  open \cup {<<Mark("WITH")>> \o q : q \in open} \cup Pairs(Closed("a"), Bare("b") \cup Closed("b"))
      \cup Triples(Closed("a"), Bare("b"))

\* Two tails: of the compound in the parentheses, or of its last arm, and of the
\* parentheses.
Twice ==
  UNION {{Paren(q \o Clause(t)) \o Clause(u) : t \in {NoTail, Ordered, Limited}, u \in TailsAfter(q)} :
           q \in Pairs(Bare("a"), {Sel("b")})}
  \cup UNION {{Paren(q) \o Clause(u) : u \in TailsAfter(q)} : q \in Pairs(Bare("a"), Closed("b"))}

MCTexts == Alone \cup UNION {{q \o Clause(t) : t \in TailsAfter(q)} : q \in Compounds} \cup Twice

\* TSQL has no TOP ALL to write LIMIT ALL with.
AllTargets == {"Generic", "TSQL", "Snowflake", "PostgreSQL", "Oracle", "DuckDB", "SQLite", "ClickHouse"}
Everything(ts) == \E i \in DOMAIN ts : ts[i] = TailOf([Limited EXCEPT !.limit = <<Rows("ALL")>>])
MCTargetsOf(ts) == IF Everything(ts) THEN AllTargets \ {"TSQL"} ELSE AllTargets
===============================================================================
