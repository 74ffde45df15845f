--------------------------- MODULE MCColumnUpstream ---------------------------
(***************************************************************************)
(* Queries for model checking ColumnUpstream: what a column can be traced   *)
(* through, alone and one inside the other.                                 *)
(***************************************************************************)
EXTENDS ColumnUpstream, MCQueryScope

Plain(n)    == Select(<<Column("a")>>, <<Only(Name(n))>>)
Bare(c)     == [table |-> Unnamed, column |-> c]
Of(n, c)    == [table |-> n, column |-> c]
Unnest(alias, arg) == [Function EXCEPT !.alias = alias, !.columns = <<"a">>, !.args = <<arg>>]
UnionOf(l, r)  == [l EXCEPT !.right = <<r>>]
With(name, recursive, q, root) ==
  [root EXCEPT !.with = Append(@, [name |-> name, recursive |-> recursive, columns |-> <<"a">>, query |-> q])]

\* A recursive CTE, alone and under another, that adds columns of a table.
RecursiveQueries ==
  LET body(n) == UnionOf(Plain(n), Select(<<Column("a")>>, <<Only(Name("w")), Only(Name("t"))>>))
  IN  {With("w", TRUE, body(n), Plain("w")) : n \in {"t", "u"}}
      \cup {With("u", FALSE, Plain("w"), With("w", TRUE, body("t"), Plain("u")))}

\* Table functions that read themselves, each other, both or a table beside them.
FunctionQueries ==
  LET pair(x, y) == <<Only(Unnest("w", x)), Only(Unnest("u", y)), Only(Name("t"))>>
  IN  {Plain("t"), Select(<<Column("a")>>, <<Only(Unnest("w", Bare("a")))>>),
       Select(<<Column("a")>>, <<Only(Unnest("w", Bare("b"))), Only(Name("u"))>>)}
      \cup {Select(<<[Column("a") EXCEPT !.refs = <<Of("w", "a")>>]>>, pair(Of(x, "a"), Of(y, "a"))) :
              x \in {"u", "w", "t"}, y \in {"w", "t"}}
      \cup {Select(<<[Column("a") EXCEPT !.refs = <<Of("w", "a")>>]>>,
                   <<Only(Unnest("w", Of("u", "a"))), Only([Unnest("u", Of("w", "a")) EXCEPT !.args = @ \o <<Of("u", "a")>>])>>)}

\* The arms of a set operation: by position or by name, whole or filtered, over
\* stars of tables whose columns may be unknown.
UnionQueries ==
  LET arms  == {Plain("t"), SelectStar(<<Only(Name("u"))>>), SelectStar(<<Only(Name("w")), Only(Name("t"))>>)}
      sets  == {[UnionOf(l, r) EXCEPT !.byName = by, !.union = un] : l \in arms, r \in arms, by \in BOOLEAN, un \in BOOLEAN}
      three == {[Select(<<>>, <<>>) EXCEPT !.left = <<l>>, !.right = <<r>>] : l \in {q \in sets : q.union}, r \in {Plain("t")}}
  IN  {SelectStar(<<Only(Sub(q, FALSE))>>) : q \in sets \cup three}

\* Columns merged by USING under a CTE, and a CTE beside a table in a union.
MergedQueries ==
  {With("w", FALSE, Select(<<Column("a")>>, <<[primary |-> Name(x), joins |-> <<JoinOf(Name(y), <<"a">>)>>]>>), Plain("w")) :
     x \in {"t", "u"}, y \in {"u", "w"}}
  \cup {With("w", FALSE, Plain("t"), SelectStar(<<Only(Sub(UnionOf(Plain(n), Plain("w")), FALSE))>>)) : n \in {"t", "u"}}

MCQueriesToWalk == RecursiveQueries \cup FunctionQueries \cup UnionQueries \cup MergedQueries
===============================================================================
