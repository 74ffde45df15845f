---------------------------- MODULE MCQueryScope ----------------------------
(***************************************************************************)
(* Queries for model checking QueryScope, one family per kind of scoping,   *)
(* and what SQL says of columns merged by USING.                            *)
(***************************************************************************)
EXTENDS QueryScope, MCQueries

\* Joins of three tables: in a row, in a group, and beside another item.
JoinQueries ==
  LET pair(x, using, y) == [primary |-> Name(x), joins |-> <<JoinOf(Name(y), using)>>]
      row(x, f, y, g, z) == [primary |-> Name(x), joins |-> <<JoinOf(Name(y), f), JoinOf(As(Name(z), "w"), g)>>]
      group(x, f, y, g, z) == [primary |-> As(Name(z), "w"), joins |-> <<JoinOf(Group(pair(x, f, y)), g)>>]
      beside(x, f, y, g, z) == <<pair(x, f, y), [primary |-> As(Name(z), "w"), joins |-> <<JoinOf(Name("t"), g)>>]>>
  IN  {SelectStar(from) : from \in
        UNION {{<<row(x, f, y, g, z)>>, <<group(x, f, y, g, z)>>, beside(x, f, y, g, z)} :
                 x \in {"t", "u"}, y \in {"u", "w"}, z \in MCTables, f \in Usings, g \in Usings}}

\* A derived table beside a table, lateral or not, before or after it, with a
\* subquery of its own.
DerivedQueries ==
  LET bodies == Leaves \cup {[leaf EXCEPT !.where = <<Select(<<Column("b")>>, <<Only(As(Name("t"), "u"))>>)>>] : leaf \in Leaves}
      froms  == UNION {{<<Only(Name(n)), Only(Sub(q, lateral))>>, <<Only(Sub(q, lateral)), Only(Name(n))>>} :
                         n \in {"t", "u"}, q \in bodies, lateral \in BOOLEAN}
  IN  {SelectStar(from) : from \in froms} \cup {Select(<<Star("w")>>, from) : from \in froms}

\* Two CTEs that may be recursive and named like tables, like each other, or
\* like the table they read.
WithQueries ==
  LET single(n) == Select(<<Column("a")>>, <<Only(Name(n))>>)
      bodies    == {single("t"), single("u"), [single("u") EXCEPT !.right = <<SelectStar(<<Only(Name("t"))>>)>>]}
      cte(x, rec, cols, q) == [name |-> x, recursive |-> rec, columns |-> cols, query |-> q]
      plain     == {cte(x, FALSE, <<>>, q) : x \in {"t", "u"}, q \in bodies}
      recursive == {cte(x, TRUE, cols, q) : x \in {"t", "u"}, cols \in {<<>>, <<"b">>}, q \in bodies}
      roots == {SelectStar(<<Only(Name("t"))>>),
                SelectStar(<<Only([Name("t") EXCEPT !.qualified = TRUE]), Only(As(Name("u"), "w"))>>),
                SelectStar(<<Only(Sub(SelectStar(<<Only(Name("u"))>>), FALSE))>>)}
  IN  {[root EXCEPT !.with = <<c, d>>] : root \in roots, c \in plain \cup recursive, d \in plain}

\* Set operations by position and by name, of two and of three arms.
SetQueries ==
  LET arms == Leaves \cup {[Select(<<>>, <<>>) EXCEPT !.values = <<"a", Unnamed>>],
                           Select(<<Column("a"), Column(Unnamed)>>, <<Only(Name("w"))>>),
                           Select(<<[Star(Unnamed) EXCEPT !.except = {"a"}]>>, <<Only(Name("u"))>>),
                           SelectStar(<<Only([Name("u") EXCEPT !.columns = <<"b">>])>>),
                           SelectStar(<<Only(Function)>>), SelectStar(<<Only(Raw)>>)}
      two  == {[l EXCEPT !.right = <<r>>, !.byName = by] : l \in arms, r \in arms, by \in BOOLEAN}
      three == {[Select(<<>>, <<>>) EXCEPT !.left = <<l>>, !.right = <<r>>, !.byName = by] :
                  l \in {q \in two : q.byName /\ q.select = <<Column("a")>>}, r \in Leaves, by \in BOOLEAN}
  IN  two \cup three

\* ORDER BY after a set operation: in its last arm, in an arm with parentheses,
\* after such an arm, and in the last of three arms, grouped either way.
OrderQueries ==
  LET pairs == {Select(<<Column(c), Column(d)>>, <<Only(Name("u"))>>) : c, d \in MCColumns \cup {Unnamed}}
               \cup {SelectStar(<<Only(Name(n))>>) : n \in {"u", "w"}}
      ordered(q) == [q EXCEPT !.order = TRUE]
      inside(q)  == [q EXCEPT !.parenthesized = TRUE]
      two(l, r, by) == [l EXCEPT !.right = <<r>>, !.byName = by]
      left(l, r)    == [Select(<<>>, <<>>) EXCEPT !.left = <<l>>, !.right = <<r>>]
      ends(l, r, by) == {two(l, ordered(r), by), two(l, inside(ordered(r)), by), ordered(two(l, inside(r), by))}
      thirds == {SelectStar(<<Only(Name("w"))>>), Select(<<Column("b"), Column(Unnamed)>>, <<Only(Name("u"))>>)}
      middle == {Select(<<Column("a"), Column(Unnamed)>>, <<Only(Name("u"))>>), SelectStar(<<Only(Name("w"))>>)}
  IN  UNION {ends(l, r, by) : l \in pairs, r \in pairs, by \in BOOLEAN}
      \cup UNION {{two(l, q, FALSE), two(l, inside(q), FALSE), left(q, ordered(l))} :
                     l \in pairs, q \in UNION {ends(m, r, by) : m \in middle, r \in thirds, by \in BOOLEAN}}

\* Subqueries of WHERE and of a join condition, under a block of two items.
CorrelatedQueries ==
  LET inner == {[leaf EXCEPT !.with = with, !.where = where] :
                  leaf \in Leaves, where \in {<<>>, <<SelectStar(<<Only(As(Name("u"), "w"))>>)>>},
                  with \in {<<>>, <<[name |-> "w", recursive |-> FALSE, columns |-> <<>>, query |-> SelectStar(<<Only(Name("w"))>>)]>>}}
                \cup {SelectStar(<<[primary |-> Name("t"), joins |-> <<JoinOf(Name("u"), <<"b">>)>>]>>)}
      tables(q) == {<<[primary |-> Name(x), joins |-> <<JoinOn(Name(y), q)>>], Only(As(Name("t"), "w"))>> :
                      x \in {"t", "u"}, y \in {"u", "w"}}
  IN  UNION {{SelectStar(from) : from \in tables(q)} : q \in inner}
      \cup {[SelectStar(<<Only(Name(n)), Only(As(Name("u"), "w"))>>) EXCEPT !.where = <<q>>] : n \in {"t", "u"}, q \in inner}

MCQueries == JoinQueries \cup DerivedQueries \cup WithQueries \cup SetQueries \cup OrderQueries \cup CorrelatedQueries

MCNodes == NodesOf(MCQueries)

-----------------------------------------------------------------------------
(***************************************************************************)
(* The reference: how many columns called c a FROM clause shows when USING  *)
(* makes one of two, and whether every USING of c is legal, that is, each   *)
(* side shows c once.  The relations of a clause are numbered in its order. *)
(***************************************************************************)
Shows(width, count, legal) == [width |-> width, count |-> count, legal |-> legal]

RECURSIVE ShownBy(_, _, _, _), ShownByTable(_, _, _, _)

ShownBy(item, first, relations, c) ==
  IF item.kind = "group" THEN ShownByTable(item.items[1], first, relations, c)
  ELSE Shows(1, Cardinality({k \in DOMAIN relations[first].columns["full"] : relations[first].columns["full"][k] = c}), TRUE)

ShownByTable(table, first, relations, c) ==
  FoldLeft(LAMBDA left, join :
             LET right  == ShownBy(join.right, first + left.width, relations, c)
                 merges == c \in ToSet(join.using)
             IN  Shows(left.width + right.width,
                       IF merges THEN 1 ELSE left.count + right.count,
                       left.legal /\ right.legal /\ (merges => left.count = 1 /\ right.count = 1)),
           ShownBy(table.primary, first, relations, c), table.joins)

ShownByFrom(from, relations, c) ==
  FoldLeft(LAMBDA before, table :
             LET this == ShownByTable(table, 1 + before.width, relations, c)
             IN  Shows(before.width + this.width, before.count + this.count, before.legal /\ this.legal),
           Shows(0, 0, TRUE), from)

\* With every column known, an unqualified column is ambiguous exactly when the
\* FROM clause shows it more than once: USING merges what it joins, through
\* rows and groups of joins, and nothing else.
UsingShowsOneColumn ==
  Bound => \A s \in scopes : \A c \in Columns :
    LET level == s.chain[1]
        shown == ShownByFrom(s.query.from, level.relations, c)
    IN  shown.legal /\ (\A r \in ToSet(level.relations) : r.known["full"]) =>
          Resolve(<<Seen(level, "full")>>, [table |-> Unnamed, column |-> c]).status
            \in (CASE shown.count = 0 -> {"missing"}
                   [] shown.count = 1 -> {"resolved", "coalesced"}
                   [] OTHER -> {"ambiguous"})
=============================================================================
