------------------------------ MODULE MCLineage ------------------------------
(***************************************************************************)
(* A query is bound, and then a caller asks for the columns it uses or for  *)
(* the lineage of an output.  Lineage is asked of queries whose names mean  *)
(* one thing wherever they are read, and in runs of their own of those that *)
(* put its lookup by name to a test.                                        *)
(***************************************************************************)
EXTENDS Lineage, MCColumnUpstream

Pick(refs)   == [Column("a") EXCEPT !.refs = refs]
Reading(n)   == Select(<<Pick(<<Of(n, "a")>>)>>, <<Only(Name(n))>>)
Derived(q, alias) == As(Sub(q, FALSE), alias)
WithCte(name, q, root) == [root EXCEPT !.with = <<[name |-> name, recursive |-> FALSE, columns |-> <<>>, query |-> q]>>]

\* A table, a join of two, an aliased table, and a computed column of both.
Bodies ==
  {Reading("t"), Reading("u"), Select(<<Column("a")>>, <<Only(Name("t"))>>),
   Select(<<Pick(<<Of("w", "b")>>)>>, <<Only(As(Name("u"), "w"))>>),
   Select(<<[Column("b") EXCEPT !.refs = <<Of("u", "b")>>], Pick(<<Of("t", "a"), Of("u", "b"), Of("t", "a")>>)>>,
          <<[primary |-> Name("t"), joins |-> <<JoinOf(Name("u"), <<>>)>>]>>)}

\* One derived table in another, and a table function of what a block reads, of
\* a name that no other relation has.
Nested ==
  {Select(<<Pick(<<Of("w", "a")>>)>>, <<Only(Derived(q, "w"))>>) : q \in Bodies}
  \cup {Select(<<Pick(<<Of("u", "a")>>)>>, <<Only(Derived(q, "w")), Only(Unnest("u", Of("w", "a")))>>) : q \in {Reading("t"), Select(<<Column("a")>>, <<Only(Name("t"))>>)}}

ExactQueries ==
  LET deep == {Select(<<Pick(<<Of("w", "a")>>)>>, <<Only(Derived(q, "w"))>>) : q \in Nested}
      ctes == {WithCte("w", q, Select(<<Pick(<<Of("w", "a")>>)>>, <<Only(Name("w"))>>)) : q \in Bodies}
  IN  Bodies \cup Nested \cup deep \cup ctes
      \cup {UnionOf(l, r) : l \in Bodies \cup Nested, r \in {q \in Bodies : Len(q.select) = 1}}

\* Table functions that read what they show.
SelfQueries ==
  {Select(<<Column("a")>>, <<Only(Unnest("w", [table |-> Unnamed, column |-> "a"]))>>)} \cup Nested

-------------------------------------------------------------------------------
\* The queries that are bound, and which of the two questions is asked of them.
AnalysedQueries == MCQueries \cup MCQueriesToWalk \cup ExactQueries

AnalysedNodes == NodesOf(AnalysedQueries \cup SelfQueries)

AskUse == query \in MCQueriesToWalk /\ WalkNext /\ UNCHANGED lineage

AskLineage == query \in ExactQueries /\ LineageNext

CallerNext == BindFirst \/ AskUse \/ AskLineage

CallerSpec == LineageInit /\ [][CallerNext]_lineageVars

\* Column use is answered after finitely many steps, whatever reads what: neither a
\* recursive CTE nor table functions that read themselves and each other keep the
\* walk going (bindingUpstream, whose only guard is the set of what it is visiting).
WalkEnds == <>[][FALSE]_walk
===============================================================================
