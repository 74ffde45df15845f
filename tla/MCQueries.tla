------------------------------ MODULE MCQueries ------------------------------
(***************************************************************************)
(* A small catalog and constructors for the queries that the model-checking *)
(* modules of the binder and of what is built on it enumerate.              *)
(***************************************************************************)
EXTENDS NameBinding

MCTables  == {"t", "u", "w"}
MCColumns == {"a", "b"}
MCCatalog == [n \in MCTables |-> CASE n = "t" -> <<"a">> [] n = "u" -> <<"a", "b">> [] OTHER -> <<"b", "a">>]

(***************************************************************************)
(* Constructors                                                             *)
(***************************************************************************)
Name(n)         == [kind |-> "table", name |-> n, alias |-> Unnamed, qualified |-> FALSE, columns |-> <<>>]
As(item, alias) == [item EXCEPT !.alias = alias]
Sub(q, lateral) == [kind |-> "derived", query |-> q, alias |-> "w", lateral |-> lateral, columns |-> <<>>]
Group(table)    == [kind |-> "group", items |-> <<table>>]
Function        == [kind |-> "table_function", name |-> "w", alias |-> Unnamed, columns |-> <<>>, args |-> <<>>]
Raw             == [kind |-> "raw", name |-> "w", alias |-> Unnamed, columns |-> <<>>, args |-> <<>>]

Only(item)     == [primary |-> item, joins |-> <<>>]
JoinOf(item, using) == [right |-> item, using |-> using, on |-> <<>>]
JoinOn(item, q) == [right |-> item, using |-> <<>>, on |-> <<q>>]

Star(qualifier) == [star |-> TRUE, table |-> qualifier, except |-> {}]
Column(c)       == [star |-> FALSE, name |-> c, refs |-> IF c = Unnamed THEN <<>> ELSE <<[table |-> Unnamed, column |-> c]>>]

Select(projections, from) ==
  [with |-> <<>>, from |-> from, select |-> projections, values |-> <<>>, where |-> <<>>,
   left |-> <<>>, right |-> <<>>, byName |-> FALSE, union |-> TRUE, order |-> FALSE, parenthesized |-> FALSE]

SelectStar(from) == Select(<<Star(Unnamed)>>, from)
Usings == {<<>>, <<"a">>}
Leaves == {SelectStar(<<Only(Name(n))>>) : n \in MCTables} \cup {Select(<<Column("a")>>, <<Only(Name("t"))>>)}

(***************************************************************************)
(* The nodes that queries are made of                                       *)
(***************************************************************************)
Elements(sequences) == UNION {ToSet(s) : s \in sequences}

Inside(nodes) ==
  LET kind(k) == {i \in nodes.items : i.kind = k}
  IN  [blocks |-> nodes.blocks \cup Elements(UNION {{q.left, q.right, q.where} : q \in nodes.blocks})
                    \cup {c.query : c \in nodes.ctes} \cup {i.query : i \in kind("derived")}
                    \cup Elements({j.on : j \in nodes.joins}),
       projections |-> Elements({q.select : q \in nodes.blocks}),
       ctes   |-> Elements({q.with : q \in nodes.blocks}),
       tables |-> Elements({q.from : q \in nodes.blocks} \cup {i.items : i \in kind("group")}),
       joins  |-> Elements({t.joins : t \in nodes.tables}),
       items  |-> {t.primary : t \in nodes.tables} \cup {j.right : j \in nodes.joins}]

RECURSIVE Closed(_)
Closed(nodes) == IF Inside(nodes) = nodes THEN nodes ELSE Closed(Inside(nodes))

NodesOf(queries) == Closed([blocks |-> queries, projections |-> {}, ctes |-> {}, tables |-> {}, joins |-> {}, items |-> {}])
==============================================================================
