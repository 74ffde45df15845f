------------------------------ MODULE MCVisitor ------------------------------
(***************************************************************************)
(* What a caller has built before model checking Builder and Visitor: the   *)
(* lists of the first SELECT have grown to three elements, in an array of   *)
(* four.                                                                    *)
(***************************************************************************)
EXTENDS Visitor

\* Columns a and b, the table t, two queries, CASE, INSERT and UPDATE.
Three(x, y) == <<x, x, y, Elem(Nothing)>>
MCHeap ==
  [arrays |-> << <<Elem(1)>>, Three(Elem(1), Elem(2)), Three(Pair(3, 1), Pair(3, 2)),
                 <<[Elem(3) EXCEPT !.more = [array |-> 3, len |-> 3]]>>, <<Elem(2)>>, <<Elem(3)>> >>,
   nodes  |-> << Bare("column"), Bare("column"), Bare("table"),
                 [Bare("select") EXCEPT !.lists["projections"] = [array |-> 1, len |-> 1],
                                        !.lists["groupBy"] = [array |-> 2, len |-> 3],
                                        !.lists["from"] = [array |-> 4, len |-> 1]],
                 [Bare("select") EXCEPT !.lists["projections"] = [array |-> 5, len |-> 1],
                                        !.lists["from"] = [array |-> 6, len |-> 1], !.refs["where"] = 2],
                 Bare("case"), Bare("insert"), Bare("update") >>]
Start(n) == [node |-> n, err |-> "", from |-> {}]
MCValues == <<Start(1), Start(2), Start(3), Start(4), Start(5), Start(6), Start(7), Start(8),
              [node |-> Nothing, err |-> "bad name", from |-> {}]>>

New(v) == v.from # {}
\* What was derived last is what is walked or transformed.
Newest(v) == New(v) /\ v = values[Len(values)]

\* What the value of an id is good for, an error for everything.
Is(i, kinds) == values[i].err # "" \/ KindOf(heap, values[i].node) \in kinds
IsExpr(i)   == Is(i, ExprKinds)
IsSelect(i) == Is(i, {"select"})
IsSource(i) == Is(i, {"select", "table"})
Typed(method, ids) ==
  LET args == {ids[i] : i \in 2..Len(ids)}
  IN  CASE method \in {"Select", "Where", "GroupBy", "OrderBy", "DistinctOn", "Limit"} ->
             IsSelect(ids[1]) /\ \A a \in args : IsExpr(a)
        [] method = "From" -> IsSelect(ids[1]) /\ \A a \in args : IsSource(a)
        [] method = "Join" -> IsSelect(ids[1]) /\ IsSource(ids[2]) /\ IsExpr(ids[3])
        [] method \in {"Union", "With"} -> IsSelect(ids[1]) /\ IsSelect(ids[2])
        [] method = "Eq" -> \A i \in Range(ids) : IsExpr(i)
        [] method = "In" -> IsExpr(ids[1]) /\ (\A a \in args : IsExpr(a) \/ (Len(ids) = 2 /\ IsSelect(a)))
        [] method = "Values" -> Is(ids[1], {"insert"}) /\ \A a \in args : IsExpr(a)
        [] method = "Query" -> Is(ids[1], {"insert"}) /\ \A a \in args : IsSelect(a)
        [] method = "Set" -> Is(ids[1], {"update"}) /\ \A a \in args : IsExpr(a)
        [] method \in {"When", "Else"} -> Is(ids[1], {"case"}) /\ \A a \in args : IsExpr(a)

\* Of the values there are, one of each kind is what methods are called on and
\* one is their argument; what is derived may be both.
Few(method, ids) ==
  /\ ids[1] \in {2, 4, 6, 7, 8, 9} \/ New(values[ids[1]])
  /\ \A i \in 2..Len(ids) : ids[i] \in {1, 3, 5, 9} \/ New(values[ids[i]])
  /\ Len(values) = 10 => 10 \in Range(ids) \/ ids[1] \in values[10].from
  /\ Len(ids) > 2 => ids[2] # ids[3] /\ 9 \notin {ids[2], ids[3]} /\ method \in {"Join", "When", "OrderBy", "Select"}

\* No DISTINCT ON, and no ORDER BY or LIMIT on a set operation: Walk does not see
\* the first and sees the others before the arms.
InTheOrderOfWalk(method, ids) ==
  /\ Few(method, ids) /\ Typed(method, ids) /\ method # "DistinctOn"
  /\ method \in {"OrderBy", "Limit", "Where", "GroupBy"} /\ values[ids[1]].err = "" =>
       heap.nodes[values[ids[1]].node].refs["left"] = Nothing

\* Once, at a node that has something below it.
OnceInside(w) == w.pruned = {} /\ KindOf(heap, Head(w.pending)) \notin {"column", "table"}
==============================================================================
