------------------------------- MODULE Visitor -------------------------------
(***************************************************************************)
(* Walk and Transform of pkg/golyglot/visitor.go over the trees a caller    *)
(* has built: Walk asks the caller at every node how to go on, Transform    *)
(* rewires the tree in place.  The parts of a FROM item are visited as      *)
(* children of the query, without the TableExpr between them.               *)
(***************************************************************************)
EXTENDS Builder

CONSTANTS
  Walkable(_),    \* may this expression be walked or transformed?
  MayPrune(_)     \* may the walk be pruned or stopped at its next node?

VARIABLES
  walk,           \* the walk under way: what it has seen, and is to see
  rewired         \* the last Transform: of which value, by which column

vars == <<heap, values, walk, rewired>>

NoWalk    == [root |-> Nothing, pending |-> <<>>, seen |-> <<>>, pruned |-> {}, stopped |-> FALSE]
NoRewrite == [value |-> Nothing, by |-> Nothing]

-------------------------------------------------------------------------------
\* Mutant: the sources of a query come before its projections.
Fields_FromFirst(kind) ==
  CASE kind = "select" -> <<"with", "from", "projections", "where", "groupBy", "orderBy", "limit", "left", "right">>
    [] kind = "insert" -> <<"values", "query">>
    [] kind = "update" -> <<"assignments", "where">>
    [] kind = "case"   -> <<"whens", "else">>
    [] kind = "in"     -> <<"value", "items", "query">>
    [] kind = "binary" -> <<"left", "right">>
    [] kind = "subquery" -> <<"query">>
    [] OTHER -> <<>>

\* nodeChildren: the fields of a node in the order they are visited in.
Fields(kind) ==
  CASE kind = "select" -> <<"with", "projections", "from", "where", "groupBy", "orderBy", "limit", "left", "right">>
    [] kind = "insert" -> <<"values", "query">>
    [] kind = "update" -> <<"assignments", "where">>
    [] kind = "case"   -> <<"whens", "else">>
    [] kind = "in"     -> <<"value", "items", "query">>
    [] kind = "binary" -> <<"left", "right">>
    [] kind = "subquery" -> <<"query">>
    [] OTHER -> <<>>

Present(ns) == SelectSeq(ns, LAMBDA n : n # Nothing)
OfCell(hp, c) == <<c.x, c.y>> \o FlattenSeq([i \in 1..c.more.len |-> <<Cells(hp, c.more)[i].x, Cells(hp, c.more)[i].y>>])
OfField(hp, n, f) ==
  IF f \in Refs THEN <<hp.nodes[n].refs[f]>>
  ELSE LET cells == Cells(hp, hp.nodes[n].lists[f]) IN FlattenSeq([i \in DOMAIN cells |-> OfCell(hp, cells[i])])

Children(hp, n) ==
  LET fields == Fields(hp.nodes[n].kind)
  IN  Present(FlattenSeq([i \in DOMAIN fields |-> OfField(hp, n, fields[i])]))

-------------------------------------------------------------------------------
\* Walk and FindAll begin at the node of a value; a value with an error has none.
StartWalk(i) ==
  /\ walk.pending = <<>> /\ values[i].err = "" /\ Walkable(values[i])
  /\ walk' = [NoWalk EXCEPT !.root = values[i].node, !.pending = <<values[i].node>>]
  /\ UNCHANGED <<heap, values, rewired>>

\* The visitor sees the next node and answers VisitChildren, SkipChildren or Stop.
Visit(answer) ==
  /\ walk.pending # <<>>
  /\ answer # "VisitChildren" => MayPrune(walk)
  /\ LET n    == Head(walk.pending)
         rest == Tail(walk.pending)
     IN  walk' = [walk EXCEPT !.seen    = Append(@, n),
                              !.pruned  = IF answer = "VisitChildren" THEN @ ELSE @ \cup {Len(walk.seen) + 1},
                              !.stopped = answer = "Stop",
                              !.pending = CASE answer = "Stop" -> <<>>
                                            [] answer = "SkipChildren" -> rest
                                            [] answer = "VisitChildren" -> Children(heap, n) \o rest]
  /\ UNCHANGED <<heap, values, rewired>>

\* Transform with a callback that puts the column `by' where there was another:
\* the node that is there, or the one in its place, is rewired in place.
RECURSIVE Rewire(_, _, _)
\* Mutant: the second part of a pair, a join's condition, is not rewired.
RewireCell_First(hp, s, i, by) ==
  LET x == Rewire(hp, Cells(hp, s)[i].x, by) IN [x.heap EXCEPT !.arrays[s.array][i].x = x.node]

RewireCell(hp, s, i, by) ==
  LET x    == Rewire(hp, Cells(hp, s)[i].x, by)
      y    == Rewire([x.heap EXCEPT !.arrays[s.array][i].x = x.node], Cells(x.heap, s)[i].y, by)
  IN  [y.heap EXCEPT !.arrays[s.array][i].y = y.node]

RewireSlice(hp, s, by) ==
  FoldLeft(LAMBDA g, i :
    LET more == Cells(g, s)[i].more
    IN  FoldLeft(LAMBDA k, j : RewireCell(k, more, j, by), RewireCell(g, s, i, by), [j \in 1..more.len |-> j]),
    hp, [i \in 1..s.len |-> i])

Rewire(hp, n, by) ==
  LET m == IF KindOf(hp, n) = "column" THEN by ELSE n
      OneField(g, f) ==
        IF f \in Lists THEN RewireSlice(g, g.nodes[m].lists[f], by)
        ELSE LET r == Rewire(g, g.nodes[m].refs[f], by) IN SetRef(r.heap, m, f, r.node)
  IN  IF n = Nothing THEN [heap |-> hp, node |-> Nothing]
      ELSE [heap |-> FoldLeft(OneField, hp, Fields(hp.nodes[m].kind)), node |-> m]

Transform(i, by) ==
  /\ walk.pending = <<>> /\ rewired = NoRewrite
  /\ values[i].err = "" /\ Walkable(values[i]) /\ KindOf(heap, by) = "column"
  /\ heap' = Rewire(heap, values[i].node, by).heap
  /\ rewired' = [value |-> i, by |-> by]
  /\ walk' = NoWalk /\ UNCHANGED values

Init == BuilderInit /\ walk = NoWalk /\ rewired = NoRewrite

Next ==
  \/ walk.pending = <<>> /\ Deriving /\ walk' = NoWalk /\ UNCHANGED rewired
  \/ \E i \in DOMAIN values : StartWalk(i)
  \/ \E answer \in {"VisitChildren", "SkipChildren", "Stop"} : Visit(answer)
  \/ \E i \in DOMAIN values, by \in DOMAIN heap.nodes : Transform(i, by)

Spec == Init /\ [][Next]_vars

-------------------------------------------------------------------------------
\* The nodes below a node in the order their text is generated in: the arms of a
\* set operation come before its ORDER BY and LIMIT, DISTINCT ON before the rest.
Written(kind) ==
  IF kind = "select" THEN <<"with", "distinctOn", "projections", "from", "where", "groupBy", "left", "right", "orderBy", "limit">>
  ELSE Fields(kind)
RECURSIVE InTextOrder(_, _)
InTextOrder(hp, n) ==
  LET fields == Written(hp.nodes[n].kind)
      below  == Present(FlattenSeq([i \in DOMAIN fields |-> OfField(hp, n, fields[i])]))
  IN  <<n>> \o FlattenSeq([i \in DOMAIN below |-> InTextOrder(hp, below[i])])

\* A walk sees the nodes of the tree in the order of the text, each once for each
\* place it has in it: all of them where the visitor goes on, all but one subtree
\* where it skips the children of the k-th, the first k where it stops there.
WalkIsAsAsked ==
  walk.root # Nothing /\ walk.pending = <<>> =>
    LET all == InTextOrder(heap, walk.root)
    IN  IF walk.pruned = {} THEN walk.seen = all
        ELSE \A k \in walk.pruned :
               walk.seen = SubSeq(all, 1, k) \o
                 (IF walk.stopped THEN <<>> ELSE SubSeq(all, k + Len(InTextOrder(heap, all[k])), Len(all)))

\* What Transform has rewired Walk finds no other column in: the two agree on
\* where in a tree there are expressions.
TransformReachesAll ==
  rewired # NoRewrite /\ KindOf(heap, values[rewired.value].node) # "column" =>
    \A n \in Range(InTextOrder(heap, values[rewired.value].node)) : KindOf(heap, n) = "column" => n = rewired.by

\* An expression that shares no more than columns and tables with the tree that
\* is transformed stays as it is.
Inner(hp, n) == {m \in Range(InTextOrder(hp, n)) : hp.nodes[m].kind \notin {"column", "table"}}
TransformStaysInItsTree ==
  [][rewired' # rewired =>
       \A v \in Range(values) :
         v.err = "" /\ Inner(heap, v.node) \cap Inner(heap, values[rewired'.value].node) = {}
         => Tree(heap', v.node) = Tree(heap, v.node)]_vars
===============================================================================
