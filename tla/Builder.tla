------------------------------- MODULE Builder -------------------------------
(***************************************************************************)
(* The fluent builder, builder.go of pkg/golyglot: an Expression holds a    *)
(* pointer to a syntax node, or an error, and every method derives another  *)
(* Expression.  Nodes and the arrays behind their slices are a heap, so     *)
(* that what one value shares with another is part of the state: a method   *)
(* clones the node it extends, and its slices, but not the nodes below.     *)
(*                                                                          *)
(* Names, literals, aliases and dialects are left out.  What other methods  *)
(* do beyond naming an operator or a keyword is one of the methods here:    *)
(* Having and Qualify are Where, SortBy is OrderBy, Offset is Limit.        *)
(***************************************************************************)
EXTENDS Sequences, Integers, FiniteSets, SequencesExt

CONSTANTS
  StartHeap, StartValues,   \* what the caller has already
  MaxValues,                \* how many expressions there may be
  MayCall(_, _)             \* does the caller call this method with these values?

VARIABLES
  heap,      \* [nodes, arrays]
  values     \* the expressions there are: a node, or an error

-------------------------------------------------------------------------------
(***************************************************************************)
(* Slices: an array and how much of it is the slice's own.  Arrays hold     *)
(* records of two nodes and a slice: a join and its condition, a source and *)
(* its joins.                                                               *)
(***************************************************************************)
Nothing  == 0
NilSlice == [array |-> Nothing, len |-> 0]
Elem(x)  == [x |-> x, y |-> Nothing, more |-> NilSlice]
Pair(x, y) == [Elem(x) EXCEPT !.y = y]

Cells(hp, s)  == IF s.array = Nothing THEN <<>> ELSE SubSeq(hp.arrays[s.array], 1, s.len)
Capacity(hp, s) == IF s.array = Nothing THEN 0 ELSE Len(hp.arrays[s.array])

NewArray(hp, cells) ==
  IF cells = <<>> THEN [heap |-> hp, slice |-> NilSlice]
  ELSE [heap |-> [hp EXCEPT !.arrays = Append(@, cells)], slice |-> [array |-> Len(hp.arrays) + 1, len |-> Len(cells)]]

\* append of Go: in place when the array has room after the slice, else in an
\* array of twice the size.
AppendTo(hp, s, e) ==
  IF s.len < Capacity(hp, s)
  THEN [heap |-> [hp EXCEPT !.arrays[s.array][s.len + 1] = e], slice |-> [s EXCEPT !.len = @ + 1]]
  ELSE LET spare == [i \in 1..(IF s.len = 0 THEN 0 ELSE s.len - 1) |-> Elem(Nothing)]
           fresh == NewArray(hp, Append(Cells(hp, s), e) \o spare)
       IN  [fresh EXCEPT !.slice.len = s.len + 1]

\* append([]T(nil), s...)
CopySlice(hp, s) == NewArray(hp, Cells(hp, s))

-------------------------------------------------------------------------------
(***************************************************************************)
(* Nodes: refs are single children, lists are slices                        *)
(***************************************************************************)
Refs  == {"where", "limit", "left", "right", "query", "else", "value"}
ListOrder == <<"with", "projections", "from", "groupBy", "orderBy", "distinctOn", "values", "assignments", "whens", "items">>
Lists == Range(ListOrder)
Bare(kind) == [kind |-> kind, refs |-> [r \in Refs |-> Nothing], lists |-> [l \in Lists |-> NilSlice]]
ExprKinds  == {"column", "binary", "in", "case"}
FromKinds  == {"table", "subquery"}

NewNode(hp, node) == [heap |-> [hp EXCEPT !.nodes = Append(@, node)], node |-> Len(hp.nodes) + 1]
SetList(hp, n, l, s) == [hp EXCEPT !.nodes[n].lists[l] = s]
SetRef(hp, n, r, to) == [hp EXCEPT !.nodes[n].refs[r] = to]

Push(hp, n, l, e) ==
  LET r == AppendTo(hp, hp.nodes[n].lists[l], e) IN SetList(r.heap, n, l, r.slice)
PushAll(hp, n, l, es) == FoldLeft(LAMBDA g, e : Push(g, n, l, e), hp, es)

\* Mutant: the elements' own slices are left shared.
CopyDeep_Shallow(hp, s) == CopySlice(hp, s)

\* A slice of the clone, and the slices its elements hold.
CopyDeep(hp, s) ==
  LET Inner(g, i) ==
        LET r == CopySlice(g.heap, g.cells[i].more)
        IN  [heap |-> r.heap, cells |-> [g.cells EXCEPT ![i].more = r.slice]]
      done == FoldLeft(Inner, [heap |-> hp, cells |-> Cells(hp, s)], [i \in 1..s.len |-> i])
  IN  NewArray(done.heap, done.cells)

\* Mutant: a list is shared until it is appended to.
CopyLists_Shared(hp, n) == hp

\* cloneSelectStmt, cloneInsertStmt, cloneUpdateStmt and cloneCaseExpr.
CopyLists(hp, n) ==
  FoldLeft(LAMBDA g, l : LET r == CopyDeep(g, g.nodes[n].lists[l]) IN SetList(r.heap, n, l, r.slice),
           hp, ListOrder)

Clone(hp, n) == LET r == NewNode(hp, hp.nodes[n]) IN [heap |-> CopyLists(r.heap, r.node), node |-> r.node]

KindOf(hp, n) == IF n = Nothing THEN "" ELSE hp.nodes[n].kind

-------------------------------------------------------------------------------
(***************************************************************************)
(* What the methods make of a value: a node, or an error                    *)
(***************************************************************************)
Fails(hp, err) == [heap |-> hp, node |-> Nothing, err |-> err]
Works(r)       == [heap |-> r.heap, node |-> r.node, err |-> ""]
OfKinds(hp, v, kinds, wanted) ==
  IF v.err # "" THEN Fails(hp, v.err)
  ELSE IF KindOf(hp, v.node) \notin kinds THEN Fails(hp, wanted)
  ELSE Works([heap |-> hp, node |-> v.node])

\* builderSelectNode, builderExprNode, and the type switch of Values, Query, Set,
\* When and Else, which looks at the node alone.
SelectNode(hp, v) ==
  LET r == OfKinds(hp, v, {"select"}, "not a SELECT") IN IF r.err # "" THEN r ELSE Works(Clone(hp, r.node))
ExprNode(hp, v) == OfKinds(hp, v, ExprKinds, "not an expression")
NodeOfKind(hp, v, kind) ==
  IF KindOf(hp, v.node) # kind THEN Fails(hp, "wrong statement") ELSE Works(Clone(hp, v.node))

\* Mutant: the error of a projection is dropped with its expression.
Projection_Unchecked(hp, v) ==
  Works([heap |-> hp, node |-> IF KindOf(hp, v.node) \in ExprKinds THEN v.node ELSE Nothing])

\* A projection: what is no expression leaves the item without one.
Projection(hp, v) ==
  IF v.err # "" THEN Fails(hp, v.err)
  ELSE IF v.node = Nothing THEN Fails(hp, "empty")
  ELSE Works([heap |-> hp, node |-> IF KindOf(hp, v.node) \in ExprKinds THEN v.node ELSE Nothing])

\* builderFromItem: a query becomes a derived table around the same node, an
\* expression a raw table.
FromSource(hp, v) ==
  LET kind == KindOf(hp, v.node)
  IN  CASE v.err # "" -> Fails(hp, v.err)
        [] kind = "" -> Fails(hp, "empty")
        [] kind = "select" -> Works(NewNode(hp, [Bare("subquery") EXCEPT !.refs["query"] = v.node]))
        [] kind \in FromKinds -> Works([heap |-> hp, node |-> v.node])
        [] kind \in ExprKinds -> Works(NewNode(hp, Bare("table")))
        [] OTHER -> Fails(hp, "no source")

\* The first of two results that failed, or what is made of both.
Then(r, Next(_)) == IF r.err # "" THEN Fails(r.heap, r.err) ELSE Next(r)

\* Every argument through Read, in order, to a list of the node base has.
Appended(base, l, args, Read(_, _)) ==
  FoldLeft(LAMBDA r, v : Then(r, LAMBDA s : Then(Read(s.heap, v), LAMBDA a :
                           [s EXCEPT !.heap = Push(a.heap, s.node, l, Elem(a.node))])), base, args)

-------------------------------------------------------------------------------
(***************************************************************************)
(* The methods                                                              *)
(***************************************************************************)
Select(hp, e, args) ==
  Then(SelectNode(hp, e), LAMBDA r :
    Appended([r EXCEPT !.heap = SetList(@, r.node, "projections", NilSlice)], "projections", args, Projection))

From(hp, e, source) ==
  Then(SelectNode(hp, e), LAMBDA r : Appended(r, "from", <<source>>, FromSource))

\* The join goes to the last source, whose own slice grows.
Join(hp, e, source, on) ==
  Then(SelectNode(hp, e), LAMBDA r :
    LET from == r.heap.nodes[r.node].lists["from"]
    IN  IF from.len = 0 THEN Fails(hp, "Join requires a FROM source")
        ELSE Then(FromSource(r.heap, source), LAMBDA s : Then(ExprNode(s.heap, on), LAMBDA c :
               LET grown == AppendTo(c.heap, Cells(c.heap, from)[from.len].more, Pair(s.node, c.node))
               IN  Works([heap |-> [grown.heap EXCEPT !.arrays[from.array][from.len].more = grown.slice],
                          node |-> r.node]))))

\* appendBuilderConditions: one condition, or AND of what there is and the next.
And(hp, n, ref, condition) ==
  LET old == hp.nodes[n].refs[ref]
      both == NewNode(hp, [Bare("binary") EXCEPT !.refs["left"] = old, !.refs["right"] = condition])
  IN  IF old = Nothing THEN SetRef(hp, n, ref, condition) ELSE SetRef(both.heap, n, ref, both.node)

Where(hp, e, args) ==
  Then(SelectNode(hp, e), LAMBDA r :
    IF args = <<>> THEN Fails(hp, "where requires an expression")
    ELSE FoldLeft(LAMBDA t, v : Then(t, LAMBDA s : Then(ExprNode(s.heap, v), LAMBDA a :
                                  [s EXCEPT !.heap = And(a.heap, s.node, "where", a.node)])), r, args))

GroupBy(hp, e, args)    == Then(SelectNode(hp, e), LAMBDA r :
  IF args = <<>> THEN Fails(hp, "group_by requires an expression") ELSE Appended(r, "groupBy", args, ExprNode))
OrderBy(hp, e, args)    == Then(SelectNode(hp, e), LAMBDA r :
  IF args = <<>> THEN Fails(hp, "order requires an expression") ELSE Appended(r, "orderBy", args, ExprNode))
DistinctOn(hp, e, args) == Then(SelectNode(hp, e), LAMBDA r :
  Appended([r EXCEPT !.heap = SetList(@, r.node, "distinctOn", NilSlice)], "distinctOn", args, ExprNode))
Limit(hp, e, count)     == Then(SelectNode(hp, e), LAMBDA r : Then(ExprNode(r.heap, count), LAMBDA c :
  Works([heap |-> SetRef(c.heap, r.node, "limit", c.node), node |-> r.node])))

\* Both operands are cloned, the node over them is new.
SetOperation(hp, e, other) ==
  Then(SelectNode(hp, e), LAMBDA l : Then(SelectNode(l.heap, other), LAMBDA r :
    Works(NewNode(r.heap, [Bare("select") EXCEPT !.refs["left"] = l.node, !.refs["right"] = r.node]))))

\* The query comes before those there are, in a list of its own.
With(hp, e, query) ==
  Then(SelectNode(hp, e), LAMBDA r : Then(SelectNode(r.heap, query), LAMBDA q :
    LET fresh == NewArray(q.heap, <<Elem(q.node)>> \o Cells(q.heap, q.heap.nodes[r.node].lists["with"]))
    IN  Works([heap |-> SetList(fresh.heap, r.node, "with", fresh.slice), node |-> r.node])))

Binary(hp, e, other) ==
  Then(ExprNode(hp, e), LAMBDA l : Then(ExprNode(hp, other), LAMBDA r :
    Works(NewNode(hp, [Bare("binary") EXCEPT !.refs["left"] = l.node, !.refs["right"] = r.node]))))

\* A query is used as it is, not a clone of it.
In(hp, e, args) ==
  LET query == args[1].node
  IN  Then(ExprNode(hp, e), LAMBDA v :
        LET fresh(q) == Works(NewNode(hp, [Bare("in") EXCEPT !.refs["value"] = v.node, !.refs["query"] = q]))
        IN  CASE args = <<>> -> Fails(hp, "IN requires at least one value")
              [] Len(args) = 1 /\ KindOf(hp, query) = "select" -> fresh(query)
              [] OTHER -> Appended(fresh(Nothing), "items", args, ExprNode))

Values(hp, e, args) ==
  Then(NodeOfKind(hp, e, "insert"), LAMBDA r : Appended(r, "values", args, ExprNode))
Query(hp, e, query) ==
  Then(NodeOfKind(hp, e, "insert"), LAMBDA r : Then(SelectNode(r.heap, query), LAMBDA q :
    Works([heap |-> SetRef(q.heap, r.node, "query", q.node), node |-> r.node])))
Set(hp, e, args) ==
  Then(NodeOfKind(hp, e, "update"), LAMBDA r : Appended(r, "assignments", args, ExprNode))
When(hp, e, condition, value) ==
  Then(NodeOfKind(hp, e, "case"), LAMBDA r : Then(ExprNode(r.heap, condition), LAMBDA c :
    Then(ExprNode(c.heap, value), LAMBDA v :
      Works([heap |-> Push(v.heap, r.node, "whens", Pair(c.node, v.node)), node |-> r.node]))))
Else(hp, e, value) ==
  Then(NodeOfKind(hp, e, "case"), LAMBDA r : Then(ExprNode(r.heap, value), LAMBDA v :
    Works([heap |-> SetRef(v.heap, r.node, "else", v.node), node |-> r.node])))

Call(method, hp, e, args) ==
  CASE method = "Select" -> Select(hp, e, args)
    [] method = "From" -> From(hp, e, args[1])
    [] method = "Join" -> Join(hp, e, args[1], args[2])
    [] method = "Where" -> Where(hp, e, args)
    [] method = "GroupBy" -> GroupBy(hp, e, args)
    [] method = "OrderBy" -> OrderBy(hp, e, args)
    [] method = "DistinctOn" -> DistinctOn(hp, e, args)
    [] method = "Limit" -> Limit(hp, e, args[1])
    [] method = "Union" -> SetOperation(hp, e, args[1])
    [] method = "With" -> With(hp, e, args[1])
    [] method = "Eq" -> Binary(hp, e, args[1])
    [] method = "In" -> In(hp, e, args)
    [] method = "Values" -> Values(hp, e, args)
    [] method = "Query" -> Query(hp, e, args[1])
    [] method = "Set" -> Set(hp, e, args)
    [] method = "When" -> When(hp, e, args[1], args[2])
    [] method = "Else" -> Else(hp, e, args[1])

-------------------------------------------------------------------------------
(***************************************************************************)
(* Steps                                                                    *)
(***************************************************************************)
Two == {"Join", "When"}
Many == {"Select", "Where", "GroupBy", "OrderBy", "DistinctOn", "In", "Values", "Set"}
One == {"From", "Limit", "Union", "With", "Eq", "Query", "Else"}
Methods == One \cup Two \cup Many

ArgLists(method) == CASE method \in One -> [{1} -> DOMAIN values]
                      [] method \in Two -> [1..2 -> DOMAIN values]
                      [] method \in Many -> UNION {[1..n -> DOMAIN values] : n \in 1..2}

\* A method of values[b]; a failed call leaves no node behind.
Derive(method, b, ids) ==
  /\ Len(values) < MaxValues /\ MayCall(method, <<b>> \o ids)
  /\ LET r == Call(method, heap, values[b], [i \in DOMAIN ids |-> values[ids[i]]])
     IN  /\ heap' = IF r.err = "" THEN r.heap ELSE heap
         /\ values' = Append(values, [node |-> IF r.err = "" THEN r.node ELSE Nothing, err |-> r.err,
                                      from |-> {b} \cup Range(ids)])

Deriving ==
  \E method \in Methods : \E ids \in ArgLists(method), b \in DOMAIN values : Derive(method, b, ids)

BuilderInit == heap = StartHeap /\ values = StartValues

-------------------------------------------------------------------------------
(***************************************************************************)
(* Properties                                                               *)
(***************************************************************************)
\* The tree a node stands for, a leaf by its identity.
RECURSIVE Tree(_, _)
Tree(hp, n) ==
  LET node == hp.nodes[n]
      OfCell(c) == <<Tree(hp, c.x), Tree(hp, c.y), [i \in 1..c.more.len |-> <<Tree(hp, Cells(hp, c.more)[i].x),
                                                                            Tree(hp, Cells(hp, c.more)[i].y)>>]>>
      refs  == {r \in Refs : node.refs[r] # Nothing}
      lists == {l \in Lists : node.lists[l].len > 0}
  IN  IF n = Nothing THEN <<>>
      ELSE <<node.kind, IF refs = {} /\ lists = {} THEN n ELSE Nothing,
             [r \in refs |-> Tree(hp, node.refs[r])],
             [l \in lists |-> [i \in 1..node.lists[l].len |-> OfCell(Cells(hp, node.lists[l])[i])]]>>

\* Deriving an expression leaves every other as it was: no array that one of
\* them still reads is written to, however the two came to share it.
DerivingKeepsValues ==
  [][values' # values => \A i \in DOMAIN values : Tree(heap', values[i].node) = Tree(heap, values[i].node)]_<<heap, values>>

\* An expression made with one that holds an error holds an error.
ErrorsStick ==
  \A v \in Range(values) : v.err = "" => \A i \in v.from : values[i].err = ""
===============================================================================
