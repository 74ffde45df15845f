-------------------------- MODULE LexicalScope_proofs --------------------------
(***************************************************************************)
(* Proofs that the scoping of QueryScope is lexical, for any catalog and    *)
(* queries of any shape and size: what a block resolves against, and what a *)
(* name in its FROM means.                                                  *)
(***************************************************************************)
EXTENDS QueryScope_proofs

(***************************************************************************)
(* The levels around a block                                                *)
(***************************************************************************)
OwnedBy(path, level) == \A i \in DOMAIN level.relations : level.relations[i].id.owner = path

LEMMA OwnLevel ==
  ASSUME NEW path, NEW level, LevelInv(path, level)
  PROVE  /\ IsSeq(level.relations) /\ DOMAIN level = {"relations", "coalesced"} /\ OwnedBy(path, level)
         /\ \A i \in DOMAIN level.relations : level.relations[i].id.index = i
<1>1. ASSUME NEW i \in DOMAIN level.relations
      PROVE  level.relations[i].id.owner = path /\ level.relations[i].id.index = i
  <2>1. level.relations[i].id = [owner |-> path, index |-> i]
    BY DEF LevelInv
  <2>2. \A id : id = [owner |-> path, index |-> i] => id.owner = path /\ id.index = i
    OBVIOUS
  <2>. QED
    BY ONLY <2>1, <2>2
<1>2. OwnedBy(path, level)
  BY <1>1 DEF OwnedBy
<1>. QED
  BY <1>1, <1>2 DEF LevelInv

\* A relation of a block around the one at a path.
SeenFrom(path, r) ==
  /\ IsSeq(r.id.owner) /\ Len(r.id.owner) < Len(path) /\ SubSeq(path, 1, Len(r.id.owner)) = r.id.owner
  /\ MaySee(path, r)

NestedLevels(levels) ==
  \A k, l \in DOMAIN levels : \A i \in DOMAIN levels[k].relations, j \in DOMAIN levels[l].relations :
    LET r == levels[k].relations[i].id.owner
        q == levels[l].relations[j].id.owner
    IN  (k = l => q = r) /\ (k < l => Len(q) < Len(r))

SeesInv(path, levels) ==
  /\ IsSeq(levels) /\ NestedLevels(levels)
  /\ \A k \in DOMAIN levels : \A i \in DOMAIN levels[k].relations : SeenFrom(path, levels[k].relations[i])

\* What is seen from a block is seen from the blocks in it.
LEMMA SeenDeeper ==
  ASSUME NEW path, IsSeq(path), NEW step, NEW r, SeenFrom(path, r)
  PROVE  SeenFrom(Append(path, step), r)
<1> DEFINE child == Append(path, step)
           n     == Len(r.id.owner)
<1>1. n \in Nat /\ Len(path) \in Nat /\ n < Len(path) /\ SubSeq(path, 1, n) = r.id.owner
  BY SeqFacts DEF SeenFrom
<1>2. Len(child) = Len(path) + 1 /\ \A i \in 1..Len(path) : child[i] = path[i]
  BY SeqAppend
<1>3. SubSeq(child, 1, n) = SubSeq(path, 1, n)
  <2>1. n \in 0..Len(child) /\ n <= Len(path)
    BY <1>1, <1>2
  <2>. QED
    BY <2>1, Beginnings
<1>4. n < Len(child) /\ child[n + 1] = path[n + 1]
  BY <1>1, <1>2
<1> HIDE DEF child
<1>5. MaySee(child, r)
  BY <1>4 DEF MaySee, SeenFrom
<1>. QED
  BY <1>1, <1>3, <1>4, <1>5 DEF SeenFrom, child

LEMMA SeesDeeper ==
  ASSUME NEW path, IsSeq(path), NEW step, NEW levels, SeesInv(path, levels)
  PROVE  SeesInv(Append(path, step), levels)
BY SeenDeeper DEF SeesInv

\* How an expression subquery, or a lateral derived table, is held by its block.
Holds(step, level) ==
  \/ step.role \in {"where", "on"}
  \/ step.role = "lateral" /\ \A i \in DOMAIN level.relations : level.relations[i].id.index < step.index

\* The level of a block before those around it.
LEMMA OneBefore ==
  ASSUME NEW level, NEW levels, IsSeq(levels)
  PROVE  /\ IsSeq(<<level>> \o levels) /\ DOMAIN (<<level>> \o levels) = 1..(1 + Len(levels))
         /\ (<<level>> \o levels)[1] = level /\ Tail(<<level>> \o levels) = levels
         /\ \A k \in DOMAIN (<<level>> \o levels) :
              \/ k = 1
              \/ k > 1 /\ k - 1 \in DOMAIN levels /\ (<<level>> \o levels)[k] = levels[k - 1]
<1> DEFINE one == <<level>>
           all == one \o levels
           n   == Len(levels)
<1>1. n \in Nat /\ DOMAIN levels = 1..n
  BY SeqFacts
<1>2. IsSeq(one) /\ Len(one) = 1 /\ one[1] = level
  BY SeqOne
<1> HIDE DEF one
<1>3. /\ IsSeq(all) /\ Len(all) = 1 + n /\ all[1] = level /\ \A k \in 1..n : all[1 + k] = levels[k]
  <2>1. /\ IsSeq(one \o levels) /\ Len(one \o levels) = Len(one) + Len(levels)
        /\ \A i \in 1..Len(one) : (one \o levels)[i] = one[i]
        /\ \A i \in 1..Len(levels) : (one \o levels)[Len(one) + i] = levels[i]
    <3>1. IsSeq(one) /\ IsSeq(levels)
      BY <1>2
    <3>. QED
      BY ONLY <3>1, SeqConcat
  <2>2. 1 \in 1..Len(one)
    BY <1>2
  <2>. QED
    BY <1>2, <2>1, <2>2
<1> HIDE DEF n
<1>4. DOMAIN all = 1..(1 + n) /\ all # <<>>
  BY <1>1, <1>3, SeqFacts
<1> HIDE DEF all
<1>5. \A k \in DOMAIN all : k = 1 \/ (k > 1 /\ k - 1 \in DOMAIN levels /\ all[k] = levels[k - 1])
  <2>1. \A k \in 1..(1 + n) : k = 1 \/ (k > 1 /\ k - 1 \in 1..n /\ 1 + (k - 1) = k)
    BY <1>1
  <2>. QED
    BY <1>1, <1>3, <1>4, <2>1
<1>6. Tail(all) = levels
  <2>1. IsSeq(Tail(all)) /\ Len(Tail(all)) = Len(all) - 1 /\ \A i \in 1..(Len(all) - 1) : Tail(all)[i] = all[i + 1]
    BY <1>3, <1>4, SeqTail
  <2>2. \A i \in 1..n : Tail(all)[i] = levels[i] /\ 1 + i = i + 1
    BY <1>1, <1>3, <2>1
  <2>3. Len(Tail(all)) = Len(levels)
    BY <1>1, <1>3, <2>1 DEF n
  <2>4. \A i \in 1..Len(Tail(all)) : Tail(all)[i] = levels[i]
    BY <2>2, <2>3 DEF n
  <2>. QED
    BY <2>1, <2>3, <2>4, SeqSame
<1>. QED
  BY <1>3, <1>4, <1>5, <1>6 DEF all, one, n

\* A block in another that sees the relations of it.
LEMMA SeesAround ==
  ASSUME NEW path, IsSeq(path), NEW step, NEW levels, SeesInv(path, levels),
         NEW level, OwnedBy(path, level), Holds(step, level)
  PROVE  SeesInv(Append(path, step), <<level>> \o levels)
<1> DEFINE child == Append(path, step)
           all   == <<level>> \o levels
           n     == Len(levels)
<1>1. IsSeq(levels) /\ n \in Nat
  BY SeqFacts DEF SeesInv
<1>3. /\ IsSeq(all) /\ DOMAIN all = 1..(1 + n) /\ all[1] = level
      /\ \A k \in DOMAIN all : k = 1 \/ (k > 1 /\ k - 1 \in DOMAIN levels /\ all[k] = levels[k - 1])
  BY <1>1, OneBefore
<1> HIDE DEF all, n
<1>5. \A k \in DOMAIN all : \/ k = 1 /\ all[k] = level
                            \/ k > 1 /\ k - 1 \in DOMAIN levels /\ all[k] = levels[k - 1]
  BY <1>3
<1>6. ASSUME NEW i \in DOMAIN level.relations PROVE SeenFrom(child, level.relations[i])
  <2>1. /\ Len(path) \in Nat /\ Len(child) = Len(path) + 1 /\ child[Len(path) + 1] = step
        /\ SubSeq(child, 1, Len(path)) = path
    <3>1. Len(path) \in Nat /\ Len(child) = Len(path) + 1 /\ child[Len(path) + 1] = step
      BY SeqAppend, SeqFacts
    <3>2. SubSeq(child, 1, Len(path)) = SubSeq(path, 1, Len(path))
      <4>1. Len(path) \in 0..Len(child)
        BY <3>1
      <4>. QED
        BY <3>1, <4>1, Beginnings
    <3>3. SubSeq(path, 1, Len(path)) = path
      BY WholeSeq
    <3>. QED
      BY <3>1, <3>2, <3>3
  <2>2. level.relations[i].id.owner = path
    BY DEF OwnedBy
  <2> HIDE DEF child
  <2>3. MaySee(child, level.relations[i])
    BY <2>1, <2>2 DEF MaySee, Holds
  <2>. QED
    BY <2>1, <2>2, <2>3 DEF SeenFrom
<1>7. \A k \in DOMAIN levels : \A i \in DOMAIN levels[k].relations :
        SeenFrom(child, levels[k].relations[i]) /\ Len(levels[k].relations[i].id.owner) < Len(path)
  BY SeenDeeper DEF SeesInv, SeenFrom
<1>8. ASSUME NEW k \in DOMAIN all, NEW i \in DOMAIN all[k].relations PROVE SeenFrom(child, all[k].relations[i])
  BY <1>5, <1>6, <1>7
<1>9. ASSUME NEW k \in DOMAIN all, NEW l \in DOMAIN all, NEW i \in DOMAIN all[k].relations, NEW j \in DOMAIN all[l].relations
      PROVE  LET r == all[k].relations[i].id.owner
                 q == all[l].relations[j].id.owner
             IN  (k = l => q = r) /\ (k < l => Len(q) < Len(r))
  <2>0. k \in Nat /\ l \in Nat
    BY <1>1, <1>3
  <2>1. CASE k = 1 /\ l = 1
    BY <1>5, <2>1 DEF OwnedBy
  <2>2. CASE k = 1 /\ l > 1 /\ l - 1 \in DOMAIN levels /\ all[l] = levels[l - 1]
    <3>1. all[k] = level
      BY <1>5, <2>2
    <3>2. all[k].relations[i].id.owner = path /\ Len(all[l].relations[j].id.owner) < Len(path)
      BY <1>7, <2>2, <3>1 DEF OwnedBy
    <3>. QED
      BY <2>2, <3>2
  <2>3. CASE k > 1 /\ l = 1
    BY <2>0, <2>3
  <2>4. CASE k > 1 /\ k - 1 \in DOMAIN levels /\ all[k] = levels[k - 1] /\ l > 1 /\ l - 1 \in DOMAIN levels /\ all[l] = levels[l - 1]
    <3>1. (k = l <=> k - 1 = l - 1) /\ (k < l <=> k - 1 < l - 1)
      BY <2>0
    <3>. QED
      BY <2>4, <3>1 DEF SeesInv, NestedLevels
  <2>. QED
    BY <1>5, <2>1, <2>2, <2>3, <2>4
<1>. QED
  <2>1. NestedLevels(all)
    BY <1>9 DEF NestedLevels
  <2>2. SeesInv(child, all)
    BY <1>3, <1>8, <2>1 DEF SeesInv
  <2>. QED
    BY <2>2 DEF all

(***************************************************************************)
(* What a step does to the block it works on                                *)
(***************************************************************************)
CteKinds == {"cte", "bind_cte"}

SameScope(s, r) == s.path = r.path /\ s.query = r.query /\ s.chain = r.chain /\ s.joins = r.joins

ScopesKept ==
  /\ \A s \in scopes' : \E r \in scopes : SameScope(s, r)
  /\ \A r \in scopes : \E s \in scopes' : SameScope(s, r)

\* The innermost call goes on with g for its frame.
Moves(g) ==
  /\ stack # <<>> /\ top.todo # <<>>
  /\ stack' = Front(stack) \o <<g>> /\ ScopesKept
  /\ g.path = top.path /\ g.query = top.query /\ g.parent = top.parent

\* It expands what it is at, or is done with it.
PlainStep ==
  /\ Head(top.todo).do \notin CteKinds \cup {"bind_derived"}
  /\ \E g, next :
       /\ Moves(g) /\ g.level.relations = top.level.relations /\ g.joins = top.joins /\ g.ctes = top.ctes
       /\ g.todo = next \o Tail(top.todo)
       /\ IsSeq(next) /\ \A i \in DOMAIN next : next[i].do \in {"table", "item", "join", "joined"}

\* It adds a relation.
AddStep ==
  /\ Head(top.todo).do \in {"item", "bind_derived"}
  /\ \E g, r :
       /\ Moves(g) /\ g.level.relations = Append(top.level.relations, r) /\ g.joins = top.joins /\ g.ctes = top.ctes
       /\ g.todo = Tail(top.todo)
       /\ r.id = NextId
       /\ r.kind \in {"table", "cte"} => \E item \in Nodes.items : item.name \in Tables /\ r = TableRelation(item)

\* The relations of a level are some of those of a block.
PartOf(f, level) ==
  OwnedBy(f.path, level) /\ IsSeq(level.relations) /\ ToSet(level.relations) \subseteq ToSet(f.level.relations)

\* It comes to the condition of a join.
JoinsTo(g, subs, n) ==
  /\ Moves(g) /\ g.level.relations = top.level.relations /\ g.ctes = top.ctes /\ g.outputs = top.outputs
  /\ n \in Nat /\ n <= Len(Tail(top.todo)) /\ IsSeq(subs) /\ g.todo = Inserted(Tail(top.todo), subs, n)
  /\ \A i \in DOMAIN subs : /\ subs[i].do = "subquery" /\ subs[i].what.role = "on"
                            /\ subs[i].what.index = Len(top.joins) + i
  /\ DOMAIN top.joins \subseteq DOMAIN g.joins
  /\ \A j \in DOMAIN g.joins : \/ j \in DOMAIN top.joins /\ g.joins[j] = top.joins[j]
                               \/ PartOf(top, g.joins[j])

JoinStep == Doing("joined") /\ \E g, subs, n : JoinsTo(g, subs, n)

\* It has a CTE in scope.
Enters(g, i) ==
  \E cte : /\ cte.declared /\ cte.body = CteBody(top.query.with[i], i)
           /\ g.ctes = [top.ctes EXCEPT ![top.query.with[i].name] = cte]

BindStep ==
  /\ Doing("bind_cte")
  /\ \E g : /\ Moves(g) /\ g.level.relations = top.level.relations /\ g.joins = top.joins
            /\ g.todo = Tail(top.todo) /\ Enters(g, what)

\* It calls build for the block at a step.
Calls(g, child, step, next) ==
  /\ stack # <<>> /\ top.todo # <<>>
  /\ stack' = Front(stack) \o <<g, child>> /\ scopes' = scopes
  /\ g.path = top.path /\ g.query = top.query /\ g.parent = top.parent
  /\ g.level = top.level /\ g.joins = top.joins /\ g.todo = next \o Tail(top.todo)
  /\ child.path = Append(top.path, step) /\ child.query \in Nodes.blocks /\ child.todo = Agenda(child.query)
  /\ child.level = EmptyLevel /\ child.joins = <<>> /\ child.ctes = g.ctes

CallCte ==
  /\ Doing("cte")
  /\ \E g, child, step :
       /\ Calls(g, child, step, <<Todo("bind_cte", what)>>)
       /\ child.parent = top.parent /\ step.index = what
       /\ IF top.query.with[what].recursive THEN step.role = "recursive" /\ Enters(g, what) ELSE step.role = "cte" /\ g.ctes = top.ctes

CallDerived ==
  /\ Doing("item")
  /\ \E g, child, step :
       /\ Calls(g, child, step, <<Todo("bind_derived", what)>>) /\ g.ctes = top.ctes
       /\ step.index = Len(top.level.relations) + 1
       /\ \/ step.role = "lateral" /\ child.parent = <<top.level>> \o top.parent
          \/ step.role = "derived" /\ child.parent = top.parent

CallArm ==
  \E g, child, step, t :
    /\ step.role \in {"left", "right"} /\ Doing(step.role)
    /\ Calls(g, child, step, <<t>>) /\ g.ctes = top.ctes /\ child.parent = top.parent
    /\ t.do \in {"bind_left", "bind_right"}

CallSubquery ==
  /\ Doing("subquery")
  /\ \E g, child, step, level :
       /\ Calls(g, child, step, <<>>) /\ g.ctes = top.ctes
       /\ step.role = what.role /\ step.index = what.index /\ step.role \in {"where", "on"}
       /\ level = top.level \/ (\E j \in DOMAIN top.joins : level = top.joins[j])
       /\ child.parent = <<level>> \o top.parent

LEMMA SameScopes == scopes' = scopes => ScopesKept
BY DEF ScopesKept, SameScope

SameFrame(f) ==
  DOMAIN f = DOMAIN top /\ f.path = top.path /\ f.query = top.query /\ f.parent = top.parent /\ f.todo = top.todo

Keeps(g, f) == g.level = f.level /\ g.joins = f.joins /\ g.ctes = f.ctes

LEMMA Moving ==
  ASSUME Inv, NEW do, Doing(do), NEW f, SameFrame(f), NEW next, Continue(f, next)
  PROVE  \E g : Moves(g) /\ g.todo = next \o Tail(top.todo) /\ Keeps(g, f)
<1> DEFINE g == Goes(f, next)
<1>1. FrameInv(top) /\ stack # <<>> /\ top.todo # <<>>
  BY DoingFacts
<1>2. /\ g.todo = next \o Tail(f.todo) /\ g.query = f.query /\ g.path = f.path /\ g.parent = f.parent
      /\ g.ctes = f.ctes /\ g.level = f.level /\ g.joins = f.joins
  BY <1>1, GoesFields DEF FrameInv, SameFrame
<1>3. stack' = Front(stack) \o <<g>> /\ scopes' = scopes
  BY DEF Continue
<1> HIDE DEF g
<1>4. Moves(g)
  BY <1>1, <1>2, <1>3, SameScopes DEF Moves, SameFrame
<1>5. g.todo = next \o Tail(top.todo) /\ Keeps(g, f)
  BY <1>2 DEF SameFrame, Keeps
<1>. QED
  BY <1>4, <1>5

LEMMA MovingOn ==
  ASSUME Inv, NEW do, Doing(do), NEW f, SameFrame(f), Continue(f, <<>>)
  PROVE  \E g : Moves(g) /\ g.todo = Tail(top.todo) /\ Keeps(g, f)
<1>1. IsSeq(Tail(top.todo))
  BY DoingFacts DEF AgendaInv
<1>2. <<>> \o Tail(top.todo) = Tail(top.todo)
  BY <1>1 DEF IsSeq
<1>3. PICK g : Moves(g) /\ g.todo = <<>> \o Tail(top.todo) /\ Keeps(g, f)
  BY Moving
<1>. QED
  BY <1>2, <1>3

\* A step that only puts something in front of the agenda.
LEMMA PlainMoving ==
  ASSUME Inv, NEW do, Doing(do), do \notin CteKinds \cup {"bind_derived"}, NEW f, SameFrame(f), Keeps(f, top),
         NEW next, Continue(f, next), IsSeq(next), \A i \in DOMAIN next : next[i].do \in {"table", "item", "join", "joined"}
  PROVE  PlainStep
<1>1. PICK g : Moves(g) /\ g.todo = next \o Tail(top.todo) /\ Keeps(g, f)
  BY Moving
<1>2. Head(top.todo).do = do
  BY DoingFacts
<1>3. g.level.relations = top.level.relations /\ g.joins = top.joins /\ g.ctes = top.ctes
  BY <1>1 DEF Keeps
<1>. QED
  BY <1>1, <1>2, <1>3 DEF PlainStep

LEMMA TopItself == SameFrame(top) /\ Keeps(top, top)
BY DEF SameFrame, Keeps

LEMMA PlainCollectTable == ASSUME Inv, CollectTable PROVE PlainStep
<1> DEFINE begun == [i \in DOMAIN what.joins |-> Todo("join", [join |-> what.joins[i], start |-> Len(top.level.relations)])]
           first == Todo("item", what.primary)
           next  == <<first>> \o begun
<1>1. Doing("table") /\ Continue(top, next)
  BY DEF CollectTable
<1>2. what \in Nodes.tables /\ GrammarInv
  BY <1>1, DoingFacts DEF TodoInv
<1>3. IsSeq(begun)
  <2>1. Len(what.joins) \in Nat /\ DOMAIN what.joins = 1..Len(what.joins)
    BY <1>2, Grammar, SeqFacts
  <2>2. DOMAIN begun = 1..Len(what.joins) /\ begun = [i \in 1..Len(what.joins) |-> begun[i]]
    BY <2>1
  <2>. QED
    BY <2>1, <2>2, SeqNew
<1>4. first.do = "item" /\ \A i \in DOMAIN begun : begun[i].do = "join"
  BY DEF Todo
<1> HIDE DEF begun, first
<1>5. IsSeq(next) /\ \A i \in DOMAIN next : next[i].do \in {"table", "item", "join", "joined"}
  BY <1>3, <1>4, OneBefore
<1> HIDE DEF next
<1>. QED
  BY <1>1, <1>5, TopItself, PlainMoving DEF CteKinds

LEMMA PlainCollectGroup == ASSUME Inv, CollectGroup PROVE PlainStep
<1> DEFINE next == [i \in DOMAIN what.items |-> Todo("table", what.items[i])]
<1>1. Doing("item") /\ what.kind = "group" /\ Continue(top, next)
  BY DEF CollectGroup
<1>2. what \in Nodes.items /\ GrammarInv
  BY <1>1, DoingFacts DEF TodoInv
<1>3. IsSeq(next)
  <2>1. Len(what.items) \in Nat /\ DOMAIN what.items = 1..Len(what.items)
    BY <1>1, <1>2, Grammar, SeqFacts
  <2>2. DOMAIN next = 1..Len(what.items) /\ next = [i \in 1..Len(what.items) |-> next[i]]
    BY <2>1
  <2>. QED
    BY <2>1, <2>2, SeqNew
<1>4. \A i \in DOMAIN next : next[i].do = "table"
  BY DEF Todo
<1> HIDE DEF next
<1>. QED
  BY <1>1, <1>3, <1>4, TopItself, PlainMoving DEF CteKinds

LEMMA PlainJoin == ASSUME Inv, Join PROVE PlainStep
<1> DEFINE first == Todo("item", what.join.right)
           last  == Todo("joined", [join |-> what.join, start |-> what.start, left |-> From(top.level, what.start),
                                    before |-> Len(top.level.relations)])
           next  == <<first, last>>
<1>1. Doing("join") /\ Continue(top, next)
  BY DEF Join
<1>2. first.do = "item" /\ last.do = "joined"
  BY DEF Todo
<1> HIDE DEF first, last
<1>3. IsSeq(next) /\ DOMAIN next = {1, 2} /\ next[1] = first /\ next[2] = last
  BY SeqTwo, SeqFacts
<1> HIDE DEF next
<1>5. \A i \in DOMAIN next : next[i].do \in {"table", "item", "join", "joined"}
  BY <1>2, <1>3
<1>. QED
  BY <1>1, <1>3, <1>5, TopItself, PlainMoving DEF CteKinds

\* A step that sets the outputs.
LEMMA PlainOutputs ==
  ASSUME Inv, NEW do, Doing(do), do \notin CteKinds \cup {"bind_derived"}, NEW outputs, Continue([top EXCEPT !.outputs = outputs], <<>>)
  PROVE  PlainStep
<1> DEFINE f == [top EXCEPT !.outputs = outputs]
<1>1. FrameInv(top)
  BY DoingFacts
<1>2. SameFrame(f) /\ Keeps(f, top)
  BY <1>1 DEF FrameInv, SameFrame, Keeps
<1>3. Continue(f, <<>>)
  OBVIOUS
<1> HIDE DEF f
<1>4. IsSeq(<<>>) /\ \A i \in DOMAIN <<>> : <<>>[i].do \in {"table", "item", "join", "joined"}
  BY SeqEmpty
<1>. QED
  BY <1>2, <1>3, <1>4, PlainMoving

LEMMA PlainCompoundOrder == ASSUME Inv, BindCompoundOrder PROVE PlainStep
<1> DEFINE Combined(s) == [s EXCEPT !.compoundOrder = <<top.path>>]
           owners == IF top.query.order THEN {} ELSE {s \in LastArms(top.path) : Trails(s)}
           frame  == IF top.query.order THEN Combined(top) ELSE top
           g      == Goes(frame, <<>>)
<1>1. /\ Doing("order") /\ stack' = Front(stack) \o <<g>>
      /\ scopes' = (scopes \ owners) \cup {Combined(s) : s \in owners}
  BY DEF BindCompoundOrder
<1>2. stack # <<>> /\ top.todo # <<>> /\ FrameInv(top) /\ Head(top.todo).do = "order"
  BY <1>1, DoingFacts
<1>3. owners \subseteq scopes
  BY DEF LastArms
<1>4. \A s \in scopes : SameScope(Combined(s), s)
  <2>1. ASSUME NEW s \in scopes
        PROVE  SameScope(Combined(s), s)
    <3>1. DOMAIN s = {"path", "query", "chain", "joins", "ctes", "outputs", "compoundOrder"}
      BY DEF Inv, ScopeInv
    <3>. QED
      BY <3>1 DEF SameScope
  <2>. QED
    BY <2>1
<1>5. /\ DOMAIN frame = DOMAIN top /\ frame.path = top.path /\ frame.query = top.query /\ frame.parent = top.parent
      /\ frame.todo = top.todo /\ frame.level = top.level /\ frame.joins = top.joins /\ frame.ctes = top.ctes
  <2> DEFINE combined == Combined(top)
  <2>1. /\ DOMAIN combined = DOMAIN top /\ combined.path = top.path /\ combined.query = top.query /\ combined.parent = top.parent
        /\ combined.todo = top.todo /\ combined.level = top.level /\ combined.joins = top.joins /\ combined.ctes = top.ctes
    BY <1>2 DEF FrameInv
  <2>2. frame = IF top.query.order THEN combined ELSE top
    OBVIOUS
  <2> HIDE DEF combined, frame
  <2>. QED
    BY <2>1, <2>2
<1> HIDE DEF owners, frame, Combined
<1>6. /\ g.todo = <<>> \o Tail(frame.todo) /\ g.query = frame.query /\ g.path = frame.path /\ g.parent = frame.parent
      /\ g.ctes = frame.ctes /\ g.level = frame.level /\ g.joins = frame.joins
  BY <1>2, <1>5, GoesFields DEF FrameInv
<1> HIDE DEF g
<1>7. ScopesKept
  <2>1. \A s \in scopes : SameScope(s, s)
    BY DEF SameScope
  <2>2. \A s \in scopes' : \E r \in scopes : SameScope(s, r)
    BY <1>1, <1>3, <1>4, <2>1
  <2>3. ASSUME NEW r \in scopes PROVE \E s \in scopes' : SameScope(s, r)
    <3>1. CASE r \in owners
      BY <1>1, <1>4, <3>1
    <3>2. CASE r \notin owners
      BY <1>1, <2>1, <3>2
    <3>. QED
      BY <3>1, <3>2
  <2>. QED
    BY <2>2, <2>3 DEF ScopesKept
<1>8. Moves(g) /\ g.level.relations = top.level.relations /\ g.joins = top.joins /\ g.ctes = top.ctes /\ g.todo = <<>> \o Tail(top.todo)
  BY <1>1, <1>2, <1>5, <1>6, <1>7 DEF Moves
<1>9. IsSeq(<<>>) /\ \A i \in DOMAIN <<>> : <<>>[i].do \in {"table", "item", "join", "joined"}
  BY SeqEmpty
<1>. QED
  BY <1>2, <1>8, <1>9 DEF PlainStep, CteKinds

\* A step that adds a relation.
LEMMA Added ==
  ASSUME Inv, NEW do, Doing(do), do \in {"item", "bind_derived"}, NEW r, Continue(WithRelation(top, r), <<>>), r.id = NextId,
         r.kind \in {"table", "cte"} => \E item \in Nodes.items : item.name \in Tables /\ r = TableRelation(item)
  PROVE  AddStep
<1> DEFINE f == WithRelation(top, r)
<1>1. FrameInv(top) /\ Head(top.todo).do = do
  BY DoingFacts
<1>2. f.level.relations = Append(top.level.relations, r)
  <2>1. DOMAIN top.level = {"relations", "coalesced"}
    BY <1>1 DEF FrameInv, LevelInv
  <2>2. f.level = [top.level EXCEPT !.relations = Append(@, r)]
    BY <1>1 DEF FrameInv, WithRelation
  <2>. QED
    BY <2>1, <2>2
<1>3. SameFrame(f) /\ f.joins = top.joins /\ f.ctes = top.ctes
  BY <1>1 DEF FrameInv, SameFrame, WithRelation
<1>4. Continue(f, <<>>)
  OBVIOUS
<1> HIDE DEF f
<1>5. PICK g : Moves(g) /\ g.todo = Tail(top.todo) /\ Keeps(g, f)
  BY <1>3, <1>4, MovingOn
<1>6. g.level.relations = Append(top.level.relations, r) /\ g.joins = top.joins /\ g.ctes = top.ctes
  BY <1>2, <1>3, <1>5 DEF Keeps
<1>. QED
  BY <1>1, <1>5, <1>6 DEF AddStep

LEMMA AddsName == ASSUME Inv, CollectName PROVE AddStep
<1>1. Doing("item") /\ what.kind = "table" /\ Continue(WithRelation(top, TableRelation(what)), <<>>)
  BY DEF CollectName
<1>2. what \in Nodes.items /\ GrammarInv
  BY <1>1, DoingFacts DEF TodoInv
<1>3. what.name \in Tables
  BY <1>1, <1>2, Grammar
<1>4. TableRelation(what).id = NextId
  BY DEF TableRelation
<1>. QED
  BY <1>1, <1>2, <1>3, <1>4, Added

LEMMA AddsFunctionOrRaw == ASSUME Inv, CollectFunctionOrRaw PROVE AddStep
<1> DEFINE columns == IF what.columns = <<>> /\ what.kind = "table_function" THEN <<what.name>> ELSE what.columns
           r == [id |-> NextId, name |-> what.name, alias |-> what.alias, qualified |-> FALSE, kind |-> what.kind,
                 body |-> <<>>, built |-> FALSE, args |-> what.args, columns |-> Written(columns),
                 known |-> [v \in Views |-> columns # <<>>]]
<1>1. Doing("item") /\ what.kind \in {"table_function", "raw"} /\ Continue(WithRelation(top, r), <<>>)
  BY DEF CollectFunctionOrRaw
<1>2. r.id = NextId /\ r.kind = what.kind
  OBVIOUS
<1> HIDE DEF r
<1>3. r.kind \notin {"table", "cte"}
  BY <1>1, <1>2
<1>. QED
  BY <1>1, <1>2, <1>3, Added

LEMMA AddsDerived == ASSUME Inv, BindDerived PROVE AddStep
<1> DEFINE r == [id |-> NextId, name |-> what.alias, alias |-> what.alias, qualified |-> FALSE, kind |-> "derived",
                 body |-> DerivedBody(what), built |-> TRUE, args |-> <<>>,
                 columns |-> OutputColumns(what.columns), known |-> returned.complete]
<1>1. Doing("bind_derived") /\ Continue(WithRelation(top, r), <<>>)
  BY DEF BindDerived
<1>2. r.id = NextId /\ r.kind = "derived"
  OBVIOUS
<1> HIDE DEF r
<1>. QED
  BY <1>1, <1>2, Added

LEMMA BindsCte == ASSUME Inv, BindCte PROVE BindStep
<1> DEFINE name  == top.query.with[what].name
           built == Cte(CteBody(top.query.with[what], what), TRUE, OutputColumns(top.query.with[what].columns), returned.complete)
           f     == [top EXCEPT !.ctes[name] = built]
<1>1. Doing("bind_cte") /\ Continue(f, <<>>)
  BY DEF BindCte
<1>2. FrameInv(top)
  BY <1>1, DoingFacts
<1>a. f = [top EXCEPT !.ctes[name] = built]
  OBVIOUS
<1>b. built.declared /\ built.body = CteBody(top.query.with[what], what)
  BY DEF Cte
<1> HIDE DEF name, built, f
<1>3. SameFrame(f) /\ f.level = top.level /\ f.joins = top.joins /\ f.ctes = [top.ctes EXCEPT ![name] = built]
  BY <1>2, <1>a DEF FrameInv, SameFrame
<1>4. PICK g : Moves(g) /\ g.todo = Tail(top.todo) /\ Keeps(g, f)
  BY <1>1, <1>3, MovingOn
<1>5. g.level.relations = top.level.relations /\ g.joins = top.joins /\ g.ctes = [top.ctes EXCEPT ![name] = built]
  BY <1>3, <1>4 DEF Keeps
<1>6. Enters(g, what)
  BY <1>5, <1>b DEF Enters, name
<1>. QED
  BY <1>1, <1>4, <1>5, <1>6 DEF BindStep

\* A step that calls build.
Built(f, q, step, path, parent, next) ==
  /\ SameFrame(f) /\ f.level = top.level /\ f.joins = top.joins
  /\ q \in Nodes.blocks /\ path = Append(top.path, step)
  /\ Call(f, Frame(q, path, parent, f.ctes), next)

LEMMA Called ==
  ASSUME Inv, NEW do, Doing(do), NEW f, NEW q, NEW step, NEW path, NEW parent, NEW next, Built(f, q, step, path, parent, next)
  PROVE  \E g, child : Calls(g, child, step, next) /\ child.parent = parent /\ g.ctes = f.ctes
<1> DEFINE g     == Goes(f, next)
           child == Frame(q, path, parent, f.ctes)
<1>1. FrameInv(top) /\ stack # <<>> /\ top.todo # <<>>
  BY DoingFacts
<1>2. /\ g.todo = next \o Tail(f.todo) /\ g.query = f.query /\ g.path = f.path /\ g.parent = f.parent
      /\ g.ctes = f.ctes /\ g.level = f.level /\ g.joins = f.joins
  BY <1>1, GoesFields DEF FrameInv, SameFrame, Built
<1>3. stack' = Front(stack) \o <<g, child>> /\ scopes' = scopes
  BY DEF Call, Built
<1>4. /\ child.path = path /\ child.parent = parent /\ child.joins = <<>> /\ child.level = EmptyLevel /\ child.query = q
      /\ child.ctes = f.ctes /\ child.todo = Agenda(q)
  BY DEF Frame
<1> HIDE DEF g, child
<1>5. Calls(g, child, step, next)
  BY <1>1, <1>2, <1>3, <1>4 DEF Calls, SameFrame, Built
<1>. QED
  BY <1>2, <1>4, <1>5

LEMMA CallsCte == ASSUME Inv, BuildCte PROVE CallCte
<1> DEFINE cte   == top.query.with[what]
           body  == CteBody(cte, what)
           self  == Cte(body, FALSE, Written(cte.columns), [v \in Views |-> cte.columns # <<>>])
           f     == IF cte.recursive THEN [top EXCEPT !.ctes[cte.name] = self] ELSE top
           next  == <<Todo("bind_cte", what)>>
           step  == Step(IF cte.recursive THEN "recursive" ELSE "cte", what)
<1>1. Doing("cte") /\ Call(f, Frame(cte.query, body, top.parent, f.ctes), next)
  BY DEF BuildCte
<1>2. stack # <<>> /\ FrameInv(top) /\ GrammarInv /\ what \in DOMAIN top.query.with
  BY <1>1, DoingFacts DEF TodoInv
<1>3. cte.query \in Nodes.blocks
  BY <1>2, Grammar DEF FrameInv
<1>4. /\ SameFrame(f) /\ f.level = top.level /\ f.joins = top.joins
      /\ IF cte.recursive THEN f.ctes = [top.ctes EXCEPT ![cte.name] = self] ELSE f.ctes = top.ctes
  <2> DEFINE name == cte.name
             more == [top EXCEPT !.ctes[name] = self]
  <2>a. (cte.recursive => f = more) /\ (~cte.recursive => f = top)
    OBVIOUS
  <2> HIDE DEF self, name, f
  <2>1. CASE cte.recursive
    <3>1. f = [top EXCEPT !.ctes[name] = self]
      BY <2>1, <2>a
    <3>2. SameFrame(f) /\ f.level = top.level /\ f.joins = top.joins /\ f.ctes = [top.ctes EXCEPT ![name] = self]
      BY <1>2, <3>1 DEF FrameInv, SameFrame
    <3>. QED
      BY <2>1, <3>2 DEF name
  <2>2. CASE ~cte.recursive
    BY <2>2, <2>a, TopItself
  <2>. QED
    BY <2>1, <2>2
<1>5. body = Append(top.path, step) /\ step.index = what /\ step.role = IF cte.recursive THEN "recursive" ELSE "cte"
  BY DEF CteBody, Step
<1> HIDE DEF f, next, step
<1>6. PICK g, child : Calls(g, child, step, next) /\ child.parent = top.parent /\ g.ctes = f.ctes
  <2> DEFINE q == cte.query
             path == body
  <2>1. Built(f, q, step, path, top.parent, next)
    BY <1>1, <1>3, <1>4, <1>5 DEF Built
  <2> HIDE DEF q, path
  <2>. QED
    BY <1>1, <2>1, Called
<1>7. IF cte.recursive THEN step.role = "recursive" /\ Enters(g, what) ELSE step.role = "cte" /\ g.ctes = top.ctes
  <2>1. CASE cte.recursive
    <3>1. self.declared /\ self.body = body
      BY DEF Cte
    <3> HIDE DEF self, body
    <3>2. g.ctes = [top.ctes EXCEPT ![cte.name] = self]
      BY <1>4, <1>6, <2>1
    <3>3. Enters(g, what)
      BY <3>1, <3>2 DEF Enters, body
    <3>. QED
      BY <1>5, <2>1, <3>3
  <2>2. CASE ~cte.recursive
    BY <1>4, <1>5, <1>6, <2>2
  <2>. QED
    BY <2>1, <2>2
<1>. QED
  BY <1>1, <1>5, <1>6, <1>7 DEF CallCte, next

LEMMA CallsDerived == ASSUME Inv, BuildDerived PROVE CallDerived
<1> DEFINE outer == IF what.lateral THEN <<top.level>> \o top.parent ELSE top.parent
           next  == <<Todo("bind_derived", what)>>
           step  == Step(IF what.lateral THEN "lateral" ELSE "derived", NextId.index)
           q     == what.query
           path  == DerivedBody(what)
<1>1. Doing("item") /\ what.kind = "derived" /\ Call(top, Frame(q, path, outer, top.ctes), next)
  BY DEF BuildDerived
<1>2. GrammarInv /\ what \in Nodes.items
  BY <1>1, DoingFacts DEF TodoInv
<1>3. q \in Nodes.blocks
  BY <1>1, <1>2, Grammar
<1>4. path = Append(top.path, step) /\ step.index = Len(top.level.relations) + 1
  BY DEF DerivedBody, Step, NextId
<1>5. \/ step.role = "lateral" /\ outer = <<top.level>> \o top.parent
      \/ step.role = "derived" /\ outer = top.parent
  BY DEF Step
<1> HIDE DEF outer, next, step, q, path
<1>b. Built(top, q, step, path, outer, next)
  BY <1>1, <1>3, <1>4, TopItself DEF Built, Keeps
<1>6. PICK g, child : Calls(g, child, step, next) /\ child.parent = outer /\ g.ctes = top.ctes
  BY <1>1, <1>b, Called
<1>. QED
  BY <1>1, <1>4, <1>5, <1>6 DEF CallDerived, next

LEMMA CallsLeft == ASSUME Inv, BuildLeft PROVE CallArm
<1> DEFINE step == Step("left", 1)
           t    == Todo("bind_left", 1)
           next == <<t>>
           q    == top.query.left[1]
           path == Append(top.path, step)
<1>1. Doing("left") /\ Call(top, Frame(q, path, top.parent, top.ctes), next)
  BY DEF BuildLeft
<1>2. FrameInv(top) /\ GrammarInv /\ Has(top.query.left)
  BY <1>1, DoingFacts DEF TodoInv
<1>3. q \in Nodes.blocks
  BY <1>2, Grammar DEF FrameInv
<1>4. path = Append(top.path, step) /\ step.role = "left" /\ t.do = "bind_left"
  BY DEF Step, Todo
<1> HIDE DEF next, step, q, path, t
<1>b. Built(top, q, step, path, top.parent, next)
  BY <1>1, <1>3, <1>4, TopItself DEF Built, Keeps
<1>6. PICK g, child : Calls(g, child, step, next) /\ child.parent = top.parent /\ g.ctes = top.ctes
  BY <1>1, <1>b, Called
<1>. QED
  BY <1>1, <1>4, <1>6 DEF CallArm, next

LEMMA CallsRight == ASSUME Inv, BuildRight PROVE CallArm
<1> DEFINE step == Step("right", 1)
           t    == Todo("bind_right", 1)
           next == <<t>>
           q    == top.query.right[1]
           path == Append(top.path, step)
<1>1. Doing("right") /\ Call(top, Frame(q, path, top.parent, top.ctes), next)
  BY DEF BuildRight
<1>2. FrameInv(top) /\ GrammarInv /\ Has(top.query.right)
  BY <1>1, DoingFacts DEF TodoInv
<1>3. q \in Nodes.blocks
  BY <1>2, Grammar DEF FrameInv
<1>4. path = Append(top.path, step) /\ step.role = "right" /\ t.do = "bind_right"
  BY DEF Step, Todo
<1> HIDE DEF next, step, q, path, t
<1>b. Built(top, q, step, path, top.parent, next)
  BY <1>1, <1>3, <1>4, TopItself DEF Built, Keeps
<1>6. PICK g, child : Calls(g, child, step, next) /\ child.parent = top.parent /\ g.ctes = top.ctes
  BY <1>1, <1>b, Called
<1>. QED
  BY <1>1, <1>4, <1>6 DEF CallArm, next

LEMMA CallsSubquery == ASSUME Inv, BuildSubquery PROVE CallSubquery
<1> DEFINE step  == Step(what.role, what.index)
           level == IF what.role = "on" THEN top.joins[what.index] ELSE top.level
           outer == <<level>> \o top.parent
           next  == <<>>
           q     == what.query
           path  == Append(top.path, step)
<1>1. Doing("subquery") /\ Call(top, Frame(q, path, outer, top.ctes), next)
  BY DEF BuildSubquery
<1>2. /\ q \in Nodes.blocks /\ what.role \in {"where", "on"} /\ (what.role = "on" => what.index \in DOMAIN top.joins)
  BY <1>1, DoingFacts DEF TodoInv
<1>3. path = Append(top.path, step) /\ step.role = what.role /\ step.index = what.index
  BY DEF Step
<1>4. level = top.level \/ \E j \in DOMAIN top.joins : level = top.joins[j]
  BY <1>2
<1> HIDE DEF next, step, q, path, level, outer
<1>b. Built(top, q, step, path, outer, next)
  BY <1>1, <1>2, <1>3, TopItself DEF Built, Keeps
<1>5. PICK g, child : Calls(g, child, step, next) /\ child.parent = outer /\ g.ctes = top.ctes
  BY <1>1, <1>b, Called
<1>. QED
  BY <1>1, <1>2, <1>3, <1>4, <1>5 DEF CallSubquery, next, outer

LEMMA ConditionOfJoin == ASSUME Inv, Joined PROVE JoinStep
<1> DEFINE old   == top.level
           level == Coalesce(old, what.left, From(old, what.before), what.join.using)
           side  == From(level, what.start)
           mine  == [i \in DOMAIN what.join.on |-> side]
           subs  == OnSubqueries(what.join, Len(top.joins))
           f     == [top EXCEPT !.level = level, !.joins = @ \o mine, !.todo = BeforeWhere(@, subs)]
           rest  == Tail(top.todo)
           m     == Len(what.join.on)
<1>1. Doing("joined") /\ Continue(f, <<>>)
  BY DEF Joined
<1>2. /\ stack # <<>> /\ top.todo # <<>> /\ FrameInv(top) /\ GrammarInv
      /\ Len(top.query.where) <= Len(rest) /\ IsSeq(rest)
  BY <1>1, DoingFacts DEF AgendaInv
<1>3. what.join \in Nodes.joins /\ what.start \in Nat /\ what.start <= Len(old.relations)
  <2>1. /\ what.join \in Nodes.joins /\ what.start \in Nat /\ what.before \in Nat
        /\ what.start <= what.before /\ what.before <= Len(old.relations)
    BY <1>1, DoingFacts DEF TodoInv, Marked, MarkInv, High
  <2>2. Len(old.relations) \in Nat
    BY <1>2, SeqFacts DEF FrameInv, LevelInv
  <2>. QED
    BY <2>1, <2>2
<1>4. level.relations = old.relations /\ DOMAIN level = {"relations", "coalesced"}
  <2>1. DOMAIN old = {"relations", "coalesced"}
    BY <1>2 DEF FrameInv, LevelInv
  <2>. QED
    BY <2>1 DEF Coalesce
<1>5. PartOf(top, side)
  <2>1. IsSeq(level.relations) /\ \A i \in DOMAIN level.relations : level.relations[i].id.owner = top.path
    BY <1>2, <1>4, OwnLevel DEF FrameInv, OwnedBy
  <2>2. what.start \in Nat /\ what.start <= Len(level.relations) /\ DOMAIN level = {"relations", "coalesced"}
    BY <1>3, <1>4
  <2> DEFINE start == what.start
  <2> HIDE DEF level, start
  <2>3. /\ IsSeq(From(level, start).relations)
        /\ \A i \in DOMAIN From(level, start).relations :
             i + start \in DOMAIN level.relations /\ From(level, start).relations[i] = level.relations[i + start]
    <3>1. /\ IsSeq(From(level, start).relations)
          /\ DOMAIN From(level, start).relations = 1..(Len(level.relations) - start)
          /\ \A i \in 1..(Len(level.relations) - start) :
               /\ i + start \in DOMAIN level.relations /\ i + start > start
               /\ From(level, start).relations[i] = level.relations[i + start]
      <4>1. start \in Nat /\ IsSeq(level.relations) /\ start <= Len(level.relations) /\ DOMAIN level = {"relations", "coalesced"}
        BY <2>1, <2>2 DEF start
      <4>. QED
        BY ONLY <4>1, FromFacts
    <3>. QED
      BY <3>1
  <2>4. OwnedBy(top.path, From(level, start))
    BY <2>1, <2>3 DEF OwnedBy
  <2>5. ToSet(From(level, start).relations) \subseteq ToSet(level.relations)
    BY <2>3 DEF ToSet
  <2>. QED
    BY <1>4, <2>3, <2>4, <2>5 DEF PartOf, start
<1>6. IsSeq(what.join.on) /\ m \in Nat /\ DOMAIN what.join.on = 1..m
  BY <1>2, <1>3, Grammar, SeqFacts
<1>7. IsSeq(subs) /\ \A i \in DOMAIN subs : /\ subs[i].do = "subquery" /\ subs[i].what.role = "on"
                                            /\ subs[i].what.index = Len(top.joins) + i
  <2>1. subs = [i \in DOMAIN what.join.on |-> Todo("subquery", [role |-> "on", index |-> Len(top.joins) + i, query |-> what.join.on[i]])]
    BY DEF OnSubqueries
  <2>2. DOMAIN subs = 1..m /\ subs = [i \in 1..m |-> subs[i]]
    BY <1>6, <2>1
  <2>3. IsSeq(subs)
    BY <1>6, <2>2, SeqNew
  <2>4. ASSUME NEW i \in DOMAIN subs
        PROVE  subs[i].do = "subquery" /\ subs[i].what.role = "on" /\ subs[i].what.index = Len(top.joins) + i
    <3>1. subs[i] = Todo("subquery", [role |-> "on", index |-> Len(top.joins) + i, query |-> what.join.on[i]])
      BY <2>1
    <3>. QED
      BY <3>1 DEF Todo
  <2> HIDE DEF subs
  <2>. QED
    BY <2>3, <2>4
<1> HIDE DEF level, side, subs
<1>8. /\ DOMAIN f = DOMAIN top /\ f.path = top.path /\ f.query = top.query /\ f.parent = top.parent
      /\ f.level = level /\ f.joins = top.joins \o mine /\ f.ctes = top.ctes /\ f.outputs = top.outputs
      /\ f.todo = BeforeWhere(top.todo, subs)
  BY <1>2 DEF FrameInv
<1>9. /\ DOMAIN top.joins \subseteq DOMAIN f.joins
      /\ \A j \in DOMAIN f.joins : \/ j \in DOMAIN top.joins /\ f.joins[j] = top.joins[j]
                                   \/ PartOf(top, f.joins[j])
  <2> DEFINE js == top.joins
             l  == Len(js)
  <2>1. IsSeq(js) /\ l \in Nat /\ DOMAIN js = 1..l
    BY <1>2, SeqFacts DEF FrameInv, KeepsLevels
  <2>2. IsSeq(mine) /\ Len(mine) = m /\ \A i \in DOMAIN mine : mine[i] = side
    <3>1. DOMAIN mine = 1..m /\ mine = [i \in 1..m |-> mine[i]]
      BY <1>6
    <3>2. \A i \in DOMAIN mine : mine[i] = side
      OBVIOUS
    <3>. QED
      BY <1>6, <3>1, <3>2, SeqNew
  <2>3. f.joins = js \o mine
    BY <1>8
  <2> HIDE DEF js, mine, m
  <2>4. /\ IsSeq(js \o mine) /\ Len(js \o mine) = Len(js) + Len(mine)
        /\ \A i \in DOMAIN (js \o mine) : (js \o mine)[i] = IF i <= Len(js) THEN js[i] ELSE mine[i - Len(js)]
    <3>1. IsSeq(js) /\ IsSeq(mine)
      BY <2>1, <2>2
    <3>. QED
      BY ONLY <3>1, SeqConcat
  <2> DEFINE all == js \o mine
  <2>5. /\ DOMAIN all = 1..(l + m) /\ \A i \in DOMAIN all : all[i] = IF i <= l THEN js[i] ELSE mine[i - l]
    BY <2>2, <2>4, SeqFacts
  <2> HIDE DEF all, l
  <2>6. DOMAIN mine = 1..m
    BY <2>2, SeqFacts
  <2>7. DOMAIN js \subseteq DOMAIN all
    BY <1>6, <2>1, <2>5
  <2>8. \A j \in DOMAIN all : (j \in DOMAIN js /\ all[j] = js[j]) \/ all[j] = side
    <3> SUFFICES ASSUME NEW j \in DOMAIN all PROVE (j \in DOMAIN js /\ all[j] = js[j]) \/ all[j] = side
      OBVIOUS
    <3>1. CASE j <= l
      BY <1>6, <2>1, <2>5, <3>1
    <3>2. CASE ~(j <= l)
      <4>1. j - l \in DOMAIN mine
        BY <1>6, <2>1, <2>5, <2>6, <3>2
      <4>. QED
        BY <2>2, <2>5, <3>2, <4>1
    <3>. QED
      BY <3>1, <3>2
  <2>. QED
    BY <1>5, <2>3, <2>7, <2>8 DEF all, js
<1> DEFINE g == Goes(f, <<>>)
           n == Len(rest) - Len(top.query.where)
<1> HIDE DEF f
<1>10. /\ g.todo = <<>> \o Tail(f.todo) /\ g.query = f.query /\ g.path = f.path /\ g.parent = f.parent
       /\ g.ctes = f.ctes /\ g.level = f.level /\ g.joins = f.joins /\ g.outputs = f.outputs
  BY <1>2, <1>8, GoesFields DEF FrameInv
<1>11. stack' = Front(stack) \o <<g>> /\ scopes' = scopes
  BY <1>1 DEF Continue
<1> HIDE DEF g
<1>12. n \in Nat /\ n <= Len(rest) /\ Tail(f.todo) = Inserted(rest, subs, n)
  <2>1. Len(top.query.where) \in Nat /\ IsSeq(top.todo)
    BY <1>2, WhereLength DEF FrameInv, AgendaInv
  <2>2. n \in Nat /\ n + Len(top.query.where) = Len(rest) /\ Tail(BeforeWhere(top.todo, subs)) = Inserted(rest, subs, n)
    BY <1>2, <1>7, <2>1, JoinedAgenda
  <2>3. Len(rest) \in Nat
    BY <1>2, SeqFacts
  <2> HIDE DEF n
  <2>4. n <= Len(rest)
    BY <2>1, <2>2, <2>3
  <2>5. f.todo = BeforeWhere(top.todo, subs)
    BY <1>8
  <2>. QED
    BY <2>2, <2>4, <2>5
<1> HIDE DEF n
<1>13. g.todo = Inserted(rest, subs, n)
  <2>1. IsSeq(Inserted(rest, subs, n))
    BY <1>2, <1>7, <1>12, InsertedFacts
  <2>. QED
    BY <1>10, <1>12, <2>1 DEF IsSeq
<1>14. Moves(g) /\ g.level.relations = old.relations /\ g.ctes = top.ctes /\ g.joins = f.joins /\ g.outputs = top.outputs
  BY <1>2, <1>4, <1>8, <1>10, <1>11, SameScopes DEF Moves
<1>15. \A j \in DOMAIN g.joins : (j \in DOMAIN top.joins /\ g.joins[j] = top.joins[j]) \/ PartOf(top, g.joins[j])
  BY <1>9, <1>14
<1>16. DOMAIN top.joins \subseteq DOMAIN g.joins
  BY <1>9, <1>14
<1>. QED
  <2>1. JoinsTo(g, subs, n)
    BY <1>7, <1>12, <1>13, <1>14, <1>15, <1>16 DEF JoinsTo
  <2>. QED
    BY <1>1, <2>1 DEF JoinStep

\* What the steps of the binder come to.
LEMMA Steps ==
  ASSUME Inv, Next
  PROVE  \/ PlainStep \/ AddStep \/ JoinStep \/ BindStep
         \/ CallCte \/ CallDerived \/ CallArm \/ CallSubquery \/ Return
<1>1. CollectOutputs => PlainStep
  <2> SUFFICES ASSUME CollectOutputs PROVE PlainStep
    OBVIOUS
  <2>1. Doing("outputs") /\ "outputs" \notin CteKinds \cup {"bind_derived"}
    BY DEF CollectOutputs, CteKinds
  <2>2. Continue([top EXCEPT !.outputs = Collected(top.query)], <<>>)
    BY DEF CollectOutputs
  <2>. QED
    BY <2>1, <2>2, PlainOutputs
<1>2. BindLeft => PlainStep
  <2> SUFFICES ASSUME BindLeft PROVE PlainStep
    OBVIOUS
  <2>1. Doing("bind_left") /\ "bind_left" \notin CteKinds \cup {"bind_derived"}
    BY DEF BindLeft, CteKinds
  <2> DEFINE outputs == [returned EXCEPT !.left = [v \in Views |-> Len(returned.slots[v])]]
  <2>2. Continue([top EXCEPT !.outputs = outputs], <<>>)
    BY DEF BindLeft
  <2> HIDE DEF outputs
  <2>. QED
    BY <2>1, <2>2, PlainOutputs
<1>3. BindRight => PlainStep
  <2> SUFFICES ASSUME BindRight PROVE PlainStep
    OBVIOUS
  <2>1. Doing("bind_right") /\ "bind_right" \notin CteKinds \cup {"bind_derived"}
    BY DEF BindRight, CteKinds
  <2> DEFINE outputs == IF top.query.byName THEN ByName(top.outputs, returned) ELSE top.outputs
  <2>2. Continue([top EXCEPT !.outputs = outputs], <<>>)
    BY DEF BindRight
  <2> HIDE DEF outputs
  <2>. QED
    BY <2>1, <2>2, PlainOutputs
<1>. QED
  BY <1>1, <1>2, <1>3, PlainCollectTable, PlainCollectGroup, PlainJoin, PlainCompoundOrder, AddsName, AddsFunctionOrRaw,
     AddsDerived, BindsCte, ConditionOfJoin, CallsCte, CallsDerived, CallsLeft, CallsRight, CallsSubquery DEF Next

(***************************************************************************)
(* What every block sees, and its join conditions                           *)
(***************************************************************************)
FrameSees(f) ==
  /\ SeesInv(f.path, f.parent)
  /\ \A j \in DOMAIN f.joins : OwnedBy(f.path, f.joins[j])

ScopeSees(s) ==
  /\ OwnedBy(s.path, s.chain[1]) /\ SeesInv(s.path, Tail(s.chain))
  /\ \A j \in DOMAIN s.joins : OwnedBy(s.path, s.joins[j])

SightInv ==
  /\ \A i \in DOMAIN stack : FrameSees(stack[i])
  /\ \A s \in scopes : ScopeSees(s)

LEMMA TopSees ==
  ASSUME Inv, SightInv, stack # <<>>
  PROVE  /\ FrameSees(top) /\ OwnedBy(top.path, top.level) /\ IsSeq(top.path)
         /\ \A i \in DOMAIN top.level.relations : top.level.relations[i].id.index = i
<1>1. FrameInv(top) /\ IsSeq(top.path) /\ top = stack[Len(stack)] /\ Len(stack) \in Nat \ {0} /\ DOMAIN stack = 1..Len(stack)
  BY TopFacts
<1>2. FrameSees(top)
  BY <1>1 DEF SightInv
<1>3. LevelInv(top.path, top.level)
  BY <1>1 DEF FrameInv
<1>. QED
  BY <1>1, <1>2, <1>3, OwnLevel

LEMMA SightMoving ==
  ASSUME Inv, SightInv, NEW g, Moves(g), \A j \in DOMAIN g.joins : OwnedBy(top.path, g.joins[j])
  PROVE  SightInv'
<1>1. stack # <<>> /\ stack' = Front(stack) \o <<g>> /\ ScopesKept /\ g.path = top.path /\ g.parent = top.parent
  BY DEF Moves
<1>2. FrameSees(g)
  BY <1>1, TopSees DEF FrameSees
<1>3. \A s \in scopes' : ScopeSees(s)
  BY <1>1 DEF SightInv, ScopesKept, SameScope, ScopeSees
<1>4. /\ IsSeq(stack') /\ DOMAIN stack' = 1..Len(stack)
      /\ \A i \in 1..Len(stack) : \/ i = Len(stack) /\ stack'[i] = g
                                  \/ i \in 1..(Len(stack) - 1) /\ i \in DOMAIN stack /\ stack'[i] = stack[i]
  BY <1>1, StackContinued
<1>5. \A i \in DOMAIN stack' : FrameSees(stack'[i])
  BY <1>2, <1>4 DEF SightInv
<1>. QED
  BY <1>3, <1>5 DEF SightInv

LEMMA SightCalling ==
  ASSUME Inv, SightInv, NEW g, NEW child, NEW step, NEW next, Calls(g, child, step, next), SeesInv(child.path, child.parent)
  PROVE  SightInv'
<1>1. /\ stack # <<>> /\ stack' = Front(stack) \o <<g, child>> /\ scopes' = scopes
      /\ g.path = top.path /\ g.parent = top.parent /\ g.joins = top.joins /\ child.joins = <<>>
  BY DEF Calls
<1>2. FrameSees(g)
  BY <1>1, TopSees DEF FrameSees
<1>3. FrameSees(child)
  <2>1. DOMAIN <<>> = {}
    OBVIOUS
  <2>. QED
    BY <1>1, <2>1 DEF FrameSees
<1>4. /\ IsSeq(stack') /\ DOMAIN stack' = 1..(Len(stack) + 1)
      /\ \A i \in 1..(Len(stack) + 1) : \/ i = Len(stack) + 1 /\ stack'[i] = child
                                        \/ i = Len(stack) /\ stack'[i] = g
                                        \/ i \in 1..(Len(stack) - 1) /\ i \in DOMAIN stack /\ stack'[i] = stack[i]
  BY <1>1, StackCalled
<1>5. \A i \in DOMAIN stack' : FrameSees(stack'[i])
  BY <1>2, <1>3, <1>4 DEF SightInv
<1>. QED
  BY <1>1, <1>5 DEF SightInv

LEMMA SightReturning == ASSUME Inv, SightInv, Return PROVE SightInv'
<1> DEFINE s == [path |-> top.path, query |-> top.query, chain |-> <<top.level>> \o top.parent,
                 joins |-> top.joins, ctes |-> top.ctes, outputs |-> top.outputs, compoundOrder |-> top.compoundOrder]
<1>1. stack # <<>> /\ stack' = Front(stack) /\ scopes' = scopes \cup {s}
  BY DEF Return
<1>2. FrameSees(top) /\ OwnedBy(top.path, top.level)
  BY <1>1, TopSees
<1>3. s.chain[1] = top.level /\ Tail(s.chain) = top.parent
  <2>1. IsSeq(top.parent)
    BY <1>2 DEF FrameSees, SeesInv
  <2>. QED
    BY <2>1, OneBefore
<1>4. s.path = top.path /\ s.joins = top.joins
  OBVIOUS
<1> HIDE DEF s
<1>5. ScopeSees(s)
  BY <1>2, <1>3, <1>4 DEF ScopeSees, FrameSees
<1>6. DOMAIN stack' = 1..(Len(stack) - 1) /\ \A i \in 1..(Len(stack) - 1) : i \in DOMAIN stack /\ stack'[i] = stack[i]
  BY <1>1, StackReturned
<1>. QED
  BY <1>1, <1>5, <1>6 DEF SightInv

LEMMA InitSight == Init => SightInv
<1> SUFFICES ASSUME Init PROVE SightInv
  OBVIOUS
<1> DEFINE f == Frame(query, <<>>, <<>>, [n \in Tables |-> NoCte])
<1>1. stack = <<f>> /\ scopes = {}
  BY DEF Init
<1>2. f.path = <<>> /\ f.parent = <<>> /\ f.joins = <<>>
  BY DEF Frame
<1> HIDE DEF f
<1>3. DOMAIN <<>> = {} /\ IsSeq(<<>>)
  BY SeqEmpty
<1>4. FrameSees(f)
  BY <1>2, <1>3 DEF FrameSees, SeesInv, NestedLevels
<1>5. DOMAIN stack = {1} /\ stack[1] = f
  BY <1>1
<1>. QED
  BY <1>1, <1>4, <1>5 DEF SightInv

LEMMA StepSight == ASSUME Inv, SightInv, [Next]_vars PROVE SightInv'
<1>1. CASE UNCHANGED vars
  BY <1>1 DEF vars, SightInv
<1>2. CASE PlainStep
  <2>1. PICK g : Moves(g) /\ g.joins = top.joins
    BY <1>2 DEF PlainStep
  <2>2. stack # <<>>
    BY <2>1 DEF Moves
  <2>. QED
    BY <2>1, <2>2, TopSees, SightMoving DEF FrameSees
<1>3. CASE AddStep
  <2>1. PICK g : Moves(g) /\ g.joins = top.joins
    BY <1>3 DEF AddStep
  <2>2. stack # <<>>
    BY <2>1 DEF Moves
  <2>. QED
    BY <2>1, <2>2, TopSees, SightMoving DEF FrameSees
<1>4. CASE BindStep
  <2>1. PICK g : Moves(g) /\ g.joins = top.joins
    BY <1>4 DEF BindStep
  <2>2. stack # <<>>
    BY <2>1 DEF Moves
  <2>. QED
    BY <2>1, <2>2, TopSees, SightMoving DEF FrameSees
<1>5. CASE JoinStep
  <2>1. PICK g, subs, n : JoinsTo(g, subs, n)
    BY <1>5 DEF JoinStep
  <2>2. stack # <<>> /\ Moves(g)
    BY <2>1 DEF JoinsTo, Moves
  <2>3. \A j \in DOMAIN g.joins : OwnedBy(top.path, g.joins[j])
    BY <2>1, <2>2, TopSees DEF JoinsTo, FrameSees, PartOf
  <2>. QED
    BY <2>2, <2>3, SightMoving
<1>6. CASE CallCte
  <2>1. PICK g, child, step : Calls(g, child, step, <<Todo("bind_cte", what)>>) /\ child.parent = top.parent
    BY <1>6 DEF CallCte
  <2>2. stack # <<>> /\ child.path = Append(top.path, step)
    BY <2>1 DEF Calls
  <2>3. SeesInv(child.path, child.parent)
    BY <2>1, <2>2, TopSees, SeesDeeper DEF FrameSees
  <2>. QED
    BY <2>1, <2>3, SightCalling
<1>7. CASE CallArm
  <2>1. PICK g, child, step, t : Calls(g, child, step, <<t>>) /\ child.parent = top.parent
    BY <1>7 DEF CallArm
  <2>2. stack # <<>> /\ child.path = Append(top.path, step)
    BY <2>1 DEF Calls
  <2>3. SeesInv(child.path, child.parent)
    BY <2>1, <2>2, TopSees, SeesDeeper DEF FrameSees
  <2>. QED
    BY <2>1, <2>3, SightCalling
<1>8. CASE CallDerived
  <2>1. PICK g, child, step :
          /\ Calls(g, child, step, <<Todo("bind_derived", what)>>)
          /\ step.index = Len(top.level.relations) + 1
          /\ \/ step.role = "lateral" /\ child.parent = <<top.level>> \o top.parent
             \/ step.role = "derived" /\ child.parent = top.parent
    BY <1>8 DEF CallDerived
  <2>2. stack # <<>> /\ child.path = Append(top.path, step)
    BY <2>1 DEF Calls
  <2>3. /\ OwnedBy(top.path, top.level) /\ IsSeq(top.path) /\ SeesInv(top.path, top.parent)
    BY <2>2, TopSees DEF FrameSees
  <2>4. \A i \in DOMAIN top.level.relations : top.level.relations[i].id.index < step.index
    <3>1. Len(top.level.relations) \in Nat /\ DOMAIN top.level.relations = 1..Len(top.level.relations)
      BY <2>2, TopFacts, OwnLevel, SeqFacts DEF FrameInv
    <3>2. \A i \in DOMAIN top.level.relations : top.level.relations[i].id.index = i
      BY <2>2, TopSees
    <3>. QED
      BY <2>1, <3>1, <3>2
  <2>5. SeesInv(child.path, child.parent)
    <3>1. CASE step.role = "lateral" /\ child.parent = <<top.level>> \o top.parent
      <4>1. Holds(step, top.level)
        BY <2>4, <3>1 DEF Holds
      <4>. QED
        BY <2>2, <2>3, <3>1, <4>1, SeesAround
    <3>2. CASE step.role = "derived" /\ child.parent = top.parent
      BY <2>2, <2>3, <3>2, SeesDeeper
    <3>. QED
      BY <2>1, <3>1, <3>2
  <2>. QED
    BY <2>1, <2>5, SightCalling
<1>9. CASE CallSubquery
  <2>1. PICK g, child, step, level :
          /\ Calls(g, child, step, <<>>) /\ step.role \in {"where", "on"}
          /\ level = top.level \/ (\E j \in DOMAIN top.joins : level = top.joins[j])
          /\ child.parent = <<level>> \o top.parent
    BY <1>9 DEF CallSubquery
  <2>2. stack # <<>> /\ child.path = Append(top.path, step)
    BY <2>1 DEF Calls
  <2>3. OwnedBy(top.path, level) /\ IsSeq(top.path) /\ SeesInv(top.path, top.parent)
    BY <2>1, <2>2, TopSees DEF FrameSees
  <2>4. Holds(step, level)
    BY <2>1 DEF Holds
  <2>5. SeesInv(child.path, child.parent)
    BY <2>1, <2>2, <2>3, <2>4, SeesAround
  <2>. QED
    BY <2>1, <2>5, SightCalling
<1>. QED
  BY <1>1, <1>2, <1>3, <1>4, <1>5, <1>6, <1>7, <1>8, <1>9, Steps, SightReturning

\* What can be seen with a level of the block innermost.
LEMMA ChainIsLexical ==
  ASSUME NEW path, IsSeq(path), NEW level, OwnedBy(path, level), NEW outer, SeesInv(path, outer)
  PROVE  LET chain == <<level>> \o outer
         IN  /\ \A k \in DOMAIN chain : \A r \in ToSet(chain[k].relations) :
                  /\ IsPrefix(r.id.owner, path)
                  /\ r.id.owner = path <=> k = 1
                  /\ k > 1 => MaySee(path, r)
             /\ InnermostFirst(chain)
<1> DEFINE chain == <<level>> \o outer
<1>1. /\ DOMAIN chain = 1..(1 + Len(outer)) /\ chain[1] = level /\ Len(outer) \in Nat
      /\ \A k \in DOMAIN chain : k = 1 \/ (k > 1 /\ k - 1 \in DOMAIN outer /\ chain[k] = outer[k - 1])
  BY OneBefore, SeqFacts DEF SeesInv
<1> HIDE DEF chain
<1>2. Len(path) \in Nat /\ SubSeq(path, 1, Len(path)) = path
  BY SeqFacts, WholeSeq
<1>3. ASSUME NEW k \in DOMAIN chain, NEW i \in DOMAIN chain[k].relations
      PROVE  LET r == chain[k].relations[i]
             IN  /\ IsPrefix(r.id.owner, path)
                 /\ r.id.owner = path <=> k = 1
                 /\ k > 1 => MaySee(path, r) /\ Len(r.id.owner) < Len(path)
  <2>1. CASE k = 1
    <3>1. chain[k].relations[i].id.owner = path
      BY <1>1, <2>1 DEF OwnedBy
    <3>2. ~(k > 1) /\ IsPrefix(path, path)
      BY <1>2, <2>1 DEF IsPrefix
    <3>. QED
      BY <2>1, <3>1, <3>2
  <2>2. CASE k > 1 /\ k - 1 \in DOMAIN outer /\ chain[k] = outer[k - 1]
    <3> DEFINE r == chain[k].relations[i]
    <3>1. SeenFrom(path, r)
      BY <2>2 DEF SeesInv
    <3> HIDE DEF r
    <3>2. IsSeq(r.id.owner) /\ Len(r.id.owner) < Len(path) /\ SubSeq(path, 1, Len(r.id.owner)) = r.id.owner /\ MaySee(path, r)
      BY <3>1 DEF SeenFrom
    <3>3. SubSeq(r.id.owner, 1, Len(r.id.owner)) = r.id.owner /\ Len(r.id.owner) \in Nat
      BY <3>2, WholeSeq, SeqFacts
    <3>4. IsPrefix(r.id.owner, path)
      BY <1>2, <3>2, <3>3 DEF IsPrefix
    <3>5. r.id.owner # path
      BY <1>2, <3>2
    <3>. QED
      BY <1>1, <2>2, <3>2, <3>4, <3>5 DEF r
  <2>. QED
    BY <1>1, <2>1, <2>2
<1>4. ASSUME NEW k \in DOMAIN chain, NEW l \in DOMAIN chain, NEW i \in DOMAIN chain[k].relations, NEW j \in DOMAIN chain[l].relations
      PROVE  LET r == chain[k].relations[i]
                 q == chain[l].relations[j]
             IN  (k = l => q.id.owner = r.id.owner) /\ (k < l => Len(q.id.owner) < Len(r.id.owner))
  <2>0. k \in Nat /\ l \in Nat
    BY <1>1
  <2>1. CASE k = 1
    <3>1. chain[k].relations[i].id.owner = path
      BY <1>3, <2>1
    <3>2. k = l => chain[l].relations[j].id.owner = path
      BY <1>3, <2>1
    <3>3. k < l => Len(chain[l].relations[j].id.owner) < Len(path)
      BY <1>3, <2>0, <2>1
    <3>. QED
      BY <3>1, <3>2, <3>3
  <2>2. CASE k > 1 /\ l = 1
    BY <2>0, <2>2
  <2>3. CASE k > 1 /\ k - 1 \in DOMAIN outer /\ chain[k] = outer[k - 1] /\ l > 1 /\ l - 1 \in DOMAIN outer /\ chain[l] = outer[l - 1]
    <3>1. (k = l <=> k - 1 = l - 1) /\ (k < l <=> k - 1 < l - 1)
      BY <2>0
    <3>2. NestedLevels(outer)
      BY DEF SeesInv
    <3>. QED
      BY <2>3, <3>1, <3>2 DEF NestedLevels
  <2>. QED
    BY <1>1, <2>1, <2>2, <2>3
<1>5. \A k \in DOMAIN chain : \A r \in ToSet(chain[k].relations) :
        IsPrefix(r.id.owner, path) /\ (r.id.owner = path <=> k = 1) /\ (k > 1 => MaySee(path, r))
  BY <1>3 DEF ToSet
<1>6. InnermostFirst(chain)
  BY <1>4 DEF InnermostFirst, ToSet
<1>. QED
  BY <1>5, <1>6 DEF chain

LEMMA BlocksSeeLexically == ASSUME Inv, SightInv PROVE LevelsAreLexical
<1> SUFFICES ASSUME NEW s \in scopes, NEW chain \in Chains(s)
             PROVE  /\ \A k \in DOMAIN chain : \A r \in ToSet(chain[k].relations) :
                         /\ IsPrefix(r.id.owner, s.path)
                         /\ r.id.owner = s.path <=> k = 1
                         /\ k > 1 => MaySee(s.path, r)
                    /\ InnermostFirst(chain)
  BY DEF LevelsAreLexical
<1>1. IsSeq(s.path) /\ ScopeInv(s) /\ ScopeSees(s)
  BY DEF Inv, PathsInv, KnownPaths, SightInv
<1>2. IsSeq(s.chain) /\ s.chain # <<>>
  BY <1>1 DEF ScopeInv, KeepsLevels
<1>3. s.chain = <<s.chain[1]>> \o Tail(s.chain)
  BY <1>2 DEF IsSeq
<1>4. SeesInv(s.path, Tail(s.chain))
  BY <1>1 DEF ScopeSees
<1>5. \E level : OwnedBy(s.path, level) /\ chain = <<level>> \o Tail(s.chain)
  <2>1. CASE chain = s.chain
    BY <1>1, <1>3, <2>1 DEF ScopeSees
  <2>2. CASE \E j \in DOMAIN s.joins : chain = <<s.joins[j]>> \o Tail(s.chain)
    BY <1>1, <2>2 DEF ScopeSees
  <2>. QED
    BY <2>1, <2>2 DEF Chains
<1>6. PICK level : OwnedBy(s.path, level) /\ chain = <<level>> \o Tail(s.chain)
  BY <1>5
<1> DEFINE path  == s.path
           outer == Tail(s.chain)
<1>7. IsSeq(path) /\ OwnedBy(path, level) /\ SeesInv(path, outer) /\ chain = <<level>> \o outer
  BY <1>1, <1>4, <1>6
<1> HIDE DEF path, outer
<1>8. /\ \A k \in DOMAIN chain : \A r \in ToSet(chain[k].relations) :
           /\ IsPrefix(r.id.owner, path)
           /\ r.id.owner = path <=> k = 1
           /\ k > 1 => MaySee(path, r)
      /\ InnermostFirst(chain)
  BY <1>7, ChainIsLexical
<1>. QED
  BY <1>8 DEF path

(***************************************************************************)
(* The blocks on record.  Each call of build is for a step that the block   *)
(* has not called it for before, so that a path stands for one block.       *)
(***************************************************************************)
Block(s) == [path |-> s.path, query |-> s.query]

Blocks == {Block(s) : s \in scopes} \cup {Block(stack[i]) : i \in DOMAIN stack}

\* Two things to do that do not call build for the same step.
Apart(t, u) ==
  /\ ~(t.do \in {"left", "right"} /\ t.do = u.do)
  /\ ~(t.do = "subquery" /\ u.do = "subquery" /\ t.what.role = u.what.role /\ t.what.index = u.what.index)

OnceInv(todo) == \A i, j \in DOMAIN todo : i # j => Apart(todo[i], todo[j])

\* The last m CTEs are still to do, and come first.
CtesLeft(todo, q, m) ==
  /\ m \in 0..Len(q.with) /\ m <= Len(todo)
  /\ \A i \in DOMAIN todo :
       IF i <= m THEN /\ todo[i].what = Len(q.with) - m + i
                      /\ todo[i].do = "cte" \/ (i = 1 /\ todo[i].do = "bind_cte")
       ELSE todo[i].do \notin CteKinds

CtesFirst(todo, q) == \E m \in 0..Len(q.with) : CtesLeft(todo, q, m)

\* A todo does not call build for a step.
Unlike(t, step) ==
  /\ t.do = "cte" /\ step.role \in {"cte", "recursive"} => step.index # t.what
  /\ t.do \in {"left", "right"} => step.role # t.do
  /\ t.do = "subquery" => step.role # t.what.role \/ step.index # t.what.index

\* The number of relations that are bound or being built.
Begun(f) == Len(f.level.relations) + (IF f.todo # <<>> /\ Head(f.todo).do = "bind_derived" THEN 1 ELSE 0)

\* Build may have been called for a step: it will not be again.
Used(f, step) ==
  /\ \A i \in DOMAIN f.todo : Unlike(f.todo[i], step)
  /\ step.role = "on" => step.index \in DOMAIN f.joins
  /\ step.role \in {"derived", "lateral"} => step.index \in 1..Begun(f)

Extends(p, path) == Len(p) = Len(path) + 1 /\ SubSeq(p, 1, Len(path)) = path

FrameFresh(f, blocks) ==
  /\ OnceInv(f.todo) /\ CtesFirst(f.todo, f.query)
  /\ \A b \in blocks : /\ b.path = f.path => b.query = f.query
                       /\ Extends(b.path, f.path) => Used(f, b.path[Len(f.path) + 1])

BlocksInv == \A i \in DOMAIN stack : Len(stack[i].path) = i - 1 /\ FrameFresh(stack[i], Blocks)

(***************************************************************************)
(* What is left to do                                                       *)
(***************************************************************************)
NoneOf(todo, kinds) == \A i \in DOMAIN todo : todo[i].do \notin kinds

LEMMA OnceConcat ==
  ASSUME NEW s, NEW t, IsSeq(s), IsSeq(t), OnceInv(s), OnceInv(t),
         \A i \in DOMAIN s, j \in DOMAIN t : Apart(s[i], t[j])
  PROVE  OnceInv(s \o t)
<1> DEFINE all == s \o t
<1>1. /\ IsSeq(all) /\ Len(all) = Len(s) + Len(t)
      /\ \A i \in DOMAIN all : all[i] = IF i <= Len(s) THEN s[i] ELSE t[i - Len(s)]
  BY SeqConcat
<1>2. Len(s) \in Nat /\ Len(t) \in Nat /\ DOMAIN s = 1..Len(s) /\ DOMAIN t = 1..Len(t) /\ DOMAIN all = 1..(Len(s) + Len(t))
  BY <1>1, SeqFacts
<1> HIDE DEF all
<1>3. \A i \in DOMAIN all : \/ i \in DOMAIN s /\ all[i] = s[i]
                            \/ i > Len(s) /\ i - Len(s) \in DOMAIN t /\ all[i] = t[i - Len(s)]
  BY <1>1, <1>2
<1>4. \A x, y : Apart(x, y) => Apart(y, x)
  BY DEF Apart
<1>5. ASSUME NEW i \in DOMAIN all, NEW j \in DOMAIN all, i # j PROVE Apart(all[i], all[j])
  <2>1. CASE i \in DOMAIN s /\ all[i] = s[i] /\ j \in DOMAIN s /\ all[j] = s[j]
    BY <1>5, <2>1 DEF OnceInv
  <2>2. CASE i \in DOMAIN s /\ all[i] = s[i] /\ j - Len(s) \in DOMAIN t /\ all[j] = t[j - Len(s)]
    BY <2>2
  <2>3. CASE i - Len(s) \in DOMAIN t /\ all[i] = t[i - Len(s)] /\ j \in DOMAIN s /\ all[j] = s[j]
    BY <1>4, <2>3
  <2>4. CASE i - Len(s) \in DOMAIN t /\ all[i] = t[i - Len(s)] /\ j - Len(s) \in DOMAIN t /\ all[j] = t[j - Len(s)]
    <3>1. i - Len(s) # j - Len(s)
      BY <1>2, <1>5
    <3>. QED
      BY <2>4, <3>1 DEF OnceInv
  <2>. QED
    BY <1>3, <2>1, <2>2, <2>3, <2>4
<1>. QED
  BY <1>5 DEF OnceInv, all

Calling3 == {"left", "right", "subquery"}

LEMMA OnceNone == ASSUME NEW s, NoneOf(s, Calling3) PROVE OnceInv(s) /\ \A i \in DOMAIN s : \A t : Apart(s[i], t) /\ Apart(t, s[i])
BY DEF NoneOf, OnceInv, Apart, Calling3

LEMMA OnceTail ==
  ASSUME NEW todo, IsSeq(todo), todo # <<>>, OnceInv(todo)
  PROVE  OnceInv(Tail(todo)) /\ \A i \in DOMAIN Tail(todo) : Apart(Tail(todo)[i], Head(todo))
<1>1. IsSeq(Tail(todo)) /\ Len(Tail(todo)) = Len(todo) - 1 /\ \A i \in 1..(Len(todo) - 1) : Tail(todo)[i] = todo[i + 1]
  BY SeqTail
<1>2. Len(todo) \in Nat /\ DOMAIN todo = 1..Len(todo) /\ Len(todo) # 0 /\ DOMAIN Tail(todo) = 1..(Len(todo) - 1)
  BY <1>1, SeqFacts
<1>3. Head(todo) = todo[1]
  BY DEF IsSeq
<1>4. \A i \in DOMAIN Tail(todo) : i + 1 \in DOMAIN todo /\ i + 1 # 1 /\ Tail(todo)[i] = todo[i + 1]
  BY <1>1, <1>2
<1>5. 1 \in DOMAIN todo /\ \A i, j \in DOMAIN Tail(todo) : i # j => i + 1 # j + 1
  BY <1>2
<1>. QED
  BY <1>3, <1>4, <1>5 DEF OnceInv

\* CTEs are left as long as one is at the head.
LEMMA CtesAtHead ==
  ASSUME NEW todo, IsSeq(todo), todo # <<>>, NEW q, CtesFirst(todo, q), IsSeq(q.with)
  PROVE  /\ Head(todo).do \notin CteKinds => NoneOf(Tail(todo), CteKinds)
         /\ Head(todo).do = "bind_cte" => CtesFirst(Tail(todo), q)
         /\ NoneOf(Tail(todo), {"bind_cte"})
         /\ Head(todo).do \in CteKinds =>
              \A i \in DOMAIN Tail(todo) : Tail(todo)[i].do = "cte" => Tail(todo)[i].what # Head(todo).what
<1>1. PICK m \in 0..Len(q.with) : CtesLeft(todo, q, m)
  BY DEF CtesFirst
<1>2. IsSeq(Tail(todo)) /\ Len(Tail(todo)) = Len(todo) - 1 /\ \A i \in 1..(Len(todo) - 1) : Tail(todo)[i] = todo[i + 1]
  BY SeqTail
<1>3. /\ Len(todo) \in Nat /\ DOMAIN todo = 1..Len(todo) /\ Len(todo) # 0 /\ DOMAIN Tail(todo) = 1..(Len(todo) - 1)
      /\ Len(q.with) \in Nat /\ m \in Nat
  BY <1>2, SeqFacts
<1>4. Head(todo) = todo[1] /\ 1 \in DOMAIN todo
  BY <1>3 DEF IsSeq
<1>5. \A i \in DOMAIN Tail(todo) : i + 1 \in DOMAIN todo /\ i + 1 # 1 /\ Tail(todo)[i] = todo[i + 1]
  BY <1>2, <1>3
<1> DEFINE rest == Tail(todo)
           n    == Len(q.with)
<1> HIDE DEF rest, n
<1>6. \A i \in DOMAIN todo :
        IF i <= m THEN todo[i].what = n - m + i /\ (todo[i].do = "cte" \/ (i = 1 /\ todo[i].do = "bind_cte"))
        ELSE todo[i].do \notin CteKinds
  BY <1>1 DEF CtesLeft, n
<1>7. m <= Len(todo) /\ m <= n /\ n \in Nat
  BY <1>1, <1>3 DEF CtesLeft, n
<1>8. DOMAIN rest = 1..(Len(todo) - 1) /\ \A i \in DOMAIN rest : i + 1 \in DOMAIN todo /\ i + 1 # 1 /\ rest[i] = todo[i + 1]
  BY <1>3, <1>5 DEF rest
<1>9. CASE m = 0
  <2>1. \A i \in DOMAIN todo : ~(i <= m)
    BY <1>3, <1>9
  <2>2. Head(todo).do \notin CteKinds /\ NoneOf(rest, CteKinds)
    BY <1>4, <1>6, <1>8, <2>1 DEF NoneOf
  <2>. QED
    BY <2>2 DEF NoneOf, CteKinds, rest
<1>10. CASE m # 0
  <2>1. 1 <= m
    BY <1>3, <1>10
  <2>2. Head(todo).do \in CteKinds /\ Head(todo).what = n - m + 1
    BY <1>4, <1>6, <2>1 DEF CteKinds
  <2>3. \A i \in DOMAIN rest :
          IF i <= m - 1 THEN rest[i].what = n - (m - 1) + i /\ rest[i].do = "cte"
          ELSE rest[i].do \notin CteKinds
    <3> SUFFICES ASSUME NEW i \in DOMAIN rest
                 PROVE  IF i <= m - 1 THEN rest[i].what = n - (m - 1) + i /\ rest[i].do = "cte" ELSE rest[i].do \notin CteKinds
      OBVIOUS
    <3>1. i \in Nat /\ i + 1 \in DOMAIN todo /\ i + 1 # 1 /\ rest[i] = todo[i + 1]
      BY <1>3, <1>8
    <3>2. (i <= m - 1 <=> i + 1 <= m) /\ n - (m - 1) + i = n - m + (i + 1)
      BY <1>3, <1>7, <3>1
    <3>. QED
      BY <1>6, <3>1, <3>2
  <2>4. m - 1 \in 0..n /\ m - 1 <= Len(rest)
    BY <1>2, <1>3, <1>7, <2>1 DEF rest
  <2>5. CtesFirst(rest, q)
    BY <2>3, <2>4 DEF CtesFirst, CtesLeft, n
  <2>6. NoneOf(rest, {"bind_cte"})
    BY <2>3 DEF NoneOf, CteKinds
  <2>7. \A i \in DOMAIN rest : rest[i].do = "cte" => rest[i].what # Head(todo).what
    <3> SUFFICES ASSUME NEW i \in DOMAIN rest, rest[i].do = "cte" PROVE rest[i].what # Head(todo).what
      OBVIOUS
    <3>1. rest[i].what = n - (m - 1) + i
      BY <2>3 DEF CteKinds
    <3>2. i \in Nat /\ i # 0
      BY <1>3, <1>8
    <3>. QED
      BY <1>3, <1>7, <2>2, <3>1, <3>2
  <2>. QED
    BY <2>2, <2>5, <2>6, <2>7 DEF rest
<1>. QED
  BY <1>9, <1>10


LEMMA NoneConcat ==
  ASSUME NEW s, NEW t, IsSeq(s), IsSeq(t), NEW kinds, NoneOf(s, kinds), NoneOf(t, kinds)
  PROVE  NoneOf(s \o t, kinds)
<1> DEFINE all == s \o t
<1>1. /\ IsSeq(all) /\ Len(all) = Len(s) + Len(t)
      /\ \A i \in DOMAIN all : all[i] = IF i <= Len(s) THEN s[i] ELSE t[i - Len(s)]
  BY SeqConcat
<1>2. Len(s) \in Nat /\ Len(t) \in Nat /\ DOMAIN s = 1..Len(s) /\ DOMAIN t = 1..Len(t) /\ DOMAIN all = 1..(Len(s) + Len(t))
  BY <1>1, SeqFacts
<1> HIDE DEF all
<1>3. \A i \in DOMAIN all : \/ i \in DOMAIN s /\ all[i] = s[i]
                            \/ i - Len(s) \in DOMAIN t /\ all[i] = t[i - Len(s)]
  BY <1>1, <1>2
<1>4. NoneOf(all, kinds)
  BY <1>3 DEF NoneOf
<1>. QED
  BY <1>4 DEF all

LEMMA NoCtes == ASSUME NEW todo, IsSeq(todo), NoneOf(todo, CteKinds), NEW q, IsSeq(q.with) PROVE CtesFirst(todo, q)
<1>1. Len(todo) \in Nat /\ Len(q.with) \in Nat /\ DOMAIN todo = 1..Len(todo)
  BY SeqFacts
<1>2. \A i \in DOMAIN todo : ~(i <= 0)
  BY <1>1
<1>3. 0 \in 0..Len(q.with) /\ 0 <= Len(todo)
  BY <1>1
<1>. QED
  BY <1>2, <1>3 DEF CtesFirst, CtesLeft, NoneOf

\* A CTE is begun: it is to be bound next.
LEMMA CteBegun ==
  ASSUME NEW todo, IsSeq(todo), todo # <<>>, NEW q, CtesFirst(todo, q), IsSeq(q.with), Head(todo).do = "cte"
  PROVE  CtesFirst(<<Todo("bind_cte", Head(todo).what)>> \o Tail(todo), q)
<1> DEFINE t   == Todo("bind_cte", Head(todo).what)
           all == <<t>> \o Tail(todo)
           n   == Len(q.with)
<1>1. PICK m \in 0..n : CtesLeft(todo, q, m)
  BY DEF CtesFirst
<1>2. /\ IsSeq(Tail(todo)) /\ Len(Tail(todo)) = Len(todo) - 1 /\ \A i \in 1..(Len(todo) - 1) : Tail(todo)[i] = todo[i + 1]
  BY SeqTail
<1>3. /\ Len(todo) \in Nat /\ DOMAIN todo = 1..Len(todo) /\ Len(todo) # 0 /\ DOMAIN Tail(todo) = 1..(Len(todo) - 1)
      /\ n \in Nat /\ m \in Nat
  BY <1>2, SeqFacts
<1>4. Head(todo) = todo[1] /\ 1 \in DOMAIN todo
  BY <1>3 DEF IsSeq
<1>5. t.do = "bind_cte" /\ t.what = Head(todo).what
  BY DEF Todo
<1> HIDE DEF t
<1>6. /\ IsSeq(all) /\ DOMAIN all = 1..(1 + Len(Tail(todo))) /\ all[1] = t
      /\ \A k \in DOMAIN all : \/ k = 1
                               \/ k > 1 /\ k - 1 \in DOMAIN Tail(todo) /\ all[k] = Tail(todo)[k - 1]
  BY <1>2, OneBefore
<1> HIDE DEF all
<1>7. \A k \in DOMAIN all : k \in DOMAIN todo /\ (k = 1 \/ all[k] = todo[k])
  <2> SUFFICES ASSUME NEW k \in DOMAIN all PROVE k \in DOMAIN todo /\ (k = 1 \/ all[k] = todo[k])
    OBVIOUS
  <2>1. k \in 1..Len(todo)
    BY <1>2, <1>3, <1>6
  <2>2. CASE k > 1 /\ k - 1 \in DOMAIN Tail(todo) /\ all[k] = Tail(todo)[k - 1]
    <3>1. (k - 1) + 1 = k /\ k - 1 \in 1..(Len(todo) - 1)
      BY <1>3, <2>1, <2>2
    <3>. QED
      BY <1>2, <1>3, <2>1, <2>2, <3>1
  <2>. QED
    BY <1>3, <1>6, <2>1, <2>2
<1> HIDE DEF n
<1>8. /\ m <= Len(todo)
      /\ \A i \in DOMAIN todo :
           IF i <= m THEN todo[i].what = n - m + i /\ (todo[i].do = "cte" \/ (i = 1 /\ todo[i].do = "bind_cte"))
           ELSE todo[i].do \notin CteKinds
  BY <1>1 DEF CtesLeft, n
<1>9. 1 <= m /\ t.what = n - m + 1
  <2>1. 1 <= m
    BY <1>4, <1>8 DEF CteKinds
  <2>. QED
    BY <1>4, <1>5, <1>8, <2>1
<1>10. \A i \in DOMAIN all :
         IF i <= m THEN all[i].what = n - m + i /\ (all[i].do = "cte" \/ (i = 1 /\ all[i].do = "bind_cte"))
         ELSE all[i].do \notin CteKinds
  <2> SUFFICES ASSUME NEW i \in DOMAIN all
               PROVE  IF i <= m THEN all[i].what = n - m + i /\ (all[i].do = "cte" \/ (i = 1 /\ all[i].do = "bind_cte"))
                      ELSE all[i].do \notin CteKinds
    OBVIOUS
  <2>1. CASE i = 1
    BY <1>5, <1>6, <1>9, <2>1
  <2>2. CASE i # 1
    <3>1. i \in DOMAIN todo /\ all[i] = todo[i]
      BY <1>7, <2>2
    <3>. QED
      BY <1>8, <2>2, <3>1
  <2>. QED
    BY <2>1, <2>2
<1>11. m <= Len(all) /\ m \in 0..n
  BY <1>1, <1>2, <1>3, <1>6, <1>8, SeqFacts
<1>12. CtesFirst(all, q)
  BY <1>10, <1>11 DEF CtesFirst, CtesLeft, n
<1>. QED
  BY <1>12 DEF all, t

LEMMA SeqGrouped == ASSUME NEW x, NEW y, NEW z, IsSeq(x), IsSeq(y), IsSeq(z) PROVE (x \o y) \o z = x \o (y \o z)
<1>1. PICK S : x \in Seq(S) /\ y \in Seq(S)
  BY SeqTogether
<1>2. PICK T : z \in Seq(T)
  BY DEF IsSeq
<1>3. x \in Seq(S \cup T) /\ y \in Seq(S \cup T) /\ z \in Seq(S \cup T)
  BY <1>1, <1>2, SeqMonotonic
<1>. QED
  BY <1>3

\* Nothing is done twice of what a block begins with.
LEMMA AgendaFresh ==
  ASSUME GrammarInv, NEW q \in Nodes.blocks
  PROVE  IsSeq(q.with) /\ OnceInv(Agenda(q)) /\ CtesFirst(Agenda(q), q)
<1> DEFINE a == [i \in DOMAIN q.with |-> Todo("cte", i)]
           b == [i \in DOMAIN q.from |-> Todo("table", q.from[i])]
           c == IF Has(q.left) THEN <<Todo("left", 1)>> ELSE <<Todo("outputs", 1)>>
           d == IF Has(q.right) THEN <<Todo("right", 1), Todo("order", 1)>> ELSE <<>>
           w == [i \in DOMAIN q.where |-> Todo("subquery", [role |-> "where", index |-> i, query |-> q.where[i]])]
<1>1. IsSeq(q.with) /\ IsSeq(q.from) /\ IsSeq(q.where)
  BY Grammar
<1>2. /\ Len(q.with) \in Nat /\ DOMAIN q.with = 1..Len(q.with) /\ Len(q.from) \in Nat /\ DOMAIN q.from = 1..Len(q.from)
      /\ Len(q.where) \in Nat /\ DOMAIN q.where = 1..Len(q.where)
  BY <1>1, SeqFacts
<1>3. IsSeq(a) /\ Len(a) = Len(q.with) /\ \A i \in DOMAIN a : a[i].do = "cte" /\ a[i].what = i
  <2>1. IsSeq(a) /\ Len(a) = Len(q.with)
    BY <1>2, SeqNew
  <2>2. \A i \in DOMAIN a : a[i].do = "cte" /\ a[i].what = i
    BY DEF Todo
  <2> HIDE DEF a
  <2>. QED
    BY <2>1, <2>2
<1>4. IsSeq(b) /\ \A i \in DOMAIN b : b[i].do = "table"
  <2>1. IsSeq(b)
    BY <1>2, SeqNew
  <2>2. \A i \in DOMAIN b : b[i].do = "table"
    BY DEF Todo
  <2> HIDE DEF b
  <2>. QED
    BY <2>1, <2>2
<1>5. IsSeq(c) /\ DOMAIN c = {1} /\ c[1].do \in {"left", "outputs"}
  BY SeqOne DEF Todo
<1>6. IsSeq(d) /\ (\A i \in DOMAIN d : d[i].do \in {"right", "order"}) /\ OnceInv(d)
  <2>1. CASE ~Has(q.right)
    <3>1. d = <<>> /\ DOMAIN <<>> = {}
      BY <2>1
    <3> HIDE DEF d
    <3>. QED
      BY <3>1, SeqEmpty DEF OnceInv
  <2>2. CASE Has(q.right)
    <3> DEFINE x == Todo("right", 1)
               y == Todo("order", 1)
    <3>1. d = <<x, y>> /\ x.do = "right" /\ y.do = "order"
      BY <2>2 DEF Todo
    <3> HIDE DEF d, x, y
    <3>2. IsSeq(d) /\ DOMAIN d = {1, 2} /\ d[1] = x /\ d[2] = y
      BY <3>1, SeqTwo, SeqFacts
    <3>3. \A i, j \in {1, 2} : i # j => Apart(d[i], d[j])
      BY <3>1, <3>2 DEF Apart
    <3>. QED
      BY <3>1, <3>2, <3>3 DEF OnceInv
  <2>. QED
    BY <2>1, <2>2
<1>7. IsSeq(w) /\ \A i \in DOMAIN w : w[i].do = "subquery" /\ w[i].what.index = i
  <2>1. IsSeq(w)
    BY <1>2, SeqNew
  <2>2. \A i \in DOMAIN w : w[i].do = "subquery" /\ w[i].what.index = i
    BY DEF Todo
  <2> HIDE DEF w
  <2>. QED
    BY <2>1, <2>2
<1> HIDE DEF a, b, c, d, w
<1>8. OnceInv(c) /\ OnceInv(w)
  BY <1>5, <1>7 DEF OnceInv, Apart
<1>9. NoneOf(a, Calling3) /\ NoneOf(b, Calling3)
  BY <1>3, <1>4 DEF NoneOf, Calling3
<1>10. IsSeq(a \o b) /\ NoneOf(a \o b, Calling3)
  BY <1>3, <1>4, <1>9, NoneConcat, SeqConcat
<1>11. IsSeq(d \o w) /\ OnceInv(d \o w) /\ (\A i \in DOMAIN (d \o w) : (d \o w)[i].do \in {"right", "order", "subquery"})
  <2>1. \A i \in DOMAIN d, j \in DOMAIN w : Apart(d[i], w[j])
    BY <1>6, <1>7 DEF Apart
  <2>2. IsSeq(d \o w)
    BY <1>6, <1>7, SeqConcat
  <2>3. OnceInv(d \o w)
    BY <1>6, <1>7, <1>8, <2>1, OnceConcat
  <2> DEFINE all == d \o w
  <2>4. /\ Len(all) = Len(d) + Len(w) /\ Len(d) \in Nat /\ Len(w) \in Nat /\ DOMAIN all = 1..Len(all)
        /\ DOMAIN d = 1..Len(d) /\ DOMAIN w = 1..Len(w)
        /\ \A i \in DOMAIN all : all[i] = IF i <= Len(d) THEN d[i] ELSE w[i - Len(d)]
    BY <1>6, <1>7, <2>2, SeqConcat, SeqFacts
  <2> HIDE DEF all
  <2>5. \A i \in DOMAIN all : \/ i \in DOMAIN d /\ all[i] = d[i]
                              \/ i - Len(d) \in DOMAIN w /\ all[i] = w[i - Len(d)]
    BY <2>4
  <2>6. \A i \in DOMAIN all : all[i].do \in {"right", "order", "subquery"}
    BY <1>6, <1>7, <2>5
  <2>. QED
    BY <2>2, <2>3, <2>6 DEF all
<1> DEFINE e == d \o w
<1> HIDE DEF e
<1>12. IsSeq(c \o e) /\ OnceInv(c \o e) /\ NoneOf(c \o e, CteKinds)
  <2>1. IsSeq(e) /\ OnceInv(e) /\ NoneOf(e, CteKinds) /\ NoneOf(c, CteKinds) /\ \A i \in DOMAIN c, j \in DOMAIN e : Apart(c[i], e[j])
    BY <1>5, <1>11 DEF e, NoneOf, CteKinds, Apart
  <2>. QED
    BY <1>5, <1>8, <2>1, NoneConcat, OnceConcat, SeqConcat
<1> DEFINE f == c \o e
<1> HIDE DEF f
<1>13. IsSeq(b \o f) /\ NoneOf(b \o f, CteKinds)
  <2>1. IsSeq(f) /\ NoneOf(f, CteKinds) /\ NoneOf(b, CteKinds)
    BY <1>4, <1>12 DEF f, NoneOf, CteKinds
  <2>. QED
    BY <1>4, <2>1, NoneConcat, SeqConcat
<1>14. OnceInv((a \o b) \o f)
  <2>1. OnceInv(a \o b) /\ \A i \in DOMAIN (a \o b) : \A t : Apart((a \o b)[i], t)
    BY <1>10, OnceNone
  <2> DEFINE s == a \o b
  <2>2. IsSeq(s) /\ OnceInv(s) /\ (\A i \in DOMAIN s : \A t : Apart(s[i], t)) /\ IsSeq(f) /\ OnceInv(f)
    BY <1>10, <1>12, <2>1 DEF f
  <2> HIDE DEF s
  <2>3. OnceInv(s \o f)
    BY <2>2, OnceConcat
  <2>. QED
    BY <2>3 DEF s
<1> DEFINE g == b \o f
<1> HIDE DEF g
<1>15. CtesFirst(a \o g, q)
  <2> DEFINE all == a \o g
             n   == Len(q.with)
  <2>1. IsSeq(g) /\ NoneOf(g, CteKinds)
    BY <1>13 DEF g
  <2>2. /\ Len(all) = Len(a) + Len(g) /\ Len(a) = n /\ n \in Nat /\ Len(g) \in Nat /\ DOMAIN all = 1..Len(all)
        /\ DOMAIN a = 1..Len(a) /\ DOMAIN g = 1..Len(g)
        /\ \A i \in DOMAIN all : all[i] = IF i <= Len(a) THEN a[i] ELSE g[i - Len(a)]
    <3>1. /\ IsSeq(a \o g) /\ Len(a \o g) = Len(a) + Len(g)
          /\ \A i \in DOMAIN (a \o g) : (a \o g)[i] = IF i <= Len(a) THEN a[i] ELSE g[i - Len(a)]
      <4>1. IsSeq(a) /\ IsSeq(g)
        BY <1>3, <2>1
      <4>. QED
        BY ONLY <4>1, SeqConcat
    <3>. QED
      BY <1>2, <1>3, <2>1, <3>1, SeqFacts
  <2> HIDE DEF all, n
  <2>3. \A i \in DOMAIN all : IF i <= n THEN all[i].what = n - n + i /\ all[i].do = "cte" ELSE all[i].do \notin CteKinds
    <3> SUFFICES ASSUME NEW i \in DOMAIN all
                 PROVE  IF i <= n THEN all[i].what = n - n + i /\ all[i].do = "cte" ELSE all[i].do \notin CteKinds
      OBVIOUS
    <3>1. CASE i <= n
      <4>1. i \in DOMAIN a /\ all[i] = a[i] /\ n - n + i = i
        BY <2>2, <3>1
      <4>. QED
        BY <1>3, <3>1, <4>1
    <3>2. CASE ~(i <= n)
      <4>1. i - n \in DOMAIN g /\ all[i] = g[i - n]
        BY <2>2, <3>2
      <4>. QED
        BY <2>1, <3>2, <4>1 DEF NoneOf
    <3>. QED
      BY <3>1, <3>2
  <2>4. n \in 0..n /\ n <= Len(all)
    BY <2>2
  <2>. QED
    BY <2>3, <2>4 DEF CtesFirst, CtesLeft, n, all
<1>16. Agenda(q) = (a \o b) \o f /\ Agenda(q) = a \o g
  <2>2. Agenda(q) = a \o b \o c \o d \o w
    BY DEF Agenda, a, b, c, d, w
  <2>3. a \o b \o c \o d \o w = (a \o b) \o (c \o (d \o w))
    <3> DEFINE ab == a \o b
               dw == d \o w
    <3>1. IsSeq(ab) /\ IsSeq(c) /\ IsSeq(d) /\ IsSeq(w) /\ IsSeq(dw)
      BY <1>5, <1>6, <1>7, <1>10, <1>11
    <3> HIDE DEF ab, dw
    <3>2. IsSeq(ab \o c)
      BY <3>1, SeqConcat
    <3>3. ((ab \o c) \o d) \o w = (ab \o c) \o dw
      BY <3>1, <3>2, SeqGrouped DEF dw
    <3>4. (ab \o c) \o dw = ab \o (c \o dw)
      BY <3>1, SeqGrouped
    <3>. QED
      BY <3>3, <3>4 DEF ab, dw
  <2>4. (a \o b) \o f = a \o (b \o f)
    <3>1. IsSeq(a) /\ IsSeq(b) /\ IsSeq(f)
      BY <1>3, <1>4, <1>12 DEF f
    <3>. QED
      BY <3>1, SeqGrouped
  <2>. QED
    BY <2>2, <2>3, <2>4 DEF e, f, g
<1>. QED
  BY <1>1, <1>14, <1>15, <1>16


LEMMA OnceNext ==
  ASSUME NEW next, NEW rest, IsSeq(next), IsSeq(rest), NoneOf(next, Calling3), OnceInv(rest)
  PROVE  OnceInv(next \o rest)
BY OnceNone, OnceConcat

LEMMA OnceInserted ==
  ASSUME NEW rest, NEW subs, NEW n \in Nat, IsSeq(rest), IsSeq(subs), n <= Len(rest), OnceInv(rest), OnceInv(subs),
         \A i \in DOMAIN rest, j \in DOMAIN subs : Apart(rest[i], subs[j])
  PROVE  OnceInv(Inserted(rest, subs, n))
<1> DEFINE all == Inserted(rest, subs, n)
           m   == Len(subs)
<1>1. /\ DOMAIN all = 1..(Len(rest) + m)
      /\ \A i \in DOMAIN all :
           \/ i <= n /\ i \in DOMAIN rest /\ all[i] = rest[i]
           \/ i > n /\ i <= n + m /\ i - n \in DOMAIN subs /\ all[i] = subs[i - n]
           \/ i > n + m /\ i - m \in DOMAIN rest /\ all[i] = rest[i - m]
  BY InsertedFacts
<1>2. m \in Nat /\ Len(rest) \in Nat
  BY SeqFacts
<1> HIDE DEF all, m
<1>3. \A x, y : Apart(x, y) => Apart(y, x)
  BY DEF Apart
<1>4. ASSUME NEW i \in DOMAIN all, NEW j \in DOMAIN all, i < j PROVE Apart(all[i], all[j])
  <2>0. i \in Nat /\ j \in Nat
    BY <1>1, <1>2
  <2>1. CASE i <= n /\ i \in DOMAIN rest /\ all[i] = rest[i]
    <3>1. CASE j <= n /\ j \in DOMAIN rest /\ all[j] = rest[j]
      <4>1. i # j
        BY <1>4, <2>0
      <4>. QED
        BY <2>1, <3>1, <4>1 DEF OnceInv
    <3>2. CASE j - n \in DOMAIN subs /\ all[j] = subs[j - n]
      BY <2>1, <3>2
    <3>3. CASE j > n + m /\ j - m \in DOMAIN rest /\ all[j] = rest[j - m]
      <4>1. i # j - m
        BY <1>2, <2>0, <2>1, <3>3
      <4>. QED
        BY <2>1, <3>3, <4>1 DEF OnceInv
    <3>. QED
      BY <1>1, <3>1, <3>2, <3>3
  <2>2. CASE i > n /\ i - n \in DOMAIN subs /\ all[i] = subs[i - n]
    <3>1. CASE j <= n
      BY <1>4, <2>0, <2>2, <3>1
    <3>2. CASE j - n \in DOMAIN subs /\ all[j] = subs[j - n]
      <4>1. i - n # j - n
        BY <1>4, <2>0
      <4>. QED
        BY <2>2, <3>2, <4>1 DEF OnceInv
    <3>3. CASE j - m \in DOMAIN rest /\ all[j] = rest[j - m]
      BY <1>3, <2>2, <3>3
    <3>. QED
      BY <1>1, <3>1, <3>2, <3>3
  <2>3. CASE i > n + m /\ i - m \in DOMAIN rest /\ all[i] = rest[i - m]
    <3>1. CASE j <= n + m
      BY <1>2, <1>4, <2>0, <2>3, <3>1
    <3>3. CASE j - m \in DOMAIN rest /\ all[j] = rest[j - m]
      <4>1. i - m # j - m
        BY <1>2, <1>4, <2>0
      <4>. QED
        BY <2>3, <3>3, <4>1 DEF OnceInv
    <3>. QED
      BY <1>1, <1>2, <2>0, <3>1, <3>3
  <2>. QED
    BY <1>1, <2>1, <2>2, <2>3
<1>5. \A i, j \in DOMAIN all : i # j => i < j \/ j < i
  BY <1>1, <1>2
<1>6. OnceInv(all)
  BY <1>3, <1>4, <1>5 DEF OnceInv
<1>. QED
  BY <1>6 DEF all

\* A frame that goes on has begun what it had begun.
GoesOn(f, g) ==
  /\ \A i \in DOMAIN g.todo : \/ \E j \in DOMAIN f.todo : g.todo[i] = f.todo[j]
                              \/ g.todo[i].do \notin {"cte"} \cup Calling3
                              \/ /\ g.todo[i].do = "subquery" /\ g.todo[i].what.role = "on"
                                 /\ g.todo[i].what.index \notin DOMAIN f.joins
  /\ DOMAIN f.joins \subseteq DOMAIN g.joins
  /\ Begun(f) \in Nat /\ Begun(g) \in Nat /\ Begun(f) <= Begun(g)

LEMMA UsedKept ==
  ASSUME NEW f, NEW g, GoesOn(f, g), NEW step, Used(f, step)
  PROVE  Used(g, step)
<1>1. ASSUME NEW i \in DOMAIN g.todo PROVE Unlike(g.todo[i], step)
  <2>1. CASE \E j \in DOMAIN f.todo : g.todo[i] = f.todo[j]
    BY <2>1 DEF Used
  <2>2. CASE g.todo[i].do \notin {"cte"} \cup Calling3
    BY <2>2 DEF Unlike, Calling3
  <2>3. CASE g.todo[i].do = "subquery" /\ g.todo[i].what.role = "on" /\ g.todo[i].what.index \notin DOMAIN f.joins
    <3>1. step.role # "on" \/ step.index # g.todo[i].what.index
      BY <2>3 DEF Used
    <3>. QED
      BY <2>3, <3>1 DEF Unlike
  <2>. QED
    BY <2>1, <2>2, <2>3 DEF GoesOn
<1>2. step.role = "on" => step.index \in DOMAIN g.joins
  BY DEF Used, GoesOn
<1>3. step.role \in {"derived", "lateral"} => step.index \in 1..Begun(g)
  BY DEF Used, GoesOn
<1>. QED
  BY <1>1, <1>2, <1>3 DEF Used

(***************************************************************************)
(* Blocks are new when they are called for, and stay on record              *)
(***************************************************************************)
LEMMA BlockFields == \A s : Block(s).path = s.path /\ Block(s).query = s.query
BY DEF Block

LEMMA PathsOfBlocks == KnownPaths = {b.path : b \in Blocks}
<1>1. ASSUME NEW p \in KnownPaths PROVE \E b \in Blocks : b.path = p
  <2>1. CASE \E s \in scopes : p = s.path
    BY <2>1, BlockFields DEF Blocks
  <2>2. CASE \E i \in DOMAIN stack : p = stack[i].path
    BY <2>2, BlockFields DEF Blocks
  <2>. QED
    BY <2>1, <2>2 DEF KnownPaths
<1>2. ASSUME NEW b \in Blocks PROVE b.path \in KnownPaths
  <2>1. CASE \E s \in scopes : b = Block(s)
    BY <2>1, BlockFields DEF KnownPaths
  <2>2. CASE \E i \in DOMAIN stack : b = Block(stack[i])
    BY <2>2, BlockFields DEF KnownPaths
  <2>. QED
    BY <2>1, <2>2 DEF Blocks
<1>. QED
  BY <1>1, <1>2

LEMMA BlocksMoving ==
  ASSUME Inv, NEW g, Moves(g)
  PROVE  Blocks' = Blocks
<1>1. stack # <<>> /\ stack' = Front(stack) \o <<g>> /\ ScopesKept /\ g.path = top.path /\ g.query = top.query
  BY DEF Moves
<1>2. /\ DOMAIN stack' = 1..Len(stack)
      /\ \A i \in 1..Len(stack) : \/ i = Len(stack) /\ stack'[i] = g
                                  \/ i \in 1..(Len(stack) - 1) /\ i \in DOMAIN stack /\ stack'[i] = stack[i]
  BY <1>1, StackContinued
<1>3. top = stack[Len(stack)] /\ DOMAIN stack = 1..Len(stack) /\ Len(stack) \in Nat \ {0}
  BY <1>1, TopFacts
<1>4. \A i \in DOMAIN stack : i \in DOMAIN stack' /\ Block(stack'[i]) = Block(stack[i])
  BY <1>1, <1>2, <1>3 DEF Block
<1>5. {Block(stack'[i]) : i \in DOMAIN stack'} = {Block(stack[i]) : i \in DOMAIN stack}
  BY <1>2, <1>3, <1>4
<1>6. {Block(s) : s \in scopes'} = {Block(s) : s \in scopes}
  BY <1>1 DEF ScopesKept, SameScope, Block
<1>. QED
  BY <1>5, <1>6 DEF Blocks, Block

LEMMA BlocksCalling ==
  ASSUME Inv, NEW g, NEW child, NEW step, NEW next, Calls(g, child, step, next)
  PROVE  Blocks' = Blocks \cup {Block(child)}
<1>1. stack # <<>> /\ stack' = Front(stack) \o <<g, child>> /\ scopes' = scopes /\ g.path = top.path /\ g.query = top.query
  BY DEF Calls
<1>2. /\ DOMAIN stack' = 1..(Len(stack) + 1)
      /\ \A i \in 1..(Len(stack) + 1) : \/ i = Len(stack) + 1 /\ stack'[i] = child
                                        \/ i = Len(stack) /\ stack'[i] = g
                                        \/ i \in 1..(Len(stack) - 1) /\ i \in DOMAIN stack /\ stack'[i] = stack[i]
  BY <1>1, StackCalled
<1>3. top = stack[Len(stack)] /\ DOMAIN stack = 1..Len(stack) /\ Len(stack) \in Nat \ {0}
  BY <1>1, TopFacts
<1> DEFINE n == Len(stack)
<1>a. /\ DOMAIN stack' = 1..(n + 1) /\ DOMAIN stack = 1..n /\ n \in Nat \ {0} /\ top = stack[n]
      /\ \A i \in 1..(n + 1) : \/ i = n + 1 /\ stack'[i] = child
                               \/ i = n /\ stack'[i] = g
                               \/ i \in 1..(n - 1) /\ i \in DOMAIN stack /\ stack'[i] = stack[i]
  BY <1>2, <1>3
<1> HIDE DEF n
<1>b. Block(g) = Block(top)
  BY <1>1 DEF Block
<1>4. ASSUME NEW i \in DOMAIN stack PROVE i \in DOMAIN stack' /\ Block(stack'[i]) = Block(stack[i])
  <2>1. i \in 1..(n + 1) /\ i # n + 1
    BY <1>a
  <2>2. \/ i = n /\ stack'[i] = g
        \/ stack'[i] = stack[i]
    BY <1>a, <2>1
  <2>. QED
    BY <1>a, <1>b, <2>1, <2>2
<1>5. n + 1 \in DOMAIN stack' /\ stack'[n + 1] = child
  <2>1. n + 1 \in 1..(n + 1) /\ n + 1 # n /\ n + 1 \notin 1..(n - 1)
    BY <1>a
  <2>. QED
    BY <1>a, <2>1
<1>6. \A i \in DOMAIN stack' : i \in DOMAIN stack \/ stack'[i] = child
  BY <1>a
<1>7. {Block(stack'[i]) : i \in DOMAIN stack'} = {Block(stack[i]) : i \in DOMAIN stack} \cup {Block(child)}
  BY <1>4, <1>5, <1>6
<1>. QED
  BY <1>1, <1>7 DEF Blocks, Block

LEMMA BlocksReturning ==
  ASSUME Inv, Return
  PROVE  Blocks' = Blocks
<1> DEFINE s == [path |-> top.path, query |-> top.query, chain |-> <<top.level>> \o top.parent,
                 joins |-> top.joins, ctes |-> top.ctes, outputs |-> top.outputs, compoundOrder |-> top.compoundOrder]
<1>1. stack # <<>> /\ stack' = Front(stack) /\ scopes' = scopes \cup {s} /\ Block(s) = Block(top)
  BY DEF Return, Block
<1> HIDE DEF s
<1>2. DOMAIN stack' = 1..(Len(stack) - 1) /\ \A i \in 1..(Len(stack) - 1) : i \in DOMAIN stack /\ stack'[i] = stack[i]
  BY <1>1, StackReturned
<1>3. top = stack[Len(stack)] /\ DOMAIN stack = 1..Len(stack) /\ Len(stack) \in Nat \ {0}
  BY <1>1, TopFacts
<1>4. \A i \in DOMAIN stack : i \in DOMAIN stack' \/ stack[i] = top
  BY <1>2, <1>3
<1>5. {Block(stack[i]) : i \in DOMAIN stack} = {Block(stack'[i]) : i \in DOMAIN stack'} \cup {Block(top)}
  BY <1>2, <1>3, <1>4
<1>. QED
  BY <1>1, <1>5 DEF Blocks, Block

\* The innermost call.
LEMMA TopFresh ==
  ASSUME Inv, BlocksInv, stack # <<>>
  PROVE  /\ FrameFresh(top, Blocks) /\ Len(top.path) = Len(stack) - 1 /\ IsSeq(top.todo) /\ IsSeq(top.query.with)
         /\ top.query \in Nodes.blocks /\ GrammarInv
<1>1. /\ FrameInv(top) /\ IsSeq(top.path) /\ top = stack[Len(stack)] /\ Len(stack) \in Nat \ {0} /\ DOMAIN stack = 1..Len(stack)
      /\ GrammarInv
  BY TopFacts DEF Inv
<1>2. top.query \in Nodes.blocks /\ IsSeq(top.todo)
  BY <1>1 DEF FrameInv, AgendaInv
<1>3. Len(stack) \in DOMAIN stack
  BY <1>1
<1>4. FrameFresh(top, Blocks) /\ Len(top.path) = Len(stack) - 1
  BY <1>1, <1>3 DEF BlocksInv
<1>. QED
  BY <1>1, <1>2, <1>4, Grammar

LEMMA FreshMoving ==
  ASSUME Inv, BlocksInv, NEW g, Moves(g), OnceInv(g.todo), CtesFirst(g.todo, g.query), GoesOn(top, g)
  PROVE  BlocksInv'
<1>1. stack # <<>> /\ stack' = Front(stack) \o <<g>> /\ g.path = top.path /\ g.query = top.query
  BY DEF Moves
<1>2. /\ DOMAIN stack' = 1..Len(stack)
      /\ \A i \in 1..Len(stack) : \/ i = Len(stack) /\ stack'[i] = g
                                  \/ i \in 1..(Len(stack) - 1) /\ i \in DOMAIN stack /\ stack'[i] = stack[i]
  BY <1>1, StackContinued
<1>3. FrameFresh(top, Blocks) /\ Len(top.path) = Len(stack) - 1
  BY <1>1, TopFresh
<1>4. FrameFresh(g, Blocks)
  BY <1>1, <1>3, UsedKept DEF FrameFresh
<1>5. \A i \in DOMAIN stack' : Len(stack'[i].path) = i - 1 /\ FrameFresh(stack'[i], Blocks)
  BY <1>1, <1>2, <1>3, <1>4 DEF BlocksInv
<1>6. Blocks' = Blocks
  BY BlocksMoving
<1>. QED
  BY <1>5, <1>6 DEF BlocksInv

\* The path of a nested block: no block is there yet, and none in it.
LEMMA FreshPath ==
  ASSUME Inv, BlocksInv, stack # <<>>, NEW step, ~Used(top, step)
  PROVE  LET path == Append(top.path, step)
         IN  /\ IsSeq(path) /\ Len(path) = Len(stack) /\ Extends(path, top.path) /\ path[Len(top.path) + 1] = step
             /\ \A b \in Blocks : /\ b.path # path /\ ~Extends(b.path, path)
                                  /\ ~(Len(path) <= Len(b.path) /\ SubSeq(b.path, 1, Len(path)) = path)
<1> DEFINE path == Append(top.path, step)
<1>1. IsSeq(top.path) /\ Len(top.path) = Len(stack) - 1 /\ Len(stack) \in Nat \ {0} /\ FrameFresh(top, Blocks)
  BY TopFacts, TopFresh
<1>2. IsSeq(path) /\ Len(path) = Len(top.path) + 1 /\ path[Len(top.path) + 1] = step
  BY <1>1, SeqAppend
<1>3. SubSeq(path, 1, Len(top.path)) = top.path
  <2>1. Len(top.path) \in 0..Len(path) /\ Len(top.path) <= Len(top.path)
    BY <1>1, <1>2
  <2>2. SubSeq(path, 1, Len(top.path)) = SubSeq(top.path, 1, Len(top.path))
    BY <1>1, <2>1, Beginnings
  <2>. QED
    BY <1>1, <2>2, WholeSeq
<1>4. Extends(path, top.path) /\ Len(path) = Len(stack)
  BY <1>1, <1>2, <1>3 DEF Extends
<1> HIDE DEF path
<1>5. \A b \in Blocks : b.path # path
  BY <1>1, <1>2, <1>4 DEF FrameFresh
<1>6. path \notin KnownPaths
  BY <1>5, PathsOfBlocks
<1>7. ASSUME NEW b \in Blocks PROVE ~(Len(path) <= Len(b.path) /\ SubSeq(b.path, 1, Len(path)) = path)
  <2>1. b.path \in KnownPaths
    BY PathsOfBlocks
  <2>2. IsSeq(b.path) /\ \A n \in 0..Len(b.path) : SubSeq(b.path, 1, n) \in KnownPaths
    BY <2>1 DEF Inv, PathsInv
  <2>3. Len(path) \in Nat /\ Len(b.path) \in Nat
    BY <1>2, <2>2, SeqFacts
  <2>4. Len(path) <= Len(b.path) => Len(path) \in 0..Len(b.path)
    BY <2>3
  <2>. QED
    BY <1>6, <2>2, <2>4
<1>8. \A b \in Blocks : ~Extends(b.path, path)
  <2> SUFFICES ASSUME NEW b \in Blocks, Extends(b.path, path) PROVE FALSE
    OBVIOUS
  <2>1. Len(path) \in Nat
    BY <1>2, SeqFacts
  <2>. QED
    BY <1>7, <2>1 DEF Extends
<1>. QED
  BY <1>2, <1>4, <1>5, <1>7, <1>8 DEF path

LEMMA FreshCalling ==
  ASSUME Inv, BlocksInv, NEW g, NEW child, NEW step, NEW next, Calls(g, child, step, next),
         OnceInv(g.todo), CtesFirst(g.todo, g.query), GoesOn(top, g), Used(g, step), ~Used(top, step)
  PROVE  BlocksInv'
<1>1. /\ stack # <<>> /\ stack' = Front(stack) \o <<g, child>> /\ g.path = top.path /\ g.query = top.query
      /\ child.path = Append(top.path, step) /\ child.todo = Agenda(child.query) /\ child.query \in Nodes.blocks
  BY DEF Calls
<1>2. /\ DOMAIN stack' = 1..(Len(stack) + 1)
      /\ \A i \in 1..(Len(stack) + 1) : \/ i = Len(stack) + 1 /\ stack'[i] = child
                                        \/ i = Len(stack) /\ stack'[i] = g
                                        \/ i \in 1..(Len(stack) - 1) /\ i \in DOMAIN stack /\ stack'[i] = stack[i]
  BY <1>1, StackCalled
<1>3. FrameFresh(top, Blocks) /\ Len(top.path) = Len(stack) - 1 /\ GrammarInv /\ Len(stack) \in Nat \ {0}
  BY <1>1, TopFresh, TopFacts
<1>4. /\ IsSeq(child.path) /\ Len(child.path) = Len(stack) /\ Extends(child.path, top.path)
      /\ child.path[Len(top.path) + 1] = step
      /\ \A b \in Blocks : b.path # child.path /\ ~Extends(b.path, child.path)
  BY <1>1, FreshPath
<1> DEFINE blocks == Blocks \cup {Block(child)}
<1>5. FrameFresh(g, blocks)
  <2>1. \A b \in Blocks : (b.path = g.path => b.query = g.query) /\ (Extends(b.path, g.path) => Used(g, b.path[Len(g.path) + 1]))
    BY <1>1, <1>3, UsedKept DEF FrameFresh
  <2>2. child.path # g.path /\ Used(g, child.path[Len(g.path) + 1])
    BY <1>1, <1>3, <1>4
  <2>. QED
    BY <2>1, <2>2, BlockFields DEF FrameFresh
<1>6. FrameFresh(child, blocks)
  <2>1. OnceInv(child.todo) /\ CtesFirst(child.todo, child.query)
    BY <1>1, <1>3, AgendaFresh
  <2>2. ~Extends(child.path, child.path)
    BY <1>3, <1>4 DEF Extends
  <2>. QED
    BY <1>4, <2>1, <2>2, BlockFields DEF FrameFresh
<1>7. ASSUME NEW i \in 1..(Len(stack) - 1), i \in DOMAIN stack PROVE FrameFresh(stack[i], blocks) /\ Len(stack[i].path) = i - 1
  <2>1. Len(stack[i].path) = i - 1 /\ FrameFresh(stack[i], Blocks)
    BY <1>7 DEF BlocksInv
  <2>2. child.path # stack[i].path /\ ~Extends(child.path, stack[i].path)
    BY <1>3, <1>4, <2>1 DEF Extends
  <2>. QED
    BY <2>1, <2>2, BlockFields DEF FrameFresh
<1>8. ASSUME NEW i \in DOMAIN stack' PROVE Len(stack'[i].path) = i - 1 /\ FrameFresh(stack'[i], blocks)
  <2> HIDE DEF blocks
  <2>1. CASE i = Len(stack) + 1 /\ stack'[i] = child
    BY <1>3, <1>4, <1>6, <2>1
  <2>2. CASE i = Len(stack) /\ stack'[i] = g
    BY <1>1, <1>3, <1>5, <2>2
  <2>3. CASE i \in 1..(Len(stack) - 1) /\ i \in DOMAIN stack /\ stack'[i] = stack[i]
    BY <1>7, <2>3
  <2>. QED
    BY <1>2, <2>1, <2>2, <2>3
<1>9. Blocks' = blocks
  BY BlocksCalling
<1>. QED
  BY <1>8, <1>9 DEF BlocksInv


LEMMA BegunBounds ==
  ASSUME NEW f, Len(f.level.relations) \in Nat
  PROVE  Begun(f) \in Nat /\ Len(f.level.relations) <= Begun(f) /\ Begun(f) <= Len(f.level.relations) + 1
<1> DEFINE n == Len(f.level.relations)
<1>1. Begun(f) = n \/ Begun(f) = n + 1
  <2>1. CASE f.todo # <<>> /\ Head(f.todo).do = "bind_derived"
    BY <2>1 DEF Begun
  <2>2. CASE ~(f.todo # <<>> /\ Head(f.todo).do = "bind_derived")
    BY <2>2, n + 0 = n DEF Begun
  <2>. QED
    BY <2>1, <2>2
<1> HIDE DEF n
<1>2. n \in Nat
  BY DEF n
<1>3. Begun(f) \in Nat /\ n <= Begun(f) /\ Begun(f) <= n + 1
  BY <1>1, <1>2
<1>. QED
  BY <1>3 DEF n

LEMMA TopAgenda ==
  ASSUME Inv, BlocksInv, stack # <<>>, top.todo # <<>>
  PROVE  LET rest == Tail(top.todo)
             head == Head(top.todo)
         IN  /\ IsSeq(rest) /\ OnceInv(rest)
             /\ \A i \in DOMAIN rest : Apart(rest[i], head) /\ \E j \in DOMAIN top.todo : rest[i] = top.todo[j]
             /\ \A i \in DOMAIN rest : rest[i].do = "subquery" => /\ rest[i].what.role \in {"where", "on"}
                                                                  /\ rest[i].what.role = "on" => rest[i].what.index \in DOMAIN top.joins
             /\ head.do \notin CteKinds => NoneOf(rest, CteKinds)
             /\ head.do = "bind_cte" => CtesFirst(rest, top.query)
             /\ NoneOf(rest, {"bind_cte"})
             /\ head.do \in CteKinds => \A i \in DOMAIN rest : rest[i].do = "cte" => rest[i].what # head.what
             /\ Len(top.level.relations) \in Nat /\ IsSeq(top.level.relations)
             /\ Begun(top) = Len(top.level.relations) + (IF head.do = "bind_derived" THEN 1 ELSE 0)
             /\ \E j \in DOMAIN top.todo : head = top.todo[j]
<1> DEFINE rest == Tail(top.todo)
           head == Head(top.todo)
<1>1. FrameInv(top) /\ FrameFresh(top, Blocks) /\ IsSeq(top.todo) /\ IsSeq(top.query.with)
  BY TopFacts, TopFresh
<1>2. OnceInv(top.todo) /\ CtesFirst(top.todo, top.query)
  BY <1>1 DEF FrameFresh
<1>3. IsSeq(rest) /\ OnceInv(rest) /\ \A i \in DOMAIN rest : Apart(rest[i], head)
  BY <1>1, <1>2, OnceTail, SeqTail
<1>4. /\ head.do \notin CteKinds => NoneOf(rest, CteKinds)
      /\ head.do = "bind_cte" => CtesFirst(rest, top.query)
      /\ NoneOf(rest, {"bind_cte"})
      /\ head.do \in CteKinds => \A i \in DOMAIN rest : rest[i].do = "cte" => rest[i].what # head.what
  BY <1>1, <1>2, CtesAtHead
<1>5. \A i \in DOMAIN rest : \E j \in DOMAIN top.todo : rest[i] = top.todo[j]
  <2>1. Len(rest) = Len(top.todo) - 1 /\ \A i \in 1..(Len(top.todo) - 1) : rest[i] = top.todo[i + 1]
    BY <1>1, SeqTail
  <2>2. Len(top.todo) \in Nat /\ DOMAIN top.todo = 1..Len(top.todo) /\ DOMAIN rest = 1..(Len(top.todo) - 1)
    BY <1>1, <1>3, <2>1, SeqFacts
  <2> HIDE DEF rest
  <2>3. \A i \in DOMAIN rest : i + 1 \in DOMAIN top.todo /\ rest[i] = top.todo[i + 1]
    BY <2>1, <2>2
  <2>. QED
    BY <2>3
<1>6. /\ Len(top.level.relations) \in Nat /\ IsSeq(top.level.relations)
      /\ \E j \in DOMAIN top.todo : head = top.todo[j]
  <2>1. IsSeq(top.level.relations)
    BY <1>1 DEF FrameInv, LevelInv
  <2>2. 1 \in DOMAIN top.todo /\ head = top.todo[1]
    BY <1>1, SeqFacts DEF IsSeq
  <2>. QED
    BY <2>1, <2>2, SeqFacts
<1>7. \A i \in DOMAIN rest : rest[i].do = "subquery" => /\ rest[i].what.role \in {"where", "on"}
                                                        /\ rest[i].what.role = "on" => rest[i].what.index \in DOMAIN top.joins
  BY <1>1, <1>5 DEF FrameInv, AgendaInv, TodoInv
<1>8. Begun(top) = Len(top.level.relations) + (IF head.do = "bind_derived" THEN 1 ELSE 0)
  BY DEF Begun
<1> HIDE DEF rest, head
<1>. QED
  BY <1>3, <1>4, <1>5, <1>6, <1>7, <1>8 DEF rest, head

\* The frame goes on with something in front of what it has left to do.
Fronted(g, next) ==
  /\ IsSeq(next) /\ NoneOf(next, {"cte"} \cup Calling3)
  /\ g.todo = next \o Tail(top.todo) /\ g.query = top.query
  /\ DOMAIN top.joins \subseteq DOMAIN g.joins
  /\ Begun(g) \in Nat /\ Begun(top) <= Begun(g)

LEMMA FrontedGoesOn ==
  ASSUME Inv, BlocksInv, stack # <<>>, top.todo # <<>>, NEW g, NEW next, Fronted(g, next)
  PROVE  /\ OnceInv(g.todo) /\ GoesOn(top, g)
         /\ \A i \in DOMAIN g.todo : (\E j \in DOMAIN Tail(top.todo) : g.todo[i] = Tail(top.todo)[j]) \/ g.todo[i].do \notin {"cte"} \cup Calling3
<1> DEFINE rest == Tail(top.todo)
<1>1. /\ IsSeq(rest) /\ OnceInv(rest) /\ \A i \in DOMAIN rest : \E j \in DOMAIN top.todo : rest[i] = top.todo[j]
  BY TopAgenda
<1>0. Begun(top) \in Nat
  <2>1. Len(top.level.relations) \in Nat
    BY TopAgenda
  <2>. QED
    BY <2>1, BegunBounds
<1>2. IsSeq(next) /\ NoneOf(next, {"cte"} \cup Calling3) /\ g.todo = next \o rest
  BY DEF Fronted
<1> HIDE DEF rest
<1>3. NoneOf(next, Calling3)
  BY <1>2 DEF NoneOf
<1>4. OnceInv(g.todo)
  BY <1>1, <1>2, <1>3, OnceNext
<1>5. \A i \in DOMAIN g.todo : \/ \E j \in DOMAIN rest : g.todo[i] = rest[j]
                               \/ g.todo[i].do \notin {"cte"} \cup Calling3
  <2> DEFINE all == next \o rest
  <2>1. /\ IsSeq(all) /\ Len(all) = Len(next) + Len(rest)
        /\ \A i \in DOMAIN all : all[i] = IF i <= Len(next) THEN next[i] ELSE rest[i - Len(next)]
    <3>1. IsSeq(next) /\ IsSeq(rest)
      BY <1>1, <1>2
    <3>. QED
      BY ONLY <3>1, SeqConcat
  <2>2. /\ Len(next) \in Nat /\ Len(rest) \in Nat /\ DOMAIN all = 1..(Len(next) + Len(rest))
        /\ DOMAIN next = 1..Len(next) /\ DOMAIN rest = 1..Len(rest)
    BY <1>1, <1>2, <2>1, SeqFacts
  <2>a. g.todo = all
    BY <1>2
  <2> HIDE DEF all
  <2>3. \A i \in DOMAIN all : \/ i \in DOMAIN next /\ all[i] = next[i]
                              \/ i - Len(next) \in DOMAIN rest /\ all[i] = rest[i - Len(next)]
    BY <2>1, <2>2
  <2>. QED
    BY <1>2, <2>a, <2>3 DEF NoneOf
<1>6. GoesOn(top, g)
  BY <1>0, <1>1, <1>5 DEF GoesOn, Fronted
<1>. QED
  BY <1>4, <1>5, <1>6 DEF rest

\* The ways in which a step goes on.
LEMMA FreshPlain == ASSUME Inv, BlocksInv, PlainStep PROVE BlocksInv'
<1>1. PICK g, next :
        /\ Moves(g) /\ g.level.relations = top.level.relations /\ g.joins = top.joins
        /\ g.todo = next \o Tail(top.todo)
        /\ IsSeq(next) /\ \A i \in DOMAIN next : next[i].do \in {"table", "item", "join", "joined"}
  BY DEF PlainStep
<1>2. stack # <<>> /\ top.todo # <<>> /\ g.query = top.query
  BY <1>1 DEF Moves
<1>3. Head(top.todo).do \notin CteKinds \cup {"bind_derived"}
  BY DEF PlainStep
<1>4. /\ IsSeq(Tail(top.todo)) /\ NoneOf(Tail(top.todo), CteKinds) /\ Len(top.level.relations) \in Nat
      /\ Begun(top) = Len(top.level.relations)
  BY <1>2, <1>3, TopAgenda
<1>5. Begun(g) \in Nat /\ Begun(top) <= Begun(g)
  BY <1>1, <1>4, BegunBounds
<1>6. NoneOf(next, {"cte"} \cup Calling3) /\ NoneOf(next, CteKinds)
  BY <1>1 DEF NoneOf, Calling3, CteKinds
<1>7. Fronted(g, next)
  BY <1>1, <1>2, <1>5, <1>6 DEF Fronted
<1>8. CtesFirst(g.todo, g.query)
  <2>1. IsSeq(g.todo) /\ NoneOf(g.todo, CteKinds)
    BY <1>1, <1>4, <1>6, NoneConcat, SeqConcat
  <2>. QED
    BY <1>2, <2>1, NoCtes, TopFresh
<1>. QED
  BY <1>1, <1>2, <1>7, <1>8, FrontedGoesOn, FreshMoving

\* Nothing is put in front.
LEMMA NoFront ==
  ASSUME Inv, BlocksInv, stack # <<>>, top.todo # <<>>, NEW g, g.todo = Tail(top.todo), g.query = top.query,
         DOMAIN top.joins \subseteq DOMAIN g.joins, Begun(g) \in Nat, Begun(top) <= Begun(g)
  PROVE  OnceInv(g.todo) /\ GoesOn(top, g)
<1>1. IsSeq(Tail(top.todo))
  BY TopAgenda
<1>2. <<>> \o Tail(top.todo) = Tail(top.todo)
  BY <1>1 DEF IsSeq
<1>3. IsSeq(<<>>) /\ NoneOf(<<>>, {"cte"} \cup Calling3)
  BY SeqEmpty DEF NoneOf
<1>4. Fronted(g, <<>>)
  BY <1>2, <1>3 DEF Fronted
<1>. QED
  BY <1>4, FrontedGoesOn

LEMMA FreshAdd == ASSUME Inv, BlocksInv, AddStep PROVE BlocksInv'
<1>1. PICK g, r :
        /\ Moves(g) /\ g.level.relations = Append(top.level.relations, r) /\ g.joins = top.joins
        /\ g.todo = Tail(top.todo)
  BY DEF AddStep
<1>2. stack # <<>> /\ top.todo # <<>> /\ g.query = top.query
  BY <1>1 DEF Moves
<1>3. Head(top.todo).do \notin CteKinds
  BY DEF AddStep, CteKinds
<1>4. /\ IsSeq(Tail(top.todo)) /\ NoneOf(Tail(top.todo), CteKinds) /\ Len(top.level.relations) \in Nat
      /\ IsSeq(top.level.relations)
      /\ Begun(top) = Len(top.level.relations) + (IF Head(top.todo).do = "bind_derived" THEN 1 ELSE 0)
  BY <1>2, <1>3, TopAgenda
<1>5. Len(g.level.relations) = Len(top.level.relations) + 1
  BY <1>1, <1>4, SeqAppend
<1>6. Begun(g) \in Nat /\ Begun(top) <= Begun(g)
  <2>1. Len(g.level.relations) \in Nat
    BY <1>4, <1>5
  <2>2. Begun(g) \in Nat /\ Len(g.level.relations) <= Begun(g)
    BY <2>1, BegunBounds
  <2>3. Begun(top) <= Len(top.level.relations) + 1 /\ Begun(top) \in Nat
    BY <1>4, BegunBounds
  <2>4. Len(top.level.relations) \in Nat
    BY <1>4
  <2>. QED
    BY ONLY <1>5, <2>2, <2>3, <2>4
<1>7. OnceInv(g.todo) /\ GoesOn(top, g)
  BY <1>1, <1>2, <1>6, NoFront
<1>8. CtesFirst(g.todo, g.query)
  BY <1>1, <1>2, <1>4, NoCtes, TopFresh
<1>. QED
  BY <1>1, <1>7, <1>8, FreshMoving

LEMMA FreshBind == ASSUME Inv, BlocksInv, BindStep PROVE BlocksInv'
<1>1. PICK g : /\ Moves(g) /\ g.level.relations = top.level.relations /\ g.joins = top.joins
               /\ g.todo = Tail(top.todo)
  BY DEF BindStep
<1>2. stack # <<>> /\ top.todo # <<>> /\ g.query = top.query
  BY <1>1 DEF Moves
<1>3. Head(top.todo).do = "bind_cte"
  BY DEF BindStep, Doing
<1>4. /\ CtesFirst(Tail(top.todo), top.query) /\ Len(top.level.relations) \in Nat
      /\ Begun(top) = Len(top.level.relations)
  BY <1>2, <1>3, TopAgenda
<1>6. Begun(g) \in Nat /\ Begun(top) <= Begun(g)
  BY <1>1, <1>4, BegunBounds
<1>7. OnceInv(g.todo) /\ GoesOn(top, g)
  BY <1>1, <1>2, <1>6, NoFront
<1>8. CtesFirst(g.todo, g.query)
  BY <1>1, <1>2, <1>4
<1>. QED
  BY <1>1, <1>7, <1>8, FreshMoving

LEMMA FreshJoin == ASSUME Inv, BlocksInv, JoinStep PROVE BlocksInv'
<1> DEFINE rest == Tail(top.todo)
<1>1. PICK g, subs, n : JoinsTo(g, subs, n)
  BY DEF JoinStep
<1>2. /\ Moves(g) /\ g.level.relations = top.level.relations
      /\ n \in Nat /\ n <= Len(rest) /\ IsSeq(subs) /\ g.todo = Inserted(rest, subs, n)
      /\ \A i \in DOMAIN subs : /\ subs[i].do = "subquery" /\ subs[i].what.role = "on"
                                /\ subs[i].what.index = Len(top.joins) + i
      /\ DOMAIN top.joins \subseteq DOMAIN g.joins
  BY <1>1 DEF JoinsTo
<1>3. stack # <<>> /\ top.todo # <<>> /\ g.query = top.query
  BY <1>2 DEF Moves
<1>4. Head(top.todo).do = "joined"
  BY DEF JoinStep, Doing
<1>5. /\ IsSeq(rest) /\ NoneOf(rest, CteKinds) /\ OnceInv(rest) /\ Len(top.level.relations) \in Nat
      /\ (\A i \in DOMAIN rest : \E j \in DOMAIN top.todo : rest[i] = top.todo[j])
      /\ \A i \in DOMAIN rest : rest[i].do = "subquery" /\ rest[i].what.role = "on" => rest[i].what.index \in DOMAIN top.joins
      /\ Begun(top) = Len(top.level.relations)
  <2>1. Head(top.todo).do \notin CteKinds /\ Head(top.todo).do # "bind_derived"
    BY <1>4 DEF CteKinds
  <2>. QED
    BY <1>3, <2>1, TopAgenda
<1> HIDE DEF rest
<1>6. Begun(g) \in Nat /\ Begun(top) <= Begun(g)
  BY <1>2, <1>5, BegunBounds
<1>7. Len(top.joins) \in Nat /\ DOMAIN top.joins = 1..Len(top.joins) /\ DOMAIN subs = 1..Len(subs) /\ Len(subs) \in Nat
  BY <1>2, <1>3, TopFacts, SeqFacts DEF FrameInv, KeepsLevels
<1>8. \A i \in DOMAIN subs : subs[i].what.index \notin DOMAIN top.joins
  BY <1>2, <1>7
<1>9. OnceInv(g.todo)
  <2>1. OnceInv(subs)
    <3>1. \A i, j \in DOMAIN subs : i # j => subs[i].what.index # subs[j].what.index
      BY <1>2, <1>7
    <3>. QED
      BY <1>2, <3>1 DEF OnceInv, Apart
  <2>2. \A i \in DOMAIN rest, j \in DOMAIN subs : Apart(rest[i], subs[j])
    BY <1>2, <1>5, <1>8 DEF Apart
  <2>. QED
    BY <1>2, <1>5, <2>1, <2>2, OnceInserted
<1>10. IsSeq(g.todo) /\ \A i \in DOMAIN g.todo : \/ \E j \in DOMAIN rest : g.todo[i] = rest[j]
                                                 \/ \E j \in DOMAIN subs : g.todo[i] = subs[j]
  BY <1>2, <1>5, InsertedFacts
<1>11. NoneOf(g.todo, CteKinds)
  BY <1>2, <1>5, <1>10 DEF NoneOf, CteKinds
<1>12. CtesFirst(g.todo, g.query)
  BY <1>3, <1>10, <1>11, NoCtes, TopFresh
<1>13. GoesOn(top, g)
  <2>1. \A i \in DOMAIN g.todo : \/ \E j \in DOMAIN top.todo : g.todo[i] = top.todo[j]
                                 \/ /\ g.todo[i].do = "subquery" /\ g.todo[i].what.role = "on"
                                    /\ g.todo[i].what.index \notin DOMAIN top.joins
    BY <1>2, <1>5, <1>8, <1>10
  <2>. QED
    BY <1>2, <1>5, <1>6, <2>1 DEF GoesOn
<1>. QED
  BY <1>2, <1>9, <1>12, <1>13, FreshMoving


LEMMA NoneOne == ASSUME NEW t, NEW kinds, t.do \notin kinds PROVE IsSeq(<<t>>) /\ NoneOf(<<t>>, kinds)
<1>1. IsSeq(<<t>>) /\ DOMAIN <<t>> = {1} /\ <<t>>[1] = t
  BY SeqOne
<1>. QED
  BY <1>1 DEF NoneOf

\* What a call leaves to do.
LEMMA CallGoesOn ==
  ASSUME Inv, BlocksInv, NEW g, NEW child, NEW step, NEW next, Calls(g, child, step, next),
         IsSeq(next), NoneOf(next, {"cte"} \cup Calling3), Head(top.todo).do # "bind_derived"
  PROVE  /\ OnceInv(g.todo) /\ GoesOn(top, g) /\ g.query = top.query /\ stack # <<>> /\ top.todo # <<>>
         /\ Len(top.level.relations) \in Nat /\ Begun(top) = Len(top.level.relations)
         /\ Head(top.todo).do \notin CteKinds /\ NoneOf(next, CteKinds) => CtesFirst(g.todo, g.query)
<1>1. /\ stack # <<>> /\ top.todo # <<>> /\ g.query = top.query /\ g.level = top.level /\ g.joins = top.joins
      /\ g.todo = next \o Tail(top.todo)
  BY DEF Calls
<1>2. /\ IsSeq(Tail(top.todo)) /\ Len(top.level.relations) \in Nat
      /\ Head(top.todo).do \notin CteKinds => NoneOf(Tail(top.todo), CteKinds)
  BY <1>1, TopAgenda
<1>3. Begun(top) = Len(top.level.relations) + (IF Head(top.todo).do = "bind_derived" THEN 1 ELSE 0)
  BY <1>1, TopAgenda
<1>4. Begun(top) = Len(top.level.relations)
  BY <1>2, <1>3
<1>5. Begun(g) \in Nat /\ Begun(top) <= Begun(g)
  BY <1>1, <1>2, <1>4, BegunBounds
<1>6. Fronted(g, next)
  BY <1>1, <1>5 DEF Fronted
<1>7. OnceInv(g.todo) /\ GoesOn(top, g)
  BY <1>1, <1>6, FrontedGoesOn
<1>8. ASSUME Head(top.todo).do \notin CteKinds, NoneOf(next, CteKinds) PROVE CtesFirst(g.todo, g.query)
  <2>1. IsSeq(g.todo) /\ NoneOf(g.todo, CteKinds)
    BY <1>1, <1>2, <1>8, NoneConcat, SeqConcat
  <2>. QED
    BY <1>1, <2>1, NoCtes, TopFresh
<1>. QED
  BY <1>1, <1>2, <1>4, <1>7, <1>8

\* The step that a call is for will not be called for again.
LEMMA CallUses ==
  ASSUME Inv, BlocksInv, NEW g, NEW child, NEW step, NEW next, Calls(g, child, step, next),
         IsSeq(next), NoneOf(next, {"cte"} \cup Calling3), Head(top.todo).do # "bind_derived",
         \A i \in DOMAIN Tail(top.todo) : Unlike(Tail(top.todo)[i], step),
         step.role = "on" => step.index \in DOMAIN top.joins,
         step.role \in {"derived", "lateral"} => step.index \in 1..Begun(g)
  PROVE  Used(g, step)
<1>1. stack # <<>> /\ top.todo # <<>> /\ g.joins = top.joins /\ g.query = top.query /\ g.todo = next \o Tail(top.todo)
  BY DEF Calls
<1>2. GoesOn(top, g)
  BY CallGoesOn
<1>3. Fronted(g, next)
  BY <1>1, <1>2 DEF Fronted, GoesOn
<1>4. \A i \in DOMAIN g.todo : \/ \E j \in DOMAIN Tail(top.todo) : g.todo[i] = Tail(top.todo)[j]
                               \/ g.todo[i].do \notin {"cte"} \cup Calling3
  BY <1>1, <1>3, FrontedGoesOn
<1>5. \A i \in DOMAIN g.todo : Unlike(g.todo[i], step)
  <2> SUFFICES ASSUME NEW i \in DOMAIN g.todo PROVE Unlike(g.todo[i], step)
    OBVIOUS
  <2>1. CASE \E j \in DOMAIN Tail(top.todo) : g.todo[i] = Tail(top.todo)[j]
    BY <2>1
  <2>2. CASE g.todo[i].do \notin {"cte"} \cup Calling3
    BY <2>2 DEF Unlike, Calling3
  <2>. QED
    BY <1>4, <2>1, <2>2
<1>. QED
  BY <1>1, <1>5 DEF Used

\* What build is called for is new.
Starts(step) ==
  \/ Head(top.todo).do = "cte" /\ step.role \in {"cte", "recursive"} /\ step.index = Head(top.todo).what
  \/ Head(top.todo).do \in {"left", "right"} /\ step.role = Head(top.todo).do
  \/ /\ Head(top.todo).do = "subquery"
     /\ step.role = Head(top.todo).what.role /\ step.index = Head(top.todo).what.index
  \/ /\ Head(top.todo).do = "item" /\ step.role \in {"lateral", "derived"}
     /\ step.index = Len(top.level.relations) + 1

LEMMA NewStep == ASSUME Inv, BlocksInv, stack # <<>>, top.todo # <<>>, NEW step, Starts(step) PROVE ~Used(top, step)
<1>1. PICK j \in DOMAIN top.todo : Head(top.todo) = top.todo[j]
  BY TopAgenda
<1>2. CASE Head(top.todo).do = "item" /\ step.role \in {"lateral", "derived"} /\ step.index = Len(top.level.relations) + 1
  <2> DEFINE n == Len(top.level.relations)
  <2>1. n \in Nat /\ Begun(top) = n + (IF Head(top.todo).do = "bind_derived" THEN 1 ELSE 0)
    BY TopAgenda
  <2>2. step.role \in {"derived", "lateral"} /\ step.index = n + 1 /\ Head(top.todo).do # "bind_derived"
    BY <1>2
  <2> HIDE DEF n
  <2>3. Begun(top) = n
    BY <2>1, <2>2
  <2>4. step.index \notin 1..Begun(top)
    BY <2>1, <2>2, <2>3
  <2>. QED
    BY <2>2, <2>4 DEF Used
<1>3. CASE Head(top.todo).do # "item"
  <2>1. ~Unlike(Head(top.todo), step)
    BY <1>3 DEF Starts, Unlike
  <2>. QED
    BY <1>1, <2>1 DEF Used
<1>. QED
  BY <1>2, <1>3 DEF Starts

LEMMA FreshCte == ASSUME Inv, BlocksInv, CallCte PROVE BlocksInv'
<1> DEFINE t    == Todo("bind_cte", what)
           next == <<t>>
<1>1. PICK g, child, step :
        /\ Calls(g, child, step, next) /\ step.index = what /\ step.role \in {"cte", "recursive"}
  BY DEF CallCte
<1>2. Head(top.todo).do = "cte" /\ Head(top.todo).what = what /\ Doing("cte")
  BY DEF CallCte, Doing, what
<1>3. t.do = "bind_cte" /\ next = <<t>>
  BY DEF Todo
<1>a. t = Todo("bind_cte", Head(top.todo).what)
  BY <1>2
<1> HIDE DEF t
<1>4. IsSeq(next) /\ NoneOf(next, {"cte"} \cup Calling3)
  BY <1>3, NoneOne DEF Calling3
<1>b. g.todo = <<t>> \o Tail(top.todo)
  BY <1>1 DEF Calls
<1> HIDE DEF next
<1>5. /\ OnceInv(g.todo) /\ GoesOn(top, g) /\ g.query = top.query /\ stack # <<>> /\ top.todo # <<>>
  BY <1>1, <1>2, <1>4, CallGoesOn
<1>6. CtesFirst(g.todo, g.query)
  <2>1. IsSeq(top.todo) /\ IsSeq(top.query.with) /\ CtesFirst(top.todo, top.query)
    BY <1>5, TopFresh DEF FrameFresh
  <2>2. CtesFirst(<<t>> \o Tail(top.todo), top.query)
    BY <1>2, <1>5, <1>a, <2>1, CteBegun
  <2>. QED
    BY <1>5, <1>b, <2>2
<1>7. Used(g, step)
  <2>1. \A i \in DOMAIN Tail(top.todo) :
          /\ Tail(top.todo)[i].do = "cte" => Tail(top.todo)[i].what # what
          /\ Tail(top.todo)[i].do = "subquery" => Tail(top.todo)[i].what.role \in {"where", "on"}
    BY <1>2, <1>5, TopAgenda DEF CteKinds
  <2>2. \A i \in DOMAIN Tail(top.todo) : Unlike(Tail(top.todo)[i], step)
    BY <1>1, <2>1 DEF Unlike
  <2>. QED
    BY <1>1, <1>2, <1>4, <2>2, CallUses
<1>8. ~Used(top, step)
  BY <1>1, <1>2, <1>5, NewStep DEF Starts
<1>. QED
  BY <1>1, <1>5, <1>6, <1>7, <1>8, FreshCalling

LEMMA FreshDerived == ASSUME Inv, BlocksInv, CallDerived PROVE BlocksInv'
<1> DEFINE t    == Todo("bind_derived", what)
           next == <<t>>
<1>1. PICK g, child, step :
        /\ Calls(g, child, step, next) /\ step.index = Len(top.level.relations) + 1 /\ step.role \in {"lateral", "derived"}
  BY DEF CallDerived
<1>2. Head(top.todo).do = "item"
  BY DEF CallDerived, Doing
<1>3. t.do = "bind_derived" /\ next = <<t>>
  BY DEF Todo
<1> HIDE DEF t
<1>4. IsSeq(next) /\ NoneOf(next, {"cte"} \cup Calling3) /\ NoneOf(next, CteKinds)
  BY <1>3, NoneOne DEF Calling3, CteKinds
<1>b. g.todo = <<t>> \o Tail(top.todo) /\ g.level = top.level
  BY <1>1 DEF Calls
<1> HIDE DEF next
<1>5. /\ OnceInv(g.todo) /\ GoesOn(top, g) /\ g.query = top.query /\ stack # <<>> /\ top.todo # <<>>
      /\ Len(top.level.relations) \in Nat /\ Begun(top) = Len(top.level.relations)
      /\ CtesFirst(g.todo, g.query)
  <2>1. Head(top.todo).do # "bind_derived" /\ Head(top.todo).do \notin CteKinds
    BY <1>2 DEF CteKinds
  <2>. QED
    BY <1>1, <1>4, <2>1, CallGoesOn
<1>6. Begun(g) = Len(top.level.relations) + 1
  <2>1. IsSeq(Tail(top.todo))
    BY <1>5, TopAgenda
  <2>2. IsSeq(g.todo) /\ g.todo[1] = t /\ DOMAIN g.todo = 1..(1 + Len(Tail(top.todo)))
    BY <1>b, <2>1, OneBefore
  <2>3. Len(Tail(top.todo)) \in Nat
    BY <2>1, SeqFacts
  <2>4. g.todo # <<>> /\ Head(g.todo) = t
    BY <2>2, <2>3, SeqFacts DEF IsSeq
  <2>. QED
    BY <1>3, <1>b, <2>4 DEF Begun
<1>7. Used(g, step)
  <2>1. \A i \in DOMAIN Tail(top.todo) :
          Tail(top.todo)[i].do = "subquery" => Tail(top.todo)[i].what.role \in {"where", "on"}
    BY <1>5, TopAgenda
  <2>2. \A i \in DOMAIN Tail(top.todo) : Unlike(Tail(top.todo)[i], step)
    BY <1>1, <2>1 DEF Unlike
  <2>3. step.index \in 1..Begun(g)
    BY <1>1, <1>5, <1>6
  <2>. QED
    BY <1>1, <1>2, <1>4, <2>2, <2>3, CallUses
<1>8. ~Used(top, step)
  BY <1>1, <1>2, <1>5, NewStep DEF Starts
<1>. QED
  BY <1>1, <1>5, <1>7, <1>8, FreshCalling

LEMMA FreshArm == ASSUME Inv, BlocksInv, CallArm PROVE BlocksInv'
<1>1. PICK g, child, step, t :
        /\ step.role \in {"left", "right"} /\ Doing(step.role) /\ Calls(g, child, step, <<t>>)
        /\ t.do \in {"bind_left", "bind_right"}
  BY DEF CallArm
<1>2. Head(top.todo).do = step.role
  BY <1>1 DEF Doing
<1> DEFINE next == <<t>>
<1>4. IsSeq(next) /\ NoneOf(next, {"cte"} \cup Calling3) /\ NoneOf(next, CteKinds) /\ Calls(g, child, step, next)
  BY <1>1, NoneOne DEF Calling3, CteKinds
<1> HIDE DEF next
<1>3. Head(top.todo).do # "bind_derived" /\ Head(top.todo).do \notin CteKinds
  BY <1>1, <1>2 DEF CteKinds
<1>5. /\ OnceInv(g.todo) /\ GoesOn(top, g) /\ stack # <<>> /\ top.todo # <<>> /\ CtesFirst(g.todo, g.query)
  BY <1>3, <1>4, CallGoesOn
<1>7. Used(g, step)
  <2>1. \A i \in DOMAIN Tail(top.todo) :
          /\ Apart(Tail(top.todo)[i], Head(top.todo))
          /\ Tail(top.todo)[i].do = "subquery" => Tail(top.todo)[i].what.role \in {"where", "on"}
    BY <1>5, TopAgenda
  <2>2. \A i \in DOMAIN Tail(top.todo) : Unlike(Tail(top.todo)[i], step)
    BY <1>1, <1>2, <2>1 DEF Unlike, Apart
  <2>. QED
    BY <1>1, <1>3, <1>4, <2>2, CallUses
<1>8. ~Used(top, step)
  BY <1>1, <1>2, <1>5, NewStep DEF Starts
<1>. QED
  BY <1>4, <1>5, <1>7, <1>8, FreshCalling

LEMMA FreshSubquery == ASSUME Inv, BlocksInv, CallSubquery PROVE BlocksInv'
<1> DEFINE next == <<>>
<1>1. PICK g, child, step :
        /\ Calls(g, child, step, next) /\ step.role = what.role /\ step.index = what.index /\ step.role \in {"where", "on"}
  BY DEF CallSubquery
<1>2. Doing("subquery") /\ Head(top.todo).do = "subquery" /\ Head(top.todo).what = what
  BY DEF CallSubquery, Doing, what
<1>4. IsSeq(next) /\ NoneOf(next, {"cte"} \cup Calling3) /\ NoneOf(next, CteKinds)
  BY SeqEmpty DEF NoneOf
<1> HIDE DEF next
<1>3. Head(top.todo).do # "bind_derived" /\ Head(top.todo).do \notin CteKinds
  BY <1>2 DEF CteKinds
<1>5. /\ OnceInv(g.todo) /\ GoesOn(top, g) /\ stack # <<>> /\ top.todo # <<>> /\ CtesFirst(g.todo, g.query)
  BY <1>1, <1>3, <1>4, CallGoesOn
<1>6. step.role = "on" => step.index \in DOMAIN top.joins
  BY <1>1, <1>2, DoingFacts DEF TodoInv
<1>7. Used(g, step)
  <2>1. \A i \in DOMAIN Tail(top.todo) : Apart(Tail(top.todo)[i], Head(top.todo))
    BY <1>5, TopAgenda
  <2>2. \A i \in DOMAIN Tail(top.todo) : Unlike(Tail(top.todo)[i], step)
    BY <1>1, <1>2, <2>1 DEF Unlike, Apart
  <2>. QED
    BY <1>1, <1>3, <1>4, <1>6, <2>2, CallUses
<1>8. ~Used(top, step)
  BY <1>1, <1>2, <1>5, NewStep DEF Starts
<1>. QED
  BY <1>1, <1>5, <1>7, <1>8, FreshCalling

LEMMA FreshReturning == ASSUME Inv, BlocksInv, Return PROVE BlocksInv'
<1>1. stack # <<>> /\ stack' = Front(stack)
  BY DEF Return
<1>2. DOMAIN stack' = 1..(Len(stack) - 1) /\ \A i \in 1..(Len(stack) - 1) : i \in DOMAIN stack /\ stack'[i] = stack[i]
  BY <1>1, StackReturned
<1>3. Blocks' = Blocks
  BY BlocksReturning
<1>4. \A i \in DOMAIN stack' : Len(stack'[i].path) = i - 1 /\ FrameFresh(stack'[i], Blocks)
  BY <1>2 DEF BlocksInv
<1>. QED
  BY <1>3, <1>4 DEF BlocksInv

LEMMA InitBlocks == Init => BlocksInv
<1> SUFFICES ASSUME Init PROVE BlocksInv
  OBVIOUS
<1> DEFINE f == Frame(query, <<>>, <<>>, [n \in Tables |-> NoCte])
<1>1. stack = <<f>> /\ scopes = {} /\ query \in Queries
  BY DEF Init
<1>2. f.path = <<>> /\ f.query = query /\ f.todo = Agenda(query)
  BY DEF Frame
<1> HIDE DEF f
<1>3. DOMAIN stack = {1} /\ stack[1] = f
  BY <1>1
<1>4. Blocks = {Block(f)}
  BY <1>1, <1>3 DEF Blocks
<1>5. GrammarInv /\ query \in Nodes.blocks
  BY <1>1, TheGrammar, QueriesAssumption
<1>6. OnceInv(f.todo) /\ CtesFirst(f.todo, f.query)
  BY <1>2, <1>5, AgendaFresh
<1>7. Len(f.path) = 0 /\ ~Extends(f.path, f.path)
  BY <1>2 DEF Extends
<1>8. FrameFresh(f, {Block(f)})
  BY <1>6, <1>7, BlockFields DEF FrameFresh
<1>. QED
  BY <1>3, <1>4, <1>7, <1>8 DEF BlocksInv

LEMMA StepBlocks == ASSUME Inv, BlocksInv, [Next]_vars PROVE BlocksInv'
<1>1. CASE UNCHANGED vars
  BY <1>1 DEF vars, BlocksInv, Blocks
<1>. QED
  BY <1>1, Steps, FreshPlain, FreshAdd, FreshJoin, FreshBind, FreshCte, FreshDerived, FreshArm, FreshSubquery, FreshReturning

(***************************************************************************)
(* What names mean                                                          *)
(***************************************************************************)
\* The CTEs of a block that are in scope where it is.
Entered(todo, q) ==
  {i \in DOMAIN q.with :
     todo # <<>> /\ Head(todo).do \in CteKinds =>
       i < Head(todo).what \/ (Head(todo).do = "bind_cte" /\ i = Head(todo).what /\ q.with[i].recursive)}

UpTo(q, w) == {i \in DOMAIN q.with : i <= w}

Before(q, w) == {i \in DOMAIN q.with : i < w}

LEMMA HeadOf ==
  ASSUME NEW todo, IsSeq(todo), todo # <<>>
  PROVE  Len(todo) \in Nat \ {0} /\ DOMAIN todo = 1..Len(todo) /\ 1 \in DOMAIN todo /\ Head(todo) = todo[1]
BY SeqFacts DEF IsSeq

LEMMA AllEntered == ASSUME NEW todo, IsSeq(todo), NEW q, NoneOf(todo, CteKinds) PROVE Entered(todo, q) = DOMAIN q.with
<1>1. todo # <<>> => Head(todo).do \notin CteKinds
  BY HeadOf DEF NoneOf
<1>. QED
  BY <1>1 DEF Entered

LEMMA EnteredAtCte ==
  ASSUME NEW todo, todo # <<>>, NEW q
  PROVE  /\ Head(todo).do = "cte" => Entered(todo, q) = Before(q, Head(todo).what)
         /\ Head(todo).do = "bind_cte" =>
              Entered(todo, q) = {i \in DOMAIN q.with : i < Head(todo).what \/ (i = Head(todo).what /\ q.with[i].recursive)}
BY DEF Entered, Before, CteKinds

\* Once it is bound a CTE is in scope.
LEMMA EnteredNext ==
  ASSUME NEW todo, IsSeq(todo), todo # <<>>, NEW q, CtesFirst(todo, q), IsSeq(q.with), Head(todo).do = "bind_cte"
  PROVE  Entered(Tail(todo), q) = UpTo(q, Head(todo).what)
<1> DEFINE n == Len(q.with)
           w == Head(todo).what
           rest == Tail(todo)
<1>1. PICK m \in 0..n : CtesLeft(todo, q, m)
  BY DEF CtesFirst
<1>2. IsSeq(rest) /\ Len(rest) = Len(todo) - 1 /\ \A i \in 1..(Len(todo) - 1) : rest[i] = todo[i + 1]
  BY SeqTail
<1>3. /\ Len(todo) \in Nat \ {0} /\ DOMAIN todo = 1..Len(todo) /\ 1 \in DOMAIN todo /\ Head(todo) = todo[1]
      /\ n \in Nat /\ DOMAIN q.with = 1..n /\ m \in Nat /\ m <= n
  BY <1>1, HeadOf, SeqFacts
<1>4. /\ m <= Len(todo)
      /\ \A i \in DOMAIN todo :
           IF i <= m THEN todo[i].what = n - m + i /\ (todo[i].do = "cte" \/ (i = 1 /\ todo[i].do = "bind_cte"))
           ELSE todo[i].do \notin CteKinds
  BY <1>1 DEF CtesLeft
<1>5. 1 <= m /\ w = n - m + 1
  BY <1>3, <1>4 DEF CteKinds
<1> HIDE DEF n, w, rest
<1>6. CASE m = 1
  <2>1. rest # <<>> => Head(rest).do \notin CteKinds
    <3> SUFFICES ASSUME rest # <<>> PROVE Head(rest).do \notin CteKinds
      OBVIOUS
    <3>1. Head(rest) = rest[1] /\ 1 \in 1..(Len(todo) - 1)
      BY <1>2, HeadOf
    <3>2. Head(rest) = todo[2] /\ 2 \in DOMAIN todo /\ ~(2 <= m)
      BY <1>2, <1>3, <1>6, <3>1
    <3>. QED
      BY <1>4, <3>2
  <2>2. w = n
    BY <1>3, <1>5, <1>6
  <2>3. Entered(rest, q) = DOMAIN q.with
    BY <2>1 DEF Entered
  <2>4. UpTo(q, w) = DOMAIN q.with
    BY <1>3, <2>2 DEF UpTo
  <2>. QED
    BY <2>3, <2>4 DEF rest, w
<1>7. CASE m # 1
  <2>1. 2 <= m /\ 2 \in DOMAIN todo /\ 1 \in 1..(Len(todo) - 1) /\ n - m + 2 = w + 1
    BY <1>3, <1>4, <1>5, <1>7
  <2>2. rest # <<>> /\ Head(rest) = todo[2]
    <3>1. rest # <<>>
      BY <1>2, <2>1, SeqFacts
    <3>2. Head(rest) = rest[1] /\ rest[1] = todo[1 + 1]
      BY <1>2, <2>1, <3>1, HeadOf
    <3>. QED
      BY <3>1, <3>2
  <2>3. Head(rest).what = w + 1 /\ Head(rest).do = "cte"
    BY <1>4, <2>1, <2>2
  <2>4. Entered(rest, q) = Before(q, w + 1)
    BY <2>2, <2>3, EnteredAtCte
  <2>5. \A i \in DOMAIN q.with : i < w + 1 <=> i <= w
    BY <1>3, <1>5
  <2>6. Entered(rest, q) = UpTo(q, w)
    BY <2>4, <2>5 DEF Before, UpTo
  <2>. QED
    BY <2>6 DEF rest, w
<1>. QED
  BY <1>6, <1>7

\* The agenda of a block begins with its CTEs.
LEMMA AgendaFront ==
  ASSUME GrammarInv, NEW q \in Nodes.blocks
  PROVE  \E rest : IsSeq(rest) /\ Agenda(q) = [i \in DOMAIN q.with |-> Todo("cte", i)] \o rest
<1> DEFINE a == [i \in DOMAIN q.with |-> Todo("cte", i)]
           b == [i \in DOMAIN q.from |-> Todo("table", q.from[i])]
           c == IF Has(q.left) THEN <<Todo("left", 1)>> ELSE <<Todo("outputs", 1)>>
           d == IF Has(q.right) THEN <<Todo("right", 1), Todo("order", 1)>> ELSE <<>>
           w == [i \in DOMAIN q.where |-> Todo("subquery", [role |-> "where", index |-> i, query |-> q.where[i]])]
<1>1. IsSeq(q.with) /\ IsSeq(q.from) /\ IsSeq(q.where)
  BY Grammar
<1>2. /\ Len(q.with) \in Nat /\ DOMAIN q.with = 1..Len(q.with) /\ Len(q.from) \in Nat /\ DOMAIN q.from = 1..Len(q.from)
      /\ Len(q.where) \in Nat /\ DOMAIN q.where = 1..Len(q.where)
  BY <1>1, SeqFacts
<1>3. IsSeq(a) /\ IsSeq(b) /\ IsSeq(w)
  BY <1>2, SeqNew
<1>4. IsSeq(c) /\ IsSeq(d)
  BY SeqOne, SeqTwo, SeqEmpty
<1>5. Agenda(q) = a \o b \o c \o d \o w
  BY DEF Agenda
<1> HIDE DEF a, b, c, d, w
<1>6. IsSeq(c \o d) /\ IsSeq(b \o (c \o d)) /\ IsSeq((b \o (c \o d)) \o w)
  BY <1>3, <1>4, SeqConcat
<1>7. Agenda(q) = a \o ((b \o (c \o d)) \o w)
  <2>1. ((a \o b) \o c) \o d = (a \o b) \o (c \o d) /\ (a \o b) \o (c \o d) = a \o (b \o (c \o d))
    <3>1. IsSeq(a) /\ IsSeq(b) /\ IsSeq(c) /\ IsSeq(d)
      BY <1>3, <1>4
    <3>2. IsSeq(a \o b) /\ IsSeq(c \o d)
      BY ONLY <3>1, SeqConcat
    <3>3. ((a \o b) \o c) \o d = (a \o b) \o (c \o d)
      BY ONLY <3>1, <3>2, SeqGrouped
    <3>4. (a \o b) \o (c \o d) = a \o (b \o (c \o d))
      <4> DEFINE cd == c \o d
      <4>1. IsSeq(a) /\ IsSeq(b) /\ IsSeq(cd)
        BY <3>1, <3>2
      <4> HIDE DEF cd
      <4>2. (a \o b) \o cd = a \o (b \o cd)
        BY ONLY <4>1, SeqGrouped
      <4>. QED
        BY <4>2 DEF cd
    <3>. QED
      BY <3>3, <3>4
  <2>2. (a \o (b \o (c \o d))) \o w = a \o ((b \o (c \o d)) \o w)
    <3>1. IsSeq(a) /\ IsSeq(b \o (c \o d)) /\ IsSeq(w)
      BY <1>3, <1>6
    <3>. QED
      BY ONLY <3>1, SeqGrouped
  <2>. QED
    BY <1>5, <2>1, <2>2
<1>. QED
  BY <1>6, <1>7 DEF a

\* No CTE of a block is in scope when it begins.
LEMMA NoneEntered == ASSUME GrammarInv, NEW q \in Nodes.blocks PROVE Entered(Agenda(q), q) = {}
<1> DEFINE todo == Agenda(q)
           a == [i \in DOMAIN q.with |-> Todo("cte", i)]
           n == Len(q.with)
<1>1. IsSeq(q.with) /\ n \in Nat /\ DOMAIN q.with = 1..n
  BY Grammar, SeqFacts
<1>2. CASE n = 0
  BY <1>1, <1>2 DEF Entered
<1>3. CASE n # 0
  <2>1. AgendaInv(q, EmptyLevel, <<>>, todo)
    BY FirstAgenda
  <2>2. IsSeq(todo)
    BY <2>1 DEF AgendaInv
  <2>3. PICK rest : IsSeq(rest) /\ todo = a \o rest
    BY AgendaFront
  <2>4. IsSeq(a) /\ Len(a) = n /\ a[1] = Todo("cte", 1)
    <3>1. IsSeq(a) /\ Len(a) = n
      BY <1>1, SeqNew
    <3>2. 1 \in DOMAIN q.with
      BY <1>1, <1>3
    <3>. QED
      BY <3>1, <3>2
  <2> HIDE DEF a, todo, n
  <2>5. todo[1] = a[1] /\ Len(todo) = n + Len(rest) /\ Len(rest) \in Nat
    <3>1. IsSeq(a) /\ IsSeq(rest) /\ 1 \in 1..Len(a)
      BY <1>1, <1>3, <2>3, <2>4
    <3>2. Len(a \o rest) = Len(a) + Len(rest) /\ (a \o rest)[1] = a[1]
      BY ONLY <3>1, SeqConcat
    <3>. QED
      BY <2>3, <2>4, <3>1, <3>2, SeqFacts
  <2>6. todo # <<>>
    BY <1>1, <1>3, <2>2, <2>5, SeqFacts
  <2>7. Head(todo) = Todo("cte", 1)
    BY <2>2, <2>4, <2>5, <2>6, HeadOf
  <2>8. Head(todo).do = "cte" /\ Head(todo).what = 1
    BY <2>7 DEF Todo
  <2>9. Entered(todo, q) = Before(q, 1)
    BY <2>6, <2>8, EnteredAtCte
  <2>10. Before(q, 1) = {}
    BY <1>1 DEF Before
  <2>. QED
    BY <2>9, <2>10 DEF todo
<1>. QED
  BY <1>2, <1>3

(***************************************************************************)
(* The declarations of a name around a block                                *)
(***************************************************************************)
Declared(name, path, block, d) ==
  \E i \in DOMAIN block.query.with :
    d = <<Len(block.path), i>> /\ IsPrefix(block.path, path) /\ Declares(block, i, name, path)

LEMMA DeclarationsAre ==
  ASSUME NEW name, NEW path, NEW blocks
  PROVE  \A d : d \in DeclarationsOf(name, path, blocks) <=> \E b \in blocks : Declared(name, path, b, d)
BY DEF DeclarationsOf, Declared

\* Those of the blocks around, and the own ones that are in scope.
Within(name, path, blocks, own) == {d \in DeclarationsOf(name, path, blocks) : d[1] < Len(path) \/ d[2] \in own}

LEMMA PrefixOf ==
  ASSUME NEW p, NEW path, IsSeq(p), IsSeq(path)
  PROVE  /\ IsPrefix(p, path) <=> Len(p) <= Len(path) /\ SubSeq(path, 1, Len(p)) = p
         /\ Len(p) = Len(path) /\ IsPrefix(p, path) => p = path
         /\ IsPrefix(path, path)
<1>1. SubSeq(p, 1, Len(p)) = p /\ SubSeq(path, 1, Len(path)) = path /\ Len(p) \in Nat /\ Len(path) \in Nat
  BY WholeSeq, SeqFacts
<1>2. IsPrefix(p, path) <=> Len(p) <= Len(path) /\ SubSeq(path, 1, Len(p)) = p
  BY ONLY <1>1 DEF IsPrefix
<1>3. Len(p) = Len(path) /\ IsPrefix(p, path) => p = path
  <2> SUFFICES ASSUME Len(p) = Len(path), IsPrefix(p, path) PROVE p = path
    OBVIOUS
  <2>1. SubSeq(path, 1, Len(p)) = SubSeq(path, 1, Len(path))
    OBVIOUS
  <2>. QED
    BY ONLY <1>1, <1>2, <2>1, IsPrefix(p, path)
<1>4. IsPrefix(path, path)
  BY <1>1 DEF IsPrefix
<1>. QED
  BY ONLY <1>2, <1>3, <1>4

\* The blocks of a block's path are the block.
Placed(path, q, blocks) ==
  /\ IsSeq(path) /\ IsSeq(q.with)
  /\ \A b \in blocks : IsSeq(b.path) /\ (b.path = path => b.query = q)
  /\ \E b \in blocks : b.path = path

LEMMA OwnDeclared ==
  ASSUME NEW path, NEW q, NEW blocks, Placed(path, q, blocks), NEW name
  PROVE  /\ \A d \in DeclarationsOf(name, path, blocks) :
              /\ d[1] \in Nat /\ d[1] <= Len(path) /\ d = <<d[1], d[2]>>
              /\ d[1] = Len(path) => d[2] \in DOMAIN q.with /\ q.with[d[2]].name = name
         /\ \A i \in DOMAIN q.with : q.with[i].name = name => <<Len(path), i>> \in DeclarationsOf(name, path, blocks)
<1>1. Len(path) \in Nat
  BY SeqFacts DEF Placed
<1>2. ASSUME NEW d \in DeclarationsOf(name, path, blocks)
      PROVE  /\ d[1] \in Nat /\ d[1] <= Len(path) /\ d = <<d[1], d[2]>>
             /\ d[1] = Len(path) => d[2] \in DOMAIN q.with /\ q.with[d[2]].name = name
  <2>1. PICK b \in blocks : Declared(name, path, b, d)
    BY DeclarationsAre
  <2>2. PICK i \in DOMAIN b.query.with : d = <<Len(b.path), i>> /\ IsPrefix(b.path, path) /\ Declares(b, i, name, path)
    BY <2>1 DEF Declared
  <2>3. d[1] = Len(b.path) /\ d[2] = i
    BY <2>2
  <2>4. IsSeq(b.path) /\ Len(b.path) \in Nat
    BY SeqFacts DEF Placed
  <2>5. Len(b.path) <= Len(path) /\ (Len(b.path) = Len(path) => b.path = path)
    BY <2>2, <2>4, PrefixOf DEF Placed
  <2>6. b.query.with[i].name = name
    BY <2>2 DEF Declares
  <2>7. b.path = path => b.query = q
    BY DEF Placed
  <2>. QED
    BY <2>2, <2>3, <2>4, <2>5, <2>6, <2>7
<1>3. ASSUME NEW i \in DOMAIN q.with, q.with[i].name = name PROVE <<Len(path), i>> \in DeclarationsOf(name, path, blocks)
  <2>1. PICK b \in blocks : b.path = path
    BY DEF Placed
  <2>2. b.query = q /\ IsPrefix(path, path)
    BY <2>1, PrefixOf DEF Placed
  <2>3. ~(Len(path) > Len(path))
    BY <1>1
  <2>4. Declares(b, i, name, path)
    BY <1>3, <2>1, <2>2, <2>3 DEF Declares
  <2>5. Declared(name, path, b, <<Len(path), i>>)
    BY <2>1, <2>2, <2>4 DEF Declared
  <2>. QED
    BY <2>5, DeclarationsAre
<1>. QED
  BY <1>2, <1>3

\* A block that is not around another does not matter to it.
LEMMA DeclaredStill ==
  ASSUME NEW path, NEW blocks, NEW c, ~IsPrefix(c.path, path), NEW name
  PROVE  DeclarationsOf(name, path, blocks \cup {c}) = DeclarationsOf(name, path, blocks)
<1>1. \A d : ~Declared(name, path, c, d)
  BY DEF Declared
<1>2. \A d : d \in DeclarationsOf(name, path, blocks \cup {c}) <=> d \in DeclarationsOf(name, path, blocks)
  BY <1>1, DeclarationsAre
<1>. QED
  BY <1>2

\* The CTEs of a block that are in scope in what a step leads to.
ScopeOf(q, step) ==
  {i \in DOMAIN q.with :
     step.role \in {"cte", "recursive"} => i < step.index \/ (i = step.index /\ step.role = "recursive")}

\* A block around is around what is in it, and so are its declarations.
LEMMA DeclaredDeeper ==
  ASSUME NEW path, NEW q, NEW blocks, Placed(path, q, blocks), NEW step, NEW b \in blocks, b.path # Append(path, step),
         NEW name, NEW d
  PROVE  Declared(name, Append(path, step), b, d) <=>
           Declared(name, path, b, d) /\ (d[1] < Len(path) \/ d[2] \in ScopeOf(q, step))
<1> DEFINE child == Append(path, step)
           n     == Len(b.path)
<1>1. /\ IsSeq(path) /\ IsSeq(b.path) /\ (b.path = path => b.query = q)
      /\ Len(path) \in Nat /\ n \in Nat
  BY SeqFacts DEF Placed
<1>2. /\ IsSeq(child) /\ Len(child) = Len(path) + 1 /\ child[Len(path) + 1] = step
      /\ \A i \in 1..Len(path) : child[i] = path[i]
  BY <1>1, SeqAppend
<1>3. \A m \in 0..Len(child) : m <= Len(path) => SubSeq(child, 1, m) = SubSeq(path, 1, m)
  BY <1>1, Beginnings
<1> HIDE DEF child
<1>4. IsPrefix(b.path, child) <=> IsPrefix(b.path, path)
  <2>1. Len(b.path) = Len(child) => ~IsPrefix(b.path, child)
    BY <1>1, <1>2, PrefixOf DEF child
  <2>2. n <= Len(path) => n \in 0..Len(child) /\ n <= Len(child)
    BY <1>1, <1>2
  <2>3. n <= Len(path) => SubSeq(child, 1, n) = SubSeq(path, 1, n)
    BY <1>3, <2>2
  <2>4. /\ IsPrefix(b.path, path) <=> n <= Len(path) /\ SubSeq(path, 1, n) = b.path
        /\ IsPrefix(b.path, child) <=> n <= Len(child) /\ SubSeq(child, 1, n) = b.path
    BY <1>1, <1>2, PrefixOf
  <2>5. n <= Len(child) /\ n # Len(child) => n <= Len(path)
    BY <1>1, <1>2
  <2>. QED
    BY <2>1, <2>2, <2>3, <2>4, <2>5
<1>5. ASSUME NEW i \in DOMAIN b.query.with, IsPrefix(b.path, path), d = <<n, i>>
      PROVE  Declares(b, i, name, child) <=> Declares(b, i, name, path) /\ (d[1] < Len(path) \/ d[2] \in ScopeOf(q, step))
  <2>1. n <= Len(path) /\ (n = Len(path) => b.path = path) /\ d[1] = n /\ d[2] = i
    BY <1>1, <1>5, PrefixOf
  <2>2. CASE n < Len(path)
    <3>1. n + 1 \in 1..Len(path) /\ Len(child) > n
      BY <1>1, <1>2, <2>2
    <3>2. child[n + 1] = path[n + 1]
      BY <1>2, <3>1
    <3>. QED
      BY <2>1, <2>2, <3>1, <3>2 DEF Declares
  <2>3. CASE n = Len(path)
    <3>1. b.query = q /\ child[n + 1] = step /\ Len(child) > n /\ ~(Len(path) > n)
      BY <1>1, <1>2, <2>1, <2>3
    <3>2. Declares(b, i, name, path) <=> q.with[i].name = name
      BY <3>1 DEF Declares
    <3>3. i \in ScopeOf(q, step) <=>
            (step.role \in {"cte", "recursive"} => i < step.index \/ (i = step.index /\ step.role = "recursive"))
      BY <3>1 DEF ScopeOf
    <3>4. Declares(b, i, name, child) <=> q.with[i].name = name /\ i \in ScopeOf(q, step)
      BY <3>1, <3>3 DEF Declares
    <3>. QED
      BY <2>1, <2>3, <3>1, <3>2, <3>4
  <2>. QED
    BY <1>1, <2>1, <2>2, <2>3
<1>6. Declared(name, child, b, d) <=> Declared(name, path, b, d) /\ (d[1] < Len(path) \/ d[2] \in ScopeOf(q, step))
  BY <1>4, <1>5 DEF Declared
<1>. QED
  BY <1>6 DEF child

LEMMA WithinChild ==
  ASSUME NEW path, NEW q, NEW blocks, Placed(path, q, blocks), NEW step, NEW c, c.path = Append(path, step),
         \A b \in blocks : b.path # c.path, NEW name
  PROVE  Within(name, Append(path, step), blocks \cup {c}, {}) = Within(name, path, blocks, ScopeOf(q, step))
<1> DEFINE child == Append(path, step)
<1>1. IsSeq(path) /\ IsSeq(child) /\ Len(child) = Len(path) + 1 /\ Len(path) \in Nat
  BY SeqAppend, SeqFacts DEF Placed
<1>2. ASSUME NEW d PROVE d \in DeclarationsOf(name, child, blocks \cup {c}) /\ d[1] < Len(child)
                           <=> d \in DeclarationsOf(name, path, blocks) /\ (d[1] < Len(path) \/ d[2] \in ScopeOf(q, step))
  <2>1. Declared(name, child, c, d) => ~(d[1] < Len(child))
    BY <1>1 DEF Declared
  <2>2. ASSUME NEW b \in blocks
        PROVE  Declared(name, child, b, d) <=> Declared(name, path, b, d) /\ (d[1] < Len(path) \/ d[2] \in ScopeOf(q, step))
    BY DeclaredDeeper
  <2>3. d \in DeclarationsOf(name, path, blocks) => d[1] < Len(child)
    <3>1. d \in DeclarationsOf(name, path, blocks) => d[1] \in Nat /\ d[1] <= Len(path)
      BY OwnDeclared
    <3>. QED
      BY <1>1, <3>1
  <2> HIDE DEF child
  <2>. QED
    BY <2>1, <2>2, <2>3, DeclarationsAre
<1> HIDE DEF child
<1>3. Within(name, child, blocks \cup {c}, {}) = Within(name, path, blocks, ScopeOf(q, step))
  BY <1>2 DEF Within
<1>. QED
  BY <1>3 DEF child

(***************************************************************************)
(* What is in scope under a name is the last declaration of the innermost   *)
(* block that has one in scope                                              *)
(***************************************************************************)
MeantCte(cte, path, visible) == IF cte.declared THEN IsLatest(cte.body, path, visible) ELSE visible = {}

MeantCtes(ctes, path, blocks, own) == \A n \in Tables : MeantCte(ctes[n], path, Within(n, path, blocks, own))

LEMMA MeantDeeper ==
  ASSUME NEW path, IsSeq(path), NEW step, NEW visible, \A d \in visible : d[1] \in Nat /\ d[1] <= Len(path),
         NEW cte, MeantCte(cte, path, visible)
  PROVE  MeantCte(cte, Append(path, step), visible)
<1> DEFINE child == Append(path, step)
<1>1. \A m \in 0..Len(child) : m <= Len(path) => SubSeq(child, 1, m) = SubSeq(path, 1, m)
  BY Beginnings
<1>2. Len(child) = Len(path) + 1 /\ Len(path) \in Nat
  BY SeqAppend, SeqFacts
<1> HIDE DEF child
<1>3. \A d \in visible : SubSeq(child, 1, d[1]) = SubSeq(path, 1, d[1])
  <2> SUFFICES ASSUME NEW d \in visible PROVE SubSeq(child, 1, d[1]) = SubSeq(path, 1, d[1])
    OBVIOUS
  <2>1. d[1] \in 0..Len(child) /\ d[1] <= Len(path)
    BY <1>2
  <2>. QED
    BY <1>1, <2>1
<1>4. cte.declared => IsLatest(cte.body, child, visible)
  BY <1>3 DEF MeantCte, IsLatest
<1>. QED
  BY <1>4 DEF MeantCte, child

LEMMA MeantInside ==
  ASSUME NEW path, NEW q, NEW blocks, Placed(path, q, blocks), NEW step, NEW c, c.path = Append(path, step),
         \A b \in blocks : b.path # c.path, NEW ctes, MeantCtes(ctes, path, blocks, ScopeOf(q, step))
  PROVE  MeantCtes(ctes, Append(path, step), blocks \cup {c}, {})
<1> SUFFICES ASSUME NEW n \in Tables
             PROVE  MeantCte(ctes[n], Append(path, step), Within(n, Append(path, step), blocks \cup {c}, {}))
  BY DEF MeantCtes
<1> DEFINE visible == Within(n, path, blocks, ScopeOf(q, step))
<1>1. MeantCte(ctes[n], path, visible)
  BY DEF MeantCtes
<1>2. \A d \in visible : d[1] \in Nat /\ d[1] <= Len(path)
  BY OwnDeclared DEF Within
<1>3. IsSeq(path)
  BY DEF Placed
<1>4. Within(n, Append(path, step), blocks \cup {c}, {}) = visible
  BY WithinChild
<1> HIDE DEF visible
<1>5. MeantCte(ctes[n], Append(path, step), visible)
  BY <1>1, <1>2, <1>3, MeantDeeper
<1>. QED
  BY <1>4, <1>5

LEMMA BodyOf == ASSUME NEW path, IsSeq(path), NEW step PROVE Front(Append(path, step)) = path /\ Last(Append(path, step)) = step
<1> DEFINE child == Append(path, step)
<1>1. Len(child) = Len(path) + 1 /\ Len(path) \in Nat /\ child[Len(path) + 1] = step
  BY SeqAppend, SeqFacts
<1>2. SubSeq(child, 1, Len(path)) = path
  <2>1. Len(path) \in 0..Len(child) /\ Len(path) <= Len(path)
    BY <1>1
  <2>2. SubSeq(child, 1, Len(path)) = SubSeq(path, 1, Len(path))
    BY <2>1, Beginnings
  <2>. QED
    BY <2>2, WholeSeq
<1> HIDE DEF child
<1>3. Len(child) - 1 = Len(path)
  BY <1>1
<1>4. Front(child) = path /\ Last(child) = step
  BY <1>1, <1>2, <1>3 DEF Front, Last
<1>. QED
  BY <1>4 DEF child

\* A CTE that comes into scope is the last.
LEMMA Entering ==
  ASSUME NEW path, NEW q, NEW blocks, Placed(path, q, blocks), NEW w \in DOMAIN q.with, q.with[w].name \in Tables,
         NEW own, Before(q, w) \subseteq own, own \subseteq UpTo(q, w),
         NEW ctes, DOMAIN ctes = Tables, MeantCtes(ctes, path, blocks, own),
         NEW cte, cte.declared, NEW step, step.index = w, cte.body = Append(path, step)
  PROVE  MeantCtes([ctes EXCEPT ![q.with[w].name] = cte], path, blocks, UpTo(q, w))
<1> DEFINE name == q.with[w].name
           new  == [ctes EXCEPT ![name] = cte]
<1>1. IsSeq(path) /\ Len(path) \in Nat /\ IsSeq(q.with) /\ DOMAIN q.with = 1..Len(q.with) /\ Len(q.with) \in Nat
  BY SeqFacts DEF Placed
<1>2. new[name] = cte /\ \A n \in Tables : n # name => new[n] = ctes[n]
  OBVIOUS
<1>3. name \in Tables /\ w \in DOMAIN q.with /\ q.with[w].name = name
  OBVIOUS
<1> HIDE DEF name, new
<1>4. ASSUME NEW n \in Tables, n # name PROVE MeantCte(new[n], path, Within(n, path, blocks, UpTo(q, w)))
  <2>1. ASSUME NEW d \in DeclarationsOf(n, path, blocks), ~(d[1] < Len(path)) PROVE d[2] \in own <=> d[2] \in UpTo(q, w)
    <3>1. d[1] = Len(path)
      <4>1. d[1] \in Nat /\ d[1] <= Len(path)
        BY OwnDeclared
      <4>. QED
        BY <1>1, <2>1, <4>1
    <3>2. d[2] \in DOMAIN q.with /\ q.with[d[2]].name = n
      BY <3>1, OwnDeclared
    <3>3. d[2] # w
      BY <1>3, <1>4, <3>2
    <3>4. d[2] <= w => d[2] < w
      BY <1>1, <3>2, <3>3
    <3>5. d[2] \in UpTo(q, w) => d[2] \in Before(q, w)
      BY <3>4 DEF UpTo, Before
    <3>. QED
      BY <3>5
  <2>2. Within(n, path, blocks, UpTo(q, w)) = Within(n, path, blocks, own)
    BY <2>1 DEF Within
  <2>. QED
    BY <1>2, <1>4, <2>2 DEF MeantCtes
<1>5. MeantCte(new[name], path, Within(name, path, blocks, UpTo(q, w)))
  <2> DEFINE d == <<Len(path), w>>
             visible == Within(name, path, blocks, UpTo(q, w))
  <2>1. d[1] = Len(path) /\ d[2] = w
    OBVIOUS
  <2>2. d \in visible
    <3>1. d \in DeclarationsOf(name, path, blocks)
      BY <1>3, OwnDeclared
    <3>2. w \in UpTo(q, w)
      BY <1>1 DEF UpTo
    <3>. QED
      BY <2>1, <3>1, <3>2 DEF Within
  <2>3. ASSUME NEW e \in visible PROVE e[1] < d[1] \/ (e[1] = d[1] /\ e[2] <= d[2])
    <3>1. e[1] \in Nat /\ e[1] <= Len(path) /\ (e[1] < Len(path) \/ e[2] \in UpTo(q, w))
      BY OwnDeclared DEF Within
    <3>2. e[2] \in UpTo(q, w) => e[2] <= w
      BY DEF UpTo
    <3>. QED
      BY <1>1, <2>1, <3>1, <3>2
  <2>4. Front(cte.body) = SubSeq(path, 1, d[1]) /\ Last(cte.body).index = d[2]
    <3>1. Front(cte.body) = path /\ Last(cte.body) = step
      BY <1>1, BodyOf
    <3>2. SubSeq(path, 1, Len(path)) = path
      BY <1>1, WholeSeq
    <3>. QED
      BY <2>1, <3>1, <3>2
  <2> HIDE DEF d, visible
  <2>5. IsLatest(cte.body, path, visible)
    BY <2>2, <2>3, <2>4 DEF IsLatest
  <2>. QED
    BY <1>2, <2>5 DEF MeantCte, visible
<1>6. MeantCtes(new, path, blocks, UpTo(q, w))
  BY <1>4, <1>5 DEF MeantCtes
<1>. QED
  BY <1>6 DEF new, name

LEMMA MeantStill ==
  ASSUME NEW path, NEW blocks, NEW c, ~IsPrefix(c.path, path), NEW ctes, NEW own, MeantCtes(ctes, path, blocks, own)
  PROVE  MeantCtes(ctes, path, blocks \cup {c}, own)
<1>1. \A n : DeclarationsOf(n, path, blocks \cup {c}) = DeclarationsOf(n, path, blocks)
  BY DeclaredStill
<1>2. \A n : Within(n, path, blocks \cup {c}, own) = Within(n, path, blocks, own)
  BY <1>1 DEF Within
<1>. QED
  BY <1>2 DEF MeantCtes

\* Where all CTEs of a block are in scope its declarations are.
LEMMA AllWithin ==
  ASSUME NEW path, NEW q, NEW blocks, Placed(path, q, blocks), NEW name
  PROVE  Within(name, path, blocks, DOMAIN q.with) = DeclarationsOf(name, path, blocks)
<1>1. ASSUME NEW d \in DeclarationsOf(name, path, blocks) PROVE d[1] < Len(path) \/ d[2] \in DOMAIN q.with
  <2>1. d[1] \in Nat /\ d[1] <= Len(path) /\ (d[1] = Len(path) => d[2] \in DOMAIN q.with)
    BY OwnDeclared
  <2>2. Len(path) \in Nat
    BY SeqFacts DEF Placed
  <2>. QED
    BY <2>1, <2>2
<1>. QED
  BY <1>1 DEF Within

(***************************************************************************)
(* What the blocks under way have in scope, and what names were bound to    *)
(***************************************************************************)
InScope(f, blocks) == MeantCtes(f.ctes, f.path, blocks, Entered(f.todo, f.query))

RelationsMeant(path, relations, blocks) ==
  \A i \in DOMAIN relations : relations[i].kind \in {"table", "cte"} => IsMeant(relations[i], path, blocks)

FrameMeans(f, blocks) == InScope(f, blocks) /\ RelationsMeant(f.path, f.level.relations, blocks)

NamesInv ==
  /\ \A i \in DOMAIN stack : FrameMeans(stack[i], Blocks)
  /\ \A s \in scopes : RelationsMeant(s.path, s.chain[1].relations, Blocks)

LEMMA TopPlaced ==
  ASSUME Inv, BlocksInv, stack # <<>>
  PROVE  /\ Placed(top.path, top.query, Blocks) /\ IsSeq(top.todo) /\ IsSeq(top.query.with) /\ GrammarInv
         /\ top.query \in Nodes.blocks /\ DOMAIN top.ctes = Tables
<1>1. /\ FrameInv(top) /\ IsSeq(top.path) /\ top = stack[Len(stack)] /\ Len(stack) \in Nat \ {0} /\ DOMAIN stack = 1..Len(stack)
  BY TopFacts
<1>2. Len(stack) \in DOMAIN stack
  BY <1>1
<1>3. Block(top) \in Blocks
  BY <1>1, <1>2 DEF Blocks
<1>4. \A b \in Blocks : IsSeq(b.path)
  BY PathsOfBlocks DEF Inv, PathsInv
<1>5. FrameFresh(top, Blocks) /\ IsSeq(top.todo) /\ IsSeq(top.query.with) /\ GrammarInv
  BY TopFresh
<1>6. \A b \in Blocks : b.path = top.path => b.query = top.query
  BY <1>5 DEF FrameFresh
<1>7. Placed(top.path, top.query, Blocks)
  BY <1>1, <1>3, <1>4, <1>5, <1>6, BlockFields DEF Placed
<1>. QED
  BY <1>1, <1>5, <1>7 DEF FrameInv, CtesInv

LEMMA TopMeans == ASSUME Inv, NamesInv, stack # <<>> PROVE FrameMeans(top, Blocks)
<1>1. top = stack[Len(stack)] /\ Len(stack) \in Nat \ {0} /\ DOMAIN stack = 1..Len(stack)
  BY TopFacts
<1>2. Len(stack) \in DOMAIN stack
  BY <1>1
<1>. QED
  BY <1>1, <1>2 DEF NamesInv

LEMMA NamesMoving ==
  ASSUME Inv, BlocksInv, NamesInv, NEW g, Moves(g), FrameMeans(g, Blocks)
  PROVE  NamesInv'
<1>1. stack # <<>> /\ stack' = Front(stack) \o <<g>> /\ ScopesKept
  BY DEF Moves
<1>2. /\ DOMAIN stack' = 1..Len(stack)
      /\ \A i \in 1..Len(stack) : \/ i = Len(stack) /\ stack'[i] = g
                                  \/ i \in 1..(Len(stack) - 1) /\ i \in DOMAIN stack /\ stack'[i] = stack[i]
  BY <1>1, StackContinued
<1>3. \A i \in DOMAIN stack' : FrameMeans(stack'[i], Blocks)
  BY <1>2 DEF NamesInv
<1>4. \A s \in scopes' : RelationsMeant(s.path, s.chain[1].relations, Blocks)
  BY <1>1 DEF NamesInv, ScopesKept, SameScope
<1>5. Blocks' = Blocks
  BY BlocksMoving
<1>. QED
  BY <1>3, <1>4, <1>5 DEF NamesInv

\* Names in a block mean what they did when another block is called that is not
\* around it.
LEMMA RelationsStill ==
  ASSUME NEW path, NEW blocks, NEW c, ~IsPrefix(c.path, path), NEW relations, RelationsMeant(path, relations, blocks)
  PROVE  RelationsMeant(path, relations, blocks \cup {c})
<1>1. \A n : DeclarationsOf(n, path, blocks \cup {c}) = DeclarationsOf(n, path, blocks)
  BY DeclaredStill
<1>2. \A r : IsMeant(r, path, blocks) => IsMeant(r, path, blocks \cup {c})
  BY <1>1 DEF IsMeant
<1>. QED
  BY <1>2 DEF RelationsMeant

LEMMA NamesCalling ==
  ASSUME Inv, BlocksInv, NamesInv, NEW g, NEW child, NEW step, NEW next, Calls(g, child, step, next), Starts(step),
         InScope(g, Blocks), MeantCtes(g.ctes, top.path, Blocks, ScopeOf(top.query, step))
  PROVE  NamesInv'
<1> DEFINE c      == Block(child)
           blocks == Blocks \cup {c}
<1>1. /\ stack # <<>> /\ top.todo # <<>> /\ stack' = Front(stack) \o <<g, child>> /\ scopes' = scopes
      /\ g.path = top.path /\ g.query = top.query /\ g.level = top.level
      /\ child.path = Append(top.path, step) /\ child.query \in Nodes.blocks /\ child.todo = Agenda(child.query)
      /\ child.level = EmptyLevel /\ child.ctes = g.ctes
  BY DEF Calls
<1>2. /\ DOMAIN stack' = 1..(Len(stack) + 1)
      /\ \A i \in 1..(Len(stack) + 1) : \/ i = Len(stack) + 1 /\ stack'[i] = child
                                        \/ i = Len(stack) /\ stack'[i] = g
                                        \/ i \in 1..(Len(stack) - 1) /\ i \in DOMAIN stack /\ stack'[i] = stack[i]
  BY <1>1, StackCalled
<1>3. /\ IsSeq(child.path)
      /\ \A b \in Blocks : /\ b.path # child.path
                           /\ ~(Len(child.path) <= Len(b.path) /\ SubSeq(b.path, 1, Len(child.path)) = child.path)
  BY <1>1, NewStep, FreshPath
<1>4. c.path = child.path /\ Placed(top.path, top.query, Blocks) /\ GrammarInv
  BY <1>1, BlockFields, TopPlaced
<1> HIDE DEF c
<1>5. \A path \in KnownPaths : ~IsPrefix(c.path, path)
  <2> SUFFICES ASSUME NEW path \in KnownPaths PROVE ~IsPrefix(c.path, path)
    OBVIOUS
  <2>1. PICK b \in Blocks : b.path = path
    BY PathsOfBlocks
  <2>2. IsSeq(path)
    BY DEF Inv, PathsInv
  <2>. QED
    BY <1>3, <1>4, <2>1, <2>2, PrefixOf
<1>6. ASSUME NEW f, f.path \in KnownPaths, FrameMeans(f, Blocks) PROVE FrameMeans(f, blocks)
  BY <1>5, <1>6, MeantStill, RelationsStill DEF FrameMeans, InScope
<1>7. \A i \in DOMAIN stack : FrameMeans(stack[i], blocks)
  BY <1>6 DEF NamesInv, KnownPaths
<1>8. FrameMeans(g, blocks)
  <2>1. g.path \in KnownPaths
    BY <1>1, TopFacts
  <2>2. FrameMeans(g, Blocks)
    BY <1>1, TopMeans DEF FrameMeans
  <2>. QED
    BY <1>6, <2>1, <2>2
<1>9. FrameMeans(child, blocks)
  <2>1. \A b \in Blocks : b.path # c.path
    BY <1>3, <1>4
  <2>2. c.path = Append(top.path, step)
    BY <1>1, <1>4
  <2>3. MeantCtes(g.ctes, Append(top.path, step), Blocks \cup {c}, {})
    BY <1>4, <2>1, <2>2, MeantInside
  <2>4. Entered(child.todo, child.query) = {}
    BY <1>1, <1>4, NoneEntered
  <2>5. InScope(child, blocks)
    BY <1>1, <2>3, <2>4 DEF InScope
  <2>6. DOMAIN child.level.relations = {}
    BY <1>1 DEF EmptyLevel
  <2>. QED
    BY <2>5, <2>6 DEF FrameMeans, RelationsMeant
<1>10. \A s \in scopes : RelationsMeant(s.path, s.chain[1].relations, blocks)
  BY <1>5, RelationsStill DEF NamesInv, KnownPaths
<1> HIDE DEF blocks
<1>11. \A i \in DOMAIN stack' : FrameMeans(stack'[i], blocks)
  BY <1>2, <1>7, <1>8, <1>9
<1>12. Blocks' = blocks
  BY BlocksCalling DEF blocks, c
<1>. QED
  BY <1>1, <1>10, <1>11, <1>12 DEF NamesInv

LEMMA NamesReturning == ASSUME Inv, BlocksInv, NamesInv, Return PROVE NamesInv'
<1> DEFINE s == [path |-> top.path, query |-> top.query, chain |-> <<top.level>> \o top.parent,
                 joins |-> top.joins, ctes |-> top.ctes, outputs |-> top.outputs, compoundOrder |-> top.compoundOrder]
<1>1. stack # <<>> /\ stack' = Front(stack) /\ scopes' = scopes \cup {s}
  BY DEF Return
<1>2. DOMAIN stack' = 1..(Len(stack) - 1) /\ \A i \in 1..(Len(stack) - 1) : i \in DOMAIN stack /\ stack'[i] = stack[i]
  BY <1>1, StackReturned
<1>3. s.path = top.path /\ s.chain[1] = top.level
  <2>1. IsSeq(top.parent)
    BY <1>1, TopFacts DEF FrameInv, KeepsLevels
  <2>2. (<<top.level>> \o top.parent)[1] = top.level
    BY <2>1, OneBefore
  <2>. QED
    BY <2>2
<1> HIDE DEF s
<1>4. RelationsMeant(s.path, s.chain[1].relations, Blocks)
  BY <1>1, <1>3, TopMeans DEF FrameMeans
<1>5. Blocks' = Blocks
  BY BlocksReturning
<1>6. \A i \in DOMAIN stack' : FrameMeans(stack'[i], Blocks)
  BY <1>2 DEF NamesInv
<1>. QED
  BY <1>1, <1>4, <1>5, <1>6 DEF NamesInv

(***************************************************************************)
(* Each step keeps what names mean                                          *)
(***************************************************************************)
\* Past the CTEs of a block all of them are in scope.
LEMMA ScopeStays ==
  ASSUME Inv, BlocksInv, NamesInv, stack # <<>>, top.todo # <<>>, Head(top.todo).do \notin CteKinds,
         NEW g, g.path = top.path, g.query = top.query, g.ctes = top.ctes, IsSeq(g.todo), NoneOf(g.todo, CteKinds)
  PROVE  InScope(g, Blocks) /\ MeantCtes(top.ctes, top.path, Blocks, DOMAIN top.query.with)
<1>1. InScope(top, Blocks)
  BY TopMeans DEF FrameMeans
<1>2. Entered(top.todo, top.query) = DOMAIN top.query.with
  BY DEF Entered
<1>3. Entered(g.todo, g.query) = DOMAIN top.query.with
  BY AllEntered
<1>. QED
  BY <1>1, <1>2, <1>3 DEF InScope

LEMMA NamesPlain == ASSUME Inv, BlocksInv, NamesInv, PlainStep PROVE NamesInv'
<1>1. PICK g, next :
        /\ Moves(g) /\ g.level.relations = top.level.relations /\ g.ctes = top.ctes
        /\ g.todo = next \o Tail(top.todo)
        /\ IsSeq(next) /\ \A i \in DOMAIN next : next[i].do \in {"table", "item", "join", "joined"}
  BY DEF PlainStep
<1>2. stack # <<>> /\ top.todo # <<>> /\ g.query = top.query /\ g.path = top.path
  BY <1>1 DEF Moves
<1>3. Head(top.todo).do \notin CteKinds
  BY DEF PlainStep
<1>4. IsSeq(Tail(top.todo)) /\ NoneOf(Tail(top.todo), CteKinds)
  BY <1>2, <1>3, TopAgenda
<1>5. NoneOf(next, CteKinds)
  BY <1>1 DEF NoneOf, CteKinds
<1>6. IsSeq(g.todo) /\ NoneOf(g.todo, CteKinds)
  BY <1>1, <1>4, <1>5, NoneConcat, SeqConcat
<1>7. InScope(g, Blocks)
  BY <1>1, <1>2, <1>3, <1>6, ScopeStays
<1>8. FrameMeans(g, Blocks)
  BY <1>1, <1>2, <1>7, TopMeans DEF FrameMeans
<1>. QED
  BY <1>1, <1>8, NamesMoving

LEMMA NamesJoin == ASSUME Inv, BlocksInv, NamesInv, JoinStep PROVE NamesInv'
<1> DEFINE rest == Tail(top.todo)
<1>1. PICK g, subs, n :
        /\ Moves(g) /\ g.level.relations = top.level.relations /\ g.ctes = top.ctes
        /\ n \in Nat /\ n <= Len(rest) /\ IsSeq(subs) /\ g.todo = Inserted(rest, subs, n)
        /\ \A i \in DOMAIN subs : subs[i].do = "subquery"
  BY DEF JoinStep, JoinsTo
<1>2. stack # <<>> /\ top.todo # <<>> /\ g.query = top.query /\ g.path = top.path
  BY <1>1 DEF Moves
<1>3. Head(top.todo).do \notin CteKinds
  BY DEF JoinStep, Doing, CteKinds
<1>4. IsSeq(rest) /\ NoneOf(rest, CteKinds)
  BY <1>2, <1>3, TopAgenda
<1> HIDE DEF rest
<1>5. IsSeq(g.todo) /\ \A i \in DOMAIN g.todo : \/ \E j \in DOMAIN rest : g.todo[i] = rest[j]
                                                \/ \E j \in DOMAIN subs : g.todo[i] = subs[j]
  BY <1>1, <1>4, InsertedFacts
<1>6. NoneOf(g.todo, CteKinds)
  BY <1>1, <1>4, <1>5 DEF NoneOf, CteKinds
<1>7. InScope(g, Blocks)
  BY <1>1, <1>2, <1>3, <1>5, <1>6, ScopeStays
<1>8. FrameMeans(g, Blocks)
  BY <1>1, <1>2, <1>7, TopMeans DEF FrameMeans
<1>. QED
  BY <1>1, <1>8, NamesMoving

\* A name in FROM is bound to what is in scope.
LEMMA NameIsMeant ==
  ASSUME Inv, BlocksInv, stack # <<>>, MeantCtes(top.ctes, top.path, Blocks, DOMAIN top.query.with),
         NEW item, item.name \in Tables
  PROVE  IsMeant(TableRelation(item), top.path, Blocks)
<1> DEFINE r   == TableRelation(item)
           cte == CteFor(item)
           visible == IF item.qualified THEN {} ELSE DeclarationsOf(item.name, top.path, Blocks)
<1>1. /\ r.qualified = item.qualified /\ r.name = item.name
      /\ r.kind = (IF cte.declared THEN "cte" ELSE "table") /\ r.body = (IF cte.declared THEN cte.body ELSE <<>>)
  BY DEF TableRelation
<1>2. MeantCte(cte, top.path, visible)
  <2>1. CASE item.qualified
    BY <2>1 DEF CteFor, NoCte, MeantCte
  <2>2. CASE ~item.qualified
    <3>1. Within(item.name, top.path, Blocks, DOMAIN top.query.with) = visible
      BY <2>2, TopPlaced, AllWithin
    <3>2. cte = top.ctes[item.name]
      BY <2>2 DEF CteFor
    <3>. QED
      BY <3>1, <3>2 DEF MeantCtes
  <2>. QED
    BY <2>1, <2>2
<1> HIDE DEF r, cte
<1>3. (IF r.qualified THEN {} ELSE DeclarationsOf(r.name, top.path, Blocks)) = visible
  BY <1>1
<1> HIDE DEF visible
<1>4. IF r.kind = "table" THEN visible = {} ELSE IsLatest(r.body, top.path, visible)
  BY <1>1, <1>2 DEF MeantCte
<1>5. IsMeant(r, top.path, Blocks)
  BY <1>3, <1>4 DEF IsMeant
<1>. QED
  BY <1>5 DEF r

LEMMA NamesAdd == ASSUME Inv, BlocksInv, NamesInv, AddStep PROVE NamesInv'
<1>1. PICK g, r :
        /\ Moves(g) /\ g.level.relations = Append(top.level.relations, r) /\ g.ctes = top.ctes
        /\ g.todo = Tail(top.todo)
        /\ r.kind \in {"table", "cte"} => \E item \in Nodes.items : item.name \in Tables /\ r = TableRelation(item)
  BY DEF AddStep
<1>2. stack # <<>> /\ top.todo # <<>> /\ g.query = top.query /\ g.path = top.path
  BY <1>1 DEF Moves
<1>3. Head(top.todo).do \notin CteKinds
  BY DEF AddStep, CteKinds
<1>4. IsSeq(g.todo) /\ NoneOf(g.todo, CteKinds) /\ IsSeq(top.level.relations)
  BY <1>1, <1>2, <1>3, TopAgenda
<1>5. InScope(g, Blocks) /\ MeantCtes(top.ctes, top.path, Blocks, DOMAIN top.query.with)
  BY <1>1, <1>2, <1>3, <1>4, ScopeStays
<1>6. r.kind \in {"table", "cte"} => IsMeant(r, top.path, Blocks)
  BY <1>1, <1>2, <1>5, NameIsMeant
<1>7. RelationsMeant(top.path, top.level.relations, Blocks)
  BY <1>2, TopMeans DEF FrameMeans
<1>8. RelationsMeant(g.path, g.level.relations, Blocks)
  <2> DEFINE old == top.level.relations
             new == Append(old, r)
  <2>1. /\ IsSeq(new) /\ Len(new) = Len(old) + 1 /\ Len(old) \in Nat /\ DOMAIN old = 1..Len(old)
        /\ (\A i \in 1..Len(old) : new[i] = old[i]) /\ new[Len(old) + 1] = r
    BY <1>4, SeqAppend, SeqFacts
  <2>2. g.level.relations = new /\ RelationsMeant(top.path, old, Blocks)
    BY <1>1, <1>7
  <2> HIDE DEF old, new
  <2>3. DOMAIN new = 1..(Len(old) + 1)
    BY <2>1, SeqFacts
  <2>4. \A i \in DOMAIN new : (i \in DOMAIN old /\ new[i] = old[i]) \/ new[i] = r
    BY <2>1, <2>3
  <2>. QED
    BY <1>2, <1>6, <2>2, <2>4 DEF RelationsMeant
<1>. QED
  BY <1>1, <1>5, <1>8, NamesMoving DEF FrameMeans

\* A CTE comes into scope under its name.
LEMMA ScopeEntered ==
  ASSUME Inv, BlocksInv, stack # <<>>, NEW w \in DOMAIN top.query.with, NEW own,
         Before(top.query, w) \subseteq own, own \subseteq UpTo(top.query, w), MeantCtes(top.ctes, top.path, Blocks, own),
         NEW g, Enters(g, w)
  PROVE  MeantCtes(g.ctes, top.path, Blocks, UpTo(top.query, w))
<1>1. PICK cte : /\ cte.declared /\ cte.body = CteBody(top.query.with[w], w)
                 /\ g.ctes = [top.ctes EXCEPT ![top.query.with[w].name] = cte]
  BY DEF Enters
<1>2. \E step : step.index = w /\ cte.body = Append(top.path, step)
  BY <1>1 DEF CteBody, Step
<1>3. PICK step : step.index = w /\ cte.body = Append(top.path, step)
  BY <1>2
<1>4. Placed(top.path, top.query, Blocks) /\ DOMAIN top.ctes = Tables /\ top.query.with[w].name \in Tables
  BY TopPlaced, Grammar
<1> DEFINE path == top.path
           q    == top.query
           ctes == top.ctes
<1>5. /\ Placed(path, q, Blocks) /\ w \in DOMAIN q.with /\ q.with[w].name \in Tables /\ DOMAIN ctes = Tables
      /\ Before(q, w) \subseteq own /\ own \subseteq UpTo(q, w) /\ MeantCtes(ctes, path, Blocks, own)
      /\ cte.declared /\ step.index = w /\ cte.body = Append(path, step)
      /\ g.ctes = [ctes EXCEPT ![q.with[w].name] = cte]
  BY <1>1, <1>3, <1>4
<1> HIDE DEF path, q, ctes
<1>6. MeantCtes(g.ctes, path, Blocks, UpTo(q, w))
  <2>1. MeantCtes([ctes EXCEPT ![q.with[w].name] = cte], path, Blocks, UpTo(q, w))
    BY ONLY <1>5, Entering
  <2>. QED
    BY <1>5, <2>1
<1>. QED
  BY <1>6 DEF path, q

LEMMA NamesBind == ASSUME Inv, BlocksInv, NamesInv, BindStep PROVE NamesInv'
<1> DEFINE w == Head(top.todo).what
           q == top.query
<1>1. PICK g : Moves(g) /\ g.level.relations = top.level.relations /\ g.todo = Tail(top.todo) /\ Enters(g, w)
  BY DEF BindStep, what
<1>2. stack # <<>> /\ top.todo # <<>> /\ g.query = q /\ g.path = top.path
  BY <1>1 DEF Moves
<1>3. Head(top.todo).do = "bind_cte" /\ w \in DOMAIN q.with
  BY DoingFacts DEF BindStep, TodoInv
<1>4. Entered(g.todo, q) = UpTo(q, w)
  BY <1>1, <1>2, <1>3, TopFresh, EnteredNext DEF FrameFresh
<1>5. Before(q, w) \subseteq Entered(top.todo, q) /\ Entered(top.todo, q) \subseteq UpTo(q, w)
  <2>1. Entered(top.todo, q) = {i \in DOMAIN q.with : i < w \/ (i = w /\ q.with[i].recursive)}
    BY <1>2, <1>3, EnteredAtCte
  <2>2. IsSeq(q.with) /\ DOMAIN q.with = 1..Len(q.with) /\ Len(q.with) \in Nat
    BY <1>2, TopFresh, SeqFacts
  <2> HIDE DEF w, q
  <2>. QED
    BY <1>3, <2>1, <2>2 DEF Before, UpTo
<1>6. MeantCtes(top.ctes, top.path, Blocks, Entered(top.todo, q))
  BY <1>2, TopMeans DEF FrameMeans, InScope
<1>7. MeantCtes(g.ctes, top.path, Blocks, UpTo(q, w))
  BY <1>1, <1>2, <1>3, <1>5, <1>6, ScopeEntered
<1>8. FrameMeans(g, Blocks)
  BY <1>1, <1>2, <1>4, <1>7, TopMeans DEF FrameMeans, InScope
<1>. QED
  BY <1>1, <1>8, NamesMoving

LEMMA NamesCte == ASSUME Inv, BlocksInv, NamesInv, CallCte PROVE NamesInv'
<1> DEFINE w == Head(top.todo).what
           q == top.query
           t == Todo("bind_cte", w)
           next == <<t>>
<1>1. PICK g, child, step :
        /\ Calls(g, child, step, next) /\ step.index = w
        /\ IF q.with[w].recursive THEN step.role = "recursive" /\ Enters(g, w) ELSE step.role = "cte" /\ g.ctes = top.ctes
  BY DEF CallCte, what
<1>2. /\ stack # <<>> /\ top.todo # <<>> /\ g.query = q /\ g.path = top.path /\ g.todo = next \o Tail(top.todo)
  BY <1>1 DEF Calls
<1>3. Head(top.todo).do = "cte" /\ w \in DOMAIN q.with
  BY DoingFacts DEF CallCte, TodoInv
<1>4. IsSeq(q.with) /\ DOMAIN q.with = 1..Len(q.with) /\ Len(q.with) \in Nat
  BY <1>2, TopFresh, SeqFacts
<1>5. Entered(g.todo, q) = {i \in DOMAIN q.with : i < w \/ (i = w /\ q.with[i].recursive)}
  <2>1. t.do = "bind_cte" /\ t.what = w
    BY DEF Todo
  <2> HIDE DEF t
  <2>2. IsSeq(Tail(top.todo))
    BY <1>2, TopAgenda
  <2>3. IsSeq(next \o Tail(top.todo)) /\ DOMAIN (next \o Tail(top.todo)) = 1..(1 + Len(Tail(top.todo))) /\ (next \o Tail(top.todo))[1] = t
    BY <2>2, OneBefore
  <2>4. Len(Tail(top.todo)) \in Nat
    BY <2>2, SeqFacts
  <2>5. g.todo # <<>> /\ Head(g.todo) = t
    BY <1>2, <2>3, <2>4, SeqFacts DEF IsSeq
  <2> HIDE DEF w, q
  <2>. QED
    BY <2>1, <2>5, EnteredAtCte
<1>6. Entered(top.todo, q) = Before(q, w)
  BY <1>2, <1>3, EnteredAtCte
<1>7. MeantCtes(top.ctes, top.path, Blocks, Before(q, w))
  BY <1>2, <1>6, TopMeans DEF FrameMeans, InScope
<1>8. CASE q.with[w].recursive
  <2>1. step.role = "recursive" /\ Enters(g, w)
    BY <1>1, <1>8
  <2>2. Before(q, w) \subseteq UpTo(q, w)
    <3> HIDE DEF w, q
    <3>. QED
      BY <1>3, <1>4 DEF Before, UpTo
  <2>3. MeantCtes(g.ctes, top.path, Blocks, UpTo(q, w))
    BY <1>2, <1>3, <1>7, <2>1, <2>2, ScopeEntered
  <2>4. Entered(g.todo, q) = UpTo(q, w) /\ ScopeOf(q, step) = UpTo(q, w)
    <3>1. \A i \in DOMAIN q.with : (i < w \/ i = w <=> i <= w)
      <4> HIDE DEF w, q
      <4>. QED
        BY <1>3, <1>4
    <3>2. Entered(g.todo, q) = UpTo(q, w)
      BY <1>5, <1>8, <3>1 DEF UpTo
    <3>3. ScopeOf(q, step) = UpTo(q, w)
      BY <1>1, <2>1, <3>1 DEF UpTo, ScopeOf
    <3>. QED
      BY <3>2, <3>3
  <2>5. InScope(g, Blocks) /\ MeantCtes(g.ctes, top.path, Blocks, ScopeOf(q, step))
    BY <1>2, <2>3, <2>4 DEF InScope
  <2>6. Starts(step)
    BY <1>1, <1>3, <2>1 DEF Starts
  <2>. QED
    BY <1>1, <2>5, <2>6, NamesCalling
<1>9. CASE ~q.with[w].recursive
  <2>1. step.role = "cte" /\ g.ctes = top.ctes
    BY <1>1, <1>9
  <2>2. Entered(g.todo, q) = Before(q, w) /\ ScopeOf(q, step) = Before(q, w)
    <3>1. \A i \in DOMAIN q.with : i < w \/ (i = w /\ q.with[i].recursive) <=> i < w
      BY <1>9
    <3>2. Entered(g.todo, q) = Before(q, w)
      BY <1>5, <3>1 DEF Before
    <3>3. ScopeOf(q, step) = Before(q, w)
      BY <1>1, <2>1 DEF Before, ScopeOf
    <3>. QED
      BY <3>2, <3>3
  <2>3. InScope(g, Blocks) /\ MeantCtes(g.ctes, top.path, Blocks, ScopeOf(q, step))
    BY <1>2, <1>7, <2>1, <2>2 DEF InScope
  <2>4. Starts(step)
    BY <1>1, <1>3, <2>1 DEF Starts
  <2>. QED
    BY <1>1, <2>3, <2>4, NamesCalling
<1>. QED
  BY <1>8, <1>9

\* A block that is not a CTE has all CTEs of the block around it in scope.
LEMMA NamesNested ==
  ASSUME Inv, BlocksInv, NamesInv, NEW g, NEW child, NEW step, NEW next, Calls(g, child, step, next), Starts(step),
         g.ctes = top.ctes, Head(top.todo).do \notin CteKinds, IsSeq(next), NoneOf(next, CteKinds),
         step.role \notin {"cte", "recursive"}
  PROVE  NamesInv'
<1>1. stack # <<>> /\ top.todo # <<>> /\ g.query = top.query /\ g.path = top.path /\ g.todo = next \o Tail(top.todo)
  BY DEF Calls
<1>2. IsSeq(Tail(top.todo)) /\ NoneOf(Tail(top.todo), CteKinds)
  BY <1>1, TopAgenda
<1>3. IsSeq(g.todo) /\ NoneOf(g.todo, CteKinds)
  BY <1>1, <1>2, NoneConcat, SeqConcat
<1>4. InScope(g, Blocks) /\ MeantCtes(top.ctes, top.path, Blocks, DOMAIN top.query.with)
  BY <1>1, <1>3, ScopeStays
<1>5. ScopeOf(top.query, step) = DOMAIN top.query.with
  BY DEF ScopeOf
<1>. QED
  BY <1>4, <1>5, NamesCalling

LEMMA NamesDerived == ASSUME Inv, BlocksInv, NamesInv, CallDerived PROVE NamesInv'
<1> DEFINE t    == Todo("bind_derived", what)
           next == <<t>>
<1>1. PICK g, child, step :
        /\ Calls(g, child, step, next) /\ g.ctes = top.ctes
        /\ step.index = Len(top.level.relations) + 1 /\ step.role \in {"lateral", "derived"}
  BY DEF CallDerived
<1>2. Head(top.todo).do = "item"
  BY DEF CallDerived, Doing
<1>3. t.do \notin CteKinds
  BY DEF Todo, CteKinds
<1>4. IsSeq(next) /\ NoneOf(next, CteKinds)
  BY <1>3, NoneOne
<1> HIDE DEF next
<1>5. Starts(step) /\ step.role \notin {"cte", "recursive"} /\ Head(top.todo).do \notin CteKinds
  BY <1>1, <1>2 DEF Starts, CteKinds
<1>. QED
  BY <1>1, <1>4, <1>5, NamesNested

LEMMA NamesArm == ASSUME Inv, BlocksInv, NamesInv, CallArm PROVE NamesInv'
<1>1. PICK g, child, step, t :
        /\ step.role \in {"left", "right"} /\ Doing(step.role) /\ Calls(g, child, step, <<t>>) /\ g.ctes = top.ctes
        /\ t.do \in {"bind_left", "bind_right"}
  BY DEF CallArm
<1>2. Head(top.todo).do = step.role
  BY <1>1 DEF Doing
<1> DEFINE next == <<t>>
<1>3. IsSeq(next) /\ NoneOf(next, CteKinds) /\ Calls(g, child, step, next)
  BY <1>1, NoneOne DEF CteKinds
<1> HIDE DEF next
<1>4. Starts(step) /\ step.role \notin {"cte", "recursive"} /\ Head(top.todo).do \notin CteKinds
  BY <1>1, <1>2 DEF Starts, CteKinds
<1>. QED
  BY <1>1, <1>3, <1>4, NamesNested

LEMMA NamesSubquery == ASSUME Inv, BlocksInv, NamesInv, CallSubquery PROVE NamesInv'
<1> DEFINE next == <<>>
<1>1. PICK g, child, step :
        /\ Calls(g, child, step, next) /\ g.ctes = top.ctes
        /\ step.role = what.role /\ step.index = what.index /\ step.role \in {"where", "on"}
  BY DEF CallSubquery
<1>2. Head(top.todo).do = "subquery" /\ Head(top.todo).what = what
  BY DEF CallSubquery, Doing, what
<1>3. IsSeq(next) /\ NoneOf(next, CteKinds)
  BY SeqEmpty DEF NoneOf
<1> HIDE DEF next
<1>4. Starts(step) /\ step.role \notin {"cte", "recursive"} /\ Head(top.todo).do \notin CteKinds
  BY <1>1, <1>2 DEF Starts, CteKinds
<1>. QED
  BY <1>1, <1>3, <1>4, NamesNested

LEMMA InitNames == Init => NamesInv
<1> SUFFICES ASSUME Init PROVE NamesInv
  OBVIOUS
<1> DEFINE f == Frame(query, <<>>, <<>>, [n \in Tables |-> NoCte])
<1>1. stack = <<f>> /\ scopes = {} /\ query \in Queries
  BY DEF Init
<1>2. /\ f.path = <<>> /\ f.query = query /\ f.todo = Agenda(query) /\ f.level = EmptyLevel
      /\ f.ctes = [n \in Tables |-> NoCte]
  BY DEF Frame
<1> HIDE DEF f
<1>3. DOMAIN stack = {1} /\ stack[1] = f
  BY <1>1
<1>4. Blocks = {Block(f)}
  BY <1>1, <1>3 DEF Blocks
<1>5. GrammarInv /\ query \in Nodes.blocks /\ IsSeq(query.with)
  BY <1>1, TheGrammar, QueriesAssumption, Grammar
<1>6. Entered(f.todo, f.query) = {}
  BY <1>2, <1>5, NoneEntered
<1>7. Placed(f.path, f.query, Blocks)
  BY <1>2, <1>4, <1>5, SeqEmpty, BlockFields DEF Placed
<1>8. ASSUME NEW n \in Tables PROVE Within(n, f.path, Blocks, {}) = {}
  <2>1. \A d \in DeclarationsOf(n, f.path, Blocks) : d[1] \in Nat /\ d[1] <= Len(f.path)
    BY <1>7, OwnDeclared
  <2>2. Len(f.path) = 0
    BY <1>2
  <2>3. \A d \in DeclarationsOf(n, f.path, Blocks) : ~(d[1] < Len(f.path))
    BY <2>1, <2>2
  <2>. QED
    BY <2>3 DEF Within
<1>9. \A n \in Tables : ~f.ctes[n].declared
  BY <1>2 DEF NoCte
<1>10. InScope(f, Blocks)
  BY <1>6, <1>8, <1>9 DEF InScope, MeantCtes, MeantCte
<1>11. RelationsMeant(f.path, f.level.relations, Blocks)
  <2>1. DOMAIN f.level.relations = {}
    BY <1>2 DEF EmptyLevel
  <2>. QED
    BY <2>1 DEF RelationsMeant
<1>. QED
  BY <1>1, <1>3, <1>10, <1>11 DEF NamesInv, FrameMeans

LEMMA StepNames == ASSUME Inv, BlocksInv, NamesInv, [Next]_vars PROVE NamesInv'
<1>1. CASE UNCHANGED vars
  <2>1. Blocks' = Blocks /\ stack' = stack /\ scopes' = scopes
    BY <1>1 DEF vars, Blocks
  <2>. QED
    BY <2>1 DEF NamesInv
<1>. QED
  BY <1>1, Steps, NamesPlain, NamesAdd, NamesJoin, NamesBind, NamesCte, NamesDerived, NamesArm, NamesSubquery, NamesReturning

(***************************************************************************)
(* Once the query is bound all blocks are scopes, and have their names.     *)
(***************************************************************************)
LEMMA SameDeclarations ==
  ASSUME Bound
  PROVE  \A name, path : DeclarationsOf(name, path, scopes) = DeclarationsOf(name, path, Blocks)
<1> SUFFICES ASSUME NEW name, NEW path
             PROVE  DeclarationsOf(name, path, scopes) = DeclarationsOf(name, path, Blocks)
  OBVIOUS
<1>1. Blocks = {Block(s) : s \in scopes}
  <2>1. DOMAIN stack = {}
    BY DEF Bound
  <2>. QED
    BY <2>1 DEF Blocks
<1>2. \A s, d : Declared(name, path, s, d) <=> Declared(name, path, Block(s), d)
  BY BlockFields DEF Declared, Declares
<1>3. \A d : (\E s \in scopes : Declared(name, path, s, d)) <=> (\E b \in Blocks : Declared(name, path, b, d))
  BY ONLY <1>1, <1>2
<1>4. \A d : d \in DeclarationsOf(name, path, scopes) <=> d \in DeclarationsOf(name, path, Blocks)
  BY <1>3, DeclarationsAre
<1>5. \A S, T : DeclarationsOf(name, path, S) = DeclarationsOf(name, path, T)
                 <=> \A d : d \in DeclarationsOf(name, path, S) <=> d \in DeclarationsOf(name, path, T)
  BY DEF DeclarationsOf
<1>. QED
  BY <1>4, <1>5

LEMMA BlocksMeanTheirNames == ASSUME NamesInv, Bound PROVE NamesMeanTheirCtes
<1> SUFFICES ASSUME NEW s \in scopes, NEW r \in ToSet(s.chain[1].relations), r.kind \in {"table", "cte"}
             PROVE  IsMeant(r, s.path, scopes)
  BY DEF NamesMeanTheirCtes
<1>1. PICK i \in DOMAIN s.chain[1].relations : r = s.chain[1].relations[i]
  BY DEF ToSet
<1>2. IsMeant(r, s.path, Blocks)
  BY <1>1 DEF NamesInv, RelationsMeant
<1>3. DeclarationsOf(r.name, s.path, scopes) = DeclarationsOf(r.name, s.path, Blocks)
  BY SameDeclarations
<1>. QED
  BY <1>2, <1>3 DEF IsMeant

\* What a block, or a join condition in it, resolves against are its own relations
\* and those it may see of the blocks around it, level by level; and a name in FROM
\* is the last declaration of a CTE in scope there, or the table if there is none.
THEOREM LexicalScoping == Spec => []ScopesAreLexical
<1>1. Inv /\ SightInv /\ NamesInv => ScopesAreLexical
  BY BlocksSeeLexically, BlocksMeanTheirNames DEF ScopesAreLexical
<1>2. Init => Inv /\ SightInv /\ BlocksInv /\ NamesInv
  BY InitInv, InitSight, InitBlocks, InitNames
<1>3. Inv /\ SightInv /\ BlocksInv /\ NamesInv /\ [Next]_vars => Inv' /\ SightInv' /\ BlocksInv' /\ NamesInv'
  BY StepInv, StepSight, StepBlocks, StepNames
<1>. QED
  BY <1>1, <1>2, <1>3, PTL DEF Spec

===============================================================================
