----------------------- MODULE ColumnUpstream_proofs -----------------------
(***************************************************************************)
(* What bindingUpstream returns is what the graph of columns says, for      *)
(* every query, schema and column that is used.                             *)
(*                                                                          *)
(* The argument has four parts.  The first is about graphs and walks alone: *)
(* the columns reached from some are the least closed set, whichever way    *)
(* they are found, and a stack of calls that never enters a column twice    *)
(* has collected, or still has ahead of it, every table that is reached,    *)
(* and has a reason to call itself incomplete exactly when a cycle or an    *)
(* unresolved binding is met (WalkOk).  The second is what the binder has   *)
(* on record while it builds the blocks (RecordInv): each relation belongs  *)
(* to one block and shows columns of a block that is finished, and outputs  *)
(* refer to relations that exist.  The third is about the query once bound: *)
(* every reference, output and column leads to columns of the query, and    *)
(* what an output is made of can be told by recursion over the blocks       *)
(* below, so the graph is a finite graph with the tables as its ends.  The  *)
(* fourth puts these together: a step of the walk is a step in that graph.  *)
(***************************************************************************)
EXTENDS ColumnUpstream, LexicalScope_proofs

(***************************************************************************)
(* What is reached in a graph of columns                                    *)
(***************************************************************************)
IsGraph(g) == \A k \in DOMAIN g : g[k].next \subseteq DOMAIN g

\* No edge leads out of S, but for those of the columns that are passed over.
Closed(g, S, over) == \A k \in S : k \notin over => g[k].next \subseteq S

\* Every column reached without going on from those that are passed over.
Spans(g, keys, over) ==
  {k \in DOMAIN g : \A S \in SUBSET DOMAIN g : keys \subseteq S /\ Closed(g, S, over) => k \in S}

LEMMA SpansAre ==
  ASSUME NEW g, IsGraph(g), NEW keys, keys \subseteq DOMAIN g, NEW over
  PROVE  /\ keys \subseteq Spans(g, keys, over) /\ Spans(g, keys, over) \subseteq DOMAIN g
         /\ Closed(g, Spans(g, keys, over), over)
         /\ \A S \in SUBSET DOMAIN g : keys \subseteq S /\ Closed(g, S, over) => Spans(g, keys, over) \subseteq S
<1>1. ASSUME NEW k \in Spans(g, keys, over), k \notin over, NEW j \in g[k].next PROVE j \in Spans(g, keys, over)
  <2>1. k \in DOMAIN g /\ j \in DOMAIN g
    BY <1>1 DEF Spans, IsGraph
  <2>2. ASSUME NEW S \in SUBSET DOMAIN g, keys \subseteq S, Closed(g, S, over) PROVE j \in S
    <3>1. k \in S
      BY <1>1, <2>2 DEF Spans
    <3>. QED
      BY <1>1, <2>2, <3>1 DEF Closed
  <2>. QED
    BY <2>1, <2>2 DEF Spans
<1>2. Closed(g, Spans(g, keys, over), over)
  BY <1>1 DEF Closed
<1>3. keys \subseteq Spans(g, keys, over) /\ Spans(g, keys, over) \subseteq DOMAIN g
  BY DEF Spans
<1>4. \A S \in SUBSET DOMAIN g : keys \subseteq S /\ Closed(g, S, over) => Spans(g, keys, over) \subseteq S
  BY DEF Spans
<1>. QED
  BY <1>2, <1>3, <1>4

\* More is reached from more, and passing over less.
LEMMA SpansGrow ==
  ASSUME NEW g, IsGraph(g), NEW few, NEW many, few \subseteq many, many \subseteq DOMAIN g,
         NEW over, NEW less, less \subseteq over
  PROVE  Spans(g, few, over) \subseteq Spans(g, many, less)
<1> DEFINE S == Spans(g, many, less)
<1>1. many \subseteq S /\ S \subseteq DOMAIN g /\ Closed(g, S, less)
  BY SpansAre
<1> HIDE DEF S
<1>2. few \subseteq S /\ few \subseteq DOMAIN g /\ Closed(g, S, over)
  BY <1>1 DEF Closed
<1>3. Spans(g, few, over) \subseteq S
  BY <1>1, <1>2, SpansAre
<1>. QED
  BY <1>3 DEF S

LEMMA SpansOfBoth ==
  ASSUME NEW g, IsGraph(g), NEW x, NEW y, x \subseteq DOMAIN g, y \subseteq DOMAIN g, NEW over
  PROVE  Spans(g, x \cup y, over) = Spans(g, x, over) \cup Spans(g, y, over)
<1> DEFINE X == Spans(g, x, over)
           Y == Spans(g, y, over)
<1>1. x \subseteq X /\ X \subseteq DOMAIN g /\ Closed(g, X, over)
  BY SpansAre
<1>2. y \subseteq Y /\ Y \subseteq DOMAIN g /\ Closed(g, Y, over)
  BY SpansAre
<1>3. x \cup y \subseteq DOMAIN g
  OBVIOUS
<1>4. X \subseteq Spans(g, x \cup y, over) /\ Y \subseteq Spans(g, x \cup y, over)
  BY <1>3, SpansGrow
<1> HIDE DEF X, Y
<1>5. X \cup Y \subseteq DOMAIN g /\ x \cup y \subseteq X \cup Y /\ Closed(g, X \cup Y, over)
  BY <1>1, <1>2 DEF Closed
<1>6. Spans(g, x \cup y, over) \subseteq X \cup Y
  BY <1>3, <1>5, SpansAre
<1>7. Spans(g, x \cup y, over) = X \cup Y
  BY <1>4, <1>6
<1>. QED
  BY <1>7 DEF X, Y

\* A column is left for those it leads to, and not visited again.
LEMMA SpansOfOne ==
  ASSUME NEW g, IsGraph(g), NEW h \in DOMAIN g, NEW over
  PROVE  /\ Spans(g, {h}, over) \subseteq {h} \cup Spans(g, g[h].next, over \cup {h})
         /\ h \in over \/ g[h].next = {} => Spans(g, {h}, over) = {h}
<1> DEFINE N == g[h].next
           S == {h} \cup Spans(g, N, over \cup {h})
<1>1. N \subseteq DOMAIN g /\ {h} \subseteq DOMAIN g
  BY DEF IsGraph
<1>2. /\ N \subseteq Spans(g, N, over \cup {h}) /\ Spans(g, N, over \cup {h}) \subseteq DOMAIN g
      /\ Closed(g, Spans(g, N, over \cup {h}), over \cup {h})
  BY <1>1, SpansAre
<1>3. S \subseteq DOMAIN g /\ {h} \subseteq S /\ Closed(g, S, over)
  BY <1>2 DEF Closed
<1> HIDE DEF S
<1>4. Spans(g, {h}, over) \subseteq S
  BY <1>1, <1>3, SpansAre
<1>5. ASSUME h \in over \/ N = {} PROVE Spans(g, {h}, over) = {h}
  <2>1. Closed(g, {h}, over)
    BY <1>5 DEF Closed
  <2>. QED
    BY <1>1, <2>1, SpansAre
<1>. QED
  BY <1>4, <1>5 DEF S

\* What is passed over and yet reached is so for the first time on some path.
LEMMA SpansMeet ==
  ASSUME NEW g, IsGraph(g), NEW keys, keys \subseteq DOMAIN g, NEW over, NEW k \in Spans(g, keys, {}), k \in over
  PROVE  \E j \in over : j \in Spans(g, keys, over)
<1> SUFFICES ASSUME \A j \in over : j \notin Spans(g, keys, over) PROVE FALSE
  OBVIOUS
<1>1. keys \subseteq Spans(g, keys, over) /\ Spans(g, keys, over) \subseteq DOMAIN g /\ Closed(g, Spans(g, keys, over), over)
  BY SpansAre
<1>2. Closed(g, Spans(g, keys, over), {})
  BY <1>1 DEF Closed
<1>3. Spans(g, keys, {}) \subseteq Spans(g, keys, over)
  BY <1>1, <1>2, SpansAre
<1>. QED
  BY <1>3

\* What is reached from what is reached.
LEMMA SpansOn ==
  ASSUME NEW g, IsGraph(g), NEW keys, keys \subseteq DOMAIN g, NEW more, more \subseteq Spans(g, keys, {})
  PROVE  /\ more \subseteq DOMAIN g
         /\ Spans(g, more, {}) \subseteq Spans(g, keys, {})
         /\ \A k \in more : k \in DOMAIN g /\ g[k].next \subseteq Spans(g, keys, {})
<1>1. Spans(g, keys, {}) \subseteq DOMAIN g /\ Closed(g, Spans(g, keys, {}), {})
  BY SpansAre
<1>2. more \subseteq DOMAIN g
  BY <1>1
<1>3. Spans(g, more, {}) \subseteq Spans(g, keys, {})
  BY <1>1, <1>2, SpansAre
<1>. QED
  BY <1>1, <1>2, <1>3 DEF Closed

(***************************************************************************)
(* The search of the reference finds all of it                              *)
(***************************************************************************)
Wider(g, S) == UNION {{k} \cup g[k].next : k \in S}

\* What is found in n steps.
Finds(f, g, keys) ==
  /\ f \in [Nat -> SUBSET DOMAIN g] /\ f[0] = keys
  /\ \A n \in Nat : f[n + 1] = Wider(g, f[n])

LEMMA SearchExists ==
  ASSUME NEW g, IsGraph(g), NEW keys, keys \subseteq DOMAIN g
  PROVE  \E f : Finds(f, g, keys) /\ Reached(g, keys) = f[Cardinality(DOMAIN g)]
<1> DEFINE V    == SUBSET DOMAIN g
           rank == [n \in Nat |-> n]
           step == [p \in Nat \X [Nat -> V] |-> IF p[1] = 0 THEN keys ELSE Wider(g, p[2][p[1] - 1])]
           Body(f) == [n \in Nat |-> IF n = 0 THEN keys ELSE UNION {{k} \cup g[k].next : k \in f[n - 1]}]
<1>1. ASSUME NEW S \in V PROVE Wider(g, S) \in V
  BY DEF Wider, IsGraph
<1>2. step \in [Nat \X [Nat -> V] -> V]
  <2>1. ASSUME NEW n \in Nat, NEW f \in [Nat -> V] PROVE (IF n = 0 THEN keys ELSE Wider(g, f[n - 1])) \in V
    <3>1. CASE n = 0
      BY <3>1
    <3>2. CASE n # 0
      <4>1. f[n - 1] \in V
        BY <3>2
      <4>. QED
        BY <1>1, <3>2, <4>1
    <3>. QED
      BY <3>1, <3>2
  <2>. QED
    BY <2>1
<1>3. \A n \in Nat, f \in [Nat -> V] : step[<<n, f>>] = IF n = 0 THEN keys ELSE Wider(g, f[n - 1])
  OBVIOUS
<1>4. V # {} /\ rank \in [Nat -> Nat] /\ \A n \in Nat : rank[n] = n
  OBVIOUS
<1> HIDE DEF V, step, rank
<1>5. ASSUME NEW n \in Nat, NEW f \in [Nat -> V], NEW h \in [Nat -> V], \A m \in Nat : rank[m] < rank[n] => f[m] = h[m]
      PROVE  step[<<n, f>>] = step[<<n, h>>]
  <2>1. CASE n = 0
    BY <1>3, <2>1
  <2>2. CASE n # 0
    <3>1. f[n - 1] = h[n - 1]
      BY <1>4, <1>5, <2>2
    <3>. QED
      BY <1>3, <2>2, <3>1
  <2>. QED
    BY <2>1, <2>2
<1>6. PICK f0 : Follows(f0, step, Nat, V)
  BY <1>2, <1>4, <1>5, Recursion
<1>7. f0 = Body(f0)
  <2>1. f0 \in [Nat -> V] /\ \A n \in Nat : f0[n] = IF n = 0 THEN keys ELSE Wider(g, f0[n - 1])
    BY <1>3, <1>6 DEF Follows
  <2>2. \A n \in Nat : f0[n] = Body(f0)[n]
    BY <2>1 DEF Wider
  <2>. QED
    BY <2>1, <2>2
<1> DEFINE f == CHOOSE found : found = Body(found)
<1>8. f = Body(f)
  BY <1>7
<1>9. Reached(g, keys) = f[Cardinality(DOMAIN g)]
  BY DEF Reached
<1> HIDE DEF f
<1>10. \A n \in Nat : f[n] = IF n = 0 THEN keys ELSE Wider(g, f[n - 1])
  BY <1>8 DEF Wider
<1>11. f[0] = keys /\ \A n \in Nat : f[n + 1] = Wider(g, f[n])
  <2>1. \A n \in Nat : n + 1 # 0 /\ n + 1 \in Nat /\ (n + 1) - 1 = n
    OBVIOUS
  <2>. QED
    BY <1>10, <2>1
<1>12. f \in [Nat -> V]
  <2> DEFINE T == {n \in Nat : f[n] \in V}
  <2>1. 0 \in T
    BY <1>11 DEF V
  <2>2. \A n \in Nat : n \in T => n + 1 \in T
    BY <1>1, <1>11
  <2> HIDE DEF T
  <2>3. \A n \in Nat : n \in T
    BY <2>1, <2>2, NaturalSets
  <2>4. \A n \in Nat : f[n] \in V
    BY <2>3 DEF T
  <2>. QED
    BY <1>8, <2>4
<1>. QED
  BY <1>9, <1>11, <1>12 DEF Finds, V

LEMMA ReachedIs ==
  ASSUME NEW g, IsGraph(g), IsFiniteSet(DOMAIN g), NEW keys, keys \subseteq DOMAIN g
  PROVE  Reached(g, keys) = Spans(g, keys, {})
<1> DEFINE K == DOMAIN g
           all == Spans(g, keys, {})
<1>1. PICK f : Finds(f, g, keys) /\ Reached(g, keys) = f[Cardinality(K)]
  BY SearchExists
<1>2. /\ f[0] = keys /\ \A n \in Nat : f[n] \subseteq K /\ f[n + 1] = Wider(g, f[n])
  BY <1>1 DEF Finds
<1>3. keys \subseteq all /\ all \subseteq K /\ Closed(g, all, {})
  BY SpansAre
<1>4. \A n \in Nat : f[n] \subseteq all
  <2> DEFINE T == {n \in Nat : f[n] \subseteq all}
  <2>1. 0 \in T
    BY <1>2, <1>3
  <2>2. ASSUME NEW n \in Nat, n \in T PROVE n + 1 \in T
    <3> HIDE DEF all
    <3>. QED
      BY <1>2, <1>3, <2>2 DEF Wider, Closed
  <2> HIDE DEF T
  <2>3. \A n \in Nat : n \in T
    BY <2>1, <2>2, NaturalSets
  <2>. QED
    BY <2>3 DEF T
<1>5. \A n \in Nat : keys \subseteq f[n]
  <2> DEFINE T == {n \in Nat : keys \subseteq f[n]}
  <2>1. 0 \in T
    BY <1>2
  <2>2. \A n \in Nat : n \in T => n + 1 \in T
    BY <1>2 DEF Wider
  <2> HIDE DEF T
  <2>3. \A n \in Nat : n \in T
    BY <2>1, <2>2, NaturalSets
  <2>. QED
    BY <2>3 DEF T
<1>6. \A n \in Nat : IsFiniteSet(f[n]) /\ Cardinality(f[n]) \in Nat
  BY <1>2, FS_Subset, FS_CardinalityType
\* A set that is not closed yet grows.
<1>7. \A n \in Nat : Closed(g, f[n], {}) \/ n <= Cardinality(f[n])
  <2> DEFINE T == {n \in Nat : Closed(g, f[n], {}) \/ n <= Cardinality(f[n])}
  <2>1. 0 \in T
    BY <1>6
  <2>2. ASSUME NEW n \in Nat, n \in T PROVE n + 1 \in T
    <3>1. CASE Closed(g, f[n], {})
      <4>1. Wider(g, f[n]) = f[n]
        <5>1. \A k \in f[n] : g[k].next \subseteq f[n]
          BY <3>1 DEF Closed
        <5>. QED
          BY <5>1 DEF Wider
      <4>2. f[n + 1] = f[n]
        BY <1>2, <4>1
      <4>. QED
        BY <3>1, <4>2
    <3>2. CASE ~Closed(g, f[n], {})
      <4>1. f[n] \subseteq f[n + 1] /\ f[n] # f[n + 1]
        <5>1. PICK k \in f[n] : ~(g[k].next \subseteq f[n])
          BY <3>2 DEF Closed
        <5>2. g[k].next \subseteq f[n + 1]
          BY <1>2, <5>1 DEF Wider
        <5>. QED
          BY <1>2, <5>1, <5>2 DEF Wider
      <4>2. Cardinality(f[n]) < Cardinality(f[n + 1])
        <5>1. IsFiniteSet(f[n + 1])
          BY <1>6
        <5>2. Cardinality(f[n]) <= Cardinality(f[n + 1]) /\ (Cardinality(f[n]) = Cardinality(f[n + 1]) => f[n] = f[n + 1])
          BY <4>1, <5>1, FS_Subset
        <5>. QED
          BY <1>6, <4>1, <5>2
      <4>3. n <= Cardinality(f[n])
        BY <2>2, <3>2
      <4>4. n + 1 <= Cardinality(f[n + 1])
        <5>1. Cardinality(f[n]) \in Nat /\ Cardinality(f[n + 1]) \in Nat
          BY <1>6
        <5>. QED
          BY <4>2, <4>3, <5>1
      <4>. QED
        BY <4>4
    <3>. QED
      BY <3>1, <3>2
  <2> HIDE DEF T
  <2>3. \A n \in Nat : n \in T
    BY <2>1, <2>2, NaturalSets
  <2>. QED
    BY <2>3 DEF T
<1> DEFINE C == Cardinality(K)
<1>8. C \in Nat
  BY FS_CardinalityType
<1>9. Closed(g, f[C], {})
  <2>1. CASE C <= Cardinality(f[C])
    <3>1. f[C] \subseteq K /\ Cardinality(f[C]) \in Nat
      BY <1>2, <1>6, <1>8
    <3>2. Cardinality(f[C]) <= C /\ (Cardinality(f[C]) = C => f[C] = K)
      BY <3>1, FS_Subset
    <3>3. f[C] = K
      BY <1>8, <2>1, <3>1, <3>2
    <3>. QED
      BY <3>3 DEF Closed, IsGraph
  <2>. QED
    BY <1>7, <1>8, <2>1
<1>10. all \subseteq f[C]
  BY <1>2, <1>5, <1>8, <1>9, SpansAre
<1>11. f[C] = all
  BY <1>4, <1>8, <1>10
<1>. QED
  BY <1>1, <1>11

(***************************************************************************)
(* Bindings in a row                                                        *)
(***************************************************************************)
LEMMA SetOfTail ==
  ASSUME NEW s, IsSeq(s), s # <<>>
  PROVE  IsSeq(Tail(s)) /\ Len(Tail(s)) = Len(s) - 1 /\ ToSet(s) = {Head(s)} \cup ToSet(Tail(s))
<1>1. Len(s) \in Nat \ {0} /\ DOMAIN s = 1..Len(s) /\ Head(s) = s[1]
  BY SeqFacts DEF IsSeq
<1>2. IsSeq(Tail(s)) /\ Len(Tail(s)) = Len(s) - 1 /\ \A i \in 1..(Len(s) - 1) : Tail(s)[i] = s[i + 1]
  BY SeqTail
<1>3. DOMAIN Tail(s) = 1..(Len(s) - 1)
  BY <1>2, SeqFacts
<1> DEFINE t == Tail(s)
           n == Len(s)
<1>4. /\ n \in Nat \ {0} /\ DOMAIN s = 1..n /\ DOMAIN t = 1..(n - 1) /\ Head(s) = s[1]
      /\ \A i \in 1..(n - 1) : t[i] = s[i + 1]
  BY <1>1, <1>2, <1>3
<1> HIDE DEF t, n
<1>5. ASSUME NEW x \in ToSet(s) PROVE x = Head(s) \/ x \in ToSet(t)
  <2>1. PICK i \in 1..n : x = s[i]
    BY <1>4 DEF ToSet
  <2>2. CASE i = 1
    BY <1>4, <2>1, <2>2
  <2>3. CASE i # 1
    <3>1. i - 1 \in 1..(n - 1) /\ (i - 1) + 1 = i
      BY <1>4, <2>3
    <3>2. t[i - 1] = x
      BY <1>4, <2>1, <3>1
    <3>. QED
      BY <1>4, <3>1, <3>2 DEF ToSet
  <2>. QED
    BY <2>2, <2>3
<1>6. Head(s) \in ToSet(s)
  BY <1>4 DEF ToSet
<1>7. ASSUME NEW x \in ToSet(t) PROVE x \in ToSet(s)
  <2>1. PICK i \in 1..(n - 1) : x = t[i]
    BY <1>4 DEF ToSet
  <2>2. i + 1 \in 1..n /\ s[i + 1] = x
    BY <1>4, <2>1
  <2>. QED
    BY <1>4, <2>2 DEF ToSet
<1>8. ToSet(s) = {Head(s)} \cup ToSet(t)
  BY <1>5, <1>6, <1>7
<1>. QED
  BY <1>2, <1>8 DEF t

LEMMA SetOfConcat ==
  ASSUME NEW s, NEW t, IsSeq(s), IsSeq(t)
  PROVE  IsSeq(s \o t) /\ ToSet(s \o t) = ToSet(s) \cup ToSet(t)
<1> DEFINE u == s \o t
<1>1. /\ IsSeq(u) /\ Len(u) = Len(s) + Len(t)
      /\ \A i \in 1..Len(s) : u[i] = s[i]
      /\ \A i \in 1..Len(t) : u[Len(s) + i] = t[i]
      /\ \A i \in DOMAIN u : u[i] = IF i <= Len(s) THEN s[i] ELSE t[i - Len(s)]
  BY SeqConcat
<1>2. Len(s) \in Nat /\ Len(t) \in Nat /\ DOMAIN s = 1..Len(s) /\ DOMAIN t = 1..Len(t)
  BY SeqFacts
<1>3. DOMAIN u = 1..(Len(s) + Len(t))
  BY <1>1, SeqFacts
<1> HIDE DEF u
<1>4. ASSUME NEW x \in ToSet(u) PROVE x \in ToSet(s) \cup ToSet(t)
  <2>1. PICK i \in 1..(Len(s) + Len(t)) : x = u[i]
    BY <1>3 DEF ToSet
  <2>2. \/ i \in 1..Len(s) /\ x = s[i]
        \/ i - Len(s) \in 1..Len(t) /\ x = t[i - Len(s)]
    BY <1>1, <1>2, <1>3, <2>1
  <2>. QED
    BY <1>2, <2>2 DEF ToSet
<1>5. ASSUME NEW i \in 1..Len(s) PROVE s[i] \in ToSet(u)
  <2>1. i \in DOMAIN u /\ u[i] = s[i]
    BY <1>1, <1>2, <1>3
  <2>. QED
    BY <2>1 DEF ToSet
<1>6. ASSUME NEW i \in 1..Len(t) PROVE t[i] \in ToSet(u)
  <2>1. Len(s) + i \in DOMAIN u /\ u[Len(s) + i] = t[i]
    BY <1>1, <1>2, <1>3
  <2>. QED
    BY <2>1 DEF ToSet
<1>7. ToSet(u) = ToSet(s) \cup ToSet(t)
  BY <1>2, <1>4, <1>5, <1>6 DEF ToSet
<1>. QED
  BY <1>1, <1>7 DEF u

LEMMA SetInARow ==
  ASSUME NEW S, IsFiniteSet(S)
  PROVE  IsSeq(SetToSeq(S)) /\ ToSet(SetToSeq(S)) = S
<1> DEFINE n == Cardinality(S)
           s == SetToSeq(S)
<1>1. n \in Nat /\ ExistsBijection(1..n, S)
  BY FS_CardinalityType
<1>2. \E f \in [1..n -> S] : IsInjective(f)
  BY <1>1 DEF ExistsBijection, Bijection, Injection
<1>3. s \in [1..n -> S] /\ IsInjective(s)
  BY <1>2 DEF SetToSeq
<1> HIDE DEF s
<1>4. IsFiniteSet(1..n) /\ Cardinality(1..n) = n
  BY <1>1, FS_Interval
<1>5. s \in Injection(1..n, S)
  BY <1>3 DEF Injection
<1>6. s \in Surjection(1..n, S)
  BY <1>4, <1>5, FS_Injection
<1>7. ToSet(s) = S
  BY <1>3, <1>6 DEF ToSet, Surjection
<1>8. IsSeq(s)
  <2> HIDE DEF n
  <2>1. s \in Seq(S)
    BY <1>1, <1>3
  <2>. QED
    BY <2>1 DEF IsSeq
<1>. QED
  BY <1>7, <1>8 DEF s

(***************************************************************************)
(* Bindings, and the columns they stand for                                 *)
(***************************************************************************)
\* What resolve can say of a reference, in a query whose columns are K.
IsBound(b, K) ==
  /\ b.status \in {"resolved", "coalesced", "unknown", "ambiguous", "missing"}
  /\ IsFiniteSet(b.sources)
  /\ b.status = "resolved" => \E id : b.sources = {id}
  /\ b.status = "coalesced" => b.sources # {}
  /\ KeysOf(b) \subseteq K

AreBound(bindings, K) == IsSeq(bindings) /\ \A b \in ToSet(bindings) : IsBound(b, K)

KeysIn(bindings) == UNION {KeysOf(b) : b \in ToSet(bindings)}

HasUnbound(bindings) == \E b \in ToSet(bindings) : KeysOf(b) = {}

LEMMA NoBindings == \A K : AreBound(<<>>, K) /\ KeysIn(<<>>) = {} /\ ~HasUnbound(<<>>)
<1>1. ToSet(<<>>) = {} /\ IsSeq(<<>>)
  BY SeqEmpty DEF ToSet
<1>. QED
  BY <1>1 DEF AreBound, KeysIn, HasUnbound

LEMMA FirstBinding ==
  ASSUME NEW K, NEW p, AreBound(p, K), p # <<>>
  PROVE  /\ IsBound(Head(p), K) /\ AreBound(Tail(p), K)
         /\ KeysIn(p) = KeysOf(Head(p)) \cup KeysIn(Tail(p))
         /\ HasUnbound(p) <=> KeysOf(Head(p)) = {} \/ HasUnbound(Tail(p))
<1>1. IsSeq(Tail(p)) /\ ToSet(p) = {Head(p)} \cup ToSet(Tail(p))
  BY SetOfTail DEF AreBound
<1>. QED
  BY <1>1 DEF AreBound, KeysIn, HasUnbound

LEMMA MoreBindings ==
  ASSUME NEW K, NEW p, NEW q, AreBound(p, K), AreBound(q, K)
  PROVE  /\ AreBound(p \o q, K) /\ KeysIn(p \o q) = KeysIn(p) \cup KeysIn(q)
         /\ HasUnbound(p \o q) <=> HasUnbound(p) \/ HasUnbound(q)
<1> DEFINE r == p \o q
<1>1. IsSeq(r) /\ ToSet(r) = ToSet(p) \cup ToSet(q)
  BY SetOfConcat DEF AreBound
<1> HIDE DEF r
<1>2. /\ AreBound(r, K) /\ KeysIn(r) = KeysIn(p) \cup KeysIn(q)
      /\ HasUnbound(r) <=> HasUnbound(p) \/ HasUnbound(q)
  BY <1>1 DEF AreBound, KeysIn, HasUnbound
<1>. QED
  BY <1>2 DEF r

LEMMA OneBinding ==
  ASSUME NEW K, NEW b, IsBound(b, K)
  PROVE  AreBound(<<b>>, K) /\ KeysIn(<<b>>) = KeysOf(b) /\ (HasUnbound(<<b>>) <=> KeysOf(b) = {})
<1>1. IsSeq(<<b>>) /\ Len(<<b>>) = 1 /\ <<b>>[1] = b
  BY SeqOne
<1> DEFINE s == <<b>>
<1>2. IsSeq(s) /\ s[1] = b /\ DOMAIN s = {1}
  BY <1>1
<1> HIDE DEF s
<1>3. ToSet(s) = {b}
  BY <1>2 DEF ToSet
<1>4. AreBound(s, K) /\ KeysIn(s) = KeysOf(b) /\ (HasUnbound(s) <=> KeysOf(b) = {})
  BY <1>2, <1>3 DEF AreBound, KeysIn, HasUnbound
<1>. QED
  BY <1>4 DEF s

\* A column of some relations.
LEMMA DirectBindings ==
  ASSUME NEW K, NEW ids, IsFiniteSet(ids), NEW column, \A id \in ids : Key(id, column) \in K
  PROVE  LET p == SetToSeq({Direct(id, column) : id \in ids})
         IN  AreBound(p, K) /\ KeysIn(p) = {Key(id, column) : id \in ids} /\ ~HasUnbound(p)
<1> DEFINE f == [id \in ids |-> Direct(id, column)]
           S == {Direct(id, column) : id \in ids}
           p == SetToSeq(S)
<1>1. IsFiniteSet(S)
  <2>1. f \in Surjection(ids, S)
    BY DEF Surjection
  <2>. QED
    BY <2>1, FS_Surjection
<1>2. IsSeq(p) /\ ToSet(p) = S
  BY <1>1, SetInARow
<1>3. ASSUME NEW id \in ids PROVE IsBound(Direct(id, column), K) /\ KeysOf(Direct(id, column)) = {Key(id, column)}
  <2> DEFINE b == Direct(id, column)
  <2>1. b.status = "resolved" /\ b.sources = {id} /\ b.column = column
    BY DEF Direct, BoundTo, Binding
  <2>2. IsFiniteSet({id})
    BY FS_Singleton
  <2> HIDE DEF b
  <2>3. KeysOf(b) = {Key(id, column)}
    BY <2>1 DEF KeysOf
  <2>4. IsBound(b, K)
    BY <2>1, <2>2, <2>3 DEF IsBound
  <2>. QED
    BY <2>3, <2>4 DEF b
<1> HIDE DEF p
<1>4. AreBound(p, K) /\ ~HasUnbound(p)
  BY <1>2, <1>3 DEF AreBound, HasUnbound
<1>5. KeysIn(p) = {Key(id, column) : id \in ids}
  BY <1>2, <1>3 DEF KeysIn
<1>. QED
  BY <1>4, <1>5 DEF p

(***************************************************************************)
(* The calls of a walk in a graph                                           *)
(***************************************************************************)
Onward(g, keys) == Spans(g, keys, {})

After(g, k) == Onward(g, g[k].next)

\* A graph of columns, its tables, and where a walk starts.
IsMap(g, tables, start) ==
  /\ IsGraph(g) /\ start \subseteq DOMAIN g
  /\ \A t \in tables : t \in DOMAIN g /\ g[t].next = {} /\ g[t].resolved

CallOk(c, g, tables, start) ==
  /\ DOMAIN c = {"key", "pending", "facts", "complete"}
  /\ AreBound(c.pending, DOMAIN g) /\ KeysIn(c.pending) \subseteq Onward(g, start)
  /\ c.facts \subseteq Onward(g, start) \cap tables /\ c.complete \in BOOLEAN

\* The columns being visited are different, and each is reached from those before.
StackOk(cs, g, tables, start) ==
  /\ IsSeq(cs)
  /\ \A i \in DOMAIN cs : CallOk(cs[i], g, tables, start)
  /\ 1 \in DOMAIN cs => cs[1].key = None
  /\ \A i \in DOMAIN cs : i > 1 => cs[i].key \in Onward(g, start) \ tables
  /\ \A i, j \in DOMAIN cs : cs[i].key = cs[j].key => i = j
  /\ \A i, j \in DOMAIN cs : i > 1 /\ j >= i => KeysIn(cs[j].pending) \subseteq After(g, cs[i].key)
  /\ \A i, j \in DOMAIN cs : i > 1 /\ j > i => cs[j].key \in After(g, cs[i].key)

\* The columns that the first n calls are visiting.
Visits(cs, n) == {cs[i].key : i \in 2..n}

\* What the n-th call still comes to, if it visits no column again.
Ahead(cs, n, g) == Spans(g, KeysIn(cs[n].pending), Visits(cs, n))

\* Every table is found, or will be.
Accounted(cs, g, tables, start) ==
  \A t \in Onward(g, start) \cap tables : \E i \in DOMAIN cs : t \in cs[i].facts \/ t \in Ahead(cs, i, g)

Whole(g, start) == start # {} /\ \A k \in Onward(g, start) : g[k].resolved /\ k \notin After(g, k)

\* Nothing is missing so far.
Assured(cs) == \A i \in DOMAIN cs : cs[i].complete /\ ~HasUnbound(cs[i].pending)

Doubtful(v, visited, g) == v \in visited \/ ~g[v].resolved \/ v \in After(g, v)

\* Something is missing, or will be.
Doubts(cs, g) ==
  \E i \in DOMAIN cs : \/ ~cs[i].complete \/ HasUnbound(cs[i].pending)
                       \/ \E v \in Ahead(cs, i, g) : Doubtful(v, Visits(cs, i), g)

Judged(cs, g, start) == IF Whole(g, start) THEN Assured(cs) ELSE Doubts(cs, g)

WalkOk(cs, g, tables, start) ==
  StackOk(cs, g, tables, start) /\ Accounted(cs, g, tables, start) /\ Judged(cs, g, start)

LEMMA StackShrinks ==
  ASSUME NEW g, NEW tables, NEW start, NEW cs, StackOk(cs, g, tables, start), NEW ds, IsSeq(ds), Len(ds) <= Len(cs),
         \A i \in DOMAIN ds : /\ ds[i].key = cs[i].key /\ KeysIn(ds[i].pending) \subseteq KeysIn(cs[i].pending)
                              /\ CallOk(ds[i], g, tables, start)
  PROVE  StackOk(ds, g, tables, start)
<1>1. DOMAIN ds \subseteq DOMAIN cs
  <2>1. Len(ds) \in Nat /\ Len(cs) \in Nat /\ DOMAIN ds = 1..Len(ds) /\ DOMAIN cs = 1..Len(cs)
    BY SeqFacts DEF StackOk
  <2>. QED
    BY <2>1
<1>2. \A i, j \in DOMAIN ds : ds[i].key = ds[j].key => i = j
  BY <1>1 DEF StackOk
<1>3. \A i, j \in DOMAIN ds : i > 1 /\ j >= i => KeysIn(ds[j].pending) \subseteq After(g, ds[i].key)
  BY <1>1 DEF StackOk
<1>4. \A i, j \in DOMAIN ds : i > 1 /\ j > i => ds[j].key \in After(g, ds[i].key)
  BY <1>1 DEF StackOk
<1>. QED
  BY <1>1, <1>2, <1>3, <1>4 DEF StackOk

\* The last of some calls is now d.
Changes(cs, ds, d) ==
  /\ IsSeq(cs) /\ cs # <<>> /\ IsSeq(ds) /\ Len(ds) = Len(cs)
  /\ ds[Len(cs)] = d /\ \A i \in 1..(Len(cs) - 1) : ds[i] = cs[i]

LEMMA Changed ==
  ASSUME NEW cs, IsSeq(cs), cs # <<>>, NEW d
  PROVE  Changes(cs, Front(cs) \o <<d>>, d)
<1> DEFINE front == Front(cs)
           one   == <<d>>
           ds    == front \o one
           n     == Len(cs)
<1>1. IsSeq(front) /\ Len(front) = n - 1 /\ n \in Nat \ {0} /\ \A i \in 1..(n - 1) : front[i] = cs[i]
  BY FrontFacts
<1>2. IsSeq(one) /\ Len(one) = 1 /\ one[1] = d
  BY SeqOne
<1> HIDE DEF front, one, n
<1>3. /\ IsSeq(ds) /\ Len(ds) = Len(front) + Len(one)
      /\ \A i \in 1..Len(front) : ds[i] = front[i]
      /\ \A i \in 1..Len(one) : ds[Len(front) + i] = one[i]
  <2>1. IsSeq(front) /\ IsSeq(one)
    BY <1>1, <1>2
  <2>2. /\ IsSeq(front \o one) /\ Len(front \o one) = Len(front) + Len(one)
        /\ \A i \in 1..Len(front) : (front \o one)[i] = front[i]
        /\ \A i \in 1..Len(one) : (front \o one)[Len(front) + i] = one[i]
    BY ONLY <2>1, SeqConcat
  <2>. QED
    BY <2>2
<1> HIDE DEF ds
<1>4. Len(ds) = n /\ \A i \in 1..(n - 1) : ds[i] = cs[i]
  BY <1>1, <1>2, <1>3
<1>5. ds[n] = d
  <2>1. 1 \in 1..Len(one) /\ Len(front) + 1 = n
    BY <1>1, <1>2
  <2>. QED
    BY <1>2, <1>3, <2>1
<1>6. Changes(cs, ds, d)
  BY <1>1, <1>3, <1>4, <1>5 DEF Changes, n
<1>. QED
  BY <1>6 DEF ds, front, one

LEMMA ChangesFacts ==
  ASSUME NEW cs, NEW ds, NEW d, Changes(cs, ds, d), d.key = cs[Len(cs)].key
  PROVE  /\ Len(cs) \in Nat \ {0} /\ Len(cs) \in DOMAIN cs /\ DOMAIN cs = 1..Len(cs) /\ DOMAIN ds = 1..Len(cs)
         /\ \A i \in DOMAIN cs : /\ ds[i].key = cs[i].key /\ Visits(ds, i) = Visits(cs, i)
                                 /\ i # Len(cs) => ds[i] = cs[i]
<1>1. Len(cs) \in Nat \ {0} /\ DOMAIN cs = 1..Len(cs) /\ DOMAIN ds = 1..Len(cs)
  BY SeqFacts DEF Changes
<1> DEFINE n == Len(cs)
<1>2. /\ n \in Nat \ {0} /\ DOMAIN cs = 1..n /\ DOMAIN ds = 1..n /\ ds[n] = d /\ d.key = cs[n].key
      /\ \A i \in 1..(n - 1) : ds[i] = cs[i]
  BY <1>1 DEF Changes
<1> HIDE DEF n
<1>3. \A i \in 1..n : ds[i].key = cs[i].key /\ (i # n => ds[i] = cs[i])
  BY <1>2
<1>4. \A i \in 1..n : Visits(ds, i) = Visits(cs, i)
  <2>1. ASSUME NEW i \in 1..n PROVE \A j \in 2..i : ds[j].key = cs[j].key
    BY <1>2, <1>3
  <2>. QED
    BY <2>1 DEF Visits
<1>5. n \in DOMAIN cs
  BY <1>2
<1>. QED
  BY <1>2, <1>3, <1>4, <1>5 DEF n

LEMMA ChangesStack ==
  ASSUME NEW g, NEW tables, NEW start, NEW cs, StackOk(cs, g, tables, start),
         NEW ds, NEW d, Changes(cs, ds, d), d.key = cs[Len(cs)].key, CallOk(d, g, tables, start),
         KeysIn(d.pending) \subseteq KeysIn(cs[Len(cs)].pending)
  PROVE  StackOk(ds, g, tables, start)
<1>1. /\ Len(cs) \in Nat \ {0} /\ Len(cs) \in DOMAIN cs /\ DOMAIN cs = 1..Len(cs) /\ DOMAIN ds = 1..Len(cs)
      /\ \A i \in DOMAIN cs : ds[i].key = cs[i].key /\ (i # Len(cs) => ds[i] = cs[i])
  BY ChangesFacts
<1>2. IsSeq(ds) /\ Len(ds) = Len(cs) /\ ds[Len(cs)] = d
  BY DEF Changes
<1>3. ASSUME NEW i \in DOMAIN ds
      PROVE  ds[i].key = cs[i].key /\ KeysIn(ds[i].pending) \subseteq KeysIn(cs[i].pending) /\ CallOk(ds[i], g, tables, start)
  BY <1>1, <1>2, <1>3 DEF StackOk
<1>. QED
  BY <1>1, <1>2, <1>3, StackShrinks

\* The last call takes a binding that leads nowhere new: what it found is kept.
LEMMA ChangesAccount ==
  ASSUME NEW g, NEW tables, NEW start, IsMap(g, tables, start), NEW cs, StackOk(cs, g, tables, start), Accounted(cs, g, tables, start),
         NEW ds, NEW d, Changes(cs, ds, d), d.key = cs[Len(cs)].key, cs[Len(cs)].facts \subseteq d.facts,
         \A t \in tables : t \in Ahead(cs, Len(cs), g) => t \in d.facts \/ t \in Spans(g, KeysIn(d.pending), Visits(cs, Len(cs)))
  PROVE  Accounted(ds, g, tables, start)
<1> DEFINE n == Len(cs)
<1>1. /\ n \in DOMAIN cs /\ DOMAIN ds = DOMAIN cs /\ ds[n] = d
      /\ \A i \in DOMAIN cs : Visits(ds, i) = Visits(cs, i) /\ (i # n => ds[i] = cs[i])
  BY ChangesFacts DEF Changes
<1> HIDE DEF n
<1>2. ASSUME NEW t \in Onward(g, start) \cap tables PROVE \E i \in DOMAIN ds : t \in ds[i].facts \/ t \in Ahead(ds, i, g)
  <2>1. PICK i \in DOMAIN cs : t \in cs[i].facts \/ t \in Ahead(cs, i, g)
    BY DEF Accounted
  <2>2. CASE i # n
    BY <1>1, <2>1, <2>2 DEF Ahead
  <2>3. CASE i = n
    BY <1>1, <2>1, <2>3 DEF Ahead, n
  <2>. QED
    BY <2>2, <2>3
<1>. QED
  BY <1>2 DEF Accounted

\* What was in doubt stays so.
LEMMA ChangesDoubt ==
  ASSUME NEW g, NEW cs, NEW ds, NEW d, Changes(cs, ds, d), d.key = cs[Len(cs)].key, Doubts(cs, g),
         \/ ~cs[Len(cs)].complete \/ HasUnbound(cs[Len(cs)].pending)
         \/ (\E v \in Ahead(cs, Len(cs), g) : Doubtful(v, Visits(cs, Len(cs)), g))
         => \/ ~d.complete \/ HasUnbound(d.pending)
            \/ \E v \in Spans(g, KeysIn(d.pending), Visits(cs, Len(cs))) : Doubtful(v, Visits(cs, Len(cs)), g)
  PROVE  Doubts(ds, g)
<1> DEFINE n == Len(cs)
<1>1. /\ n \in DOMAIN cs /\ DOMAIN ds = DOMAIN cs /\ ds[n] = d
      /\ \A i \in DOMAIN cs : Visits(ds, i) = Visits(cs, i) /\ (i # n => ds[i] = cs[i])
  BY ChangesFacts DEF Changes
<1> HIDE DEF n
<1>2. PICK i \in DOMAIN cs : \/ ~cs[i].complete \/ HasUnbound(cs[i].pending)
                             \/ \E v \in Ahead(cs, i, g) : Doubtful(v, Visits(cs, i), g)
  BY DEF Doubts
<1>3. CASE i # n
  BY <1>1, <1>2, <1>3 DEF Ahead, Doubts
<1>4. CASE i = n
  <2>1. \/ ~d.complete \/ HasUnbound(d.pending)
        \/ \E v \in Spans(g, KeysIn(d.pending), Visits(cs, n)) : Doubtful(v, Visits(cs, n), g)
    BY <1>2, <1>4 DEF n
  <2>. QED
    BY <1>1, <2>1 DEF Ahead, Doubts
<1>. QED
  BY <1>3, <1>4

LEMMA ChangesAssured ==
  ASSUME NEW cs, NEW ds, NEW d, Changes(cs, ds, d), d.key = cs[Len(cs)].key, Assured(cs), d.complete, ~HasUnbound(d.pending)
  PROVE  Assured(ds)
<1> DEFINE n == Len(cs)
<1>1. DOMAIN ds = DOMAIN cs /\ ds[n] = d /\ \A i \in DOMAIN cs : i # n => ds[i] = cs[i]
  BY ChangesFacts DEF Changes
<1> HIDE DEF n
<1>. QED
  BY <1>1 DEF Assured

\* A call with a binding to take.
Takes(cs, c, b, g, tables, start) ==
  /\ IsMap(g, tables, start) /\ WalkOk(cs, g, tables, start)
  /\ cs # <<>> /\ c = cs[Len(cs)] /\ c.pending # <<>> /\ b = Head(c.pending)

LEMMA TakesFacts ==
  ASSUME NEW cs, NEW c, NEW b, NEW g, NEW tables, NEW start, Takes(cs, c, b, g, tables, start)
  PROVE  /\ Len(cs) \in Nat \ {0} /\ Len(cs) \in DOMAIN cs /\ DOMAIN cs = 1..Len(cs)
         /\ CallOk(c, g, tables, start) /\ IsBound(b, DOMAIN g) /\ AreBound(Tail(c.pending), DOMAIN g)
         /\ KeysIn(c.pending) = KeysOf(b) \cup KeysIn(Tail(c.pending))
         /\ HasUnbound(c.pending) <=> KeysOf(b) = {} \/ HasUnbound(Tail(c.pending))
         /\ KeysOf(b) \subseteq Onward(g, start) /\ Onward(g, start) \subseteq DOMAIN g
         /\ Ahead(cs, Len(cs), g) = Spans(g, KeysOf(b), Visits(cs, Len(cs))) \cup Spans(g, KeysIn(Tail(c.pending)), Visits(cs, Len(cs)))
         /\ \A k \in Visits(cs, Len(cs)) : k \in Onward(g, start) \ tables /\ KeysIn(c.pending) \subseteq After(g, k)
<1> DEFINE n == Len(cs)
           tail == Tail(c.pending)
<1>1. n \in Nat \ {0} /\ n \in DOMAIN cs /\ DOMAIN cs = 1..n
  BY SeqFacts DEF Takes, WalkOk, StackOk
<1>2. CallOk(c, g, tables, start)
  BY <1>1 DEF Takes, WalkOk, StackOk
<1>3. /\ IsBound(b, DOMAIN g) /\ AreBound(tail, DOMAIN g)
      /\ KeysIn(c.pending) = KeysOf(b) \cup KeysIn(tail)
      /\ HasUnbound(c.pending) <=> KeysOf(b) = {} \/ HasUnbound(tail)
  BY <1>2, FirstBinding DEF CallOk, Takes
<1>4. KeysOf(b) \subseteq Onward(g, start) /\ Onward(g, start) \subseteq DOMAIN g
  BY <1>2, <1>3, SpansAre DEF CallOk, Onward, Takes, IsMap
<1> HIDE DEF n, tail
<1>5. Ahead(cs, n, g) = Spans(g, KeysOf(b), Visits(cs, n)) \cup Spans(g, KeysIn(tail), Visits(cs, n))
  <2>1. KeysOf(b) \subseteq DOMAIN g /\ KeysIn(tail) \subseteq DOMAIN g
    BY <1>2, <1>3, <1>4 DEF CallOk
  <2>2. Ahead(cs, n, g) = Spans(g, KeysOf(b) \cup KeysIn(tail), Visits(cs, n))
    BY <1>3 DEF Ahead, Takes, n
  <2>. QED
    BY <2>1, <2>2, SpansOfBoth DEF Takes, IsMap
<1>6. ASSUME NEW k \in Visits(cs, n) PROVE k \in Onward(g, start) \ tables /\ KeysIn(c.pending) \subseteq After(g, k)
  <2>1. PICK i \in 2..n : k = cs[i].key
    BY DEF Visits
  <2>2. i \in DOMAIN cs /\ i > 1 /\ n >= i
    BY <1>1, <2>1
  <2>3. c = cs[n]
    BY DEF Takes, n
  <2>. QED
    BY <1>1, <2>1, <2>2, <2>3 DEF Takes, WalkOk, StackOk
<1>. QED
  BY <1>1, <1>2, <1>3, <1>4, <1>5, <1>6 DEF n, tail

\* The call goes on with what is left, d, having found or missed something.
GoesOnWith(cs, ds, c, d) ==
  /\ Changes(cs, ds, d) /\ DOMAIN d = DOMAIN c /\ d.key = c.key /\ d.pending = Tail(c.pending)
  /\ c.facts \subseteq d.facts /\ d.complete \in BOOLEAN

LEMMA TakenStack ==
  ASSUME NEW cs, NEW c, NEW b, NEW g, NEW tables, NEW start, Takes(cs, c, b, g, tables, start),
         NEW ds, NEW d, GoesOnWith(cs, ds, c, d), d.facts \subseteq Onward(g, start) \cap tables
  PROVE  /\ StackOk(ds, g, tables, start) /\ Changes(cs, ds, d) /\ d.key = cs[Len(cs)].key
         /\ cs[Len(cs)].facts \subseteq d.facts
         /\ DOMAIN ds = DOMAIN cs /\ Len(cs) \in DOMAIN ds /\ ds[Len(cs)] = d
<1>1. /\ CallOk(c, g, tables, start) /\ AreBound(Tail(c.pending), DOMAIN g)
      /\ KeysIn(Tail(c.pending)) \subseteq KeysIn(c.pending)
  BY TakesFacts
<1>2. c = cs[Len(cs)] /\ StackOk(cs, g, tables, start)
  BY DEF Takes, WalkOk
<1>3. CallOk(d, g, tables, start)
  BY <1>1 DEF CallOk, GoesOnWith
<1>4. Changes(cs, ds, d) /\ d.key = cs[Len(cs)].key /\ KeysIn(d.pending) \subseteq KeysIn(cs[Len(cs)].pending)
  BY <1>1, <1>2 DEF GoesOnWith
<1>5. StackOk(ds, g, tables, start)
  BY <1>2, <1>3, <1>4, ChangesStack
<1>6. DOMAIN ds = DOMAIN cs /\ Len(cs) \in DOMAIN ds /\ ds[Len(cs)] = d
  BY <1>4, ChangesFacts DEF Changes
<1>. QED
  BY <1>2, <1>4, <1>5, <1>6 DEF GoesOnWith

\* A binding that stands for no column.
LEMMA WalkUnbound ==
  ASSUME NEW cs, NEW c, NEW b, NEW g, NEW tables, NEW start, Takes(cs, c, b, g, tables, start), KeysOf(b) = {},
         NEW ds, NEW d, GoesOnWith(cs, ds, c, d), d.facts = c.facts, ~d.complete
  PROVE  WalkOk(ds, g, tables, start)
<1> DEFINE n == Len(cs)
<1>1. /\ CallOk(c, g, tables, start) /\ HasUnbound(c.pending) /\ n \in DOMAIN cs
      /\ Ahead(cs, n, g) = Spans(g, {}, Visits(cs, n)) \cup Spans(g, KeysIn(Tail(c.pending)), Visits(cs, n))
  <2>1. /\ CallOk(c, g, tables, start) /\ Len(cs) \in DOMAIN cs
        /\ KeysIn(c.pending) = KeysOf(b) \cup KeysIn(Tail(c.pending))
        /\ HasUnbound(c.pending) <=> KeysOf(b) = {} \/ HasUnbound(Tail(c.pending))
        /\ KeysOf(b) \subseteq Onward(g, start) /\ Onward(g, start) \subseteq DOMAIN g
        /\ Ahead(cs, Len(cs), g) = Spans(g, KeysOf(b), Visits(cs, Len(cs))) \cup Spans(g, KeysIn(Tail(c.pending)), Visits(cs, Len(cs)))
        /\ \A j \in Visits(cs, Len(cs)) : j \in Onward(g, start) \ tables /\ KeysIn(c.pending) \subseteq After(g, j)
    BY TakesFacts
  <2>. QED
    BY <2>1
<1>2. d.facts \subseteq Onward(g, start) \cap tables
  BY <1>1 DEF CallOk
<1>3. /\ StackOk(ds, g, tables, start) /\ Changes(cs, ds, d) /\ d.key = cs[Len(cs)].key
      /\ cs[Len(cs)].facts \subseteq d.facts
      /\ Len(cs) \in DOMAIN ds /\ ds[Len(cs)] = d
  BY <1>2, TakenStack
<1>4. c = cs[n] /\ IsMap(g, tables, start) /\ WalkOk(cs, g, tables, start)
  BY DEF Takes
<1>5. Spans(g, {}, Visits(cs, n)) = {}
  <2>1. IsGraph(g) /\ {} \subseteq DOMAIN g /\ Closed(g, {}, Visits(cs, n))
    BY <1>4 DEF IsMap, Closed
  <2>. QED
    BY <2>1, SpansAre
<1>6. Accounted(ds, g, tables, start)
  <2>1. \A t \in tables : t \in Ahead(cs, n, g) => t \in Spans(g, KeysIn(d.pending), Visits(cs, n))
    BY <1>1, <1>5 DEF GoesOnWith
  <2>. QED
    BY <1>3, <1>4, <2>1, ChangesAccount DEF WalkOk
<1>7. Judged(ds, g, start)
  <2>1. ~Whole(g, start)
    BY <1>1, <1>4 DEF WalkOk, Judged, Assured
  <2>2. Doubts(ds, g)
    BY <1>3 DEF Doubts
  <2>. QED
    BY <2>1, <2>2 DEF Judged
<1>. QED
  BY <1>3, <1>6, <1>7 DEF WalkOk

\* A column of a table.
LEMMA WalkTable ==
  ASSUME NEW cs, NEW c, NEW b, NEW g, NEW tables, NEW start, Takes(cs, c, b, g, tables, start),
         NEW k \in tables, KeysOf(b) = {k},
         NEW ds, NEW d, GoesOnWith(cs, ds, c, d), d.facts = c.facts \cup {k}, d.complete = c.complete
  PROVE  WalkOk(ds, g, tables, start)
<1> DEFINE n == Len(cs)
<1>1. /\ CallOk(c, g, tables, start) /\ n \in DOMAIN cs
      /\ HasUnbound(c.pending) <=> HasUnbound(Tail(c.pending))
      /\ {k} \subseteq Onward(g, start)
      /\ Ahead(cs, n, g) = Spans(g, {k}, Visits(cs, n)) \cup Spans(g, KeysIn(Tail(c.pending)), Visits(cs, n))
      /\ \A j \in Visits(cs, n) : j \notin tables
  <2>1. /\ CallOk(c, g, tables, start) /\ Len(cs) \in DOMAIN cs
        /\ KeysIn(c.pending) = KeysOf(b) \cup KeysIn(Tail(c.pending))
        /\ HasUnbound(c.pending) <=> KeysOf(b) = {} \/ HasUnbound(Tail(c.pending))
        /\ KeysOf(b) \subseteq Onward(g, start) /\ Onward(g, start) \subseteq DOMAIN g
        /\ Ahead(cs, Len(cs), g) = Spans(g, KeysOf(b), Visits(cs, Len(cs))) \cup Spans(g, KeysIn(Tail(c.pending)), Visits(cs, Len(cs)))
        /\ \A j \in Visits(cs, Len(cs)) : j \in Onward(g, start) \ tables /\ KeysIn(c.pending) \subseteq After(g, j)
    BY TakesFacts
  <2>. QED
    BY <2>1
<1>2. d.facts \subseteq Onward(g, start) \cap tables
  BY <1>1 DEF CallOk
<1>3. /\ StackOk(ds, g, tables, start) /\ Changes(cs, ds, d) /\ d.key = cs[Len(cs)].key
      /\ cs[Len(cs)].facts \subseteq d.facts
      /\ Len(cs) \in DOMAIN ds /\ ds[Len(cs)] = d
  BY <1>2, TakenStack
<1>4. c = cs[n] /\ IsMap(g, tables, start) /\ WalkOk(cs, g, tables, start)
  BY DEF Takes
<1>5. k \in DOMAIN g /\ g[k].next = {} /\ g[k].resolved /\ Spans(g, {k}, Visits(cs, n)) = {k}
  <2>1. IsGraph(g) /\ k \in DOMAIN g /\ g[k].next = {} /\ g[k].resolved
    BY <1>4 DEF IsMap
  <2>. QED
    BY <2>1, SpansOfOne
<1>6. Accounted(ds, g, tables, start)
  <2>1. \A t \in tables : t \in Ahead(cs, n, g) => t \in d.facts \/ t \in Spans(g, KeysIn(d.pending), Visits(cs, n))
    BY <1>1, <1>5 DEF GoesOnWith
  <2>. QED
    BY <1>3, <1>4, <2>1, ChangesAccount DEF WalkOk
<1>7. ~Doubtful(k, Visits(cs, n), g)
  <2>1. After(g, k) = {}
    <3>1. IsGraph(g) /\ {} \subseteq DOMAIN g /\ Closed(g, {}, {})
      BY <1>4 DEF IsMap, Closed
    <3>2. Spans(g, {}, {}) = {}
      BY <3>1, SpansAre
    <3>. QED
      BY <1>5, <3>2 DEF After, Onward
  <2>. QED
    BY <1>1, <1>5, <2>1 DEF Doubtful
<1>8. Judged(ds, g, start)
  <2>1. CASE Whole(g, start)
    <3>1. Assured(cs)
      BY <1>4, <2>1 DEF WalkOk, Judged
    <3>2. d.complete /\ ~HasUnbound(d.pending)
      BY <1>1, <1>4, <3>1 DEF Assured, GoesOnWith
    <3>. QED
      BY <1>3, <2>1, <3>1, <3>2, ChangesAssured DEF Judged
  <2>2. CASE ~Whole(g, start)
    <3>1. Doubts(cs, g)
      BY <1>4, <2>2 DEF WalkOk, Judged
    <3>2. ASSUME NEW v \in Ahead(cs, n, g), Doubtful(v, Visits(cs, n), g) PROVE v \in Spans(g, KeysIn(d.pending), Visits(cs, n))
      BY <1>1, <1>5, <1>7, <3>2 DEF GoesOnWith
    <3>3. \/ ~cs[n].complete \/ HasUnbound(cs[n].pending)
          \/ (\E v \in Ahead(cs, n, g) : Doubtful(v, Visits(cs, n), g))
          => \/ ~d.complete \/ HasUnbound(d.pending)
             \/ \E v \in Spans(g, KeysIn(d.pending), Visits(cs, n)) : Doubtful(v, Visits(cs, n), g)
      BY <1>1, <1>4, <3>2 DEF GoesOnWith
    <3>4. Doubts(ds, g)
      BY <1>3, <3>1, <3>3, ChangesDoubt
    <3>. QED
      BY <2>2, <3>4 DEF Judged
  <2>. QED
    BY <2>1, <2>2
<1>. QED
  BY <1>3, <1>6, <1>8 DEF WalkOk

\* A column that is being visited already, or has no source.
LEMMA WalkCut ==
  ASSUME NEW cs, NEW c, NEW b, NEW g, NEW tables, NEW start, Takes(cs, c, b, g, tables, start),
         NEW k, k \notin tables, KeysOf(b) = {k}, k \in Visits(cs, Len(cs)) \/ (g[k].next = {} /\ ~g[k].resolved),
         NEW ds, NEW d, GoesOnWith(cs, ds, c, d), d.facts = c.facts, ~d.complete
  PROVE  WalkOk(ds, g, tables, start)
<1> DEFINE n == Len(cs)
<1>1. /\ CallOk(c, g, tables, start) /\ n \in DOMAIN cs
      /\ k \in Onward(g, start) /\ Onward(g, start) \subseteq DOMAIN g
      /\ Ahead(cs, n, g) = Spans(g, {k}, Visits(cs, n)) \cup Spans(g, KeysIn(Tail(c.pending)), Visits(cs, n))
      /\ \A j \in Visits(cs, n) : KeysIn(c.pending) \subseteq After(g, j)
      /\ k \in KeysIn(c.pending)
  <2>1. /\ CallOk(c, g, tables, start) /\ Len(cs) \in DOMAIN cs
        /\ KeysIn(c.pending) = KeysOf(b) \cup KeysIn(Tail(c.pending))
        /\ HasUnbound(c.pending) <=> KeysOf(b) = {} \/ HasUnbound(Tail(c.pending))
        /\ KeysOf(b) \subseteq Onward(g, start) /\ Onward(g, start) \subseteq DOMAIN g
        /\ Ahead(cs, Len(cs), g) = Spans(g, KeysOf(b), Visits(cs, Len(cs))) \cup Spans(g, KeysIn(Tail(c.pending)), Visits(cs, Len(cs)))
        /\ \A j \in Visits(cs, Len(cs)) : j \in Onward(g, start) \ tables /\ KeysIn(c.pending) \subseteq After(g, j)
    BY TakesFacts
  <2>. QED
    BY <2>1
<1>2. d.facts \subseteq Onward(g, start) \cap tables
  BY <1>1 DEF CallOk
<1>3. /\ StackOk(ds, g, tables, start) /\ Changes(cs, ds, d) /\ d.key = cs[Len(cs)].key
      /\ cs[Len(cs)].facts \subseteq d.facts
      /\ Len(cs) \in DOMAIN ds /\ ds[Len(cs)] = d
  BY <1>2, TakenStack
<1>4. c = cs[n] /\ IsMap(g, tables, start) /\ WalkOk(cs, g, tables, start)
  BY DEF Takes
<1>5. Spans(g, {k}, Visits(cs, n)) = {k}
  <2>1. IsGraph(g) /\ k \in DOMAIN g
    BY <1>1, <1>4 DEF IsMap
  <2>. QED
    BY <2>1, SpansOfOne
<1>6. Accounted(ds, g, tables, start)
  <2>1. \A t \in tables : t \in Ahead(cs, n, g) => t \in Spans(g, KeysIn(d.pending), Visits(cs, n))
    BY <1>1, <1>5 DEF GoesOnWith
  <2>. QED
    BY <1>3, <1>4, <2>1, ChangesAccount DEF WalkOk
<1>7. Judged(ds, g, start)
  <2>1. ~Whole(g, start)
    <3>1. CASE k \in Visits(cs, n)
      <4>1. k \in After(g, k)
        BY <1>1, <3>1
      <4>. QED
        BY <1>1, <4>1 DEF Whole
    <3>2. CASE ~g[k].resolved
      BY <1>1, <3>2 DEF Whole
    <3>. QED
      BY <3>1, <3>2
  <2>2. Doubts(ds, g)
    BY <1>3 DEF Doubts
  <2>. QED
    BY <2>1, <2>2 DEF Judged
<1>. QED
  BY <1>3, <1>6, <1>7 DEF WalkOk

\* The bindings of the call stand for the same columns as before.
LEMMA WalkSame ==
  ASSUME NEW cs, NEW c, NEW g, NEW tables, NEW start, IsMap(g, tables, start), WalkOk(cs, g, tables, start),
         cs # <<>>, c = cs[Len(cs)], NEW ds, NEW d, Changes(cs, ds, d), DOMAIN d = DOMAIN c, d.key = c.key,
         d.facts = c.facts, d.complete = c.complete, AreBound(d.pending, DOMAIN g), KeysIn(d.pending) = KeysIn(c.pending),
         HasUnbound(d.pending) <=> HasUnbound(c.pending)
  PROVE  WalkOk(ds, g, tables, start)
<1> DEFINE n == Len(cs)
<1>1. /\ n \in DOMAIN cs /\ DOMAIN ds = DOMAIN cs /\ ds[n] = d
      /\ \A i \in DOMAIN cs : Visits(ds, i) = Visits(cs, i) /\ (i # n => ds[i] = cs[i])
  BY ChangesFacts DEF Changes
<1>2. StackOk(cs, g, tables, start) /\ Accounted(cs, g, tables, start) /\ Judged(cs, g, start)
  BY DEF WalkOk
<1>3. CallOk(c, g, tables, start)
  BY <1>1, <1>2 DEF StackOk
<1>4. CallOk(d, g, tables, start)
  BY <1>3 DEF CallOk
<1>5. StackOk(ds, g, tables, start)
  BY <1>2, <1>4, ChangesStack
<1> HIDE DEF n
<1>6. \A i \in DOMAIN cs : /\ Ahead(ds, i, g) = Ahead(cs, i, g) /\ ds[i].facts = cs[i].facts /\ ds[i].complete = cs[i].complete
                           /\ HasUnbound(ds[i].pending) <=> HasUnbound(cs[i].pending)
  BY <1>1 DEF Ahead, n
<1>7. Accounted(ds, g, tables, start)
  BY <1>1, <1>2, <1>6 DEF Accounted
<1>8. Assured(cs) => Assured(ds)
  BY <1>1, <1>6 DEF Assured
<1>9. Doubts(cs, g) => Doubts(ds, g)
  BY <1>1, <1>6 DEF Doubts
<1>. QED
  BY <1>2, <1>5, <1>7, <1>8, <1>9 DEF WalkOk, Judged

\* A call is added to some.
Grown(es, ds, f) ==
  /\ IsSeq(ds) /\ Len(ds) = Len(es) + 1
  /\ ds[Len(es) + 1] = f /\ \A i \in 1..Len(es) : ds[i] = es[i]

\* The column is visited: the call goes on with d, and f is the call for the column.
EntersColumn(cs, es, ds, c, d, f, k, g) ==
  /\ GoesOnWith(cs, es, c, d) /\ d.facts = c.facts /\ d.complete = c.complete
  /\ Grown(es, ds, f) /\ k \notin Visits(cs, Len(cs)) /\ k # None
  /\ DOMAIN f = DOMAIN c /\ f.key = k /\ f.facts = {} /\ f.complete \in BOOLEAN
  /\ AreBound(f.pending, DOMAIN g) /\ KeysIn(f.pending) = g[k].next
  /\ g[k].resolved <=> f.complete /\ ~HasUnbound(f.pending)

LEMMA EntersStack ==
  ASSUME NEW cs, NEW c, NEW b, NEW g, NEW tables, NEW start, Takes(cs, c, b, g, tables, start),
         NEW k, k \notin tables, KeysOf(b) = {k}, NEW es, NEW ds, NEW d, NEW f, EntersColumn(cs, es, ds, c, d, f, k, g)
  PROVE  LET n == Len(cs)
         IN  /\ StackOk(ds, g, tables, start)
             /\ n \in Nat \ {0} /\ DOMAIN cs = 1..n /\ DOMAIN ds = 1..(n + 1) /\ ds[n + 1] = f /\ ds[n] = d
             /\ \A i \in 1..n : Visits(ds, i) = Visits(cs, i) /\ (i # n => ds[i] = cs[i])
             /\ Visits(ds, n + 1) = Visits(cs, n) \cup {k}
<1> DEFINE n == Len(cs)
<1>1. /\ CallOk(c, g, tables, start) /\ n \in DOMAIN cs /\ n \in Nat \ {0} /\ DOMAIN cs = 1..n
      /\ k \in Onward(g, start) /\ k \in DOMAIN g /\ k \in KeysIn(c.pending)
      /\ \A j \in Visits(cs, n) : KeysIn(c.pending) \subseteq After(g, j)
  <2>1. /\ CallOk(c, g, tables, start) /\ n \in DOMAIN cs /\ n \in Nat \ {0} /\ DOMAIN cs = 1..n
        /\ KeysIn(c.pending) = KeysOf(b) \cup KeysIn(Tail(c.pending))
        /\ KeysOf(b) \subseteq Onward(g, start) /\ Onward(g, start) \subseteq DOMAIN g
        /\ \A j \in Visits(cs, n) : j \in Onward(g, start) \ tables /\ KeysIn(c.pending) \subseteq After(g, j)
    BY TakesFacts
  <2>. QED
    BY <2>1
<1>2. IsMap(g, tables, start) /\ IsGraph(g) /\ start \subseteq DOMAIN g /\ g[k].next \subseteq DOMAIN g
  BY <1>1 DEF Takes, IsMap, IsGraph
<1>3. /\ StackOk(es, g, tables, start) /\ Changes(cs, es, d) /\ d.key = cs[n].key /\ DOMAIN es = DOMAIN cs
  <2>1. d.facts \subseteq Onward(g, start) \cap tables /\ GoesOnWith(cs, es, c, d)
    BY <1>1 DEF CallOk, EntersColumn
  <2>. QED
    BY <2>1, TakenStack
<1>4. /\ es[n] = d /\ Len(es) = n
      /\ \A i \in 1..n : es[i].key = cs[i].key /\ Visits(es, i) = Visits(cs, i) /\ (i # n => es[i] = cs[i])
  <2>1. d.key = cs[Len(cs)].key /\ es[Len(cs)] = d /\ Len(es) = Len(cs)
    BY <1>3 DEF Changes
  <2>2. /\ DOMAIN cs = 1..Len(cs)
        /\ \A i \in DOMAIN cs : /\ es[i].key = cs[i].key /\ Visits(es, i) = Visits(cs, i)
                                /\ i # Len(cs) => es[i] = cs[i]
    BY <1>3, <2>1, ChangesFacts
  <2>. QED
    BY <2>1, <2>2
<1>5. IsSeq(ds) /\ Len(ds) = n + 1 /\ ds[n + 1] = f /\ \A i \in 1..n : ds[i] = es[i]
  BY <1>4 DEF EntersColumn, Grown
<1>6. DOMAIN ds = 1..(n + 1)
  BY <1>5, SeqFacts
<1>7. k \notin Visits(cs, n) /\ k # None /\ f.key = k /\ KeysIn(f.pending) = g[k].next
  BY DEF EntersColumn
<1>8. CallOk(f, g, tables, start)
  <2>1. {k} \subseteq Spans(g, start, {})
    BY <1>1 DEF Onward
  <2>2. g[k].next \subseteq Onward(g, start)
    BY <1>2, <2>1, SpansOn DEF Onward
  <2>. QED
    BY <1>1, <2>2 DEF CallOk, EntersColumn
<1> HIDE DEF n
<1>9. ASSUME NEW i \in 1..n, i > 1
      PROVE  k # es[i].key /\ k \in After(g, es[i].key) /\ g[k].next \subseteq After(g, es[i].key)
  <2>1. es[i].key \in Visits(cs, n)
    BY <1>1, <1>4, <1>9 DEF Visits
  <2>2. {k} \subseteq Spans(g, g[es[i].key].next, {})
    BY <1>1, <2>1 DEF After, Onward
  <2>3. es[i].key \in DOMAIN g
    <3>1. es[i].key \in Onward(g, start)
      BY <1>1, <1>3, <1>9 DEF StackOk
    <3>2. Onward(g, start) \subseteq DOMAIN g
      BY <1>2, SpansAre DEF Onward
    <3>. QED
      BY <3>1, <3>2
  <2>4. g[es[i].key].next \subseteq DOMAIN g
    BY <1>2, <2>3 DEF IsGraph
  <2>5. g[k].next \subseteq Spans(g, g[es[i].key].next, {})
    BY <1>2, <2>2, <2>4, SpansOn
  <2>. QED
    BY <1>7, <2>1, <2>2, <2>5 DEF After, Onward
<1>10. g[k].next \subseteq After(g, k)
  BY <1>2, SpansAre DEF After, Onward
<1>11. k # es[1].key
  <2>1. 1 \in DOMAIN es
    BY <1>1, <1>3
  <2>. QED
    BY <1>3, <1>7, <2>1 DEF StackOk
<1>12. ASSUME NEW i \in 1..n PROVE k # es[i].key
  BY <1>1, <1>9, <1>11, <1>12
<1>13. ASSUME NEW i \in 1..(n + 1) PROVE (i \in 1..n /\ ds[i] = es[i]) \/ (i = n + 1 /\ ds[i] = f)
  <2>1. i \in 1..n \/ i = n + 1
    BY <1>1
  <2>. QED
    BY <1>5, <2>1
<1>14. StackOk(ds, g, tables, start)
  <2>1. \A i \in DOMAIN ds : CallOk(ds[i], g, tables, start)
    BY <1>1, <1>3, <1>6, <1>8, <1>13 DEF StackOk
  <2>2. 1 \in DOMAIN ds => ds[1].key = None
    <3>1. 1 \in 1..n /\ 1 \in DOMAIN es
      BY <1>1, <1>3
    <3>. QED
      BY <1>3, <1>5, <3>1 DEF StackOk
  <2>3. ASSUME NEW i \in DOMAIN ds, i > 1 PROVE ds[i].key \in Onward(g, start) \ tables
    <3>1. CASE i \in 1..n /\ ds[i] = es[i]
      BY <1>1, <1>3, <2>3, <3>1 DEF StackOk
    <3>2. CASE ds[i] = f
      BY <1>1, <1>7, <3>2
    <3>. QED
      BY <1>6, <1>13, <3>1, <3>2
  <2>4. ASSUME NEW i \in DOMAIN ds, NEW j \in DOMAIN ds, ds[i].key = ds[j].key PROVE i = j
    <3>1. CASE i \in 1..n /\ j \in 1..n
      <4>1. es[i].key = es[j].key /\ i \in DOMAIN es /\ j \in DOMAIN es
        BY <1>1, <1>3, <1>5, <2>4, <3>1
      <4>. QED
        BY <1>3, <4>1 DEF StackOk
    <3>2. CASE i \in 1..n /\ j = n + 1
      BY <1>5, <1>7, <1>12, <2>4, <3>2
    <3>3. CASE j \in 1..n /\ i = n + 1
      BY <1>5, <1>7, <1>12, <2>4, <3>3
    <3>. QED
      BY <1>6, <1>13, <3>1, <3>2, <3>3
  <2>5. ASSUME NEW i \in DOMAIN ds, NEW j \in DOMAIN ds, i > 1, j >= i PROVE KeysIn(ds[j].pending) \subseteq After(g, ds[i].key)
    <3>1. CASE j \in 1..n
      <4>1. i \in 1..n
        BY <1>1, <1>6, <2>5, <3>1
      <4>2. i \in DOMAIN es /\ j \in DOMAIN es /\ ds[i] = es[i] /\ ds[j] = es[j]
        BY <1>1, <1>3, <1>5, <3>1, <4>1
      <4>. QED
        BY <1>3, <2>5, <4>2 DEF StackOk
    <3>2. CASE j = n + 1 /\ i \in 1..n
      BY <1>5, <1>7, <1>9, <2>5, <3>2
    <3>3. CASE j = n + 1 /\ i = n + 1
      BY <1>5, <1>7, <1>10, <3>3
    <3>. QED
      BY <1>6, <1>13, <3>1, <3>2, <3>3
  <2>6. ASSUME NEW i \in DOMAIN ds, NEW j \in DOMAIN ds, i > 1, j > i PROVE ds[j].key \in After(g, ds[i].key)
    <3>1. CASE j \in 1..n
      <4>1. i \in 1..n
        BY <1>1, <1>6, <2>6, <3>1
      <4>2. i \in DOMAIN es /\ j \in DOMAIN es /\ ds[i] = es[i] /\ ds[j] = es[j]
        BY <1>1, <1>3, <1>5, <3>1, <4>1
      <4>. QED
        BY <1>3, <2>6, <4>2 DEF StackOk
    <3>2. CASE j = n + 1 /\ i \in 1..n
      BY <1>5, <1>7, <1>9, <2>6, <3>2
    <3>3. CASE i = n + 1
      BY <1>1, <1>6, <2>6, <3>3
    <3>. QED
      BY <1>6, <1>13, <3>1, <3>2, <3>3
  <2>. QED
    BY <1>5, <2>1, <2>2, <2>3, <2>4, <2>5, <2>6 DEF StackOk
<1>15. ASSUME NEW i \in 1..n PROVE Visits(ds, i) = Visits(cs, i) /\ (i # n => ds[i] = cs[i])
  <2>1. \A j \in 2..i : ds[j] = es[j]
    BY <1>1, <1>5
  <2>2. Visits(ds, i) = Visits(es, i)
    BY <2>1 DEF Visits
  <2>. QED
    BY <1>4, <1>5, <2>2
<1>16. Visits(ds, n + 1) = Visits(cs, n) \cup {k}
  <2>1. 2..(n + 1) = (2..n) \cup {n + 1} /\ n \in 1..n
    BY <1>1
  <2>2. Visits(ds, n + 1) = Visits(ds, n) \cup {ds[n + 1].key}
    BY <2>1 DEF Visits
  <2>. QED
    BY <1>5, <1>7, <1>15, <2>1, <2>2
<1>17. ds[n] = d
  BY <1>1, <1>4, <1>5
<1>. QED
  BY <1>1, <1>5, <1>6, <1>14, <1>15, <1>16, <1>17 DEF n

LEMMA WalkEnter ==
  ASSUME NEW cs, NEW c, NEW b, NEW g, NEW tables, NEW start, Takes(cs, c, b, g, tables, start),
         NEW k, k \notin tables, KeysOf(b) = {k}, NEW es, NEW ds, NEW d, NEW f, EntersColumn(cs, es, ds, c, d, f, k, g)
  PROVE  WalkOk(ds, g, tables, start)
<1> DEFINE n == Len(cs)
           V == Visits(cs, n)
           T == KeysIn(Tail(c.pending))
           N == g[k].next
<1>1. /\ CallOk(c, g, tables, start)
      /\ HasUnbound(c.pending) <=> HasUnbound(Tail(c.pending))
      /\ k \in Onward(g, start) /\ k \in DOMAIN g
      /\ Ahead(cs, n, g) = Spans(g, {k}, V) \cup Spans(g, T, V)
  <2>1. /\ CallOk(c, g, tables, start)
        /\ HasUnbound(c.pending) <=> KeysOf(b) = {} \/ HasUnbound(Tail(c.pending))
        /\ KeysOf(b) \subseteq Onward(g, start) /\ Onward(g, start) \subseteq DOMAIN g
        /\ Ahead(cs, Len(cs), g) = Spans(g, KeysOf(b), Visits(cs, Len(cs))) \cup Spans(g, KeysIn(Tail(c.pending)), Visits(cs, Len(cs)))
    BY TakesFacts
  <2>. QED
    BY <2>1
<1>2. /\ StackOk(ds, g, tables, start)
      /\ n \in Nat \ {0} /\ DOMAIN cs = 1..n /\ DOMAIN ds = 1..(n + 1) /\ ds[n + 1] = f /\ ds[n] = d
      /\ \A i \in 1..n : Visits(ds, i) = Visits(cs, i) /\ (i # n => ds[i] = cs[i])
      /\ Visits(ds, n + 1) = V \cup {k}
  BY EntersStack
<1>3. /\ IsGraph(g) /\ c = cs[n] /\ Accounted(cs, g, tables, start) /\ Judged(cs, g, start)
  BY DEF Takes, IsMap, WalkOk
<1>4. /\ d.pending = Tail(c.pending) /\ d.facts = c.facts /\ d.complete = c.complete /\ k \notin V
      /\ KeysIn(f.pending) = N /\ (N \subseteq DOMAIN g)
      /\ g[k].resolved <=> f.complete /\ ~HasUnbound(f.pending)
  BY <1>1, <1>3 DEF EntersColumn, GoesOnWith, IsGraph
<1>5. Spans(g, {k}, V) \subseteq {k} \cup Spans(g, N, V \cup {k})
  BY <1>1, <1>3, SpansOfOne
<1> HIDE DEF n
<1>6. n \in 1..n /\ n \in DOMAIN ds /\ n + 1 \in DOMAIN ds /\ \A i \in 1..n : i \in DOMAIN ds
  BY <1>2
<1>7. Ahead(ds, n, g) = Spans(g, T, V) /\ Ahead(ds, n + 1, g) = Spans(g, N, V \cup {k})
  BY <1>2, <1>4, <1>6 DEF Ahead
<1>8. Accounted(ds, g, tables, start)
  <2>1. ASSUME NEW t \in Onward(g, start) \cap tables PROVE \E i \in DOMAIN ds : t \in ds[i].facts \/ t \in Ahead(ds, i, g)
    <3>1. PICK i \in DOMAIN cs : t \in cs[i].facts \/ t \in Ahead(cs, i, g)
      BY <1>3 DEF Accounted
    <3>2. CASE i # n
      BY <1>2, <1>6, <3>1, <3>2 DEF Ahead
    <3>3. CASE i = n
      <4>1. t \in d.facts \/ t \in Spans(g, {k}, V) \/ t \in Spans(g, T, V)
        BY <1>1, <1>3, <1>4, <3>1, <3>3
      <4>2. t # k
        OBVIOUS
      <4>. QED
        BY <1>2, <1>5, <1>6, <1>7, <4>1, <4>2
    <3>. QED
      BY <3>2, <3>3
  <2>. QED
    BY <2>1 DEF Accounted
<1>9. CASE Whole(g, start)
  <2>1. Assured(cs) /\ g[k].resolved
    BY <1>1, <1>3, <1>9 DEF Judged, Whole
  <2>2. d.complete /\ ~HasUnbound(d.pending)
    BY <1>1, <1>2, <1>3, <1>4, <1>6, <2>1 DEF Assured
  <2>3. ASSUME NEW i \in DOMAIN ds PROVE ds[i].complete /\ ~HasUnbound(ds[i].pending)
    <3>1. CASE i \in 1..n /\ i # n
      BY <1>2, <2>1, <3>1 DEF Assured
    <3>2. CASE i = n
      BY <1>2, <2>2, <3>2
    <3>3. CASE i = n + 1
      BY <1>2, <1>4, <2>1, <3>3
    <3>. QED
      BY <1>2, <3>1, <3>2, <3>3
  <2>4. Judged(ds, g, start)
    BY <1>9, <2>3 DEF Judged, Assured
  <2>. QED
    BY <1>2, <1>8, <2>4 DEF WalkOk
<1>10. CASE ~Whole(g, start)
  <2>1. PICK i \in DOMAIN cs : \/ ~cs[i].complete \/ HasUnbound(cs[i].pending)
                               \/ \E v \in Ahead(cs, i, g) : Doubtful(v, Visits(cs, i), g)
    BY <1>3, <1>10 DEF Judged, Doubts
  <2>2. ASSUME i # n PROVE Doubts(ds, g)
    <3>1. i \in DOMAIN ds /\ ds[i] = cs[i] /\ Visits(ds, i) = Visits(cs, i)
      BY <1>2, <1>6, <2>2
    <3>2. Ahead(ds, i, g) = Ahead(cs, i, g)
      BY <3>1 DEF Ahead
    <3>3. \/ ~ds[i].complete \/ HasUnbound(ds[i].pending)
          \/ \E v \in Ahead(ds, i, g) : Doubtful(v, Visits(ds, i), g)
      BY <2>1, <3>1, <3>2
    <3>. QED
      BY <3>1, <3>3 DEF Doubts
  <2>3. ASSUME i = n /\ (~c.complete \/ HasUnbound(c.pending)) PROVE Doubts(ds, g)
    <3>1. n \in DOMAIN ds /\ (~ds[n].complete \/ HasUnbound(ds[n].pending))
      BY <1>1, <1>2, <1>4, <1>6, <2>3
    <3>. QED
      BY <3>1 DEF Doubts
  <2>4. ASSUME NEW v \in Ahead(cs, n, g), Doubtful(v, V, g) PROVE Doubts(ds, g)
    <3>1. CASE v \in Spans(g, T, V)
      BY <1>2, <1>6, <1>7, <2>4, <3>1 DEF Doubts
    <3>2. CASE v \in Spans(g, N, V \cup {k})
      <4>1. v \in Ahead(ds, n + 1, g) /\ Doubtful(v, Visits(ds, n + 1), g)
        BY <1>2, <1>7, <2>4, <3>2 DEF Doubtful
      <4>. QED
        BY <1>6, <4>1 DEF Doubts
    <3>3. CASE v = k /\ ~g[k].resolved
      BY <1>2, <1>4, <1>6, <3>3 DEF Doubts
    <3>4. CASE v = k /\ k \in After(g, k)
      <4>1. k \in Spans(g, N, {}) /\ k \in V \cup {k}
        BY <3>4 DEF After, Onward
      <4>2. PICK j \in V \cup {k} : j \in Spans(g, N, V \cup {k})
        BY <1>3, <1>4, <4>1, SpansMeet
      <4>3. j \in Ahead(ds, n + 1, g) /\ Doubtful(j, Visits(ds, n + 1), g)
        BY <1>2, <1>7, <4>2 DEF Doubtful
      <4>. QED
        BY <1>6, <4>3 DEF Doubts
    <3>5. v = k => ~g[k].resolved \/ k \in After(g, k)
      BY <1>4, <2>4 DEF Doubtful
    <3>. QED
      BY <1>1, <1>5, <2>4, <3>1, <3>2, <3>3, <3>4, <3>5
  <2>5. Doubts(ds, g)
    <3>1. CASE i = n /\ \E v \in Ahead(cs, i, g) : Doubtful(v, Visits(cs, i), g)
      <4>1. PICK v \in Ahead(cs, n, g) : Doubtful(v, V, g)
        BY <3>1
      <4>. QED
        BY <2>4, <4>1
    <3>. QED
      BY <1>3, <2>1, <2>2, <2>3, <3>1
  <2>6. Judged(ds, g, start)
    BY <1>10, <2>5 DEF Judged
  <2>. QED
    BY <1>2, <1>8, <2>6 DEF WalkOk
<1>. QED
  BY <1>9, <1>10

\* The last call gives what it found to the one before it.
Closes(cs, ds, e, c, d) ==
  /\ IsSeq(cs) /\ Len(cs) > 1 /\ c = cs[Len(cs)] /\ c.pending = <<>> /\ e = cs[Len(cs) - 1]
  /\ IsSeq(ds) /\ Len(ds) = Len(cs) - 1 /\ ds[Len(cs) - 1] = d
  /\ \A i \in 1..(Len(cs) - 2) : ds[i] = cs[i]
  /\ DOMAIN d = DOMAIN e /\ d.key = e.key /\ d.pending = e.pending
  /\ d.facts = e.facts \cup c.facts /\ d.complete = (e.complete /\ c.complete)

LEMMA NothingAhead ==
  ASSUME NEW g, IsGraph(g), NEW cs, NEW n, cs[n].pending = <<>>
  PROVE  Ahead(cs, n, g) = {}
<1>1. KeysIn(cs[n].pending) = {}
  BY NoBindings
<1>2. {} \subseteq DOMAIN g /\ Closed(g, {}, Visits(cs, n)) /\ {} \in SUBSET DOMAIN g
  BY DEF Closed
<1>3. Spans(g, {}, Visits(cs, n)) = {}
  BY <1>2, SpansAre
<1>. QED
  BY <1>1, <1>3 DEF Ahead

LEMMA WalkFinish ==
  ASSUME NEW g, NEW tables, NEW start, IsMap(g, tables, start), NEW cs, WalkOk(cs, g, tables, start),
         NEW ds, NEW e, NEW c, NEW d, Closes(cs, ds, e, c, d)
  PROVE  WalkOk(ds, g, tables, start)
<1> DEFINE n == Len(cs)
           m == n - 1
<1>1. n \in Nat /\ DOMAIN cs = 1..n /\ DOMAIN ds = 1..m /\ n > 1
  BY SeqFacts DEF Closes
<1>2. /\ c = cs[n] /\ c.pending = <<>> /\ e = cs[m] /\ IsSeq(ds) /\ Len(ds) = m /\ ds[m] = d
      /\ \A i \in 1..(n - 2) : ds[i] = cs[i]
      /\ DOMAIN d = DOMAIN e /\ d.key = e.key /\ d.pending = e.pending
      /\ d.facts = e.facts \cup c.facts /\ d.complete = (e.complete /\ c.complete)
  BY DEF Closes
<1>3. StackOk(cs, g, tables, start) /\ Accounted(cs, g, tables, start) /\ Judged(cs, g, start) /\ IsGraph(g)
  BY DEF WalkOk, IsMap
<1> HIDE DEF n
<1>4. m \in 1..n /\ n \in 1..n /\ m \in 1..m /\ m < n /\ m \in Nat
  BY <1>1
<1>5. ASSUME NEW i \in 1..m PROVE (i \in 1..(n - 2) /\ ds[i] = cs[i]) \/ (i = m /\ ds[i] = d)
  <2>1. i \in 1..(n - 2) \/ i = m
    BY <1>1
  <2>. QED
    BY <1>2, <2>1
<1>6. CallOk(c, g, tables, start) /\ CallOk(e, g, tables, start)
  BY <1>1, <1>2, <1>3, <1>4 DEF StackOk
<1>7. CallOk(d, g, tables, start)
  <2>1. d.facts \subseteq Onward(g, start) \cap tables /\ d.complete \in BOOLEAN
    BY <1>2, <1>6 DEF CallOk
  <2>. QED
    BY <1>2, <1>6, <2>1 DEF CallOk
<1>8. ASSUME NEW i \in 1..m
      PROVE  /\ i \in 1..n /\ ds[i].key = cs[i].key /\ ds[i].pending = cs[i].pending /\ CallOk(ds[i], g, tables, start)
             /\ cs[i].facts \subseteq ds[i].facts /\ (ds[i].complete => cs[i].complete)
  <2>1. i \in 1..n
    BY <1>1
  <2>2. CallOk(cs[i], g, tables, start)
    BY <1>1, <1>3, <2>1 DEF StackOk
  <2>. QED
    BY <1>2, <1>5, <1>7, <2>1, <2>2
<1>9. StackOk(ds, g, tables, start)
  <2>1. IsSeq(ds) /\ Len(ds) <= Len(cs)
    BY <1>1, <1>2, <1>4 DEF n
  <2>. QED
    BY <1>1, <1>3, <1>8, <2>1, StackShrinks
<1>10. ASSUME NEW i \in 1..m PROVE Visits(ds, i) = Visits(cs, i) /\ Ahead(ds, i, g) = Ahead(cs, i, g)
  <2>1. \A j \in 2..i : j \in 1..m
    BY <1>1
  <2>2. Visits(ds, i) = Visits(cs, i)
    BY <1>8, <2>1 DEF Visits
  <2>. QED
    BY <1>8, <2>2 DEF Ahead
<1>11. Ahead(cs, n, g) = {}
  BY <1>2, <1>3, NothingAhead
<1>12. \A i \in DOMAIN cs : i \in 1..m \/ i = n
  BY <1>1
<1>13. Accounted(ds, g, tables, start)
  <2>1. ASSUME NEW t \in Onward(g, start) \cap tables PROVE \E i \in DOMAIN ds : t \in ds[i].facts \/ t \in Ahead(ds, i, g)
    <3>1. PICK i \in DOMAIN cs : t \in cs[i].facts \/ t \in Ahead(cs, i, g)
      BY <1>3 DEF Accounted
    <3>2. CASE i \in 1..m
      BY <1>1, <1>8, <1>10, <3>1, <3>2
    <3>3. CASE i = n
      <4>1. t \in ds[m].facts
        BY <1>2, <1>11, <3>1, <3>3
      <4>. QED
        BY <1>1, <1>4, <4>1
    <3>. QED
      BY <1>12, <3>2, <3>3
  <2>. QED
    BY <2>1 DEF Accounted
<1>14. ASSUME Assured(cs) PROVE Assured(ds)
  <2>1. c.complete /\ e.complete
    BY <1>1, <1>2, <1>4, <1>14 DEF Assured
  <2>2. ASSUME NEW i \in DOMAIN ds PROVE ds[i].complete /\ ~HasUnbound(ds[i].pending)
    <3>1. i \in 1..m /\ i \in DOMAIN cs
      BY <1>1, <1>8
    <3>2. cs[i].complete /\ ~HasUnbound(cs[i].pending)
      BY <1>14, <3>1 DEF Assured
    <3>. QED
      BY <1>2, <1>5, <1>8, <2>1, <3>1, <3>2
  <2>. QED
    BY <2>2 DEF Assured
<1>15. ASSUME Doubts(cs, g) PROVE Doubts(ds, g)
  <2>1. PICK i \in DOMAIN cs : \/ ~cs[i].complete \/ HasUnbound(cs[i].pending)
                               \/ \E v \in Ahead(cs, i, g) : Doubtful(v, Visits(cs, i), g)
    BY <1>15 DEF Doubts
  <2>2. CASE i \in 1..m
    <3>1. i \in DOMAIN ds
      BY <1>1, <2>2
    <3>2. \/ ~ds[i].complete \/ HasUnbound(ds[i].pending)
          \/ \E v \in Ahead(ds, i, g) : Doubtful(v, Visits(ds, i), g)
      BY <1>8, <1>10, <2>1, <2>2
    <3>. QED
      BY <3>1, <3>2 DEF Doubts
  <2>3. CASE i = n
    <3>1. ~HasUnbound(cs[n].pending)
      BY <1>2, NoBindings
    <3>2. ~ds[m].complete
      BY <1>2, <1>11, <2>1, <2>3, <3>1
    <3>. QED
      BY <1>1, <1>4, <3>2 DEF Doubts
  <2>. QED
    BY <1>12, <2>2, <2>3
<1>16. Judged(ds, g, start)
  BY <1>3, <1>14, <1>15 DEF Judged
<1>. QED
  BY <1>9, <1>13, <1>16 DEF WalkOk

\* The only call left has nothing to take: it has found all of it.
LEMMA WalkAnswer ==
  ASSUME NEW g, NEW tables, NEW start, IsMap(g, tables, start), NEW cs, WalkOk(cs, g, tables, start),
         Len(cs) = 1, NEW c, c = cs[1], c.pending = <<>>
  PROVE  c.facts = Onward(g, start) \cap tables /\ (c.complete <=> Whole(g, start))
<1>1. DOMAIN cs = {1}
  <2>1. DOMAIN cs = 1..1
    BY SeqFacts DEF WalkOk, StackOk
  <2>. QED
    BY <2>1
<1>2. StackOk(cs, g, tables, start) /\ Accounted(cs, g, tables, start) /\ Judged(cs, g, start) /\ IsGraph(g)
  BY DEF WalkOk, IsMap
<1>3. CallOk(c, g, tables, start)
  BY <1>1, <1>2 DEF StackOk
<1>4. Ahead(cs, 1, g) = {} /\ ~HasUnbound(cs[1].pending)
  BY <1>2, NothingAhead, NoBindings
<1>5. Onward(g, start) \cap tables \subseteq c.facts
  BY <1>1, <1>2, <1>4 DEF Accounted
<1>6. Whole(g, start) => c.complete
  BY <1>1, <1>2 DEF Judged, Assured
<1>7. ~Whole(g, start) => ~c.complete
  BY <1>1, <1>2, <1>4 DEF Judged, Doubts
<1>. QED
  BY <1>3, <1>5, <1>6, <1>7 DEF CallOk

\* The walk starts with the binding it is asked for.
LEMMA WalkStart ==
  ASSUME NEW g, NEW tables, NEW start, IsMap(g, tables, start), NEW b, IsBound(b, DOMAIN g), KeysOf(b) = start,
         NEW c, c = CallOf(None, Gathered(<<b>>, TRUE))
  PROVE  WalkOk(<<c>>, g, tables, start)
<1> DEFINE cs == <<c>>
<1>1. /\ DOMAIN c = {"key", "pending", "facts", "complete"} /\ c.key = None /\ c.pending = <<b>>
      /\ c.facts = {} /\ c.complete = TRUE
  BY DEF CallOf, Gathered
<1>2. AreBound(c.pending, DOMAIN g) /\ KeysIn(c.pending) = start /\ (HasUnbound(c.pending) <=> start = {})
  <2>1. AreBound(<<b>>, DOMAIN g) /\ KeysIn(<<b>>) = KeysOf(b) /\ (HasUnbound(<<b>>) <=> KeysOf(b) = {})
    BY OneBinding
  <2>. QED
    BY <1>1, <2>1
<1>3. IsSeq(cs) /\ cs[1] = c /\ DOMAIN cs = {1}
  BY SeqOne
<1> HIDE DEF cs
<1>4. start \subseteq Onward(g, start)
  BY SpansAre DEF Onward, IsMap
<1>5. CallOk(c, g, tables, start)
  BY <1>1, <1>2, <1>4 DEF CallOk
<1>6. StackOk(cs, g, tables, start)
  <2>1. \A i \in DOMAIN cs : i = 1 /\ cs[i] = c /\ ~(i > 1)
    <3>1. ~(1 > 1)
      OBVIOUS
    <3>. QED
      BY <1>3, <3>1
  <2>2. \A i \in DOMAIN cs : CallOk(cs[i], g, tables, start)
    BY <1>5, <2>1
  <2>3. (1 \in DOMAIN cs => cs[1].key = None) /\ \A i, j \in DOMAIN cs : cs[i].key = cs[j].key => i = j
    BY <1>1, <1>3, <2>1
  <2>4. /\ \A i \in DOMAIN cs : i > 1 => cs[i].key \in Onward(g, start) \ tables
        /\ \A i, j \in DOMAIN cs : i > 1 /\ j >= i => KeysIn(cs[j].pending) \subseteq After(g, cs[i].key)
        /\ \A i, j \in DOMAIN cs : i > 1 /\ j > i => cs[j].key \in After(g, cs[i].key)
    BY <2>1
  <2>. QED
    BY <1>3, <2>2, <2>3, <2>4 DEF StackOk
<1>7. Visits(cs, 1) = {}
  <2>1. 2..1 = {}
    OBVIOUS
  <2>. QED
    BY <2>1 DEF Visits
<1>8. Ahead(cs, 1, g) = Onward(g, start)
  BY <1>2, <1>3, <1>7 DEF Ahead, Onward
<1>9. Accounted(cs, g, tables, start)
  BY <1>3, <1>8 DEF Accounted
<1>10. CASE Whole(g, start)
  <2>1. Judged(cs, g, start)
    BY <1>1, <1>2, <1>3, <1>10 DEF Judged, Assured, Whole
  <2>. QED
    BY <1>6, <1>9, <2>1 DEF WalkOk, cs
<1>11. CASE ~Whole(g, start)
  <2>1. start = {} \/ \E k \in Onward(g, start) : ~g[k].resolved \/ k \in After(g, k)
    BY <1>11 DEF Whole
  <2>2. Doubts(cs, g)
    BY <1>2, <1>3, <1>8, <2>1 DEF Doubts, Doubtful
  <2>. QED
    BY <1>6, <1>9, <1>11, <2>2 DEF WalkOk, cs, Judged
<1>. QED
  BY <1>10, <1>11

(***************************************************************************)
(* What the binder has on record                                            *)
(***************************************************************************)
\* The relations of the blocks, each in the level of its own block.
OwnLevels == {stack[i].level : i \in DOMAIN stack} \cup {s.chain[1] : s \in scopes}

OwnRelations == UNION {ToSet(level.relations) : level \in OwnLevels}

\* Levels show relations of R alone.
ShowsOnly(level, R) == IsSeq(level.relations) /\ ToSet(level.relations) \subseteq R

Shows(levels, R) == \A k \in DOMAIN levels : ShowsOnly(levels[k], R)

\* What is built has a block among those at P.
RelationOk(r, P) == (\A v \in Views : IsSeq(r.columns[v])) /\ IsSeq(r.args) /\ (r.built => r.body \in P)

CteOk(cte, P) == cte.declared => (\A v \in Views : IsSeq(cte.columns[v])) /\ (cte.built => cte.body \in P)

\* An output is a column of a relation or an expression of a block.
SlotOk(slot, P, R, v) ==
  IF slot.sources # {} THEN \E r \in R : slot.sources = {r.id} /\ slot.name \in ToSet(r.columns[v])
  ELSE slot.owner \in P /\ IsSeq(slot.refs)

SlotsOk(slots, P, R, v) == IsSeq(slots) /\ \A slot \in ToSet(slots) : SlotOk(slot, P, R, v)

OutputsOk(outputs, P, R) ==
  /\ DOMAIN outputs.slots = Views /\ DOMAIN outputs.complete = Views
  /\ \A v \in Views : SlotsOk(outputs.slots[v], P, R, v) /\ outputs.complete[v] \in BOOLEAN

IdsOk(path, relations) == IsSeq(relations) /\ \A i \in DOMAIN relations : relations[i].id = [owner |-> path, index |-> i]

\* A frame binds next what has been built for it, and builds both its arms.
BindKinds == {"bind_cte", "bind_derived"}

Awaited(f, t) ==
  Append(f.path, IF t.do = "bind_cte" THEN Step(IF f.query.with[t.what].recursive THEN "recursive" ELSE "cte", t.what)
                 ELSE Step(IF t.what.lateral THEN "lateral" ELSE "derived", Len(f.level.relations) + 1))

AwaitsOk(f, P) ==
  \A i \in DOMAIN f.todo : f.todo[i].do \in BindKinds =>
    /\ i = 1 /\ Awaited(f, f.todo[i]) \in P
    /\ f.todo[i].do = "bind_derived" => IsSeq(f.todo[i].what.columns)

ArmAt(path, role) == Append(path, Step(role, 1))

ArmOk(f, arm, role, P) == Has(arm) => ArmAt(f.path, role) \in P \/ \E i \in DOMAIN f.todo : f.todo[i].do = role

Recorded(f, P, R) ==
  /\ \A r \in ToSet(f.level.relations) : RelationOk(r, P)
  /\ Shows(f.parent, R) /\ Shows(f.joins, R)
  /\ \A n \in Tables : CteOk(f.ctes[n], P)
  /\ OutputsOk(f.outputs, P, R)

FrameOk(f, P, R) ==
  /\ Recorded(f, P, R)
  /\ AwaitsOk(f, P) /\ ArmOk(f, f.query.left, "left", P) /\ ArmOk(f, f.query.right, "right", P)

ScopeOk(s, P, R) ==
  /\ \A r \in ToSet(s.chain[1].relations) : RelationOk(r, P)
  /\ IdsOk(s.path, s.chain[1].relations)
  /\ Shows(s.chain, R) /\ Shows(s.joins, R)
  /\ OutputsOk(s.outputs, P, R)
  /\ Has(s.query.left) => ArmAt(s.path, "left") \in P
  /\ Has(s.query.right) => ArmAt(s.path, "right") \in P

\* A path stands for one block.
OneEach ==
  /\ \A s, r \in scopes : s.path = r.path => s = r
  /\ \A s \in scopes, i \in DOMAIN stack : s.path # stack[i].path

RecordInv ==
  /\ IsFiniteSet(scopes) /\ OneEach
  /\ \A i \in DOMAIN stack : FrameOk(stack[i], KnownPaths, OwnRelations)
  /\ \A s \in scopes : ScopeOk(s, KnownPaths, OwnRelations)
  /\ OutputsOk(returned, KnownPaths, OwnRelations)

\* What is on record stays so when there is more of it.
LEMMA MoreShown ==
  ASSUME NEW P, NEW Q, P \subseteq Q, NEW R, NEW T, R \subseteq T
  PROVE  /\ \A levels : Shows(levels, R) => Shows(levels, T)
         /\ \A r : RelationOk(r, P) => RelationOk(r, Q)
         /\ \A cte : CteOk(cte, P) => CteOk(cte, Q)
         /\ \A slots, v : SlotsOk(slots, P, R, v) => SlotsOk(slots, Q, T, v)
         /\ \A outputs : OutputsOk(outputs, P, R) => OutputsOk(outputs, Q, T)
         /\ \A f : FrameOk(f, P, R) => FrameOk(f, Q, T)
         /\ \A s : ScopeOk(s, P, R) => ScopeOk(s, Q, T)
<1>1. \A levels : Shows(levels, R) => Shows(levels, T)
  BY DEF Shows, ShowsOnly
<1>2. \A r : RelationOk(r, P) => RelationOk(r, Q)
  BY DEF RelationOk
<1>3. \A cte : CteOk(cte, P) => CteOk(cte, Q)
  BY DEF CteOk
<1>4. \A slots, v : SlotsOk(slots, P, R, v) => SlotsOk(slots, Q, T, v)
  <2>1. ASSUME NEW slot, NEW v, SlotOk(slot, P, R, v) PROVE SlotOk(slot, Q, T, v)
    BY <2>1 DEF SlotOk
  <2>. QED
    BY <2>1 DEF SlotsOk
<1>5. \A outputs : OutputsOk(outputs, P, R) => OutputsOk(outputs, Q, T)
  BY <1>4 DEF OutputsOk
<1>6. \A f : AwaitsOk(f, P) => AwaitsOk(f, Q)
  BY DEF AwaitsOk
<1>7. \A f, arm, role : ArmOk(f, arm, role, P) => ArmOk(f, arm, role, Q)
  BY DEF ArmOk
<1>8. \A f : FrameOk(f, P, R) => FrameOk(f, Q, T)
  BY <1>1, <1>2, <1>3, <1>5, <1>6, <1>7 DEF FrameOk, Recorded
<1>9. \A s : ScopeOk(s, P, R) => ScopeOk(s, Q, T)
  BY <1>1, <1>2, <1>5 DEF ScopeOk
<1>. QED
  BY <1>1, <1>2, <1>3, <1>4, <1>5, <1>8, <1>9

\* Sequences put together have the elements of each.
LEMMA FlatElements ==
  ASSUME NEW n \in Nat, NEW s, IsSeq(s), Len(s) = n, \A i \in 1..n : IsSeq(s[i])
  PROVE  IsSeq(FlattenSeq(s)) /\ \A x \in ToSet(FlattenSeq(s)) : \E i \in 1..n : x \in ToSet(s[i])
<1> DEFINE S == UNION {ToSet(s[i]) : i \in 1..n}
<1>1. \A i \in 1..n : s[i] \in Seq(S)
  <2> SUFFICES ASSUME NEW i \in 1..n PROVE s[i] \in Seq(S)
    OBVIOUS
  <2> DEFINE t == s[i]
  <2>1. IsSeq(t) /\ ToSet(t) \subseteq S
    OBVIOUS
  <2> HIDE DEF t, S
  <2>2. \A k \in 1..Len(t) : t[k] \in S
    <3>1. DOMAIN t = 1..Len(t)
      BY <2>1, SeqFacts
    <3>. QED
      BY <2>1, <3>1 DEF ToSet
  <2>3. t \in Seq(S)
    BY <2>1, <2>2 DEF IsSeq
  <2>. QED
    BY <2>3 DEF t
<1> HIDE DEF S
<1>2. [i \in 1..n |-> s[i]] = s
  BY DEF IsSeq
<1>3. FlattenSeq(s) \in Seq(S)
  <2>1. Together(s, n) \in Seq(S)
    BY <1>1, TogetherType
  <2>. QED
    BY <1>2, <2>1 DEF Together
<1>4. ToSet(FlattenSeq(s)) \subseteq S
  BY <1>3 DEF ToSet
<1>. QED
  BY <1>3, <1>4 DEF IsSeq, S

\* Those made of the elements of a sequence, one by one.
LEMMA FlatOfEach ==
  ASSUME NEW s, IsSeq(s), NEW t, t = [k \in DOMAIN s |-> t[k]], \A k \in DOMAIN s : IsSeq(t[k])
  PROVE  IsSeq(FlattenSeq(t)) /\ \A x \in ToSet(FlattenSeq(t)) : \E k \in DOMAIN s : x \in ToSet(t[k])
<1>1. Len(s) \in Nat /\ DOMAIN s = 1..Len(s)
  BY SeqFacts
<1>2. IsSeq(t) /\ Len(t) = Len(s)
  BY <1>1, SeqNew
<1>3. \A i \in 1..Len(s) : IsSeq(t[i])
  BY <1>1
<1>4. IsSeq(FlattenSeq(t)) /\ \A x \in ToSet(FlattenSeq(t)) : \E i \in 1..Len(s) : x \in ToSet(t[i])
  BY <1>1, <1>2, <1>3, FlatElements
<1>. QED
  BY <1>1, <1>4

LEMMA NoSlots == ASSUME NEW P, NEW R, NEW v PROVE SlotsOk(<<>>, P, R, v)
<1>1. ToSet(<<>>) = {}
  BY DEF ToSet
<1>. QED
  BY <1>1, SeqEmpty DEF SlotsOk

LEMMA OneSlot == ASSUME NEW P, NEW R, NEW v, NEW slot, SlotOk(slot, P, R, v) PROVE SlotsOk(<<slot>>, P, R, v)
<1>1. IsSeq(<<slot>>) /\ ToSet(<<slot>>) = {slot}
  BY SeqOne DEF ToSet
<1>. QED
  BY <1>1 DEF SlotsOk

LEMMA MoreSlots ==
  ASSUME NEW P, NEW R, NEW v, NEW left, NEW right, SlotsOk(left, P, R, v), SlotsOk(right, P, R, v)
  PROVE  SlotsOk(left \o right, P, R, v)
<1>1. IsSeq(left \o right) /\ ToSet(left \o right) = ToSet(left) \cup ToSet(right)
  BY SetOfConcat DEF SlotsOk
<1>. QED
  BY <1>1 DEF SlotsOk

\* Slots for each element of a sequence.
LEMMA SlotsOfEach ==
  ASSUME NEW P, NEW R, NEW v, NEW s, IsSeq(s), NEW t, t = [k \in DOMAIN s |-> t[k]], \A k \in DOMAIN s : SlotsOk(t[k], P, R, v)
  PROVE  SlotsOk(FlattenSeq(t), P, R, v)
<1>1. \A k \in DOMAIN s : IsSeq(t[k])
  BY DEF SlotsOk
<1>2. IsSeq(FlattenSeq(t)) /\ \A x \in ToSet(FlattenSeq(t)) : \E k \in DOMAIN s : x \in ToSet(t[k])
  BY <1>1, FlatOfEach
<1>3. ASSUME NEW x \in ToSet(FlattenSeq(t)) PROVE SlotOk(x, P, R, v)
  <2>1. PICK k \in DOMAIN s : x \in ToSet(t[k])
    BY <1>2
  <2>. QED
    BY <2>1 DEF SlotsOk
<1>. QED
  BY <1>2, <1>3 DEF SlotsOk

LEMMA SlotFields ==
  ASSUME NEW name, NEW owner, NEW sources, NEW refs
  PROVE  LET slot == Slot(name, owner, sources, refs)
         IN  slot.name = name /\ slot.owner = owner /\ slot.sources = sources /\ slot.refs = refs
BY DEF Slot

LEMMA ExpandedOk ==
  ASSUME NEW P, NEW R, NEW r \in R, RelationOk(r, P), NEW except, NEW v \in Views
  PROVE  SlotsOk(Expanded(r, except, v), P, R, v)
<1> DEFINE s == r.columns[v]
           slot(k) == Slot(s[k], top.path, {r.id}, <<>>)
           t == [k \in DOMAIN s |-> IF s[k] \in except THEN <<>> ELSE <<slot(k)>>]
<1>1. IsSeq(s)
  BY DEF RelationOk
<1>2. ASSUME NEW k \in DOMAIN s PROVE SlotsOk(t[k], P, R, v)
  <2>1. slot(k).sources = {r.id} /\ slot(k).name = s[k]
    BY SlotFields
  <2>2. s[k] \in ToSet(s)
    BY DEF ToSet
  <2> DEFINE x == slot(k)
  <2>3. x.sources = {r.id} /\ x.name \in ToSet(r.columns[v])
    BY <2>1, <2>2
  <2> HIDE DEF x
  <2>4. SlotOk(x, P, R, v)
    BY <2>3 DEF SlotOk
  <2>5. SlotsOk(<<slot(k)>>, P, R, v)
    BY <2>4, OneSlot DEF x
  <2>6. t[k] = IF s[k] \in except THEN <<>> ELSE <<slot(k)>>
    OBVIOUS
  <2>. QED
    BY <2>5, <2>6, NoSlots
<1>3. Expanded(r, except, v) = FlattenSeq(t)
  BY DEF Expanded
<1>4. t = [k \in DOMAIN s |-> t[k]]
  OBVIOUS
<1> HIDE DEF t, s
<1>. QED
  BY <1>1, <1>2, <1>3, <1>4, SlotsOfEach

\* The relations of a block are among those of R.
LevelOk(level, P, R) ==
  /\ IsSeq(level.relations) /\ ToSet(level.relations) \subseteq R
  /\ \A r \in ToSet(level.relations) : RelationOk(r, P)

LEMMA ProjectedOk ==
  ASSUME GrammarInv, NEW P, NEW R, top.path \in P, LevelOk(top.level, P, R), NEW projection \in Nodes.projections, NEW v \in Views
  PROVE  SlotsOk(Projected(projection, v), P, R, v)
<1>1. CASE projection.star
  <2> DEFINE s == top.level.relations
             t == [i \in DOMAIN s |-> IF i \in Starred(projection) THEN Expanded(s[i], projection.except, v) ELSE <<>>]
  <2>1. IsSeq(s)
    BY DEF LevelOk
  <2>2. ASSUME NEW i \in DOMAIN s PROVE SlotsOk(t[i], P, R, v)
    <3>1. s[i] \in R /\ RelationOk(s[i], P)
      BY DEF LevelOk, ToSet
    <3>2. SlotsOk(Expanded(s[i], projection.except, v), P, R, v)
      BY <3>1, ExpandedOk
    <3>3. t[i] = IF i \in Starred(projection) THEN Expanded(s[i], projection.except, v) ELSE <<>>
      OBVIOUS
    <3>. QED
      BY <3>2, <3>3, NoSlots
  <2>3. Projected(projection, v) = FlattenSeq(t)
    BY <1>1 DEF Projected, StarSlots
  <2>4. t = [i \in DOMAIN s |-> t[i]]
    OBVIOUS
  <2> HIDE DEF s, t
  <2>. QED
    BY <2>1, <2>2, <2>3, <2>4, SlotsOfEach
<1>2. CASE ~projection.star
  <2> DEFINE slot == Slot(projection.name, top.path, {}, projection.refs)
  <2>1. IsSeq(projection.refs)
    BY <1>2 DEF GrammarInv, IsGrammar, IsSeq
  <2>2. slot.sources = {} /\ slot.owner = top.path /\ slot.refs = projection.refs
    BY SlotFields
  <2>3. Projected(projection, v) = <<slot>>
    BY <1>2 DEF Projected
  <2> HIDE DEF slot
  <2>4. SlotOk(slot, P, R, v)
    BY <2>1, <2>2 DEF SlotOk
  <2>. QED
    BY <2>3, <2>4, OneSlot
<1>. QED
  BY <1>1, <1>2

LEMMA CollectedSlots ==
  ASSUME GrammarInv, NEW P, NEW R, top.path \in P, LevelOk(top.level, P, R), NEW q \in Nodes.blocks, NEW v \in Views
  PROVE  LET o == Collected(q)
         IN  /\ DOMAIN o.slots = Views /\ DOMAIN o.complete = Views
             /\ SlotsOk(o.slots[v], P, R, v) /\ o.complete[v] \in BOOLEAN
<1> DEFINE selected == [i \in DOMAIN q.select |-> Projected(q.select[i], v)]
           values == [i \in DOMAIN q.values |-> Slot(q.values[i], top.path, {}, <<>>)]
           o == Collected(q)
<1>1. /\ o.slots = [u \in Views |-> FlattenSeq([i \in DOMAIN q.select |-> Projected(q.select[i], u)]) \o values]
      /\ o.complete = [u \in Views |-> \A i \in DOMAIN q.select : IsComplete(q.select[i], u)]
  BY DEF Collected
<1>2. v \in Views
  OBVIOUS
<1>3. o.slots[v] = FlattenSeq(selected) \o values
  BY <1>1, <1>2
<1>4. o.complete[v] \in BOOLEAN
  BY <1>1, <1>2
<1>5. q.select \in Seq(Nodes.projections) /\ IsSeq(q.values)
  BY DEF GrammarInv, IsGrammar, IsSeq
<1>6. IsSeq(q.select) /\ \A i \in DOMAIN q.select : q.select[i] \in Nodes.projections
  BY <1>5 DEF IsSeq
<1>7. SlotsOk(FlattenSeq(selected), P, R, v)
  <2>1. ASSUME NEW i \in DOMAIN q.select PROVE SlotsOk(selected[i], P, R, v)
    <3>1. SlotsOk(Projected(q.select[i], v), P, R, v)
      BY <1>6, ProjectedOk
    <3>. QED
      BY <3>1
  <2>2. selected = [i \in DOMAIN q.select |-> selected[i]]
    OBVIOUS
  <2> HIDE DEF selected
  <2>. QED
    BY <1>6, <2>1, <2>2, SlotsOfEach
<1>8. SlotsOk(values, P, R, v)
  <2>1. Len(q.values) \in Nat /\ DOMAIN q.values = 1..Len(q.values)
    BY <1>5, SeqFacts
  <2>2. IsSeq(values)
    BY <2>1, SeqNew
  <2>3. ASSUME NEW slot \in ToSet(values) PROVE SlotOk(slot, P, R, v)
    <3>1. PICK i \in DOMAIN values : slot = values[i]
      BY DEF ToSet
    <3>2. slot = Slot(q.values[i], top.path, {}, <<>>)
      BY <3>1
    <3>3. slot.sources = {} /\ slot.owner = top.path /\ slot.refs = <<>>
      BY <3>2, SlotFields
    <3>. QED
      BY <3>3, SeqEmpty DEF SlotOk
  <2>. QED
    BY <2>2, <2>3 DEF SlotsOk
<1> HIDE DEF selected, values, o
<1>9. SlotsOk(o.slots[v], P, R, v)
  BY <1>3, <1>7, <1>8, MoreSlots
<1>10. DOMAIN o.slots = Views /\ DOMAIN o.complete = Views
  BY <1>1
<1>. QED
  BY <1>4, <1>9, <1>10 DEF o

LEMMA CollectedOk ==
  ASSUME GrammarInv, NEW P, NEW R, top.path \in P, LevelOk(top.level, P, R), NEW q \in Nodes.blocks
  PROVE  OutputsOk(Collected(q), P, R)
<1>1. "given" \in Views
  BY DEF Views
<1>. QED
  BY <1>1, CollectedSlots DEF OutputsOk

LEMMA ByNameSlots ==
  ASSUME NEW P, NEW R, NEW left, NEW right, OutputsInv(left), OutputsOk(left, P, R), OutputsOk(right, P, R), NEW v \in Views
  PROVE  LET o == ByName(left, right)
         IN  /\ DOMAIN o.slots = Views /\ DOMAIN o.complete = Views
             /\ SlotsOk(o.slots[v], P, R, v) /\ o.complete[v] \in BOOLEAN
<1> DEFINE a == left.slots[v]
           b == right.slots[v]
           t == [k \in DOMAIN b |-> IF OutputIndex(a \o SubSeq(b, 1, k - 1), b[k].name) # 0 THEN <<>> ELSE <<b[k]>>]
           o == ByName(left, right)
<1>1. v \in Views
  OBVIOUS
<1>2. /\ o.slots[v] = WithNew(a, b) /\ o.complete[v] = (left.complete[v] /\ right.complete[v])
      /\ DOMAIN o.slots = Views /\ DOMAIN o.complete = Views
  BY <1>1 DEF ByName, OutputsInv, OutputsOk
<1>3. WithNew(a, b) = a \o FlattenSeq(t)
  BY DEF WithNew
<1>4. SlotsOk(a, P, R, v) /\ SlotsOk(b, P, R, v)
  BY DEF OutputsOk
<1>5. SlotsOk(FlattenSeq(t), P, R, v)
  <2>1. ASSUME NEW k \in DOMAIN b PROVE SlotsOk(t[k], P, R, v)
    <3>1. SlotOk(b[k], P, R, v)
      BY <1>4 DEF SlotsOk, ToSet
    <3>2. t[k] = <<>> \/ t[k] = <<b[k]>>
      OBVIOUS
    <3>. QED
      BY <3>1, <3>2, OneSlot, NoSlots
  <2>2. t = [k \in DOMAIN b |-> t[k]]
    OBVIOUS
  <2>3. IsSeq(b)
    BY <1>4 DEF SlotsOk
  <2> HIDE DEF t, b
  <2>. QED
    BY <2>1, <2>2, <2>3, SlotsOfEach
<1>6. left.complete[v] \in BOOLEAN /\ right.complete[v] \in BOOLEAN
  BY DEF OutputsOk
<1> HIDE DEF a, b, t, o
<1>7. SlotsOk(o.slots[v], P, R, v)
  BY <1>2, <1>3, <1>4, <1>5, MoreSlots
<1>8. o.complete[v] \in BOOLEAN
  BY <1>2, <1>6
<1>. QED
  BY <1>2, <1>7, <1>8 DEF o

LEMMA ByNameOk ==
  ASSUME NEW P, NEW R, NEW left, NEW right, OutputsInv(left), OutputsOk(left, P, R), OutputsOk(right, P, R)
  PROVE  OutputsOk(ByName(left, right), P, R)
<1>1. "given" \in Views
  BY DEF Views
<1>. QED
  BY <1>1, ByNameSlots DEF OutputsOk

LEMMA OutputColumnsOk ==
  ASSUME NEW P, NEW R, OutputsOk(returned, P, R), NEW aliases, IsSeq(aliases), NEW v \in Views
  PROVE  IsSeq(OutputColumns(aliases)[v])
<1> DEFINE names == NamesOf(returned.slots[v])
           m == Len(aliases) + 1
           n == Len(returned.slots[v])
           s == SubSeq(names, m, n)
<1>1. m \in Nat /\ n \in Nat
  BY SeqFacts DEF OutputsOk, SlotsOk
<1>2. OutputColumns(aliases)[v] = aliases \o s
  BY DEF OutputColumns, Views
<1>3. IsSeq(s)
  <2> DEFINE k == IF m <= n THEN 1 + n - m ELSE 0
  <2>1. k \in Nat /\ 1..k = 1..(1 + n - m)
    BY <1>1
  <2>2. s = [i \in 1..(1 + n - m) |-> names[i + m - 1]]
    OBVIOUS
  <2> HIDE DEF k, m, n, names
  <2>3. DOMAIN s = 1..k /\ s = [i \in 1..k |-> s[i]]
    BY <2>1, <2>2
  <2> HIDE DEF s
  <2>. QED
    BY <2>1, <2>3, SeqNew
<1> HIDE DEF s
<1>. QED
  BY <1>2, <1>3, SetOfConcat

LEMMA GivenColumns == \A columns : \A v \in Views : Written(columns)[v] = columns
BY DEF Written

LEMMA TableRelationOk ==
  ASSUME GrammarInv, NEW P, \A n \in Tables : CteOk(top.ctes[n], P), NEW item \in Nodes.items, item.kind = "table"
  PROVE  RelationOk(TableRelation(item), P) /\ TableRelation(item).id = NextId
<1> DEFINE cte == CteFor(item)
           r   == TableRelation(item)
           columns == CASE item.columns # <<>> -> Written(item.columns)
                   [] item.columns = <<>> /\ cte.declared -> cte.columns
                   [] OTHER -> [v \in Views |-> IF item.name \in schema[v] THEN Catalog[item.name] ELSE <<>>]
<1>1. item.name \in Tables /\ item.columns \in Seq(Columns)
  BY DEF GrammarInv, IsGrammar
<1>2. CteOk(cte, P)
  <2>1. CteOk(NoCte, P)
    BY DEF NoCte, CteOk
  <2>. QED
    BY <1>1, <2>1 DEF CteFor
<1>3. /\ r.id = NextId /\ r.columns = columns /\ r.args = <<>> /\ r.built = (cte.declared /\ cte.built)
      /\ r.body = IF cte.declared THEN cte.body ELSE <<>>
  BY DEF TableRelation
<1>4. ASSUME NEW v \in Views PROVE IsSeq(columns[v])
  <2>1. CASE item.columns # <<>>
    BY <1>1, <2>1, GivenColumns DEF IsSeq
  <2>2. CASE item.columns = <<>> /\ cte.declared
    <3>1. columns = cte.columns
      BY <2>2
    <3>. QED
      BY <1>2, <2>2, <3>1 DEF CteOk
  <2>3. CASE item.columns = <<>> /\ ~cte.declared
    <3>1. columns[v] = IF item.name \in schema[v] THEN Catalog[item.name] ELSE <<>>
      BY <2>3 DEF Views
    <3>2. IsSeq(Catalog[item.name])
      BY <1>1, CatalogAssumption DEF IsSeq
    <3>. QED
      BY <3>1, <3>2, SeqEmpty
  <2>. QED
    BY <2>1, <2>2, <2>3
<1> HIDE DEF cte, r, columns
<1>5. RelationOk(r, P)
  BY <1>2, <1>3, <1>4, SeqEmpty DEF RelationOk, CteOk
<1>. QED
  BY <1>3, <1>5 DEF r

(***************************************************************************)
(* Steps, and what is on record                                             *)
(***************************************************************************)
\* The blocks that are finished are as they were, but for what they sort.
ScopesStand ==
  /\ IsFiniteSet(scopes') /\ \A s, r \in scopes' : s.path = r.path => s = r
  /\ \A s \in scopes' : \E r \in scopes : SameScope(s, r) /\ s.outputs = r.outputs
  /\ \A r \in scopes : \E s \in scopes' : SameScope(s, r)

LEMMA SameScopesStand == ASSUME RecordInv, scopes' = scopes PROVE ScopesStand
BY DEF RecordInv, OneEach, ScopesStand, SameScope

\* The innermost call goes on with g.
LEMMA RecordMoving ==
  ASSUME Inv, RecordInv, NEW g, stack # <<>>, stack' = Front(stack) \o <<g>>, g.path = top.path,
         ToSet(top.level.relations) \subseteq ToSet(g.level.relations),
         FrameOk(g, KnownPaths, OwnRelations \cup ToSet(g.level.relations)), ScopesStand, returned' = returned
  PROVE  RecordInv'
<1> DEFINE n == Len(stack)
           R == OwnRelations \cup ToSet(g.level.relations)
           P == KnownPaths
<1>1. /\ DOMAIN stack' = 1..n
      /\ \A i \in 1..n : \/ i = n /\ stack'[i] = g
                         \/ i \in 1..(n - 1) /\ i \in DOMAIN stack /\ stack'[i] = stack[i]
  BY StackContinued
<1>2. top = stack[n] /\ DOMAIN stack = 1..n /\ n \in Nat \ {0}
  BY TopFacts
<1> HIDE DEF n
<1>3. n \in 1..n /\ stack'[n] = g
  BY <1>1, <1>2
<1>4. \A i \in 1..n : stack'[i].path = stack[i].path
  BY <1>1, <1>2
<1>5. KnownPaths' = P
  <2>1. {stack'[i].path : i \in DOMAIN stack'} = {stack[i].path : i \in DOMAIN stack}
    BY <1>1, <1>2, <1>4
  <2>2. {s.path : s \in scopes'} = {s.path : s \in scopes}
    BY DEF ScopesStand, SameScope
  <2>. QED
    BY <2>1, <2>2 DEF KnownPaths
<1>6. R \subseteq OwnRelations'
  <2>1. ToSet(g.level.relations) \subseteq OwnRelations'
    BY <1>1, <1>3 DEF OwnRelations, OwnLevels
  <2>2. ASSUME NEW level \in OwnLevels PROVE ToSet(level.relations) \subseteq OwnRelations'
    <3>1. CASE \E s \in scopes : level = s.chain[1]
      <4>1. PICK s \in scopes : level = s.chain[1]
        BY <3>1
      <4>2. PICK r \in scopes' : SameScope(r, s)
        BY DEF ScopesStand
      <4>3. level = r.chain[1]
        BY <4>1, <4>2 DEF SameScope
      <4>4. level \in OwnLevels'
        BY <4>2, <4>3 DEF OwnLevels
      <4>. QED
        BY <4>4 DEF OwnRelations
    <3>2. CASE \E i \in DOMAIN stack : level = stack[i].level
      <4>1. PICK i \in 1..n : level = stack[i].level
        BY <1>2, <3>2
      <4>2. CASE i = n
        BY <1>2, <2>1, <4>1, <4>2
      <4>3. CASE i # n
        <5>1. level = stack'[i].level /\ i \in DOMAIN stack'
          BY <1>1, <4>1, <4>3
        <5>2. level \in OwnLevels'
          BY <5>1 DEF OwnLevels
        <5>. QED
          BY <5>2 DEF OwnRelations
      <4>. QED
        BY <4>2, <4>3
    <3>. QED
      BY <3>1, <3>2 DEF OwnLevels
  <2>. QED
    BY <2>1, <2>2 DEF OwnRelations
<1>7. OwnRelations \subseteq R
  OBVIOUS
<1> HIDE DEF R, P
<1>8. /\ \A f : FrameOk(f, P, OwnRelations) => FrameOk(f, P, OwnRelations')
      /\ \A s : ScopeOk(s, P, OwnRelations) => ScopeOk(s, P, OwnRelations')
      /\ \A outputs : OutputsOk(outputs, P, OwnRelations) => OutputsOk(outputs, P, OwnRelations')
  BY <1>6, <1>7, MoreShown
<1>9. FrameOk(g, P, OwnRelations')
  <2>1. FrameOk(g, P, R)
    BY DEF R, P
  <2>. QED
    BY <1>6, <2>1, MoreShown
<1>10. \A i \in DOMAIN stack' : FrameOk(stack'[i], P, OwnRelations')
  BY <1>1, <1>8, <1>9 DEF RecordInv, P
<1>11. \A s \in scopes' : ScopeOk(s, P, OwnRelations')
  <2> SUFFICES ASSUME NEW s \in scopes' PROVE ScopeOk(s, P, OwnRelations')
    OBVIOUS
  <2>1. PICK r \in scopes : SameScope(s, r) /\ s.outputs = r.outputs
    BY DEF ScopesStand
  <2>2. ScopeOk(r, P, OwnRelations)
    BY DEF RecordInv, P
  <2>3. ScopeOk(s, P, OwnRelations)
    BY <2>1, <2>2 DEF ScopeOk, SameScope
  <2>. QED
    BY <1>8, <2>3
<1>12. OneEach'
  <2>1. \A s \in scopes', i \in DOMAIN stack' : s.path # stack'[i].path
    BY <1>1, <1>2, <1>4 DEF RecordInv, OneEach, ScopesStand, SameScope
  <2>. QED
    BY <2>1 DEF OneEach, ScopesStand
<1>13. OutputsOk(returned', P, OwnRelations')
  BY <1>8 DEF RecordInv, P
<1>. QED
  BY <1>5, <1>10, <1>11, <1>12, <1>13 DEF RecordInv, ScopesStand

\* It calls build.
LEMMA RecordCalling ==
  ASSUME Inv, BlocksInv, RecordInv, NEW g, NEW child, NEW step, NEW next, Calls(g, child, step, next), ~Used(top, step),
         FrameOk(g, KnownPaths \cup {child.path}, OwnRelations), FrameOk(child, KnownPaths \cup {child.path}, OwnRelations),
         returned' = returned
  PROVE  RecordInv'
<1> DEFINE n == Len(stack)
           P == KnownPaths \cup {child.path}
<1>0. /\ stack # <<>> /\ stack' = Front(stack) \o <<g, child>> /\ scopes' = scopes /\ g.path = top.path /\ g.level = top.level
      /\ child.path = Append(top.path, step)
  BY DEF Calls
<1>1. /\ DOMAIN stack' = 1..(n + 1)
      /\ \A i \in 1..(n + 1) : \/ i = n + 1 /\ stack'[i] = child
                               \/ i = n /\ stack'[i] = g
                               \/ i \in 1..(n - 1) /\ i \in DOMAIN stack /\ stack'[i] = stack[i]
  BY <1>0, StackCalled
<1>2. top = stack[n] /\ DOMAIN stack = 1..n /\ n \in Nat \ {0}
  BY <1>0, TopFacts
<1> HIDE DEF n
<1>3. ASSUME NEW i \in 1..n PROVE i \in 1..(n + 1) /\ stack'[i].path = stack[i].path /\ stack'[i].level = stack[i].level
  <2>1. i \in 1..(n + 1) /\ i # n + 1
    BY <1>2
  <2>2. (i = n /\ stack'[i] = g) \/ stack'[i] = stack[i]
    BY <1>1, <2>1
  <2>. QED
    BY <1>0, <1>2, <2>1, <2>2
<1>4. n + 1 \in 1..(n + 1) /\ stack'[n + 1] = child
  <2>1. n + 1 \in 1..(n + 1) /\ n + 1 # n /\ n + 1 \notin 1..(n - 1)
    BY <1>2
  <2>. QED
    BY <1>1, <2>1
<1>5. \A i \in 1..(n + 1) : i \in 1..n \/ i = n + 1
  BY <1>2
<1>6. KnownPaths' = P
  <2>1. {stack'[i].path : i \in 1..(n + 1)} = {stack[i].path : i \in 1..n} \cup {child.path}
    BY <1>3, <1>4, <1>5
  <2>. QED
    BY <1>0, <1>1, <1>2, <2>1 DEF KnownPaths
<1>7. OwnRelations \subseteq OwnRelations'
  <2>1. OwnLevels \subseteq OwnLevels'
    BY <1>0, <1>1, <1>2, <1>3 DEF OwnLevels
  <2>. QED
    BY <2>1 DEF OwnRelations
<1>8. KnownPaths \subseteq P
  OBVIOUS
<1>9. /\ \A f : FrameOk(f, KnownPaths, OwnRelations) => FrameOk(f, P, OwnRelations')
      /\ \A s : ScopeOk(s, KnownPaths, OwnRelations) => ScopeOk(s, P, OwnRelations')
      /\ \A outputs : OutputsOk(outputs, KnownPaths, OwnRelations) => OutputsOk(outputs, P, OwnRelations')
  <2> HIDE DEF P
  <2>. QED
    BY <1>7, <1>8, MoreShown
<1>10. FrameOk(g, P, OwnRelations') /\ FrameOk(child, P, OwnRelations')
  <2>1. FrameOk(g, P, OwnRelations) /\ FrameOk(child, P, OwnRelations)
    OBVIOUS
  <2> HIDE DEF P
  <2>. QED
    BY <1>7, <2>1, MoreShown
<1>11. child.path \notin KnownPaths
  <2>1. \A b \in Blocks : b.path # Append(top.path, step)
    BY <1>0, FreshPath
  <2>. QED
    BY <1>0, <2>1, PathsOfBlocks
<1> HIDE DEF P
<1>12. \A i \in DOMAIN stack' : FrameOk(stack'[i], P, OwnRelations')
  <2> SUFFICES ASSUME NEW i \in 1..(n + 1) PROVE FrameOk(stack'[i], P, OwnRelations')
    BY <1>1
  <2>1. CASE stack'[i] = child \/ stack'[i] = g
    BY <1>10, <2>1
  <2>2. CASE i \in DOMAIN stack /\ stack'[i] = stack[i]
    <3>1. FrameOk(stack[i], KnownPaths, OwnRelations)
      BY <2>2 DEF RecordInv
    <3>. QED
      BY <1>9, <2>2, <3>1
  <2>. QED
    BY <1>1, <2>1, <2>2
<1>13. \A s \in scopes' : ScopeOk(s, P, OwnRelations')
  BY <1>0, <1>9 DEF RecordInv
<1>14. OneEach'
  <2>1. \A s \in scopes, i \in 1..n : s.path # stack[i].path
    BY <1>2 DEF RecordInv, OneEach
  <2>2. \A s \in scopes : s.path # child.path
    BY <1>11 DEF KnownPaths
  <2>3. \A s \in scopes, i \in 1..(n + 1) : s.path # stack'[i].path
    BY <1>3, <1>4, <1>5, <2>1, <2>2
  <2>. QED
    BY <1>0, <1>1, <2>3 DEF OneEach, RecordInv
<1>15. OutputsOk(returned', P, OwnRelations')
  BY <1>9 DEF RecordInv
<1>. QED
  BY <1>0, <1>6, <1>12, <1>13, <1>14, <1>15 DEF RecordInv

\* The levels of a block and of those around it.
LEMMA ShowsAround ==
  ASSUME NEW level, NEW levels, IsSeq(levels), NEW R, ShowsOnly(level, R), Shows(levels, R)
  PROVE  Shows(<<level>> \o levels, R)
<1>1. DOMAIN (<<level>> \o levels) = 1..(Len(levels) + 1) /\ Len(levels) \in Nat /\ DOMAIN levels = 1..Len(levels)
  BY SeqFacts, OneBefore
<1>2. (<<level>> \o levels)[1] = level /\ \A k \in 1..Len(levels) : (<<level>> \o levels)[k + 1] = levels[k]
  BY OneBefore
<1> DEFINE all == <<level>> \o levels
           m == Len(levels)
<1>3. DOMAIN all = 1..(m + 1) /\ m \in Nat /\ all[1] = level /\ DOMAIN levels = 1..m /\ \A k \in 1..m : all[k + 1] = levels[k]
  BY <1>1, <1>2
<1> HIDE DEF all, m
<1>4. ASSUME NEW k \in DOMAIN all PROVE ShowsOnly(all[k], R)
  <2>1. CASE k = 1
    BY <1>3, <2>1
  <2>2. CASE k # 1
    <3>1. k - 1 \in 1..m /\ (k - 1) + 1 = k
      BY <1>3, <2>2
    <3>2. all[k] = levels[k - 1] /\ k - 1 \in DOMAIN levels
      BY <1>3, <3>1
    <3>. QED
      BY <3>2 DEF Shows
  <2>. QED
    BY <2>1, <2>2
<1>. QED
  BY <1>4 DEF Shows, all

LEMMA TopOk ==
  ASSUME Inv, RecordInv, stack # <<>>
  PROVE  /\ FrameOk(top, KnownPaths, OwnRelations) /\ LevelOk(top.level, KnownPaths, OwnRelations)
         /\ IdsOk(top.path, top.level.relations) /\ top.path \in KnownPaths
<1>1. /\ FrameInv(top) /\ top.path \in KnownPaths /\ top = stack[Len(stack)] /\ Len(stack) \in Nat \ {0}
      /\ DOMAIN stack = 1..Len(stack)
  BY TopFacts
<1>2. Len(stack) \in DOMAIN stack
  BY <1>1
<1>3. FrameOk(top, KnownPaths, OwnRelations)
  BY <1>1, <1>2 DEF RecordInv
<1>4. IsSeq(top.level.relations) /\ IdsOk(top.path, top.level.relations)
  BY <1>1 DEF FrameInv, LevelInv, IdsOk
<1>5. ToSet(top.level.relations) \subseteq OwnRelations
  <2>1. top.level \in OwnLevels
    BY <1>1, <1>2 DEF OwnLevels
  <2>. QED
    BY <2>1 DEF OwnRelations
<1>. QED
  BY <1>1, <1>3, <1>4, <1>5 DEF LevelOk, FrameOk, Recorded

LEMMA RecordReturning == ASSUME Inv, BlocksInv, RecordInv, Return PROVE RecordInv'
<1> DEFINE n == Len(stack)
           s == [path |-> top.path, query |-> top.query, chain |-> <<top.level>> \o top.parent,
                 joins |-> top.joins, ctes |-> top.ctes, outputs |-> top.outputs, compoundOrder |-> top.compoundOrder]
           P == KnownPaths
           R == OwnRelations
<1>1. /\ stack # <<>> /\ top.todo = <<>> /\ stack' = Front(stack) /\ returned' = top.outputs /\ scopes' = scopes \cup {s}
  BY DEF Return
<1>2. top = stack[n] /\ DOMAIN stack = 1..n /\ n \in Nat \ {0} /\ FrameInv(top)
  BY <1>1, TopFacts
<1>3. DOMAIN stack' = 1..(n - 1) /\ \A i \in 1..(n - 1) : i \in DOMAIN stack /\ stack'[i] = stack[i]
  BY <1>1, StackReturned
<1>4. /\ FrameOk(top, P, R) /\ LevelOk(top.level, P, R) /\ IdsOk(top.path, top.level.relations)
  BY <1>1, TopOk
<1>5. s.chain[1] = top.level /\ Shows(s.chain, R)
  <2>1. IsSeq(top.parent) /\ s.chain = <<top.level>> \o top.parent
    BY <1>2 DEF FrameInv, KeepsLevels
  <2>2. ShowsOnly(top.level, R) /\ Shows(top.parent, R)
    BY <1>4 DEF ShowsOnly, LevelOk, FrameOk, Recorded
  <2> HIDE DEF s, R
  <2>. QED
    BY <2>1, <2>2, OneBefore, ShowsAround
<1>6. s.path = top.path /\ s.query = top.query /\ s.joins = top.joins /\ s.outputs = top.outputs
  OBVIOUS
<1> HIDE DEF n, s, R, P
<1>7. ScopeOk(s, P, R)
  <2>1. DOMAIN top.todo = {}
    BY <1>1
  <2>2. /\ Has(top.query.left) => ArmAt(top.path, "left") \in P
        /\ Has(top.query.right) => ArmAt(top.path, "right") \in P
    BY <1>4, <2>1 DEF FrameOk, Recorded, ArmOk
  <2>. QED
    BY <1>4, <1>5, <1>6, <2>2 DEF ScopeOk, FrameOk, Recorded
<1>8. \A i \in DOMAIN stack : i \in DOMAIN stack' \/ stack[i] = top
  BY <1>2, <1>3
<1>9. n \in DOMAIN stack /\ n \notin 1..(n - 1)
  BY <1>2
<1>10. KnownPaths' = P
  <2>1. {stack[i].path : i \in DOMAIN stack} = {stack'[i].path : i \in DOMAIN stack'} \cup {top.path}
    BY <1>2, <1>3, <1>8, <1>9
  <2>. QED
    BY <1>1, <1>6, <2>1 DEF KnownPaths, P
<1>11. R \subseteq OwnRelations'
  <2>1. ASSUME NEW level \in OwnLevels PROVE level \in OwnLevels'
    <3>1. CASE \E r \in scopes : level = r.chain[1]
      BY <1>1, <3>1 DEF OwnLevels
    <3>2. CASE \E i \in DOMAIN stack : level = stack[i].level
      <4>1. PICK i \in DOMAIN stack : level = stack[i].level
        BY <3>2
      <4>2. CASE i \in DOMAIN stack'
        BY <1>3, <4>1, <4>2 DEF OwnLevels
      <4>3. CASE stack[i] = top
        BY <1>1, <1>5, <4>1, <4>3 DEF OwnLevels
      <4>. QED
        BY <1>8, <4>2, <4>3
    <3>. QED
      BY <3>1, <3>2 DEF OwnLevels
  <2>. QED
    BY <2>1 DEF OwnRelations, R
<1>12. /\ \A f : FrameOk(f, P, R) => FrameOk(f, P, OwnRelations')
       /\ \A r : ScopeOk(r, P, R) => ScopeOk(r, P, OwnRelations')
       /\ \A outputs : OutputsOk(outputs, P, R) => OutputsOk(outputs, P, OwnRelations')
  BY <1>11, MoreShown
<1>13. \A i \in DOMAIN stack' : FrameOk(stack'[i], P, OwnRelations')
  BY <1>3, <1>12 DEF RecordInv, P, R
<1>14. \A r \in scopes' : ScopeOk(r, P, OwnRelations')
  BY <1>1, <1>7, <1>12 DEF RecordInv, P, R
<1>15. OneEach'
  <2>1. \A r \in scopes : r.path # s.path
    BY <1>2, <1>6, <1>9 DEF RecordInv, OneEach
  <2>2. ASSUME NEW i \in DOMAIN stack' PROVE stack'[i].path # s.path
    <3>1. Len(stack[i].path) = i - 1 /\ Len(top.path) = n - 1 /\ i \in 1..(n - 1)
      BY <1>2, <1>3, <1>9 DEF BlocksInv
    <3>. QED
      BY <1>2, <1>3, <1>6, <3>1
  <2>3. \A r, t \in scopes' : r.path = t.path => r = t
    BY <1>1, <2>1 DEF RecordInv, OneEach
  <2>4. \A r \in scopes', i \in DOMAIN stack' : r.path # stack'[i].path
    BY <1>1, <1>3, <2>2 DEF RecordInv, OneEach
  <2>. QED
    BY <2>3, <2>4 DEF OneEach
<1>16. OutputsOk(returned', P, OwnRelations')
  BY <1>1, <1>4, <1>12 DEF FrameOk, Recorded
<1>17. IsFiniteSet(scopes')
  BY <1>1, FS_AddElement DEF RecordInv
<1>. QED
  BY <1>10, <1>13, <1>14, <1>15, <1>16, <1>17 DEF RecordInv

(***************************************************************************)
(* What is left to do                                                       *)
(***************************************************************************)
Does(todo, do) == \E i \in DOMAIN todo : todo[i].do = do

LEMMA DoesConcat ==
  ASSUME NEW s, NEW t, IsSeq(s), IsSeq(t), NEW do
  PROVE  Does(s \o t, do) <=> Does(s, do) \/ Does(t, do)
<1> DEFINE all == s \o t
           m == Len(s)
           n == Len(t)
<1>1. /\ IsSeq(all) /\ Len(all) = m + n /\ (\A i \in 1..m : all[i] = s[i]) /\ (\A i \in 1..n : all[m + i] = t[i])
      /\ \A i \in DOMAIN all : all[i] = IF i <= m THEN s[i] ELSE t[i - m]
  BY SeqConcat
<1>2. m \in Nat /\ n \in Nat /\ DOMAIN s = 1..m /\ DOMAIN t = 1..n /\ DOMAIN all = 1..(m + n)
  BY <1>1, SeqFacts
<1> HIDE DEF all, m, n
<1>3. \A i \in DOMAIN all : \/ i \in DOMAIN s /\ all[i] = s[i]
                            \/ i - m \in DOMAIN t /\ all[i] = t[i - m]
  BY <1>1, <1>2
<1>4. \A i \in DOMAIN s : i \in DOMAIN all /\ all[i] = s[i]
  BY <1>1, <1>2
<1>5. \A i \in DOMAIN t : m + i \in DOMAIN all /\ all[m + i] = t[i]
  BY <1>1, <1>2
<1>6. Does(all, do) <=> Does(s, do) \/ Does(t, do)
  BY <1>3, <1>4, <1>5 DEF Does
<1>. QED
  BY <1>6 DEF all

LEMMA DoesNone == ASSUME NEW todo, NEW kinds PROVE NoneOf(todo, kinds) <=> \A do \in kinds : ~Does(todo, do)
BY DEF NoneOf, Does

LEMMA DoesOne == ASSUME NEW t, NEW do PROVE IsSeq(<<t>>) /\ (Does(<<t>>, do) <=> t.do = do)
<1>1. IsSeq(<<t>>) /\ DOMAIN <<t>> = {1} /\ <<t>>[1] = t
  BY SeqOne
<1>. QED
  BY <1>1 DEF Does

LEMMA DoesNothing == ASSUME NEW do PROVE IsSeq(<<>>) /\ ~Does(<<>>, do)
<1>1. DOMAIN <<>> = {}
  OBVIOUS
<1>. QED
  BY <1>1, SeqEmpty DEF Does

LEMMA DoesRest ==
  ASSUME NEW todo, IsSeq(todo), todo # <<>>, NEW do
  PROVE  /\ IsSeq(Tail(todo)) /\ (Does(todo, do) <=> Head(todo).do = do \/ Does(Tail(todo), do))
<1>1. IsSeq(Tail(todo)) /\ Len(Tail(todo)) = Len(todo) - 1 /\ \A i \in 1..(Len(todo) - 1) : Tail(todo)[i] = todo[i + 1]
  BY SeqTail
<1>2. Len(todo) \in Nat /\ DOMAIN todo = 1..Len(todo) /\ Len(todo) # 0 /\ DOMAIN Tail(todo) = 1..(Len(todo) - 1)
  BY <1>1, SeqFacts
<1>3. Head(todo) = todo[1]
  BY DEF IsSeq
<1>4. \A i \in DOMAIN Tail(todo) : i + 1 \in DOMAIN todo /\ Tail(todo)[i] = todo[i + 1]
  BY <1>1, <1>2
<1>5. \A i \in DOMAIN todo : i = 1 \/ (i - 1 \in DOMAIN Tail(todo) /\ Tail(todo)[i - 1] = todo[i])
  <2>1. \A i \in DOMAIN todo : i = 1 \/ (i - 1 \in 1..(Len(todo) - 1) /\ (i - 1) + 1 = i)
    BY <1>2
  <2>. QED
    BY <1>1, <1>2, <2>1
<1>6. 1 \in DOMAIN todo
  BY <1>2
<1>. QED
  BY <1>1, <1>3, <1>4, <1>5, <1>6 DEF Does

\* A block begins with both its arms to build, and with nothing to bind.
LEMMA AgendaDoes ==
  ASSUME GrammarInv, NEW q \in Nodes.blocks
  PROVE  /\ NoneOf(Agenda(q), BindKinds)
         /\ Has(q.left) => Does(Agenda(q), "left")
         /\ Has(q.right) => Does(Agenda(q), "right")
<1> DEFINE a == [i \in DOMAIN q.with |-> Todo("cte", i)]
           b == [i \in DOMAIN q.from |-> Todo("table", q.from[i])]
           c == IF Has(q.left) THEN <<Todo("left", 1)>> ELSE <<Todo("outputs", 1)>>
           d == IF Has(q.right) THEN <<Todo("right", 1), Todo("order", 1)>> ELSE <<>>
           w == [i \in DOMAIN q.where |-> Todo("subquery", [role |-> "where", index |-> i, query |-> q.where[i]])]
<1>1. IsSeq(q.with) /\ IsSeq(q.from) /\ IsSeq(q.where)
  BY Grammar
<1>2. /\ Len(q.with) \in Nat /\ DOMAIN q.with = 1..Len(q.with) /\ Len(q.from) \in Nat /\ DOMAIN q.from = 1..Len(q.from)
      /\ Len(q.where) \in Nat /\ DOMAIN q.where = 1..Len(q.where)
  BY <1>1, SeqFacts
<1>3. IsSeq(a) /\ NoneOf(a, BindKinds)
  <2>1. IsSeq(a)
    BY <1>2, SeqNew
  <2>2. \A i \in DOMAIN a : a[i].do = "cte"
    BY DEF Todo
  <2> HIDE DEF a
  <2>. QED
    BY <2>1, <2>2 DEF NoneOf, BindKinds
<1>4. IsSeq(b) /\ NoneOf(b, BindKinds)
  <2>1. IsSeq(b)
    BY <1>2, SeqNew
  <2>2. \A i \in DOMAIN b : b[i].do = "table"
    BY DEF Todo
  <2> HIDE DEF b
  <2>. QED
    BY <2>1, <2>2 DEF NoneOf, BindKinds
<1>5. IsSeq(c) /\ NoneOf(c, BindKinds) /\ (Has(q.left) => Does(c, "left"))
  <2>1. IsSeq(c) /\ DOMAIN c = {1} /\ c[1].do \in {"left", "outputs"} /\ (Has(q.left) => c[1].do = "left")
    BY SeqOne DEF Todo
  <2> HIDE DEF c
  <2>. QED
    BY <2>1 DEF NoneOf, BindKinds, Does
<1>6. IsSeq(d) /\ NoneOf(d, BindKinds) /\ (Has(q.right) => Does(d, "right"))
  <2>1. CASE ~Has(q.right)
    <3>1. d = <<>>
      BY <2>1
    <3> HIDE DEF d
    <3>. QED
      BY <2>1, <3>1, DoesNothing, DoesNone
  <2>2. CASE Has(q.right)
    <3> DEFINE x == Todo("right", 1)
               y == Todo("order", 1)
    <3>1. d = <<x, y>> /\ x.do = "right" /\ y.do = "order"
      BY <2>2 DEF Todo
    <3> HIDE DEF d, x, y
    <3>2. IsSeq(d) /\ DOMAIN d = {1, 2} /\ d[1] = x /\ d[2] = y
      BY <3>1, SeqTwo, SeqFacts
    <3>. QED
      BY <3>1, <3>2 DEF NoneOf, BindKinds, Does
  <2>. QED
    BY <2>1, <2>2
<1>7. IsSeq(w) /\ NoneOf(w, BindKinds)
  <2>1. IsSeq(w)
    BY <1>2, SeqNew
  <2>2. \A i \in DOMAIN w : w[i].do = "subquery"
    BY DEF Todo
  <2> HIDE DEF w
  <2>. QED
    BY <2>1, <2>2 DEF NoneOf, BindKinds
<1> HIDE DEF a, b, c, d, w
<1> DEFINE ab == a \o b
           abc == ab \o c
           abcd == abc \o d
<1>8. IsSeq(ab) /\ NoneOf(ab, BindKinds)
  BY <1>3, <1>4, NoneConcat, SeqConcat
<1> HIDE DEF ab
<1>9. IsSeq(abc) /\ NoneOf(abc, BindKinds) /\ (Does(c, "left") => Does(abc, "left"))
  BY <1>5, <1>8, NoneConcat, SeqConcat, DoesConcat
<1> HIDE DEF abc
<1>10. /\ IsSeq(abcd) /\ NoneOf(abcd, BindKinds)
       /\ (Does(abc, "left") => Does(abcd, "left")) /\ (Does(d, "right") => Does(abcd, "right"))
  BY <1>6, <1>9, NoneConcat, SeqConcat, DoesConcat
<1> HIDE DEF abcd
<1>11. /\ NoneOf(abcd \o w, BindKinds)
       /\ (Does(abcd, "left") => Does(abcd \o w, "left")) /\ (Does(abcd, "right") => Does(abcd \o w, "right"))
  BY <1>7, <1>10, NoneConcat, DoesConcat
<1>12. Agenda(q) = abcd \o w
  BY DEF Agenda, a, b, c, d, w, ab, abc, abcd
<1>. QED
  BY <1>5, <1>6, <1>9, <1>10, <1>11, <1>12

\* A block that build is called for.
LEMMA NewOk ==
  ASSUME GrammarInv, NEW P, NEW R, NEW q \in Nodes.blocks, NEW path, NEW parent, Shows(parent, R),
         NEW ctes, \A n \in Tables : CteOk(ctes[n], P)
  PROVE  FrameOk(Frame(q, path, parent, ctes), P, R)
<1> DEFINE f == Frame(q, path, parent, ctes)
<1>1. /\ f.query = q /\ f.path = path /\ f.parent = parent /\ f.ctes = ctes /\ f.level = EmptyLevel /\ f.joins = <<>>
      /\ f.outputs = NoOutputs /\ f.todo = Agenda(q)
  BY DEF Frame
<1>2. f.level.relations = <<>>
  BY <1>1 DEF EmptyLevel
<1> HIDE DEF f
<1>3. ToSet(<<>>) = {} /\ DOMAIN <<>> = {}
  BY DEF ToSet
<1>4. OutputsOk(NoOutputs, P, R)
  <2>1. /\ NoOutputs.slots = [v \in Views |-> <<>>] /\ NoOutputs.complete = [v \in Views |-> TRUE]
    BY DEF NoOutputs, Views
  <2>. QED
    BY <2>1, NoSlots DEF OutputsOk
<1>5. /\ NoneOf(Agenda(q), BindKinds)
      /\ Has(q.left) => Does(Agenda(q), "left")
      /\ Has(q.right) => Does(Agenda(q), "right")
  BY AgendaDoes
<1>6. AwaitsOk(f, P) /\ ArmOk(f, f.query.left, "left", P) /\ ArmOk(f, f.query.right, "right", P)
  BY <1>1, <1>5 DEF AwaitsOk, ArmOk, NoneOf, Does
<1>7. Shows(f.parent, R) /\ Shows(f.joins, R)
  BY <1>1, <1>3 DEF Shows
<1>8. \A r \in ToSet(f.level.relations) : RelationOk(r, P)
  BY <1>2, <1>3
<1>9. FrameOk(f, P, R)
  BY <1>1, <1>4, <1>6, <1>7, <1>8 DEF FrameOk, Recorded
<1>. QED
  BY <1>9 DEF f

\* The innermost call goes on, with nothing to bind.
LEMMA RecordMoves ==
  ASSUME Inv, RecordInv, NEW do, Doing(do), do \notin {"left", "right"},
         NEW g, stack' = Front(stack) \o <<g>>, g.path = top.path, g.query = top.query, NoneOf(g.todo, BindKinds),
         \A role \in {"left", "right"} : Does(Tail(top.todo), role) => Does(g.todo, role),
         ToSet(top.level.relations) \subseteq ToSet(g.level.relations),
         Recorded(g, KnownPaths, OwnRelations \cup ToSet(g.level.relations)), ScopesStand, returned' = returned
  PROVE  RecordInv'
<1> DEFINE R == OwnRelations \cup ToSet(g.level.relations)
<1>1. FrameInv(top) /\ stack # <<>> /\ top.todo # <<>> /\ Head(top.todo).do = do
  BY DoingFacts
<1>2. FrameOk(top, KnownPaths, OwnRelations)
  BY <1>1, TopOk
<1>3. \A role \in {"left", "right"} : Does(top.todo, role) => Does(g.todo, role)
  <2>1. IsSeq(top.todo)
    BY <1>1 DEF FrameInv, AgendaInv
  <2>. QED
    BY <1>1, <2>1, DoesRest
<1>4. AwaitsOk(g, KnownPaths)
  BY DEF AwaitsOk, NoneOf
<1>5. ArmOk(g, g.query.left, "left", KnownPaths)
  BY <1>2, <1>3 DEF FrameOk, ArmOk, Does
<1>6. ArmOk(g, g.query.right, "right", KnownPaths)
  BY <1>2, <1>3 DEF FrameOk, ArmOk, Does
<1>7. FrameOk(g, KnownPaths, OwnRelations \cup ToSet(g.level.relations))
  BY <1>4, <1>5, <1>6 DEF FrameOk
<1>. QED
  BY <1>1, <1>7, RecordMoving

LEMMA RecordGoes ==
  ASSUME Inv, RecordInv, NEW do, Doing(do), do \notin {"left", "right"},
         NEW f, DOMAIN f = DOMAIN top, f.path = top.path, f.query = top.query, NEW next, stack' = Front(stack) \o <<Goes(f, next)>>,
         NoneOf(next \o Tail(f.todo), BindKinds),
         \A role \in {"left", "right"} : Does(Tail(top.todo), role) => Does(next \o Tail(f.todo), role),
         ToSet(top.level.relations) \subseteq ToSet(f.level.relations),
         Recorded(f, KnownPaths, OwnRelations \cup ToSet(f.level.relations)), ScopesStand, returned' = returned
  PROVE  RecordInv'
<1> DEFINE g == Goes(f, next)
           R == OwnRelations \cup ToSet(f.level.relations)
<1>1. FrameInv(top)
  BY DoingFacts
<1>2. /\ g.todo = next \o Tail(f.todo) /\ g.query = f.query /\ g.path = f.path /\ g.parent = f.parent
      /\ g.ctes = f.ctes /\ g.level = f.level /\ g.joins = f.joins /\ g.outputs = f.outputs
  BY <1>1, GoesFields DEF FrameInv
<1>3. Recorded(f, KnownPaths, R)
  OBVIOUS
<1>4. stack' = Front(stack) \o <<g>>
  OBVIOUS
<1> HIDE DEF g, R
<1>5. Recorded(g, KnownPaths, R)
  BY <1>2, <1>3 DEF Recorded
<1>6. Recorded(g, KnownPaths, OwnRelations \cup ToSet(g.level.relations))
  BY <1>2, <1>5 DEF R
<1>. QED
  BY <1>2, <1>4, <1>6, RecordMoves

\* It only puts something in front of what is left.
LEMMA AgendaStays ==
  ASSUME Inv, RecordInv, NEW do, Doing(do), NEW next, IsSeq(next), NoneOf(next, BindKinds)
  PROVE  /\ NoneOf(next \o Tail(top.todo), BindKinds)
         /\ \A role \in {"left", "right"} : Does(Tail(top.todo), role) => Does(next \o Tail(top.todo), role)
         /\ NoneOf(Tail(top.todo), BindKinds) /\ IsSeq(Tail(top.todo))
<1>1. FrameInv(top) /\ stack # <<>> /\ top.todo # <<>>
  BY DoingFacts
<1>2. IsSeq(top.todo)
  BY <1>1 DEF FrameInv, AgendaInv
<1>3. FrameOk(top, KnownPaths, OwnRelations)
  BY <1>1, TopOk
<1>4. NoneOf(Tail(top.todo), BindKinds) /\ IsSeq(Tail(top.todo))
  <2>1. IsSeq(Tail(top.todo)) /\ Len(Tail(top.todo)) = Len(top.todo) - 1 /\ \A i \in 1..(Len(top.todo) - 1) : Tail(top.todo)[i] = top.todo[i + 1]
    BY <1>1, <1>2, SeqTail
  <2>2. Len(top.todo) \in Nat /\ DOMAIN top.todo = 1..Len(top.todo) /\ DOMAIN Tail(top.todo) = 1..(Len(top.todo) - 1)
    BY <1>2, <2>1, SeqFacts
  <2>3. \A i \in DOMAIN Tail(top.todo) : i + 1 \in DOMAIN top.todo /\ i + 1 # 1 /\ Tail(top.todo)[i] = top.todo[i + 1]
    BY <2>1, <2>2
  <2>. QED
    BY <1>3, <2>1, <2>3 DEF FrameOk, AwaitsOk, NoneOf
<1>5. NoneOf(next \o Tail(top.todo), BindKinds)
  BY <1>4, NoneConcat
<1>6. \A role \in {"left", "right"} : Does(Tail(top.todo), role) => Does(next \o Tail(top.todo), role)
  BY <1>4, DoesConcat
<1>. QED
  BY <1>4, <1>5, <1>6

LEMMA RecordContinue ==
  ASSUME Inv, RecordInv, NEW do, Doing(do), do \notin {"left", "right"},
         NEW f, DOMAIN f = DOMAIN top, f.path = top.path, f.query = top.query, f.todo = top.todo, NEW next, Continue(f, next),
         IsSeq(next), NoneOf(next, BindKinds), ToSet(top.level.relations) \subseteq ToSet(f.level.relations),
         Recorded(f, KnownPaths, OwnRelations \cup ToSet(f.level.relations))
  PROVE  RecordInv'
<1>1. stack' = Front(stack) \o <<Goes(f, next)>> /\ scopes' = scopes /\ returned' = returned
  BY DEF Continue
<1>2. ScopesStand
  BY <1>1, SameScopesStand
<1>3. /\ NoneOf(next \o Tail(f.todo), BindKinds)
      /\ \A role \in {"left", "right"} : Does(Tail(top.todo), role) => Does(next \o Tail(f.todo), role)
  BY AgendaStays
<1>. QED
  BY <1>1, <1>2, <1>3, RecordGoes

LEMMA TopRecorded ==
  ASSUME Inv, RecordInv, stack # <<>>, NEW R, OwnRelations \subseteq R
  PROVE  Recorded(top, KnownPaths, R)
<1>1. FrameOk(top, KnownPaths, OwnRelations)
  BY TopOk
<1>2. FrameOk(top, KnownPaths, R)
  BY <1>1, MoreShown
<1>. QED
  BY <1>2 DEF FrameOk

LEMMA RecordNext ==
  ASSUME Inv, RecordInv, NEW do, Doing(do), do \notin {"left", "right"}, NEW next, Continue(top, next), IsSeq(next),
         NoneOf(next, BindKinds)
  PROVE  RecordInv'
<1>1. stack # <<>>
  BY DoingFacts
<1>2. Recorded(top, KnownPaths, OwnRelations \cup ToSet(top.level.relations))
  BY <1>1, TopRecorded
<1>. QED
  BY <1>2, RecordContinue

LEMMA RecordCollectTable == ASSUME Inv, RecordInv, CollectTable PROVE RecordInv'
<1> DEFINE begun == [i \in DOMAIN what.joins |-> Todo("join", [join |-> what.joins[i], start |-> Len(top.level.relations)])]
           first == Todo("item", what.primary)
           one   == <<first>>
           next  == one \o begun
<1>1. Doing("table") /\ Continue(top, next)
  BY DEF CollectTable
<1>2. what \in Nodes.tables /\ GrammarInv
  BY <1>1, DoingFacts DEF TodoInv
<1>3. IsSeq(begun)
  <2>1. Len(what.joins) \in Nat /\ DOMAIN what.joins = 1..Len(what.joins)
    BY <1>2, Grammar, SeqFacts
  <2>2. DOMAIN begun = 1..Len(what.joins) /\ begun = [i \in 1..Len(what.joins) |-> begun[i]]
    BY <2>1
  <2>. QED
    BY <2>1, <2>2, SeqNew
<1>4. first.do = "item" /\ \A i \in DOMAIN begun : begun[i].do = "join"
  BY DEF Todo
<1> HIDE DEF begun, first
<1>5. NoneOf(begun, BindKinds)
  BY <1>4 DEF NoneOf, BindKinds
<1>6. IsSeq(one) /\ NoneOf(one, BindKinds)
  BY <1>4, NoneOne DEF BindKinds
<1> HIDE DEF one
<1>7. IsSeq(next) /\ NoneOf(next, BindKinds)
  BY <1>3, <1>5, <1>6, SeqConcat, NoneConcat
<1> HIDE DEF next
<1>. QED
  BY <1>1, <1>7, RecordNext

LEMMA RecordCollectGroup == ASSUME Inv, RecordInv, CollectGroup PROVE RecordInv'
<1> DEFINE next == [i \in DOMAIN what.items |-> Todo("table", what.items[i])]
<1>1. Doing("item") /\ what.kind = "group" /\ Continue(top, next)
  BY DEF CollectGroup
<1>2. what \in Nodes.items /\ GrammarInv
  BY <1>1, DoingFacts DEF TodoInv
<1>3. IsSeq(next)
  <2>1. Len(what.items) \in Nat /\ DOMAIN what.items = 1..Len(what.items)
    BY <1>1, <1>2, Grammar, SeqFacts
  <2>2. DOMAIN next = 1..Len(what.items) /\ next = [i \in 1..Len(what.items) |-> next[i]]
    BY <2>1
  <2>. QED
    BY <2>1, <2>2, SeqNew
<1>4. \A i \in DOMAIN next : next[i].do = "table"
  BY DEF Todo
<1> HIDE DEF next
<1>5. NoneOf(next, BindKinds)
  BY <1>4 DEF NoneOf, BindKinds
<1>. QED
  BY <1>1, <1>3, <1>5, RecordNext

LEMMA RecordJoin == ASSUME Inv, RecordInv, Join PROVE RecordInv'
<1> DEFINE first == Todo("item", what.join.right)
           last  == Todo("joined", [join |-> what.join, start |-> what.start, left |-> From(top.level, what.start),
                                    before |-> Len(top.level.relations)])
           next  == <<first, last>>
<1>1. Doing("join") /\ Continue(top, next)
  BY DEF Join
<1>2. first.do = "item" /\ last.do = "joined"
  BY DEF Todo
<1> HIDE DEF first, last
<1>3. IsSeq(next) /\ DOMAIN next = {1, 2} /\ next[1] = first /\ next[2] = last
  BY SeqTwo, SeqFacts
<1> HIDE DEF next
<1>4. NoneOf(next, BindKinds)
  BY <1>2, <1>3 DEF NoneOf, BindKinds
<1>. QED
  BY <1>1, <1>3, <1>4, RecordNext

\* A step that sets the outputs.
LEMMA RecordOutputs ==
  ASSUME Inv, RecordInv, NEW do, Doing(do), do \notin {"left", "right"}, NEW outputs, OutputsOk(outputs, KnownPaths, OwnRelations),
         Continue([top EXCEPT !.outputs = outputs], <<>>)
  PROVE  RecordInv'
<1> DEFINE f == [top EXCEPT !.outputs = outputs]
           R == OwnRelations \cup ToSet(f.level.relations)
<1>1. FrameInv(top) /\ stack # <<>>
  BY DoingFacts
<1>2. /\ DOMAIN f = DOMAIN top /\ f.path = top.path /\ f.query = top.query /\ f.todo = top.todo /\ f.parent = top.parent
      /\ f.level = top.level /\ f.joins = top.joins /\ f.ctes = top.ctes /\ f.outputs = outputs
  BY <1>1 DEF FrameInv
<1>3. Continue(f, <<>>)
  OBVIOUS
<1> HIDE DEF f
<1>4. Recorded(top, KnownPaths, R)
  BY <1>1, TopRecorded
<1>5. OutputsOk(outputs, KnownPaths, R)
  BY MoreShown
<1> HIDE DEF R
<1>6. Recorded(f, KnownPaths, R)
  BY <1>2, <1>4, <1>5 DEF Recorded
<1>7. IsSeq(<<>>) /\ NoneOf(<<>>, BindKinds)
  BY DoesNothing, DoesNone
<1>8. Recorded(f, KnownPaths, OwnRelations \cup ToSet(f.level.relations))
  BY <1>6 DEF R
<1>. QED
  BY <1>2, <1>3, <1>7, <1>8, RecordContinue

LEMMA RecordCollectOutputs == ASSUME Inv, RecordInv, CollectOutputs PROVE RecordInv'
<1>1. Doing("outputs") /\ Continue([top EXCEPT !.outputs = Collected(top.query)], <<>>)
  BY DEF CollectOutputs
<1>2. FrameInv(top) /\ stack # <<>> /\ GrammarInv
  BY <1>1, DoingFacts
<1>3. LevelOk(top.level, KnownPaths, OwnRelations) /\ top.path \in KnownPaths
  BY <1>2, TopOk
<1>4. OutputsOk(Collected(top.query), KnownPaths, OwnRelations)
  BY <1>2, <1>3, CollectedOk DEF FrameInv
<1>. QED
  BY <1>1, <1>4, RecordOutputs

LEMMA RecordBindLeft == ASSUME Inv, RecordInv, BindLeft PROVE RecordInv'
<1> DEFINE outputs == [returned EXCEPT !.left = [v \in Views |-> Len(returned.slots[v])]]
<1>1. Doing("bind_left") /\ Continue([top EXCEPT !.outputs = outputs], <<>>)
  BY DEF BindLeft
<1>2. outputs.slots = returned.slots /\ outputs.complete = returned.complete
  BY DEF Inv, OutputsInv
<1> HIDE DEF outputs
<1>3. OutputsOk(outputs, KnownPaths, OwnRelations)
  BY <1>2 DEF RecordInv, OutputsOk
<1>. QED
  BY <1>1, <1>3, RecordOutputs

LEMMA RecordBindRight == ASSUME Inv, RecordInv, BindRight PROVE RecordInv'
<1> DEFINE outputs == IF top.query.byName THEN ByName(top.outputs, returned) ELSE top.outputs
<1>1. Doing("bind_right") /\ Continue([top EXCEPT !.outputs = outputs], <<>>)
  BY DEF BindRight
<1>2. FrameInv(top) /\ stack # <<>>
  BY <1>1, DoingFacts
<1>3. OutputsOk(top.outputs, KnownPaths, OwnRelations) /\ OutputsOk(returned, KnownPaths, OwnRelations)
  BY <1>2, TopOk DEF FrameOk, Recorded, RecordInv
<1>4. OutputsOk(ByName(top.outputs, returned), KnownPaths, OwnRelations)
  BY <1>2, <1>3, ByNameOk DEF FrameInv
<1>5. OutputsOk(outputs, KnownPaths, OwnRelations)
  BY <1>3, <1>4
<1> HIDE DEF outputs
<1>. QED
  BY <1>1, <1>5, RecordOutputs

\* A step that adds a relation.
LEMMA RecordAdds ==
  ASSUME Inv, RecordInv, NEW do, Doing(do), do \notin {"left", "right"}, NEW r, RelationOk(r, KnownPaths),
         Continue(WithRelation(top, r), <<>>)
  PROVE  RecordInv'
<1> DEFINE f == WithRelation(top, r)
           R == OwnRelations \cup ToSet(f.level.relations)
<1>1. FrameInv(top) /\ stack # <<>>
  BY DoingFacts
<1>2. f.level.relations = Append(top.level.relations, r)
  <2>1. DOMAIN top.level = {"relations", "coalesced"}
    BY <1>1 DEF FrameInv, LevelInv
  <2>2. f.level = [top.level EXCEPT !.relations = Append(@, r)]
    BY <1>1 DEF FrameInv, WithRelation
  <2>. QED
    BY <2>1, <2>2
<1>3. /\ DOMAIN f = DOMAIN top /\ f.path = top.path /\ f.query = top.query /\ f.todo = top.todo /\ f.parent = top.parent
      /\ f.joins = top.joins /\ f.ctes = top.ctes /\ f.outputs = top.outputs
  BY <1>1 DEF FrameInv, WithRelation
<1>4. Continue(f, <<>>)
  OBVIOUS
<1> HIDE DEF f
<1>5. ToSet(f.level.relations) = ToSet(top.level.relations) \cup {r}
  <2> DEFINE s == top.level.relations
             t == Append(s, r)
             n == Len(s)
  <2>1. IsSeq(s)
    BY <1>1 DEF FrameInv, LevelInv
  <2>2. IsSeq(t) /\ Len(t) = n + 1 /\ (\A i \in 1..n : t[i] = s[i]) /\ t[n + 1] = r
    BY <2>1, SeqAppend
  <2>3. n \in Nat /\ DOMAIN s = 1..n /\ DOMAIN t = 1..(n + 1)
    BY <2>1, <2>2, SeqFacts
  <2> HIDE DEF s, t, n
  <2>4. 1..(n + 1) = 1..n \cup {n + 1}
    BY <2>3
  <2>5. ToSet(t) = ToSet(s) \cup {r}
    BY <2>2, <2>3, <2>4 DEF ToSet
  <2>. QED
    BY <1>2, <2>5 DEF s, t
<1>6. Recorded(top, KnownPaths, R)
  BY <1>1, TopRecorded
<1> HIDE DEF R
<1>7. Recorded(f, KnownPaths, R)
  BY <1>3, <1>5, <1>6 DEF Recorded
<1>8. IsSeq(<<>>) /\ NoneOf(<<>>, BindKinds)
  BY DoesNothing, DoesNone
<1>9. Recorded(f, KnownPaths, OwnRelations \cup ToSet(f.level.relations))
  BY <1>7 DEF R
<1>10. ToSet(top.level.relations) \subseteq ToSet(f.level.relations)
  BY <1>5
<1>. QED
  BY <1>3, <1>4, <1>8, <1>9, <1>10, RecordContinue

LEMMA RecordCollectName == ASSUME Inv, RecordInv, CollectName PROVE RecordInv'
<1>1. Doing("item") /\ what.kind = "table" /\ Continue(WithRelation(top, TableRelation(what)), <<>>)
  BY DEF CollectName
<1>2. what \in Nodes.items /\ GrammarInv /\ stack # <<>>
  BY <1>1, DoingFacts DEF TodoInv
<1>3. \A n \in Tables : CteOk(top.ctes[n], KnownPaths)
  BY <1>2, TopOk DEF FrameOk, Recorded
<1>4. RelationOk(TableRelation(what), KnownPaths)
  BY <1>1, <1>2, <1>3, TableRelationOk
<1>. QED
  BY <1>1, <1>4, RecordAdds

LEMMA RecordCollectFunctionOrRaw == ASSUME Inv, RecordInv, CollectFunctionOrRaw PROVE RecordInv'
<1> DEFINE columns == IF what.columns = <<>> /\ what.kind = "table_function" THEN <<what.name>> ELSE what.columns
           r == [id |-> NextId, name |-> what.name, alias |-> what.alias, qualified |-> FALSE, kind |-> what.kind,
                 body |-> <<>>, built |-> FALSE, args |-> what.args, columns |-> Written(columns),
                 known |-> [v \in Views |-> columns # <<>>]]
<1>1. Doing("item") /\ what.kind \in {"table_function", "raw"} /\ Continue(WithRelation(top, r), <<>>)
  BY DEF CollectFunctionOrRaw
<1>2. what \in Nodes.items /\ GrammarInv
  BY <1>1, DoingFacts DEF TodoInv
<1>3. IsSeq(what.args) /\ IsSeq(what.columns)
  <2>1. what.args \in Seq(References) /\ what.columns \in Seq(Columns)
    BY <1>1, <1>2 DEF GrammarInv, IsGrammar
  <2>. QED
    BY <2>1 DEF IsSeq
<1>4. IsSeq(columns)
  BY <1>3, SeqOne
<1>5. r.built = FALSE /\ r.args = what.args /\ r.columns = Written(columns)
  OBVIOUS
<1> HIDE DEF r, columns
<1>6. RelationOk(r, KnownPaths)
  BY <1>3, <1>4, <1>5, GivenColumns DEF RelationOk
<1>. QED
  BY <1>1, <1>6, RecordAdds

LEMMA RecordBindDerived == ASSUME Inv, RecordInv, BindDerived PROVE RecordInv'
<1> DEFINE body == DerivedBody(what)
           r == [id |-> NextId, name |-> what.alias, alias |-> what.alias, qualified |-> FALSE, kind |-> "derived",
                 body |-> body, built |-> TRUE, args |-> <<>>,
                 columns |-> OutputColumns(what.columns), known |-> returned.complete]
<1>1. Doing("bind_derived") /\ Continue(WithRelation(top, r), <<>>)
  BY DEF BindDerived
<1>2. FrameInv(top) /\ stack # <<>> /\ top.todo # <<>> /\ Head(top.todo).do = "bind_derived" /\ Head(top.todo).what = what
  BY <1>1, DoingFacts
<1>3. IsSeq(top.todo) /\ 1 \in DOMAIN top.todo /\ Head(top.todo) = top.todo[1]
  BY <1>2, SeqFacts DEF FrameInv, AgendaInv
<1>4. FrameOk(top, KnownPaths, OwnRelations)
  BY <1>2, TopOk
<1>5. Awaited(top, top.todo[1]) \in KnownPaths /\ IsSeq(what.columns)
  BY <1>2, <1>3, <1>4 DEF FrameOk, AwaitsOk, BindKinds
<1>6. body \in KnownPaths
  <2>1. body = Awaited(top, top.todo[1])
    BY <1>2, <1>3 DEF Awaited, DerivedBody, NextId
  <2>. QED
    BY <1>5, <2>1
<1>7. \A v \in Views : IsSeq(OutputColumns(what.columns)[v])
  BY <1>5, OutputColumnsOk DEF RecordInv
<1>8. r.args = <<>> /\ r.body = body /\ r.columns = OutputColumns(what.columns)
  OBVIOUS
<1> HIDE DEF r, body
<1>9. RelationOk(r, KnownPaths)
  BY <1>6, <1>7, <1>8, SeqEmpty DEF RelationOk
<1>. QED
  BY <1>1, <1>9, RecordAdds

\* A CTE that is in scope.
LEMMA CtesOk ==
  ASSUME NEW P, NEW ctes, DOMAIN ctes = Tables, \A n \in Tables : CteOk(ctes[n], P), NEW name \in Tables, NEW cte, CteOk(cte, P)
  PROVE  \A n \in Tables : CteOk([ctes EXCEPT ![name] = cte][n], P)
OBVIOUS

LEMMA RecordBindCte == ASSUME Inv, RecordInv, BindCte PROVE RecordInv'
<1> DEFINE declared == top.query.with[what]
           name  == declared.name
           body  == CteBody(declared, what)
           columns == OutputColumns(declared.columns)
           built == Cte(body, TRUE, columns, returned.complete)
           ctes  == [top.ctes EXCEPT ![name] = built]
           f     == [top EXCEPT !.ctes[name] = built]
           R     == OwnRelations \cup ToSet(f.level.relations)
<1>1. Doing("bind_cte") /\ Continue(f, <<>>)
  BY DEF BindCte
<1>2. /\ FrameInv(top) /\ stack # <<>> /\ top.todo # <<>> /\ Head(top.todo).do = "bind_cte" /\ Head(top.todo).what = what
      /\ GrammarInv /\ what \in DOMAIN top.query.with
  BY <1>1, DoingFacts DEF TodoInv
<1>3. IsSeq(top.todo) /\ 1 \in DOMAIN top.todo /\ Head(top.todo) = top.todo[1]
  BY <1>2, SeqFacts DEF FrameInv, AgendaInv
<1>4. FrameOk(top, KnownPaths, OwnRelations)
  BY <1>2, TopOk
<1>5. Awaited(top, top.todo[1]) \in KnownPaths
  BY <1>2, <1>3, <1>4 DEF FrameOk, AwaitsOk, BindKinds
<1>6. body \in KnownPaths
  <2>1. body = Awaited(top, top.todo[1])
    BY <1>2, <1>3 DEF Awaited, CteBody
  <2>. QED
    BY <1>5, <2>1
<1>7. name \in Tables /\ IsSeq(declared.columns)
  <2>1. top.query.with \in Seq(Nodes.ctes)
    BY <1>2 DEF FrameInv, GrammarInv, IsGrammar
  <2>2. declared \in Nodes.ctes
    BY <1>2, <2>1
  <2>3. declared.columns \in Seq(Columns) /\ declared.name \in Tables
    BY <1>2, <2>2 DEF GrammarInv, IsGrammar
  <2>. QED
    BY <2>3 DEF IsSeq
<1>8. \A v \in Views : IsSeq(columns[v])
  BY <1>7, OutputColumnsOk DEF RecordInv
<1>9. CteOk(built, KnownPaths)
  <2>1. built.body = body /\ built.columns = columns
    BY DEF Cte
  <2> HIDE DEF built, body, columns
  <2>. QED
    BY <1>6, <1>8, <2>1 DEF CteOk
<1>a. f = [top EXCEPT !.ctes[name] = built]
  OBVIOUS
<1> HIDE DEF f, built, name
<1>10. /\ DOMAIN f = DOMAIN top /\ f.path = top.path /\ f.query = top.query /\ f.todo = top.todo /\ f.parent = top.parent
       /\ f.level = top.level /\ f.joins = top.joins /\ f.ctes = ctes /\ f.outputs = top.outputs
  BY <1>2, <1>a DEF FrameInv
<1>11. Recorded(top, KnownPaths, R)
  BY <1>2, TopRecorded
<1> HIDE DEF R
<1>12. \A n \in Tables : CteOk(f.ctes[n], KnownPaths)
  <2>1. DOMAIN top.ctes = Tables
    BY <1>2 DEF FrameInv, CtesInv
  <2>2. \A n \in Tables : CteOk(top.ctes[n], KnownPaths)
    BY <1>11 DEF Recorded
  <2>3. \A n \in Tables : CteOk(ctes[n], KnownPaths)
    BY <1>7, <1>9, <2>1, <2>2, CtesOk
  <2>. QED
    BY <1>10, <2>3
<1>13. Recorded(f, KnownPaths, R)
  BY <1>10, <1>11, <1>12 DEF Recorded
<1>14. IsSeq(<<>>) /\ NoneOf(<<>>, BindKinds)
  BY DoesNothing, DoesNone
<1>15. Recorded(f, KnownPaths, OwnRelations \cup ToSet(f.level.relations))
  BY <1>13 DEF R
<1>16. ToSet(top.level.relations) \subseteq ToSet(f.level.relations)
  BY <1>10
<1>. QED
  BY <1>1, <1>10, <1>14, <1>15, <1>16, RecordContinue

\* A todo that something is put before is still to do.
LEMMA DoesInserted ==
  ASSUME NEW rest, NEW subs, NEW n \in Nat, IsSeq(rest), IsSeq(subs), n <= Len(rest), NEW do, Does(rest, do)
  PROVE  Does(Inserted(rest, subs, n), do)
<1> DEFINE all == Inserted(rest, subs, n)
           m   == Len(subs)
           L   == Len(rest)
<1>1. PICK k \in DOMAIN rest : rest[k].do = do
  BY DEF Does
<1>2. m \in Nat /\ L \in Nat /\ DOMAIN rest = 1..L /\ DOMAIN subs = 1..m
  BY SeqFacts
<1>3. /\ DOMAIN all = 1..(L + m)
      /\ \A i \in DOMAIN all : \/ i <= n /\ i \in DOMAIN rest /\ all[i] = rest[i]
                               \/ i > n /\ i <= n + m /\ i - n \in DOMAIN subs /\ all[i] = subs[i - n]
                               \/ i > n + m /\ i - m \in DOMAIN rest /\ all[i] = rest[i - m]
  BY InsertedFacts
<1> HIDE DEF all, m, L
<1>4. \E i \in DOMAIN all : all[i] = rest[k]
  <2>1. CASE k <= n
    BY <1>2, <1>3, <2>1
  <2>2. CASE ~(k <= n)
    <3>1. k \in Nat /\ k + m \in 1..(L + m) /\ k + m > n + m /\ ~(k + m <= n + m) /\ ~(k + m <= n) /\ (k + m) - m = k
      BY <1>2, <2>2
    <3>. QED
      BY <1>3, <3>1
  <2>. QED
    BY <2>1, <2>2
<1>5. Does(all, do)
  BY <1>1, <1>4 DEF Does
<1>. QED
  BY <1>5 DEF all

LEMMA RecordJoined == ASSUME Inv, RecordInv, Joined PROVE RecordInv'
<1>1. Doing("joined") /\ scopes' = scopes /\ returned' = returned
  BY DEF Joined, Continue
<1>2. PICK g, subs, n : JoinsTo(g, subs, n)
  BY ConditionOfJoin DEF JoinStep
<1> DEFINE rest == Tail(top.todo)
           R    == OwnRelations \cup ToSet(g.level.relations)
<1>3. /\ stack' = Front(stack) \o <<g>> /\ g.path = top.path /\ g.query = top.query /\ g.parent = top.parent
      /\ g.level.relations = top.level.relations /\ g.ctes = top.ctes /\ g.outputs = top.outputs
      /\ n \in Nat /\ n <= Len(rest) /\ IsSeq(subs) /\ g.todo = Inserted(rest, subs, n)
      /\ \A i \in DOMAIN subs : subs[i].do = "subquery"
      /\ \A j \in DOMAIN g.joins : \/ j \in DOMAIN top.joins /\ g.joins[j] = top.joins[j]
                                   \/ ShowsOnly(g.joins[j], ToSet(top.level.relations))
  BY <1>2 DEF JoinsTo, Moves, PartOf, ShowsOnly
<1>4. stack # <<>>
  BY <1>1, DoingFacts
<1>5. IsSeq(<<>>) /\ NoneOf(<<>>, BindKinds)
  BY DoesNothing, DoesNone
<1>6. NoneOf(rest, BindKinds) /\ IsSeq(rest)
  BY <1>1, <1>5, AgendaStays
<1>7. NoneOf(g.todo, BindKinds)
  <2>1. \A i \in DOMAIN Inserted(rest, subs, n) :
          \/ i \in DOMAIN rest /\ Inserted(rest, subs, n)[i] = rest[i]
          \/ i - n \in DOMAIN subs /\ Inserted(rest, subs, n)[i] = subs[i - n]
          \/ i - Len(subs) \in DOMAIN rest /\ Inserted(rest, subs, n)[i] = rest[i - Len(subs)]
    <3>1. \A i \in DOMAIN Inserted(rest, subs, n) :
            \/ i <= n /\ i \in DOMAIN rest /\ Inserted(rest, subs, n)[i] = rest[i]
            \/ i > n /\ i <= n + Len(subs) /\ i - n \in DOMAIN subs /\ Inserted(rest, subs, n)[i] = subs[i - n]
            \/ i > n + Len(subs) /\ i - Len(subs) \in DOMAIN rest /\ Inserted(rest, subs, n)[i] = rest[i - Len(subs)]
      BY <1>3, <1>6, InsertedFacts
    <3>. QED
      BY <3>1
  <2>. QED
    BY <1>3, <1>6, <2>1 DEF NoneOf, BindKinds
<1>8. \A role \in {"left", "right"} : Does(Tail(top.todo), role) => Does(g.todo, role)
  BY <1>3, <1>6, DoesInserted
<1>9. Recorded(top, KnownPaths, R)
  BY <1>4, TopRecorded
<1>10. Shows(g.joins, R)
  <2>1. ToSet(top.level.relations) \subseteq R
    BY <1>3
  <2> HIDE DEF R
  <2>. QED
    BY <1>3, <1>9, <2>1 DEF Recorded, Shows, ShowsOnly
<1>11. Recorded(g, KnownPaths, R)
  <2> HIDE DEF R
  <2>. QED
    BY <1>3, <1>9, <1>10 DEF Recorded
<1>12. ScopesStand
  BY <1>1, SameScopesStand
<1>13. Recorded(g, KnownPaths, OwnRelations \cup ToSet(g.level.relations))
  BY <1>11
<1>14. "joined" \notin {"left", "right"} /\ ToSet(top.level.relations) \subseteq ToSet(g.level.relations)
  BY <1>3
<1>. QED
  BY <1>1, <1>3, <1>7, <1>8, <1>12, <1>13, <1>14, RecordMoves

LEMMA RecordCompoundOrder == ASSUME Inv, RecordInv, BindCompoundOrder PROVE RecordInv'
<1> DEFINE Combined(s) == [s EXCEPT !.compoundOrder = <<top.path>>]
           owners == IF top.query.order THEN {} ELSE {s \in LastArms(top.path) : Trails(s)}
           f      == IF top.query.order THEN Combined(top) ELSE top
           R      == OwnRelations \cup ToSet(f.level.relations)
<1>1. /\ Doing("order") /\ stack' = Front(stack) \o <<Goes(f, <<>>)>>
      /\ scopes' = (scopes \ owners) \cup {Combined(s) : s \in owners} /\ returned' = returned
  BY DEF BindCompoundOrder
<1>2. stack # <<>> /\ FrameInv(top)
  BY <1>1, DoingFacts
<1>3. owners \subseteq scopes
  BY DEF LastArms
<1>4. \A s \in scopes : SameScope(Combined(s), s) /\ Combined(s).outputs = s.outputs
  <2>1. ASSUME NEW s \in scopes
        PROVE  SameScope(Combined(s), s) /\ Combined(s).outputs = s.outputs
    <3>1. DOMAIN s = {"path", "query", "chain", "joins", "ctes", "outputs", "compoundOrder"}
      BY DEF Inv, ScopeInv
    <3>. QED
      BY <3>1 DEF SameScope
  <2>. QED
    BY <2>1
<1>5. /\ DOMAIN f = DOMAIN top /\ f.path = top.path /\ f.query = top.query /\ f.parent = top.parent /\ f.outputs = top.outputs
      /\ f.todo = top.todo /\ f.level = top.level /\ f.joins = top.joins /\ f.ctes = top.ctes
  <2> DEFINE combined == Combined(top)
  <2>1. /\ DOMAIN combined = DOMAIN top /\ combined.path = top.path /\ combined.query = top.query /\ combined.parent = top.parent
        /\ combined.todo = top.todo /\ combined.level = top.level /\ combined.joins = top.joins /\ combined.ctes = top.ctes
        /\ combined.outputs = top.outputs
    BY <1>2 DEF FrameInv
  <2>2. f = IF top.query.order THEN combined ELSE top
    OBVIOUS
  <2> HIDE DEF combined, f
  <2>. QED
    BY <2>1, <2>2
<1>6. \A s \in scopes : SameScope(s, s)
  BY DEF SameScope
<1>7. ScopesStand
  <2> DEFINE New(s) == IF s \in owners THEN Combined(s) ELSE s
  <2>1. \A s \in scopes : SameScope(New(s), s) /\ New(s).outputs = s.outputs /\ New(s).path = s.path
    BY <1>4, <1>6 DEF SameScope
  <2>2. scopes' = {New(s) : s \in scopes}
    BY <1>1, <1>3
  <2> HIDE DEF New
  <2>3. IsFiniteSet(scopes')
    <3> DEFINE h == [s \in scopes |-> New(s)]
    <3>1. h \in Surjection(scopes, scopes')
      BY <2>2 DEF Surjection
    <3>2. IsFiniteSet(scopes)
      BY DEF RecordInv
    <3>. QED
      BY <3>1, <3>2, FS_Surjection
  <2>4. \A s, r \in scopes' : s.path = r.path => s = r
    BY <2>1, <2>2 DEF RecordInv, OneEach
  <2>5. \A s \in scopes' : \E r \in scopes : SameScope(s, r) /\ s.outputs = r.outputs
    BY <2>1, <2>2
  <2>6. \A r \in scopes : \E s \in scopes' : SameScope(s, r)
    BY <2>1, <2>2
  <2>. QED
    BY <2>3, <2>4, <2>5, <2>6 DEF ScopesStand
<1> HIDE DEF f, owners, Combined
<1>8. IsSeq(<<>>) /\ NoneOf(<<>>, BindKinds)
  BY DoesNothing, DoesNone
<1>9. /\ NoneOf(<<>> \o Tail(f.todo), BindKinds)
      /\ \A role \in {"left", "right"} : Does(Tail(top.todo), role) => Does(<<>> \o Tail(f.todo), role)
  BY <1>1, <1>5, <1>8, AgendaStays
<1>10. Recorded(top, KnownPaths, R)
  BY <1>2, TopRecorded
<1> HIDE DEF R
<1>11. Recorded(f, KnownPaths, R)
  BY <1>5, <1>10 DEF Recorded
<1>12. Recorded(f, KnownPaths, OwnRelations \cup ToSet(f.level.relations))
  BY <1>11 DEF R
<1>13. "order" \notin {"left", "right"} /\ ToSet(top.level.relations) \subseteq ToSet(f.level.relations)
  BY <1>5
<1>. QED
  BY <1>1, <1>5, <1>7, <1>9, <1>12, <1>13, RecordGoes

\* What is done after a call binds what it built.
Binds(t, path) ==
  t.do \in BindKinds => Awaited(top, t) = path /\ (t.do = "bind_derived" => IsSeq(t.what.columns))

LEMMA RecordCalls ==
  ASSUME Inv, BlocksInv, RecordInv, NEW do, Doing(do), NEW f, NEW q, NEW step, NEW path, NEW parent, NEW next,
         Built(f, q, step, path, parent, next), Starts(step),
         f.outputs = top.outputs, \A n \in Tables : CteOk(f.ctes[n], KnownPaths), Shows(parent, OwnRelations),
         next = <<>> \/ \E t : next = <<t>> /\ Binds(t, path),
         do \in {"left", "right"} => path = ArmAt(top.path, do)
  PROVE  RecordInv'
<1> DEFINE g     == Goes(f, next)
           child == Frame(q, path, parent, f.ctes)
           P     == KnownPaths \cup {path}
           R     == OwnRelations
           rest  == Tail(top.todo)
<1>1. FrameInv(top) /\ stack # <<>> /\ top.todo # <<>> /\ Head(top.todo).do = do /\ GrammarInv
  BY DoingFacts
<1>2. /\ SameFrame(f) /\ f.level = top.level /\ f.joins = top.joins
      /\ q \in Nodes.blocks /\ path = Append(top.path, step) /\ Call(f, Frame(q, path, parent, f.ctes), next)
  BY DEF Built
<1>3. /\ g.todo = next \o rest /\ g.query = top.query /\ g.path = top.path /\ g.parent = top.parent
      /\ g.ctes = f.ctes /\ g.level = top.level /\ g.joins = top.joins /\ g.outputs = top.outputs
  BY <1>1, <1>2, GoesFields DEF FrameInv, SameFrame
<1>4. stack' = Front(stack) \o <<g, child>> /\ scopes' = scopes /\ returned' = returned
  BY <1>2 DEF Call
<1>5. /\ child.path = path /\ child.parent = parent /\ child.joins = <<>> /\ child.level = EmptyLevel /\ child.query = q
      /\ child.ctes = f.ctes /\ child.todo = Agenda(q)
  BY DEF Frame
<1>6. \A n \in Tables : CteOk(f.ctes[n], P)
  BY MoreShown
<1>7. FrameOk(child, P, R)
  BY <1>1, <1>2, <1>6, NewOk
<1> HIDE DEF g, child
<1>8. Calls(g, child, step, next)
  BY <1>1, <1>2, <1>3, <1>4, <1>5 DEF Calls
<1>9. ~Used(top, step)
  BY <1>1, NewStep
<1>10. FrameOk(top, KnownPaths, R)
  BY <1>1, TopOk
<1>11. IsSeq(<<>>) /\ NoneOf(<<>>, BindKinds)
  BY DoesNothing, DoesNone
<1>12. NoneOf(rest, BindKinds) /\ IsSeq(rest)
  BY <1>11, AgendaStays
<1>13. IsSeq(next) /\ Len(next) \in Nat /\ \A i \in DOMAIN next : i = 1 /\ Binds(next[i], path)
  <2>1. CASE next = <<>>
    BY <2>1, <1>11
  <2>2. ASSUME NEW t, next = <<t>>, Binds(t, path)
        PROVE  IsSeq(next) /\ Len(next) \in Nat /\ \A i \in DOMAIN next : i = 1 /\ Binds(next[i], path)
    <3>1. IsSeq(next) /\ Len(next) = 1 /\ next[1] = t
      BY <2>2, SeqOne
    <3>2. DOMAIN next = {1}
      BY <2>2
    <3>. QED
      BY <2>2, <3>1, <3>2
  <2>. QED
    BY <2>1, <2>2
<1>14. AwaitsOk(g, P)
  <2> DEFINE all == next \o rest
  <2>1. /\ IsSeq(next \o rest) /\ Len(next \o rest) = Len(next) + Len(rest)
        /\ \A i \in DOMAIN (next \o rest) : (next \o rest)[i] = IF i <= Len(next) THEN next[i] ELSE rest[i - Len(next)]
    <3>1. IsSeq(next) /\ IsSeq(rest)
      BY <1>12, <1>13
    <3>. QED
      BY ONLY <3>1, SeqConcat
  <2> DEFINE m == Len(next)
             n == Len(rest)
  <2>2. m \in Nat /\ DOMAIN next = 1..m /\ n \in Nat /\ DOMAIN rest = 1..n /\ DOMAIN all = 1..(m + n)
    BY <1>12, <1>13, <2>1, SeqFacts
  <2>3. \A i \in DOMAIN all : all[i] = IF i <= m THEN next[i] ELSE rest[i - m]
    BY <2>1
  <2> HIDE DEF all, m, n
  <2>4. ASSUME NEW i \in DOMAIN all, all[i].do \in BindKinds
        PROVE  i = 1 /\ Awaited(top, all[i]) = path /\ (all[i].do = "bind_derived" => IsSeq(all[i].what.columns))
    <3>1. CASE i <= m
      <4>1. i \in DOMAIN next /\ all[i] = next[i]
        BY <2>2, <2>3, <3>1
      <4>. QED
        BY <1>13, <2>4, <4>1 DEF Binds
    <3>2. CASE ~(i <= m)
      <4>1. i - m \in DOMAIN rest /\ all[i] = rest[i - m]
        BY <2>2, <2>3, <3>2
      <4>. QED
        BY <1>12, <2>4, <4>1 DEF NoneOf
    <3>. QED
      BY <3>1, <3>2
  <2>5. g.todo = all
    BY <1>3 DEF all
  <2>6. \A t : Awaited(g, t) = Awaited(top, t)
    BY <1>3 DEF Awaited
  <2>. QED
    BY <2>4, <2>5, <2>6 DEF AwaitsOk
<1>15. ASSUME NEW role \in {"left", "right"}, NEW arm, ArmOk(top, arm, role, KnownPaths)
       PROVE  ArmOk(g, arm, role, P)
  <2>1. CASE Has(arm) /\ ArmAt(top.path, role) \in KnownPaths
    BY <1>3, <2>1 DEF ArmOk
  <2>2. CASE Has(arm) /\ Does(top.todo, role)
    <3>1. do = role \/ Does(rest, role)
      <4>1. IsSeq(top.todo)
        BY <1>1 DEF FrameInv, AgendaInv
      <4>. QED
        BY <1>1, <2>2, <4>1, DoesRest
    <3>2. CASE do = role
      BY <1>3, <3>2 DEF ArmOk
    <3>3. CASE Does(rest, role)
      <4>1. Does(next \o rest, role)
        BY <1>12, <1>13, <3>3, DoesConcat
      <4>2. Does(g.todo, role)
        BY <1>3, <4>1
      <4>. QED
        BY <4>2 DEF ArmOk, Does
    <3>. QED
      BY <3>1, <3>2, <3>3
  <2>. QED
    BY <1>15, <2>1, <2>2 DEF ArmOk, Does
<1>16. ArmOk(g, g.query.left, "left", P) /\ ArmOk(g, g.query.right, "right", P)
  BY <1>3, <1>10, <1>15 DEF FrameOk
<1>17. Recorded(g, P, R)
  <2>1. FrameOk(top, P, R)
    BY <1>10, MoreShown
  <2>. QED
    BY <1>3, <1>6, <2>1 DEF FrameOk, Recorded
<1>18. FrameOk(g, P, R)
  BY <1>14, <1>16, <1>17 DEF FrameOk
<1>19. P = KnownPaths \cup {child.path}
  BY <1>5
<1>. QED
  BY <1>4, <1>7, <1>8, <1>9, <1>18, <1>19, RecordCalling

LEMMA RecordBuildCte == ASSUME Inv, BlocksInv, RecordInv, BuildCte PROVE RecordInv'
<1> DEFINE cte   == top.query.with[what]
           body  == CteBody(cte, what)
           columns == Written(cte.columns)
           known == [v \in Views |-> cte.columns # <<>>]
           self  == Cte(body, FALSE, columns, known)
           f     == IF cte.recursive THEN [top EXCEPT !.ctes[cte.name] = self] ELSE top
           t     == Todo("bind_cte", what)
           next  == <<t>>
           step  == Step(IF cte.recursive THEN "recursive" ELSE "cte", what)
           q     == cte.query
<1>1. Doing("cte") /\ Call(f, Frame(q, body, top.parent, f.ctes), next)
  BY DEF BuildCte
<1>2. /\ stack # <<>> /\ FrameInv(top) /\ GrammarInv /\ what \in DOMAIN top.query.with /\ Head(top.todo).do = "cte"
      /\ Head(top.todo).what = what
  BY <1>1, DoingFacts DEF TodoInv
<1>3. q \in Nodes.blocks /\ cte.name \in Tables
  BY <1>2, Grammar DEF FrameInv
<1>4. IsSeq(cte.columns)
  <2>1. top.query.with \in Seq(Nodes.ctes)
    BY <1>2 DEF FrameInv, GrammarInv, IsGrammar
  <2>2. cte \in Nodes.ctes
    BY <1>2, <2>1
  <2>3. cte.columns \in Seq(Columns)
    BY <1>2, <2>2 DEF GrammarInv, IsGrammar
  <2>. QED
    BY <2>3 DEF IsSeq
<1>5. CteOk(self, KnownPaths)
  <2>1. self.built = FALSE /\ self.columns = columns
    BY DEF Cte
  <2> HIDE DEF self
  <2>. QED
    BY <1>4, <2>1, GivenColumns DEF CteOk
<1>6. Recorded(top, KnownPaths, OwnRelations)
  BY <1>2, TopRecorded
<1>7. /\ SameFrame(f) /\ f.level = top.level /\ f.joins = top.joins /\ f.outputs = top.outputs
      /\ \A n \in Tables : CteOk(f.ctes[n], KnownPaths)
  <2> DEFINE name == cte.name
  <2>a. (cte.recursive => f = [top EXCEPT !.ctes[name] = self]) /\ (~cte.recursive => f = top)
    OBVIOUS
  <2>b. name \in Tables
    BY <1>3
  <2> HIDE DEF self, name, f
  <2>1. CASE cte.recursive
    <3>1. f = [top EXCEPT !.ctes[name] = self]
      BY <2>1, <2>a
    <3>2. SameFrame(f) /\ f.level = top.level /\ f.joins = top.joins /\ f.outputs = top.outputs /\ f.ctes = [top.ctes EXCEPT ![name] = self]
      BY <1>2, <3>1 DEF FrameInv, SameFrame
    <3>3. \A n \in Tables : CteOk([top.ctes EXCEPT ![name] = self][n], KnownPaths)
      BY <1>2, <1>5, <1>6, <2>b, CtesOk DEF FrameInv, CtesInv, Recorded
    <3>. QED
      BY <3>2, <3>3
  <2>2. CASE ~cte.recursive
    BY <1>6, <2>2, <2>a, TopItself DEF Keeps, Recorded
  <2>. QED
    BY <2>1, <2>2
<1>8. body = Append(top.path, step) /\ step.index = what /\ step.role \in {"cte", "recursive"}
  BY DEF CteBody, Step
<1>9. Binds(t, body)
  <2>1. t.do = "bind_cte" /\ t.what = what
    BY DEF Todo
  <2>2. Awaited(top, t) = body
    BY <2>1 DEF Awaited, CteBody
  <2>. QED
    BY <2>1, <2>2 DEF Binds
<1> HIDE DEF f, t, step, q, body
<1>10. Built(f, q, step, body, top.parent, next)
  BY <1>1, <1>3, <1>7, <1>8 DEF Built
<1>11. Starts(step)
  BY <1>2, <1>8 DEF Starts
<1>12. Shows(top.parent, OwnRelations)
  BY <1>6 DEF Recorded
<1>13. "cte" \notin {"left", "right"} /\ (next = <<>> \/ \E u : next = <<u>> /\ Binds(u, body))
  BY <1>9
<1> HIDE DEF next
<1>. QED
  BY <1>1, <1>7, <1>10, <1>11, <1>12, <1>13, RecordCalls

\* A block that is built with the CTEs as they are.
LEMMA RecordCallsWith ==
  ASSUME Inv, BlocksInv, RecordInv, NEW do, Doing(do), NEW q \in Nodes.blocks, NEW step, NEW path, path = Append(top.path, step),
         NEW parent, NEW next, Call(top, Frame(q, path, parent, top.ctes), next), Starts(step), Shows(parent, OwnRelations),
         next = <<>> \/ \E t : next = <<t>> /\ Binds(t, path),
         do \in {"left", "right"} => path = ArmAt(top.path, do)
  PROVE  RecordInv'
<1>1. stack # <<>>
  BY DoingFacts
<1>2. Recorded(top, KnownPaths, OwnRelations)
  BY <1>1, TopRecorded
<1>3. Built(top, q, step, path, parent, next)
  BY TopItself DEF Built, Keeps
<1>4. \A n \in Tables : CteOk(top.ctes[n], KnownPaths)
  BY <1>2 DEF Recorded
<1>. QED
  BY <1>3, <1>4, RecordCalls

LEMMA RecordBuildDerived == ASSUME Inv, BlocksInv, RecordInv, BuildDerived PROVE RecordInv'
<1> DEFINE outer == IF what.lateral THEN <<top.level>> \o top.parent ELSE top.parent
           t     == Todo("bind_derived", what)
           next  == <<t>>
           step  == Step(IF what.lateral THEN "lateral" ELSE "derived", NextId.index)
           q     == what.query
           path  == DerivedBody(what)
<1>1. Doing("item") /\ what.kind = "derived" /\ Call(top, Frame(q, path, outer, top.ctes), next)
  BY DEF BuildDerived
<1>2. GrammarInv /\ what \in Nodes.items /\ stack # <<>> /\ FrameInv(top) /\ Head(top.todo).do = "item"
  BY <1>1, DoingFacts DEF TodoInv
<1>3. q \in Nodes.blocks
  BY <1>1, <1>2, Grammar
<1>4. path = Append(top.path, step) /\ step.index = Len(top.level.relations) + 1 /\ step.role \in {"lateral", "derived"}
  BY DEF DerivedBody, Step, NextId
<1>5. Binds(t, path)
  <2>1. t.do = "bind_derived" /\ t.what = what
    BY DEF Todo
  <2>2. Awaited(top, t) = path
    BY <2>1 DEF Awaited, DerivedBody, NextId
  <2>3. what.columns \in Seq(Columns)
    BY <1>1, <1>2 DEF GrammarInv, IsGrammar
  <2>. QED
    BY <2>1, <2>2, <2>3 DEF Binds, IsSeq
<1>6. Shows(outer, OwnRelations)
  <2>1. Shows(top.parent, OwnRelations) /\ ShowsOnly(top.level, OwnRelations) /\ IsSeq(top.parent)
    BY <1>2, TopOk DEF FrameOk, Recorded, LevelOk, ShowsOnly, FrameInv, KeepsLevels
  <2>2. Shows(<<top.level>> \o top.parent, OwnRelations)
    BY <2>1, ShowsAround
  <2>. QED
    BY <2>1, <2>2
<1> HIDE DEF outer, t, step, q, path
<1>7. Starts(step)
  BY <1>2, <1>4 DEF Starts
<1>8. "item" \notin {"left", "right"} /\ (next = <<>> \/ \E u : next = <<u>> /\ Binds(u, path))
  BY <1>5
<1> HIDE DEF next
<1>. QED
  BY <1>1, <1>3, <1>4, <1>6, <1>7, <1>8, RecordCallsWith

\* An arm of a set operation.
LEMMA RecordBuildArm ==
  ASSUME Inv, BlocksInv, RecordInv, NEW role \in {"left", "right"}, Doing(role), NEW q \in Nodes.blocks, NEW t, t.do \notin BindKinds,
         Call(top, Frame(q, Append(top.path, Step(role, 1)), top.parent, top.ctes), <<t>>)
  PROVE  RecordInv'
<1> DEFINE step == Step(role, 1)
           path == Append(top.path, step)
           next == <<t>>
<1>1. stack # <<>> /\ Head(top.todo).do = role
  BY DoingFacts
<1>2. Shows(top.parent, OwnRelations)
  BY <1>1, TopRecorded DEF Recorded
<1>3. step.role = role /\ path = ArmAt(top.path, role)
  BY DEF Step, ArmAt
<1>4. Call(top, Frame(q, path, top.parent, top.ctes), next)
  OBVIOUS
<1> HIDE DEF step
<1>5. Starts(step)
  BY <1>1, <1>3 DEF Starts
<1>6. Binds(t, path)
  BY DEF Binds
<1>7. next = <<>> \/ \E u : next = <<u>> /\ Binds(u, path)
  BY <1>6
<1>8. path = Append(top.path, step)
  OBVIOUS
<1> HIDE DEF next, path
<1>. QED
  BY <1>2, <1>3, <1>4, <1>5, <1>7, <1>8, RecordCallsWith

LEMMA RecordBuildLeft == ASSUME Inv, BlocksInv, RecordInv, BuildLeft PROVE RecordInv'
<1> DEFINE t == Todo("bind_left", 1)
           q == top.query.left[1]
<1>1. Doing("left") /\ Call(top, Frame(q, Append(top.path, Step("left", 1)), top.parent, top.ctes), <<t>>)
  BY DEF BuildLeft
<1>2. FrameInv(top) /\ GrammarInv /\ Has(top.query.left)
  BY <1>1, DoingFacts DEF TodoInv
<1>3. q \in Nodes.blocks
  BY <1>2, Grammar DEF FrameInv
<1>4. t.do \notin BindKinds
  BY DEF Todo, BindKinds
<1> HIDE DEF t, q
<1>. QED
  BY <1>1, <1>3, <1>4, RecordBuildArm

LEMMA RecordBuildRight == ASSUME Inv, BlocksInv, RecordInv, BuildRight PROVE RecordInv'
<1> DEFINE t == Todo("bind_right", 1)
           q == top.query.right[1]
<1>1. Doing("right") /\ Call(top, Frame(q, Append(top.path, Step("right", 1)), top.parent, top.ctes), <<t>>)
  BY DEF BuildRight
<1>2. FrameInv(top) /\ GrammarInv /\ Has(top.query.right)
  BY <1>1, DoingFacts DEF TodoInv
<1>3. q \in Nodes.blocks
  BY <1>2, Grammar DEF FrameInv
<1>4. t.do \notin BindKinds
  BY DEF Todo, BindKinds
<1> HIDE DEF t, q
<1>. QED
  BY <1>1, <1>3, <1>4, RecordBuildArm

LEMMA RecordBuildSubquery == ASSUME Inv, BlocksInv, RecordInv, BuildSubquery PROVE RecordInv'
<1> DEFINE step  == Step(what.role, what.index)
           level == IF what.role = "on" THEN top.joins[what.index] ELSE top.level
           outer == <<level>> \o top.parent
           next  == <<>>
           q     == what.query
           path  == Append(top.path, step)
<1>1. Doing("subquery") /\ Call(top, Frame(q, path, outer, top.ctes), next)
  BY DEF BuildSubquery
<1>2. /\ q \in Nodes.blocks /\ what.role \in {"where", "on"} /\ (what.role = "on" => what.index \in DOMAIN top.joins)
      /\ stack # <<>> /\ FrameInv(top) /\ Head(top.todo).do = "subquery" /\ Head(top.todo).what = what
  BY <1>1, DoingFacts DEF TodoInv
<1>3. path = Append(top.path, step) /\ step.role = what.role /\ step.index = what.index
  BY DEF Step
<1>4. level = top.level \/ \E j \in DOMAIN top.joins : level = top.joins[j]
  BY <1>2
<1> HIDE DEF level
<1>5. Shows(outer, OwnRelations)
  <2>1. /\ Shows(top.parent, OwnRelations) /\ ShowsOnly(top.level, OwnRelations) /\ IsSeq(top.parent)
        /\ Shows(top.joins, OwnRelations)
    BY <1>2, TopOk DEF FrameOk, Recorded, LevelOk, ShowsOnly, FrameInv, KeepsLevels
  <2>2. ShowsOnly(level, OwnRelations)
    BY <1>4, <2>1 DEF Shows
  <2>. QED
    BY <2>1, <2>2, ShowsAround
<1> HIDE DEF next, step, q, path, outer
<1>6. Starts(step)
  BY <1>2, <1>3 DEF Starts
<1>7. "subquery" \notin {"left", "right"} /\ next = <<>>
  BY DEF next
<1>. QED
  BY <1>1, <1>2, <1>3, <1>5, <1>6, <1>7, RecordCallsWith

LEMMA InitRecord == Init => RecordInv
<1> SUFFICES ASSUME Init PROVE RecordInv
  OBVIOUS
<1> DEFINE ctes == [n \in Tables |-> NoCte]
           f    == Frame(query, <<>>, <<>>, ctes)
<1>1. GrammarInv /\ stack = <<f>> /\ scopes = {} /\ returned = NoOutputs /\ query \in Nodes.blocks
  BY TheGrammar DEF Init, GrammarInv
<1>2. DOMAIN stack = {1} /\ stack[1] = f
  BY <1>1
<1>3. \A n \in Tables : CteOk(ctes[n], KnownPaths)
  BY DEF CteOk, NoCte
<1>4. Shows(<<>>, OwnRelations)
  BY DEF Shows
<1> HIDE DEF ctes
<1>5. FrameOk(f, KnownPaths, OwnRelations)
  BY <1>1, <1>3, <1>4, NewOk
<1>6. OutputsOk(NoOutputs, KnownPaths, OwnRelations)
  <2>1. f.outputs = NoOutputs
    BY DEF Frame
  <2>. QED
    BY <1>5, <2>1 DEF FrameOk, Recorded
<1>7. IsFiniteSet(scopes) /\ OneEach
  BY <1>1, FS_EmptySet DEF OneEach
<1> HIDE DEF f
<1>. QED
  BY <1>1, <1>2, <1>5, <1>6, <1>7 DEF RecordInv

\* The binder keeps its record.
LEMMA StepRecord == ASSUME Inv, BlocksInv, RecordInv, [Next]_vars PROVE RecordInv'
<1>1. CASE Next
  BY <1>1, RecordBuildCte, RecordBindCte, RecordCollectTable, RecordCollectName, RecordCollectFunctionOrRaw,
     RecordCollectGroup, RecordBuildDerived, RecordBindDerived, RecordJoin, RecordJoined, RecordCollectOutputs,
     RecordBuildLeft, RecordBindLeft, RecordBuildRight, RecordBindRight, RecordCompoundOrder, RecordBuildSubquery,
     RecordReturning DEF Next
<1>2. CASE UNCHANGED vars
  BY <1>2 DEF vars, RecordInv, OneEach, KnownPaths, OwnRelations, OwnLevels
<1>. QED
  BY <1>1, <1>2

(***************************************************************************)
(* A query that is bound                                                    *)
(***************************************************************************)
Rest == Inv /\ RecordInv /\ Bound

Owned(s) == s.chain[1].relations

\* What a relation shows in one of the views.
Shown(r, v) == ToSet(r.columns[v])

LEMMA AtRest ==
  ASSUME Rest
  PROVE  /\ KnownPaths = {s.path : s \in scopes} /\ OwnRelations = UNION {ToSet(Owned(s)) : s \in scopes}
         /\ \A s \in scopes : ScopeAt(s.path) = s /\ ScopeOk(s, KnownPaths, OwnRelations)
         /\ \A p \in KnownPaths : ScopeAt(p) \in scopes /\ ScopeAt(p).path = p
<1>1. DOMAIN stack = {}
  BY DEF Rest, Bound
<1>2. KnownPaths = {s.path : s \in scopes}
  BY <1>1 DEF KnownPaths
<1>3. OwnLevels = {s.chain[1] : s \in scopes}
  BY <1>1 DEF OwnLevels
<1>4. OwnRelations = UNION {ToSet(Owned(s)) : s \in scopes}
  BY <1>3 DEF OwnRelations, Owned
<1>5. \A p \in KnownPaths : ScopeAt(p) \in scopes /\ ScopeAt(p).path = p
  BY ScopesFound DEF Rest
<1>6. ASSUME NEW s \in scopes PROVE ScopeAt(s.path) = s
  <2>1. ScopeAt(s.path) \in scopes /\ ScopeAt(s.path).path = s.path
    BY <1>2, <1>5
  <2>. QED
    BY <2>1 DEF Rest, RecordInv, OneEach
<1>7. \A s \in scopes : ScopeOk(s, KnownPaths, OwnRelations)
  BY DEF Rest, RecordInv
<1>. QED
  BY <1>2, <1>4, <1>5, <1>6, <1>7

LEMMA KeysAre ==
  ASSUME Rest, NEW v
  PROVE  AllKeys(v) = UNION {{Key(r.id, c) : c \in ToSet(r.columns[v])} : r \in OwnRelations}
<1>1. OwnRelations = UNION {ToSet(s.chain[1].relations) : s \in scopes}
  BY AtRest DEF Owned
<1>. QED
  BY <1>1, Zenon DEF AllKeys

\* A relation is found by its identity.
LEMMA RelationsAtRest ==
  ASSUME Rest, NEW r \in OwnRelations
  PROVE  /\ RelationAt(r.id) = r /\ RelationOk(r, KnownPaths) /\ r.id.owner \in KnownPaths
         /\ \A v : \A c \in Shown(r, v) : Key(r.id, c) \in AllKeys(v)
<1>1. PICK s \in scopes : r \in ToSet(Owned(s))
  BY AtRest
<1>2. PICK i \in DOMAIN Owned(s) : r = Owned(s)[i]
  BY <1>1 DEF ToSet
<1>3. ScopeAt(s.path) = s /\ ScopeOk(s, KnownPaths, OwnRelations) /\ s.path \in KnownPaths
  BY AtRest
<1>4. IdsOk(s.path, Owned(s)) /\ RelationOk(r, KnownPaths)
  BY <1>1, <1>3 DEF ScopeOk, Owned
<1>5. r.id = [owner |-> s.path, index |-> i]
  BY <1>2, <1>4 DEF IdsOk
<1>6. RelationAt(r.id) = r
  BY <1>2, <1>3, <1>5 DEF RelationAt, Owned
<1>7. ASSUME NEW v, NEW c \in Shown(r, v) PROVE Key(r.id, c) \in AllKeys(v)
  <2>1. AllKeys(v) = UNION {{Key(q.id, d) : d \in ToSet(q.columns[v])} : q \in OwnRelations}
    BY KeysAre
  <2>. QED
    BY <2>1 DEF Shown
<1>. QED
  BY <1>3, <1>4, <1>5, <1>6, <1>7

\* A column belongs to a relation that shows it.
LEMMA KeysAtRest ==
  ASSUME Rest, NEW v, NEW k \in AllKeys(v)
  PROVE  \E r \in OwnRelations : k = Key(r.id, k.column) /\ k.id = r.id /\ k.column \in Shown(r, v) /\ RelationAt(k.id) = r
<1>1. AllKeys(v) = UNION {{Key(r.id, c) : c \in ToSet(r.columns[v])} : r \in OwnRelations}
  BY KeysAre
<1>2. PICK r \in OwnRelations : k \in {Key(r.id, c) : c \in ToSet(r.columns[v])}
  BY <1>1
<1>3. PICK c \in Shown(r, v) : k = Key(r.id, c)
  BY <1>2 DEF Shown
<1>4. k.id = r.id /\ k.column = c
  BY <1>3 DEF Key
<1>5. RelationAt(r.id) = r
  BY RelationsAtRest
<1>. QED
  BY <1>3, <1>4, <1>5

LEMMA FiniteImage ==
  ASSUME NEW f, IsFiniteSet(DOMAIN f)
  PROVE  IsFiniteSet({f[x] : x \in DOMAIN f})
<1> DEFINE S == {f[x] : x \in DOMAIN f}
           g == [x \in DOMAIN f |-> f[x]]
<1>1. g \in Surjection(DOMAIN f, S)
  BY DEF Surjection
<1> HIDE DEF S, g
<1>2. IsFiniteSet(S)
  BY <1>1, FS_Surjection
<1>. QED
  BY <1>2 DEF S

LEMMA FiniteSeq == ASSUME NEW s, IsSeq(s) PROVE IsFiniteSet(DOMAIN s) /\ IsFiniteSet(ToSet(s))
<1>1. Len(s) \in Nat /\ DOMAIN s = 1..Len(s)
  BY SeqFacts
<1>2. IsFiniteSet(DOMAIN s)
  BY <1>1, FS_Interval
<1>3. IsFiniteSet({s[x] : x \in DOMAIN s})
  BY <1>2, FiniteImage
<1>. QED
  BY <1>2, <1>3 DEF ToSet

LEMMA KeysFinite == ASSUME Rest, NEW v \in Views PROVE IsFiniteSet(AllKeys(v))
<1> DEFINE owned == [s \in scopes |-> ToSet(Owned(s))]
           shown == [r \in OwnRelations |-> {Key(r.id, c) : c \in ToSet(r.columns[v])}]
<1>1. IsFiniteSet(scopes)
  BY DEF Rest, RecordInv
<1>2. IsFiniteSet(OwnRelations)
  <2>1. IsFiniteSet({owned[s] : s \in DOMAIN owned})
    BY <1>1, FiniteImage
  <2>2. ASSUME NEW T \in {owned[s] : s \in DOMAIN owned} PROVE IsFiniteSet(T)
    <3>1. PICK s \in scopes : T = ToSet(Owned(s))
      BY <2>2
    <3>2. IsSeq(Owned(s))
      BY AtRest DEF ScopeOk, IdsOk, Owned
    <3>. QED
      BY <3>1, <3>2, FiniteSeq
  <2>3. OwnRelations = UNION {owned[s] : s \in DOMAIN owned}
    BY AtRest
  <2> HIDE DEF owned
  <2>. QED
    BY <2>1, <2>2, <2>3, FS_UNION
<1>3. IsFiniteSet({shown[r] : r \in DOMAIN shown})
  BY <1>2, FiniteImage
<1>4. ASSUME NEW T \in {shown[r] : r \in DOMAIN shown} PROVE IsFiniteSet(T)
  <2>1. PICK r \in OwnRelations : T = {Key(r.id, c) : c \in ToSet(r.columns[v])}
    BY <1>4
  <2> DEFINE key2 == [c \in ToSet(r.columns[v]) |-> Key(r.id, c)]
  <2>2. IsSeq(r.columns[v])
    BY RelationsAtRest DEF RelationOk
  <2>3. IsFiniteSet(ToSet(r.columns[v]))
    BY <2>2, FiniteSeq
  <2>4. IsFiniteSet({key2[c] : c \in DOMAIN key2})
    BY <2>3, FiniteImage
  <2>. QED
    BY <2>1, <2>4
<1>5. AllKeys(v) = UNION {shown[r] : r \in DOMAIN shown}
  <2>1. DOMAIN shown = OwnRelations /\ \A r \in OwnRelations : shown[r] = {Key(r.id, c) : c \in ToSet(r.columns[v])}
    OBVIOUS
  <2>2. AllKeys(v) = UNION {{Key(r.id, c) : c \in ToSet(r.columns[v])} : r \in OwnRelations}
    BY KeysAre
  <2> HIDE DEF shown
  <2>. QED
    BY <2>1, <2>2
<1> HIDE DEF shown
<1>. QED
  BY <1>3, <1>4, <1>5, FS_UNION

(***************************************************************************)
(* What a reference is bound to                                             *)
(***************************************************************************)
LEMMA SeenRelations ==
  ASSUME NEW level, NEW v
  PROVE  LET seen == Seen(level, v)
         IN  /\ DOMAIN seen.relations = DOMAIN level.relations
             /\ \A i \in DOMAIN level.relations : /\ seen.relations[i].id = level.relations[i].id
                                                  /\ seen.relations[i].columns = level.relations[i].columns[v]
BY DEF Seen

\* What a level can say, its relations being those of R.
Says(b, column, R, v) ==
  /\ b.status \in {"resolved", "coalesced", "unknown", "ambiguous", "missing", "outer"}
  /\ IsFiniteSet(b.sources)
  /\ b.status \in {"resolved", "coalesced"} =>
       /\ b.sources # {}
       /\ \A id \in b.sources : \E r \in R : id = r.id /\ column \in Shown(r, v)
  /\ b.status = "resolved" => \E id : b.sources = {id}

LEMMA SaysNothing ==
  ASSUME NEW column, NEW R, NEW v, NEW status \in {"unknown", "ambiguous", "missing", "outer"}, NEW sources, IsFiniteSet(sources)
  PROVE  Says(Binding(status, sources), column, R, v)
<1>1. Binding(status, sources).status = status /\ Binding(status, sources).sources = sources
  BY DEF Binding
<1>. QED
  BY <1>1 DEF Says

\* The relations of a level that are found are those that show the column.
FindsShown(seen, ref, R, v) ==
  LET found == Found(seen, ref)
  IN  /\ IsFiniteSet(found) /\ IsFiniteSet(Ids(seen, found))
      /\ \A id \in Ids(seen, found) : \E r \in R : id = r.id /\ ref.column \in Shown(r, v)
      /\ IsFiniteSet({seen.relations[i].id : i \in Unknown(seen, ref)})

LEMMA FoundShows ==
  ASSUME NEW R, NEW v \in Views, NEW level, ShowsOnly(level, R), \A r \in R : IsSeq(r.columns[v]), NEW ref
  PROVE  FindsShown(Seen(level, v), ref, R, v)
<1> DEFINE seen == Seen(level, v)
           D == DOMAIN level.relations
           sure == Candidates(seen, ref) \ Unknown(seen, ref)
           ids == [i \in D |-> level.relations[i].id]
           pairs == [i \in D |-> {<<i, k>> : k \in MatchesColumn(seen.relations[i], ref.column)}]
           some == [i \in sure |-> pairs[i]]
           found == Found(seen, ref)
<1>1. /\ DOMAIN seen.relations = D
      /\ \A i \in D : /\ seen.relations[i].id = level.relations[i].id
                      /\ seen.relations[i].columns = level.relations[i].columns[v]
  BY SeenRelations
<1>2. IsFiniteSet(D) /\ \A i \in D : level.relations[i] \in R /\ IsSeq(level.relations[i].columns[v])
  <2>1. IsFiniteSet(D)
    BY FiniteSeq DEF ShowsOnly
  <2>2. \A i \in D : level.relations[i] \in R
    BY DEF ShowsOnly, ToSet
  <2>. QED
    BY <2>1, <2>2
<1>3. Unknown(seen, ref) \subseteq D /\ sure \subseteq D
  BY <1>1 DEF Unknown, Candidates
<1>4. ASSUME NEW i \in D PROVE IsFiniteSet(pairs[i])
  <2> DEFINE M == MatchesColumn(seen.relations[i], ref.column)
             pair == [k \in M |-> <<i, k>>]
  <2>1. M \subseteq DOMAIN level.relations[i].columns[v]
    BY <1>1 DEF MatchesColumn
  <2>2. IsFiniteSet(DOMAIN level.relations[i].columns[v])
    BY <1>2, FiniteSeq
  <2>3. IsFiniteSet(M)
    BY <2>1, <2>2, FS_Subset
  <2>4. DOMAIN pair = M
    OBVIOUS
  <2>5. IsFiniteSet({pair[k] : k \in DOMAIN pair})
    <3> HIDE DEF pair, M
    <3>. QED
      BY <2>3, <2>4, FiniteImage
  <2>. QED
    BY <2>5
<1>5. found = UNION {some[i] : i \in DOMAIN some}
  <2>1. DOMAIN some = sure /\ \A i \in sure : some[i] = {<<i, k>> : k \in MatchesColumn(seen.relations[i], ref.column)}
    BY <1>3
  <2> HIDE DEF some
  <2>. QED
    BY <2>1 DEF Found
<1>6. IsFiniteSet(found)
  <2>1. IsFiniteSet(sure) /\ DOMAIN some = sure
    BY <1>2, <1>3, FS_Subset
  <2>2. ASSUME NEW T \in {some[i] : i \in DOMAIN some} PROVE IsFiniteSet(T)
    <3>1. PICK i \in sure : T = pairs[i]
      BY <2>2
    <3>. QED
      BY <1>3, <1>4, <3>1
  <2> HIDE DEF some, found, sure
  <2>3. IsFiniteSet({some[i] : i \in DOMAIN some})
    BY <2>1, FiniteImage
  <2>. QED
    BY <1>5, <2>2, <2>3, FS_UNION
<1>7. \A p \in found : p[1] \in sure /\ p[2] \in MatchesColumn(seen.relations[p[1]], ref.column)
  <2>1. DOMAIN some = sure /\ \A i \in sure : some[i] = {<<i, k>> : k \in MatchesColumn(seen.relations[i], ref.column)}
    BY <1>3
  <2> HIDE DEF some, found, sure
  <2>. QED
    BY <1>5, <2>1
<1> HIDE DEF seen, found, sure, some, pairs
<1>8. ASSUME NEW id \in Ids(seen, found) PROVE id \in {ids[i] : i \in D} /\ \E r \in R : id = r.id /\ ref.column \in Shown(r, v)
  <2>1. PICK p \in found : id = seen.relations[p[1]].id
    BY <1>8 DEF Ids
  <2>2. /\ p[1] \in D /\ p[2] \in DOMAIN level.relations[p[1]].columns[v]
        /\ level.relations[p[1]].columns[v][p[2]] = ref.column
    BY <1>1, <1>3, <1>7 DEF MatchesColumn
  <2>3. id = level.relations[p[1]].id /\ level.relations[p[1]] \in R
    BY <1>1, <1>2, <2>1, <2>2
  <2>. QED
    BY <2>2, <2>3 DEF Shown, ToSet
<1>9. IsFiniteSet({ids[i] : i \in D})
  <2>1. DOMAIN ids = D
    OBVIOUS
  <2> HIDE DEF ids, D
  <2>. QED
    BY <1>2, <2>1, FiniteImage
<1>10. Ids(seen, found) \subseteq {ids[i] : i \in D} /\ {seen.relations[i].id : i \in Unknown(seen, ref)} \subseteq {ids[i] : i \in D}
  BY <1>1, <1>3, <1>8
<1> HIDE DEF ids, D
<1>11. IsFiniteSet(Ids(seen, found)) /\ IsFiniteSet({seen.relations[i].id : i \in Unknown(seen, ref)})
  BY <1>9, <1>10, FS_Subset
<1>. QED
  BY <1>6, <1>8, <1>11 DEF seen, found, FindsShown

LEMMA DecideSays ==
  ASSUME NEW R, NEW v \in Views, NEW level, ShowsOnly(level, R), \A r \in R : IsSeq(r.columns[v]), NEW ref
  PROVE  Says(Decide(Seen(level, v), ref), ref.column, R, v)
<1> DEFINE seen == Seen(level, v)
           found == Found(seen, ref)
           unknown == Unknown(seen, ref)
           ids == Ids(seen, found)
           lone == {seen.relations[i].id : i \in unknown}
           many == Cardinality(found) > 1
           b == Decide(seen, ref)
<1>1. /\ IsFiniteSet(found) /\ IsFiniteSet(ids) /\ IsFiniteSet(lone)
      /\ \A id \in ids : \E r \in R : id = r.id /\ ref.column \in Shown(r, v)
  <2>1. FindsShown(seen, ref, R, v)
    BY FoundShows
  <2>. QED
    BY ONLY <2>1 DEF FindsShown
<1>2. \/ many /\ b = Binding("coalesced", ids)
      \/ many /\ b = Binding("ambiguous", {})
      \/ b = Binding("unknown", lone) \/ b = Binding("unknown", {})
      \/ Cardinality(found) = 1 /\ b = Binding("resolved", ids)
      \/ b = Binding("missing", {}) \/ b = Binding("outer", {})
  BY DEF Decide
<1>3. IsFiniteSet({})
  BY FS_EmptySet
<1>4. many => ids # {}
  <2>1. many => found # {}
    BY FS_EmptySet
  <2>. QED
    BY <2>1 DEF Ids
<1>5. ASSUME Cardinality(found) = 1 PROVE \E id : ids = {id}
  <2>1. PICK p : found = {p}
    BY <1>1, <1>5, FS_Singleton
  <2>2. ids = {seen.relations[p[1]].id}
    BY <2>1 DEF Ids
  <2>. QED
    BY <2>2
<1> HIDE DEF seen, found, unknown, ids, lone, many, b
<1>6. CASE many /\ b = Binding("coalesced", ids)
  <2>1. b.status = "coalesced" /\ b.sources = ids
    BY <1>6 DEF Binding
  <2>. QED
    BY <1>1, <1>4, <1>6, <2>1 DEF Says, b, seen
<1>7. CASE Cardinality(found) = 1 /\ b = Binding("resolved", ids)
  <2>1. b.status = "resolved" /\ b.sources = ids
    BY <1>7 DEF Binding
  <2>. QED
    BY <1>1, <1>5, <1>7, <2>1 DEF Says, b, seen
<1>8. CASE b = Binding("ambiguous", {}) \/ b = Binding("missing", {}) \/ b = Binding("outer", {}) \/ b = Binding("unknown", {})
  BY <1>3, <1>8, SaysNothing DEF b, seen
<1>9. CASE b = Binding("unknown", lone)
  BY <1>1, <1>9, SaysNothing DEF b, seen
<1>. QED
  BY <1>2, <1>6, <1>7, <1>8, <1>9

LEMMA ResolveBinds ==
  ASSUME Rest, NEW v \in Views, NEW chain, IsSeq(chain), Shows(chain, OwnRelations), NEW ref
  PROVE  IsBound(BoundTo(ref.column, Resolve(ChainSeen(chain, v), ref)), AllKeys(v))
<1> DEFINE seen == ChainSeen(chain, v)
           deciding == {k \in DOMAIN seen : Decide(seen[k], ref).status # "outer"}
           a == Resolve(seen, ref)
           b == BoundTo(ref.column, a)
<1>1. \A r \in OwnRelations : IsSeq(r.columns[v])
  BY RelationsAtRest DEF RelationOk
<1>2. DOMAIN seen = DOMAIN chain /\ \A k \in DOMAIN chain : seen[k] = Seen(chain[k], v)
  BY DEF ChainSeen
<1> HIDE DEF seen
<1>3. Says(a, ref.column, OwnRelations, v) /\ a.status # "outer"
  <2>1. CASE deciding = {}
    <3>1. a = Binding("missing", {})
      BY <2>1 DEF Resolve
    <3>2. a.status = "missing"
      BY <3>1 DEF Binding
    <3>. QED
      BY <3>1, <3>2, SaysNothing, FS_EmptySet
  <2>2. CASE deciding # {}
    <3>1. deciding \in SUBSET Nat
      BY <1>2, SeqFacts
    <3>2. Min(deciding) \in deciding
      BY <2>2, <3>1, MinOfNaturals
    <3>3. a = Decide(seen[Min(deciding)], ref)
      BY <2>2 DEF Resolve
    <3>4. PICK k \in DOMAIN chain : a = Decide(Seen(chain[k], v), ref) /\ a.status # "outer"
      BY <1>2, <3>2, <3>3
    <3>5. ShowsOnly(chain[k], OwnRelations)
      BY DEF Shows
    <3>. QED
      BY <1>1, <3>4, <3>5, DecideSays
  <2>. QED
    BY <2>1, <2>2
<1>4. b.status = a.status /\ b.sources = a.sources /\ b.column = ref.column
  BY DEF BoundTo
<1> HIDE DEF a, b
<1>5. KeysOf(b) \subseteq AllKeys(v)
  <2>1. ASSUME NEW k \in KeysOf(b) PROVE k \in AllKeys(v)
    <3>1. a.status \in {"resolved", "coalesced"} /\ \E id \in a.sources : k = Key(id, ref.column)
      BY <1>4 DEF KeysOf
    <3>2. PICK id \in a.sources : k = Key(id, ref.column)
      BY <3>1
    <3>3. PICK r \in OwnRelations : id = r.id /\ ref.column \in Shown(r, v)
      BY <1>3, <3>1 DEF Says
    <3>. QED
      BY <3>2, <3>3, RelationsAtRest
  <2>. QED
    BY <2>1
<1>6. IsBound(b, AllKeys(v))
  BY <1>3, <1>4, <1>5 DEF IsBound, Says
<1>. QED
  BY <1>6 DEF a, b, seen

(***************************************************************************)
(* What a block's references and outputs are bound to                       *)
(***************************************************************************)
LEMMA ChainsAtRest ==
  ASSUME Rest, NEW s \in scopes, NEW chain \in Chains(s)
  PROVE  IsSeq(chain) /\ Shows(chain, OwnRelations)
<1>1. IsSeq(s.chain) /\ s.chain # <<>>
  BY DEF Rest, Inv, ScopeInv, KeepsLevels
<1>2. Shows(s.chain, OwnRelations) /\ Shows(s.joins, OwnRelations)
  BY AtRest DEF ScopeOk
<1> DEFINE rest == Tail(s.chain)
<1>3. IsSeq(rest) /\ Shows(rest, OwnRelations)
  <2>1. IsSeq(rest) /\ DOMAIN rest = 1..(Len(s.chain) - 1) /\ \A k \in DOMAIN rest : rest[k] = s.chain[k + 1]
    BY <1>1, SeqTail, SeqFacts
  <2>2. Len(s.chain) \in Nat /\ DOMAIN s.chain = 1..Len(s.chain)
    BY <1>1, SeqFacts
  <2> HIDE DEF rest
  <2>3. \A k \in DOMAIN rest : k + 1 \in DOMAIN s.chain
    BY <2>1, <2>2
  <2>. QED
    BY <1>2, <2>1, <2>3 DEF Shows
<1>4. CASE chain = s.chain
  BY <1>1, <1>2, <1>4
<1>5. CASE chain # s.chain
  <2>1. PICK j \in DOMAIN s.joins : chain = <<s.joins[j]>> \o rest
    BY <1>5 DEF Chains
  <2>2. ShowsOnly(s.joins[j], OwnRelations)
    BY <1>2 DEF Shows
  <2> HIDE DEF rest
  <2>3. IsSeq(<<s.joins[j]>> \o rest) /\ Shows(<<s.joins[j]>> \o rest, OwnRelations)
    BY <1>3, <2>2, ShowsAround, OneBefore
  <2>. QED
    BY <2>1, <2>3
<1>. QED
  BY <1>4, <1>5

LEMMA ReferencesAtRest ==
  ASSUME Rest, NEW v \in Views, NEW path \in KnownPaths, NEW refs, IsSeq(refs)
  PROVE  AreBound(ReferencesOf(path, refs, v), AllKeys(v))
<1> DEFINE chain == ScopeAt(path).chain
           b == ReferencesOf(path, refs, v)
<1>1. IsSeq(chain) /\ Shows(chain, OwnRelations)
  <2>1. ScopeAt(path) \in scopes
    BY AtRest
  <2>2. chain \in Chains(ScopeAt(path))
    BY DEF Chains
  <2> HIDE DEF chain
  <2>. QED
    BY <2>1, <2>2, ChainsAtRest
<1>2. Len(refs) \in Nat /\ DOMAIN refs = 1..Len(refs)
  BY SeqFacts
<1>3. DOMAIN b = DOMAIN refs /\ \A i \in DOMAIN refs : b[i] = BoundTo(refs[i].column, Resolve(ChainSeen(chain, v), refs[i]))
  BY DEF ReferencesOf
<1>4. b = [i \in 1..Len(refs) |-> b[i]]
  BY <1>2 DEF ReferencesOf
<1> HIDE DEF b, chain
<1>5. \A i \in DOMAIN refs : IsBound(b[i], AllKeys(v))
  BY <1>1, <1>3, ResolveBinds
<1>6. IsSeq(b)
  BY <1>2, <1>3, <1>4, SeqNew
<1>7. \A x \in ToSet(b) : IsBound(x, AllKeys(v))
  BY <1>3, <1>5 DEF ToSet
<1>. QED
  BY <1>6, <1>7 DEF AreBound, b

LEMMA SlotsAtRest ==
  ASSUME Rest, NEW v \in Views, NEW slot, SlotOk(slot, KnownPaths, OwnRelations, v)
  PROVE  AreBound(SlotBindings(slot, v), AllKeys(v))
<1>1. CASE slot.sources = {}
  <2>1. slot.owner \in KnownPaths /\ IsSeq(slot.refs)
    BY <1>1 DEF SlotOk
  <2>2. SlotBindings(slot, v) = ReferencesOf(slot.owner, slot.refs, v)
    BY <1>1 DEF SlotBindings
  <2>. QED
    BY <2>1, <2>2, ReferencesAtRest
<1>2. CASE slot.sources # {}
  <2>1. PICK r \in OwnRelations : slot.sources = {r.id} /\ slot.name \in Shown(r, v)
    BY <1>2 DEF SlotOk, Shown
  <2>2. IsFiniteSet(slot.sources)
    BY <2>1, FS_Singleton
  <2>3. \A id \in slot.sources : Key(id, slot.name) \in AllKeys(v)
    BY <2>1, RelationsAtRest
  <2>4. SlotBindings(slot, v) = SetToSeq({Direct(id, slot.name) : id \in slot.sources})
    BY <1>2 DEF SlotBindings
  <2> DEFINE ids == slot.sources
             column == slot.name
             K == AllKeys(v)
  <2>a. IsFiniteSet(ids) /\ \A id \in ids : Key(id, column) \in K
    BY <2>2, <2>3
  <2>b. SlotBindings(slot, v) = SetToSeq({Direct(id, column) : id \in ids})
    BY <2>4
  <2> HIDE DEF ids, column, K
  <2>c. LET p == SetToSeq({Direct(id, column) : id \in ids})
        IN  AreBound(p, K) /\ KeysIn(p) = {Key(id, column) : id \in ids} /\ ~HasUnbound(p)
    BY <2>a, DirectBindings
  <2>5. AreBound(SlotBindings(slot, v), K)
    BY <2>b, <2>c
  <2>. QED
    BY <2>5 DEF K
<1>. QED
  BY <1>1, <1>2

(***************************************************************************)
(* What an output of a block is made of                                     *)
(***************************************************************************)
AllOutputs == [view : Views, path : {s.path : s \in scopes}, index : Nat]

QueryOf(out) == ScopeAt(out.path).query

\* What an output is made of, given what those of the arms are.
Made(out, left, right) ==
  LET q == ScopeAt(out.path).query
  IN  CASE out.index = 0         -> Gathered(<<>>, ScopeAt(out.path).outputs.complete[out.view])
        [] out.index > Len(Slots(out)) -> Gathered(<<>>, FALSE)
        [] OTHER -> Both(IF Has(q.left) THEN left ELSE OwnBindings(out),
                         IF Has(q.right) /\ q.union THEN right ELSE Gathered(<<>>, TRUE))

IsGathered(g, v) == AreBound(g.bindings, AllKeys(v)) /\ g.complete \in BOOLEAN

LEMMA OutputIndexIn == ASSUME NEW slots, IsSeq(slots), NEW name PROVE OutputIndex(slots, name) \in Nat
<1> DEFINE S == {k \in DOMAIN slots : slots[k].name = name /\ \A i \in 1..(k - 1) : slots[i].name # name}
<1>1. Len(slots) \in Nat /\ DOMAIN slots = 1..Len(slots)
  BY SeqFacts
<1>2. S \subseteq Nat /\ \A k, l \in S : k = l
  <2>1. ASSUME NEW k \in S, NEW l \in S, k < l PROVE FALSE
    <3>1. k \in Nat /\ l \in Nat /\ k \in 1..(l - 1)
      BY <1>1, <2>1
    <3>. QED
      BY <3>1
  <2>2. S \subseteq Nat
    BY <1>1
  <2> HIDE DEF S
  <2>3. ASSUME NEW k \in S, NEW l \in S PROVE k = l
    <3>1. k \in Nat /\ l \in Nat /\ ~(k < l) /\ ~(l < k)
      BY <2>1, <2>2
    <3>. QED
      BY <3>1
  <2>. QED
    BY <2>2, <2>3
<1> HIDE DEF S
<1>3. \E m \in {0} \cup S : \A x \in {0} \cup S : x <= m
  <2>1. CASE S = {}
    BY <2>1
  <2>2. CASE S # {}
    <3>1. PICK m \in S : TRUE
      BY <2>2
    <3>2. m \in Nat /\ \A x \in {0} \cup S : x <= m
      BY <1>2, <3>1
    <3>. QED
      BY <3>1, <3>2
  <2>. QED
    BY <2>1, <2>2
<1>4. Max({0} \cup S) \in {0} \cup S
  BY <1>3 DEF Max
<1>5. OutputIndex(slots, name) = Max({0} \cup S)
  BY DEF OutputIndex, S
<1>6. {0} \cup S \subseteq Nat
  BY <1>2
<1>. QED
  BY <1>4, <1>5, <1>6

LEMMA OutputsAtRest ==
  ASSUME Rest, NEW out \in AllOutputs
  PROVE  /\ ScopeAt(out.path) \in scopes /\ ScopeAt(out.path).path = out.path
         /\ out.path \in KnownPaths /\ out.view \in Views /\ out.index \in Nat
         /\ IsSeq(Slots(out)) /\ \A slot \in ToSet(Slots(out)) : SlotOk(slot, KnownPaths, OwnRelations, out.view)
         /\ ScopeAt(out.path).outputs.complete[out.view] \in BOOLEAN
         /\ Has(QueryOf(out).left) => ArmAt(out.path, "left") \in KnownPaths
         /\ Has(QueryOf(out).right) => ArmAt(out.path, "right") \in KnownPaths
<1>1. out.path \in KnownPaths /\ out.view \in Views /\ out.index \in Nat
  BY AtRest DEF AllOutputs
<1> DEFINE s == ScopeAt(out.path)
<1>2. s \in scopes /\ s.path = out.path
  BY <1>1, AtRest
<1>3. ScopeOk(s, KnownPaths, OwnRelations)
  BY <1>2, AtRest
<1>4. Slots(out) = s.outputs.slots[out.view] /\ QueryOf(out) = s.query
  BY DEF Slots, QueryOf
<1> HIDE DEF s
<1>5. SlotsOk(s.outputs.slots[out.view], KnownPaths, OwnRelations, out.view) /\ s.outputs.complete[out.view] \in BOOLEAN
  BY <1>1, <1>3 DEF ScopeOk, OutputsOk
<1>6. /\ Has(s.query.left) => ArmAt(out.path, "left") \in KnownPaths
      /\ Has(s.query.right) => ArmAt(out.path, "right") \in KnownPaths
  BY <1>2, <1>3 DEF ScopeOk
<1>. QED
  BY <1>1, <1>2, <1>4, <1>5, <1>6 DEF SlotsOk, s

LEMMA OwnAtRest ==
  ASSUME Rest, NEW out \in AllOutputs, out.index # 0, ~(out.index > Len(Slots(out)))
  PROVE  IsGathered(OwnBindings(out), out.view)
<1> DEFINE slot == Slots(out)[out.index]
           g == OwnBindings(out)
<1>1. /\ out.index \in Nat /\ out.view \in Views /\ IsSeq(Slots(out))
      /\ \A x \in ToSet(Slots(out)) : SlotOk(x, KnownPaths, OwnRelations, out.view)
  BY OutputsAtRest
<1>2. Len(Slots(out)) \in Nat /\ DOMAIN Slots(out) = 1..Len(Slots(out))
  BY <1>1, SeqFacts
<1>3. out.index \in DOMAIN Slots(out)
  BY <1>1, <1>2
<1>4. slot \in ToSet(Slots(out))
  BY <1>3 DEF ToSet
<1> HIDE DEF slot
<1>5. AreBound(SlotBindings(slot, out.view), AllKeys(out.view))
  BY <1>1, <1>4, SlotsAtRest
<1>6. (g.bindings = SlotBindings(slot, out.view) \/ g.bindings = <<>>) /\ g.complete = TRUE
  BY DEF OwnBindings, Gathered, slot
<1> HIDE DEF g
<1>7. AreBound(<<>>, AllKeys(out.view))
  BY NoBindings
<1>. QED
  BY <1>5, <1>6, <1>7 DEF IsGathered, g

LEMMA GatheredFields == \A b, c : Gathered(b, c).bindings = b /\ Gathered(b, c).complete = c
BY DEF Gathered

LEMMA BothGathered ==
  ASSUME NEW v, NEW left, NEW right, IsGathered(left, v), IsGathered(right, v)
  PROVE  IsGathered(Both(left, right), v)
<1>1. Both(left, right).bindings = left.bindings \o right.bindings /\ Both(left, right).complete = (left.complete /\ right.complete)
  BY GatheredFields DEF Both
<1>2. AreBound(left.bindings \o right.bindings, AllKeys(v))
  BY MoreBindings DEF IsGathered
<1>. QED
  BY <1>1, <1>2 DEF IsGathered

LEMMA NoneGathered == \A v : \A c \in BOOLEAN : IsGathered(Gathered(<<>>, c), v)
BY GatheredFields, NoBindings DEF IsGathered

LEMMA MadeAtRest ==
  ASSUME Rest, NEW out \in AllOutputs, NEW left, NEW right,
         Has(QueryOf(out).left) => IsGathered(left, out.view), Has(QueryOf(out).right) => IsGathered(right, out.view)
  PROVE  IsGathered(Made(out, left, right), out.view)
<1> DEFINE q == QueryOf(out)
           v == out.view
           g == Made(out, left, right)
           a == IF Has(q.left) THEN left ELSE OwnBindings(out)
           b == IF Has(q.right) /\ q.union THEN right ELSE Gathered(<<>>, TRUE)
<1>1. CASE out.index = 0
  <2>a. Len(Slots(out)) \in Nat
    BY OutputsAtRest, SeqFacts
  <2>b. ~(out.index > Len(Slots(out)))
    BY <1>1, <2>a
  <2>1. g = Gathered(<<>>, ScopeAt(out.path).outputs.complete[out.view])
    BY <1>1, <2>b DEF Made
  <2>2. ScopeAt(out.path).outputs.complete[out.view] \in BOOLEAN
    BY OutputsAtRest
  <2>. QED
    BY <2>1, <2>2, NoneGathered
<1>2. CASE out.index # 0 /\ out.index > Len(Slots(out))
  <2>1. g = Gathered(<<>>, FALSE)
    BY <1>2 DEF Made
  <2>. QED
    BY <2>1, NoneGathered
<1>3. CASE out.index # 0 /\ ~(out.index > Len(Slots(out)))
  <2>1. g = Both(a, b)
    BY <1>3 DEF Made, QueryOf
  <2>2. IsGathered(a, v)
    BY <1>3, OwnAtRest
  <2>3. IsGathered(b, v)
    BY NoneGathered
  <2> HIDE DEF a, b
  <2>. QED
    BY <2>1, <2>2, <2>3, BothGathered
<1>. QED
  BY <1>1, <1>2, <1>3

\* The blocks below one.
Deeper(path) == {p \in KnownPaths : Len(p) > Len(path)}

LEMMA DeeperFinite ==
  ASSUME Rest, NEW path
  PROVE  IsFiniteSet(Deeper(path)) /\ Cardinality(Deeper(path)) \in Nat
<1> DEFINE paths == [s \in scopes |-> s.path]
<1>1. DOMAIN paths = scopes /\ KnownPaths = {paths[s] : s \in DOMAIN paths}
  BY AtRest
<1>2. IsFiniteSet(scopes)
  BY DEF Rest, RecordInv
<1> HIDE DEF paths
<1>3. IsFiniteSet(KnownPaths)
  BY <1>1, <1>2, FiniteImage
<1>4. IsFiniteSet(Deeper(path))
  BY <1>3, FS_Subset DEF Deeper
<1>. QED
  BY <1>4, FS_CardinalityType

\* An arm has less below it.
LEMMA ArmsAtRest ==
  ASSUME Rest, NEW out \in AllOutputs, NEW role \in {"left", "right"},
         Has(IF role = "left" THEN QueryOf(out).left ELSE QueryOf(out).right)
  PROVE  /\ Arm(out, role) \in AllOutputs /\ Arm(out, role).view = out.view
         /\ Cardinality(Deeper(Arm(out, role).path)) < Cardinality(Deeper(out.path))
<1> DEFINE path == Append(out.path, Step(role, 1))
           arm == Arm(out, role)
           index == IF ScopeAt(out.path).query.byName
                    THEN OutputIndex(ScopeAt(path).outputs.slots[out.view], Slots(out)[out.index].name)
                    ELSE out.index
<1>1. path \in KnownPaths /\ out.path \in KnownPaths /\ out.index \in Nat /\ out.view \in Views
  BY OutputsAtRest DEF ArmAt
<1>2. arm = [view |-> out.view, path |-> path, index |-> index]
  BY DEF Arm, Output
<1>3. IsSeq(out.path)
  BY <1>1 DEF Rest, Inv, PathsInv
<1>4. Len(path) = Len(out.path) + 1 /\ Len(out.path) \in Nat
  BY <1>3, SeqAppend, SeqFacts
<1> HIDE DEF path, arm
<1>5. IsSeq(ScopeAt(path).outputs.slots[out.view])
  <2>1. ScopeAt(path) \in scopes /\ ScopeOk(ScopeAt(path), KnownPaths, OwnRelations)
    BY <1>1, AtRest
  <2>. QED
    BY <1>1, <2>1 DEF ScopeOk, OutputsOk, SlotsOk
<1>6. index \in Nat
  BY <1>1, <1>5, OutputIndexIn
<1> HIDE DEF index
<1>7. arm \in AllOutputs /\ arm.view = out.view /\ arm.path = path
  BY <1>1, <1>2, <1>6, AtRest DEF AllOutputs
<1>8. Deeper(path) \subseteq Deeper(out.path) /\ path \in Deeper(out.path) \ Deeper(path)
  <2>1. ASSUME NEW p \in Deeper(path) PROVE p \in Deeper(out.path)
    <3>1. p \in KnownPaths /\ Len(p) > Len(path)
      BY <2>1 DEF Deeper
    <3>2. IsSeq(p)
      BY <3>1 DEF Rest, Inv, PathsInv
    <3>3. Len(p) \in Nat
      BY <3>2, SeqFacts
    <3>. QED
      BY <1>4, <3>1, <3>3 DEF Deeper
  <2>2. path \in Deeper(out.path) /\ path \notin Deeper(path)
    BY <1>1, <1>4 DEF Deeper
  <2>. QED
    BY <2>1, <2>2
<1>9. Cardinality(Deeper(path)) < Cardinality(Deeper(out.path))
  <2> DEFINE few == Deeper(path)
             many == Deeper(out.path)
  <2>1. /\ IsFiniteSet(few) /\ Cardinality(few) \in Nat /\ IsFiniteSet(many) /\ Cardinality(many) \in Nat
        /\ few \in SUBSET many /\ few # many
    BY <1>8, DeeperFinite
  <2> HIDE DEF few, many
  <2>2. Cardinality(few) <= Cardinality(many) /\ Cardinality(few) # Cardinality(many)
    BY <2>1, FS_Subset
  <2>3. Cardinality(few) < Cardinality(many)
    BY <2>1, <2>2
  <2>. QED
    BY <2>3 DEF few, many
<1>. QED
  BY <1>7, <1>9 DEF arm

\* A set operation is made of its arms, and they of theirs.
IsMade(f) ==
  DOMAIN f = AllOutputs /\ \A out \in AllOutputs : f[out] = Made(out, f[Arm(out, "left")], f[Arm(out, "right")])

\* A value of one kind is made of values of that kind.
LEMMA MadeIn ==
  ASSUME Rest, NEW out \in AllOutputs, NEW B, NEW V, V = [bindings : Seq(B), complete : BOOLEAN],
         out.index # 0 /\ ~(out.index > Len(Slots(out))) => OwnBindings(out).bindings \in Seq(B),
         NEW left, NEW right, Has(QueryOf(out).left) => left \in V, Has(QueryOf(out).right) => right \in V
  PROVE  Made(out, left, right) \in V
<1> DEFINE q == QueryOf(out)
           a == IF Has(q.left) THEN left ELSE OwnBindings(out)
           b == IF Has(q.right) /\ q.union THEN right ELSE Gathered(<<>>, TRUE)
<1>1. Len(Slots(out)) \in Nat /\ out.index \in Nat /\ ScopeAt(out.path).outputs.complete[out.view] \in BOOLEAN
  BY OutputsAtRest, SeqFacts
<1>0. ASSUME NEW g, NEW s \in Seq(B), NEW c, g = Gathered(s, c), c \in BOOLEAN PROVE g \in V
  BY <1>0 DEF Gathered
<1>2. \A c \in BOOLEAN : Gathered(<<>>, c) \in V
  <2>1. <<>> \in Seq(B)
    OBVIOUS
  <2>. QED
    BY <1>0, <2>1
<1>3. CASE out.index = 0
  <2>1. ~(out.index > Len(Slots(out)))
    BY <1>1, <1>3
  <2>2. Made(out, left, right) = Gathered(<<>>, ScopeAt(out.path).outputs.complete[out.view])
    BY <1>3, <2>1 DEF Made
  <2>. QED
    BY <1>1, <1>2, <2>2
<1>4. CASE out.index # 0 /\ out.index > Len(Slots(out))
  BY <1>2, <1>4 DEF Made
<1>5. CASE out.index # 0 /\ ~(out.index > Len(Slots(out)))
  <2>1. Made(out, left, right) = Both(a, b)
    BY <1>5 DEF Made, QueryOf
  <2>2. OwnBindings(out) \in V
    <3> DEFINE own == OwnBindings(out).bindings
    <3>1. OwnBindings(out) = Gathered(own, TRUE)
      BY GatheredFields DEF OwnBindings
    <3>2. own \in Seq(B)
      BY <1>5
    <3>3. TRUE \in BOOLEAN
      OBVIOUS
    <3> HIDE DEF own
    <3>. QED
      BY <1>0, <3>1, <3>2, <3>3
  <2>3. a \in V /\ b \in V
    BY <1>2, <2>2
  <2> HIDE DEF a, b
  <2>4. a.bindings \in Seq(B) /\ b.bindings \in Seq(B) /\ a.complete \in BOOLEAN /\ b.complete \in BOOLEAN
    BY <2>3
  <2>5. Both(a, b) = Gathered(a.bindings \o b.bindings, a.complete /\ b.complete)
    BY DEF Both
  <2>6. a.bindings \o b.bindings \in Seq(B)
    BY <2>4
  <2>7. (a.complete /\ b.complete) \in BOOLEAN
    OBVIOUS
  <2> DEFINE all == a.bindings \o b.bindings
             both == a.complete /\ b.complete
  <2>8. Made(out, left, right) = Gathered(all, both) /\ all \in Seq(B)
    BY <2>1, <2>5, <2>6
  <2>9. both \in BOOLEAN
    OBVIOUS
  <2> HIDE DEF all, both
  <2>. QED
    BY <1>0, <2>8, <2>9
<1>. QED
  BY <1>3, <1>4, <1>5

LEMMA BindingsMade == ASSUME Rest PROVE IsMade(BindingsOf)
<1> DEFINE D == AllOutputs
           sets == [out \in D |-> ToSet(OwnBindings(out).bindings)]
           B == UNION {sets[out] : out \in D}
           V == [bindings : Seq(B), complete : BOOLEAN]
           rank == [out \in D |-> Cardinality(Deeper(out.path))]
           step == [p \in D \X [D -> V] |-> Made(p[1], p[2][Arm(p[1], "left")], p[2][Arm(p[1], "right")])]
           Value(f, out) ==
             LET q == ScopeAt(out.path).query
             IN  CASE out.index = 0         -> Gathered(<<>>, ScopeAt(out.path).outputs.complete[out.view])
                   [] out.index > Len(Slots(out)) -> Gathered(<<>>, FALSE)
                   [] OTHER -> Both(IF Has(q.left) THEN f[Arm(out, "left")] ELSE OwnBindings(out),
                                    IF Has(q.right) /\ q.union THEN f[Arm(out, "right")] ELSE Gathered(<<>>, TRUE))
           Body(f) == [out \in [view : Views, path : {s.path : s \in scopes}, index : Nat] |-> Value(f, out)]
<1>1. V # {}
  <2>1. <<>> \in Seq(B) /\ TRUE \in BOOLEAN
    OBVIOUS
  <2>2. [bindings |-> <<>>, complete |-> TRUE] \in V
    BY <2>1
  <2>. QED
    BY <2>2
<1>2. rank \in [D -> Nat] /\ \A out \in D : rank[out] = Cardinality(Deeper(out.path))
  BY DeeperFinite
<1>3. ASSUME NEW out \in D, out.index # 0, ~(out.index > Len(Slots(out))) PROVE OwnBindings(out).bindings \in Seq(B)
  <2> DEFINE own == OwnBindings(out).bindings
  <2>1. IsSeq(own)
    BY <1>3, OwnAtRest DEF IsGathered, AreBound
  <2>2. ToSet(own) \subseteq B
    <3>1. sets[out] = ToSet(own)
      OBVIOUS
    <3> HIDE DEF sets, own
    <3>. QED
      BY <3>1
  <2>3. Len(own) \in Nat /\ DOMAIN own = 1..Len(own)
    BY <2>1, SeqFacts
  <2> HIDE DEF own, B
  <2>4. \A k \in 1..Len(own) : own[k] \in B
    BY <2>2, <2>3 DEF ToSet
  <2>5. own \in Seq(B)
    BY <2>1, <2>4 DEF IsSeq
  <2>. QED
    BY <2>5 DEF own
<1> HIDE DEF B, sets
<1>4. ASSUME NEW out \in D, NEW f \in [D -> V] PROVE Made(out, f[Arm(out, "left")], f[Arm(out, "right")]) \in V
  <2> DEFINE left == f[Arm(out, "left")]
             right == f[Arm(out, "right")]
  <2>1. Has(QueryOf(out).left) => left \in V
    <3>1. ASSUME Has(QueryOf(out).left) PROVE Arm(out, "left") \in D
      BY <3>1, ArmsAtRest
    <3> HIDE DEF D, V
    <3>. QED
      BY <3>1
  <2>2. Has(QueryOf(out).right) => right \in V
    <3>1. ASSUME Has(QueryOf(out).right) PROVE Arm(out, "right") \in D
      BY <3>1, ArmsAtRest
    <3> HIDE DEF D, V
    <3>. QED
      BY <3>1
  <2> HIDE DEF left, right
  <2>3. Made(out, left, right) \in V
    BY <1>3, <2>1, <2>2, MadeIn
  <2>. QED
    BY <2>3 DEF left, right
<1> HIDE DEF V, rank
<1>5. /\ step \in [D \X [D -> V] -> V]
      /\ \A out \in D, f \in [D -> V] : step[<<out, f>>] = Made(out, f[Arm(out, "left")], f[Arm(out, "right")])
  BY <1>4
<1> HIDE DEF step
<1>6. ASSUME NEW out \in D, NEW f \in [D -> V], NEW g \in [D -> V], \A other \in D : rank[other] < rank[out] => f[other] = g[other]
      PROVE  step[<<out, f>>] = step[<<out, g>>]
  <2> DEFINE left == Arm(out, "left")
             right == Arm(out, "right")
  <2>1. Has(QueryOf(out).left) => f[left] = g[left]
    <3>1. ASSUME Has(QueryOf(out).left) PROVE left \in D /\ Cardinality(Deeper(left.path)) < Cardinality(Deeper(out.path))
      BY <3>1, ArmsAtRest
    <3>. QED
      BY <1>2, <1>6, <3>1
  <2>2. Has(QueryOf(out).right) => f[right] = g[right]
    <3>1. ASSUME Has(QueryOf(out).right) PROVE right \in D /\ Cardinality(Deeper(right.path)) < Cardinality(Deeper(out.path))
      BY <3>1, ArmsAtRest
    <3>. QED
      BY <1>2, <1>6, <3>1
  <2> HIDE DEF left, right
  <2>3. Made(out, f[left], f[right]) = Made(out, g[left], g[right])
    BY <2>1, <2>2 DEF Made, QueryOf
  <2>. QED
    BY <1>5, <2>3 DEF left, right
<1>7. PICK f0 : Follows(f0, step, D, V)
  <2> HIDE DEF D
  <2>. QED
    BY <1>1, <1>2, <1>5, <1>6, Recursion
<1>8. \A f : \A out \in D : Body(f)[out] = Made(out, f[Arm(out, "left")], f[Arm(out, "right")])
  BY DEF Made, AllOutputs
<1>9. \A f : DOMAIN Body(f) = D
  BY DEF AllOutputs
<1>10. f0 = Body(f0)
  <2>1. f0 \in [D -> V] /\ \A out \in D : f0[out] = Made(out, f0[Arm(out, "left")], f0[Arm(out, "right")])
    BY <1>5, <1>7 DEF Follows
  <2> DEFINE b == Body(f0)
  <2>2. b = [out \in D |-> b[out]]
    <3> HIDE DEF Value
    <3>. QED
      BY DEF AllOutputs
  <2>3. \A out \in D : b[out] = f0[out]
    BY <1>8, <2>1
  <2>4. f0 = [out \in D |-> f0[out]]
    BY <2>1
  <2> HIDE DEF b, D
  <2>5. f0 = b
    BY <2>2, <2>3, <2>4
  <2>. QED
    BY <2>5 DEF b
<1>11. BindingsOf = CHOOSE f : f = Body(f)
  BY DEF BindingsOf
<1>12. BindingsOf = Body(BindingsOf)
  <2> HIDE DEF Body
  <2>. QED
    BY <1>10, <1>11
<1>. QED
  <2> DEFINE f == BindingsOf
  <2>1. f = Body(f)
    BY <1>12
  <2> HIDE DEF f, Body
  <2>. QED
    BY <1>8, <1>9, <2>1 DEF IsMade, f

LEMMA BindingsAtRest ==
  ASSUME Rest, NEW out \in AllOutputs
  PROVE  IsGathered(OutputBindings(out), out.view)
<1> DEFINE f == BindingsOf
           rank(o) == Cardinality(Deeper(o.path))
           S == {n \in Nat : \A o \in AllOutputs : rank(o) < n => IsGathered(f[o], o.view)}
<1>1. \A o \in AllOutputs : f[o] = Made(o, f[Arm(o, "left")], f[Arm(o, "right")])
  BY BindingsMade DEF IsMade
<1>2. \A o \in AllOutputs : rank(o) \in Nat
  BY DeeperFinite
<1> HIDE DEF f
<1>3. ASSUME NEW n \in Nat, n \in S, NEW o \in AllOutputs, rank(o) < n + 1 PROVE IsGathered(f[o], o.view)
  <2> DEFINE left == Arm(o, "left")
             right == Arm(o, "right")
  <2>1. Has(QueryOf(o).left) => IsGathered(f[left], o.view)
    <3>1. ASSUME Has(QueryOf(o).left) PROVE left \in AllOutputs /\ left.view = o.view /\ rank(left) < rank(o)
      BY <3>1, ArmsAtRest
    <3> HIDE DEF left, rank
    <3>. QED
      BY <1>2, <1>3, <3>1
  <2>2. Has(QueryOf(o).right) => IsGathered(f[right], o.view)
    <3>1. ASSUME Has(QueryOf(o).right) PROVE right \in AllOutputs /\ right.view = o.view /\ rank(right) < rank(o)
      BY <3>1, ArmsAtRest
    <3> HIDE DEF right, rank
    <3>. QED
      BY <1>2, <1>3, <3>1
  <2>. QED
    BY <1>1, <2>1, <2>2, MadeAtRest
<1> HIDE DEF rank
<1>4. 0 \in S
  BY <1>2
<1>5. \A n \in Nat : n \in S => n + 1 \in S
  BY <1>3
<1> HIDE DEF S
<1>6. \A n \in Nat : n \in S
  BY <1>4, <1>5, NaturalSets
<1>7. rank(out) + 1 \in S /\ rank(out) < rank(out) + 1
  BY <1>2, <1>6
<1>. QED
  BY <1>7 DEF S, f, OutputBindings

(***************************************************************************)
(* The graph of columns                                                     *)
(***************************************************************************)
\* The bindings of several outputs together.
LEMMA GatheredTogether ==
  ASSUME NEW v, NEW outputs, IsFiniteSet(outputs), \A o \in outputs : IsGathered(o, v)
  PROVE  AreBound(FlattenSeq(SetToSeq({o.bindings : o \in outputs})), AllKeys(v))
<1> DEFINE bindings == [o \in outputs |-> o.bindings]
           S == {o.bindings : o \in outputs}
           s == SetToSeq(S)
           all == FlattenSeq(s)
<1>1. S = {bindings[o] : o \in DOMAIN bindings} /\ DOMAIN bindings = outputs
  OBVIOUS
<1>2. IsFiniteSet(S)
  <2> HIDE DEF S, bindings
  <2>. QED
    BY <1>1, FiniteImage
<1>3. \A t \in S : AreBound(t, AllKeys(v))
  BY DEF IsGathered
<1> HIDE DEF S
<1>4. IsSeq(s) /\ ToSet(s) = S
  BY <1>2, SetInARow
<1> HIDE DEF s
<1>5. Len(s) \in Nat /\ DOMAIN s = 1..Len(s)
  BY <1>4, SeqFacts
<1>6. \A i \in 1..Len(s) : AreBound(s[i], AllKeys(v))
  <2>1. \A i \in 1..Len(s) : s[i] \in S
    BY <1>4, <1>5 DEF ToSet
  <2>. QED
    BY <1>3, <2>1
<1>7. IsSeq(all) /\ \A x \in ToSet(all) : \E i \in 1..Len(s) : x \in ToSet(s[i])
  <2>1. \A i \in 1..Len(s) : IsSeq(s[i])
    BY <1>6 DEF AreBound
  <2>. QED
    BY <1>4, <1>5, <2>1, FlatElements
<1> HIDE DEF all
<1>8. AreBound(all, AllKeys(v))
  BY <1>6, <1>7 DEF AreBound
<1>. QED
  BY <1>8 DEF all, s, S

LEMMA SourcesAtRest ==
  ASSUME Rest, NEW v \in Views, NEW k \in AllKeys(v), HasSource(k, v)
  PROVE  IsGathered(Sources(k, v), v)
<1> DEFINE r == RelationAt(k.id)
           shown == OutputsShown(r, k.column, v)
           made == [j \in shown |-> OutputBindings(Output(v, r.body, j))]
           outputs == {OutputBindings(Output(v, r.body, j)) : j \in shown}
<1>1. /\ r \in OwnRelations /\ k.id = r.id /\ RelationOk(r, KnownPaths) /\ r.id.owner \in KnownPaths
  BY KeysAtRest, RelationsAtRest
<1> HIDE DEF r
<1>2. CASE r.kind = "table_function"
  <2>1. Sources(k, v) = Gathered(ReferencesOf(k.id.owner, r.args, v), TRUE)
    BY <1>2 DEF Sources, r
  <2>2. AreBound(ReferencesOf(k.id.owner, r.args, v), AllKeys(v))
    BY <1>1, ReferencesAtRest DEF RelationOk
  <2>. QED
    BY <2>1, <2>2, GatheredFields DEF IsGathered
<1>3. CASE r.kind # "table_function"
  <2>1. r.body \in KnownPaths /\ IsSeq(r.columns[v])
    BY <1>1, <1>3 DEF HasSource, RelationOk, r
  <2>2. shown \subseteq DOMAIN r.columns[v]
    BY DEF OutputsShown, MatchesColumn
  <2>3. IsFiniteSet(shown) /\ shown \subseteq Nat
    <3>1. IsFiniteSet(DOMAIN r.columns[v]) /\ DOMAIN r.columns[v] \subseteq Nat
      BY <2>1, FiniteSeq, SeqFacts
    <3> HIDE DEF shown
    <3>. QED
      BY <2>2, <3>1, FS_Subset
  <2>4. \A j \in shown : IsGathered(made[j], v)
    <3>1. ASSUME NEW j \in shown PROVE IsGathered(OutputBindings(Output(v, r.body, j)), v)
      <4>1. Output(v, r.body, j) \in AllOutputs /\ Output(v, r.body, j).view = v
        BY <2>1, <2>3, AtRest DEF Output, AllOutputs
      <4>. QED
        BY <4>1, BindingsAtRest
    <3>. QED
      BY <3>1
  <2>5. outputs = {made[j] : j \in DOMAIN made} /\ DOMAIN made = shown
    OBVIOUS
  <2> HIDE DEF shown, made, outputs
  <2>6. IsFiniteSet(outputs) /\ \A o \in outputs : IsGathered(o, v)
    BY <2>3, <2>4, <2>5, FiniteImage
  <2> DEFINE all == FlattenSeq(SetToSeq({o.bindings : o \in outputs}))
             whole == \A o \in outputs : o.complete
  <2>7. Sources(k, v) = Gathered(all, whole)
    BY <1>3 DEF Sources, r, outputs, shown
  <2>8. AreBound(all, AllKeys(v))
    BY <2>6, GatheredTogether
  <2>9. whole \in BOOLEAN
    OBVIOUS
  <2> HIDE DEF all, whole
  <2>. QED
    BY <2>7, <2>8, <2>9, GatheredFields DEF IsGathered
<1>. QED
  BY <1>2, <1>3

LEMMA LeadsAtRest ==
  ASSUME Rest, NEW v \in Views, NEW k \in AllKeys(v)
  PROVE  IsGathered(Leads(k, v), v)
<1>1. CASE ~IsTable(k) /\ HasSource(k, v)
  <2>1. Leads(k, v) = Sources(k, v)
    BY <1>1 DEF Leads
  <2>. QED
    BY <1>1, <2>1, SourcesAtRest
<1>2. CASE ~(~IsTable(k) /\ HasSource(k, v))
  <2>1. Leads(k, v) = Gathered(<<>>, IsTable(k))
    BY <1>2 DEF Leads
  <2>2. IsTable(k) \in BOOLEAN
    BY DEF IsTable
  <2>. QED
    BY <2>1, <2>2, NoneGathered
<1>. QED
  BY <1>1, <1>2

\* The columns that are those of tables.
TableKeys(v) == {k \in AllKeys(v) : IsTable(k)}

LEMMA GraphAtRest ==
  ASSUME Rest, NEW v \in Views
  PROVE  LET g == Graph(v)
         IN  /\ DOMAIN g = AllKeys(v) /\ IsFiniteSet(DOMAIN g) /\ IsGraph(g)
             /\ \A k \in AllKeys(v) :
                  /\ g[k].next = KeysIn(Leads(k, v).bindings)
                  /\ g[k].resolved <=> Leads(k, v).complete /\ ~HasUnbound(Leads(k, v).bindings)
             /\ \A k \in TableKeys(v) : k \in DOMAIN g /\ g[k].next = {} /\ g[k].resolved
<1> DEFINE g == Graph(v)
<1>1. DOMAIN g = AllKeys(v) /\ IsFiniteSet(DOMAIN g)
  BY KeysFinite DEF Graph
<1>2. ASSUME NEW k \in AllKeys(v)
      PROVE  /\ g[k].next = KeysIn(Leads(k, v).bindings)
             /\ g[k].resolved <=> Leads(k, v).complete /\ ~HasUnbound(Leads(k, v).bindings)
  <2> DEFINE leads == Leads(k, v)
  <2>1. g[k] = [next     |-> UNION {KeysOf(b) : b \in ToSet(leads.bindings)},
                resolved |-> leads.complete /\ \A b \in ToSet(leads.bindings) : KeysOf(b) # {}]
    BY DEF Graph
  <2> HIDE DEF g, leads
  <2>2. g[k].next = UNION {KeysOf(b) : b \in ToSet(leads.bindings)}
    BY <2>1
  <2>3. g[k].resolved = (leads.complete /\ \A b \in ToSet(leads.bindings) : KeysOf(b) # {})
    BY <2>1
  <2>. QED
    BY <2>2, <2>3 DEF KeysIn, HasUnbound, leads
<1> HIDE DEF g
<1>3. \A k \in AllKeys(v) : g[k].next \subseteq AllKeys(v)
  <2>1. ASSUME NEW k \in AllKeys(v) PROVE KeysIn(Leads(k, v).bindings) \subseteq AllKeys(v)
    BY LeadsAtRest DEF IsGathered, AreBound, IsBound, KeysIn
  <2>. QED
    BY <1>2, <2>1
<1>4. IsGraph(g)
  BY <1>1, <1>3 DEF IsGraph
<1>5. ASSUME NEW k \in TableKeys(v) PROVE k \in DOMAIN g /\ g[k].next = {} /\ g[k].resolved
  <2>1. k \in AllKeys(v) /\ IsTable(k)
    BY DEF TableKeys
  <2>2. Leads(k, v) = Gathered(<<>>, IsTable(k))
    BY <2>1 DEF Leads
  <2>3. Leads(k, v).bindings = <<>> /\ Leads(k, v).complete
    BY <2>1, <2>2, GatheredFields
  <2>. QED
    BY <1>1, <1>2, <2>1, <2>3, NoBindings
<1>. QED
  BY <1>1, <1>2, <1>4, <1>5 DEF g

(***************************************************************************)
(* The walk                                                                 *)
(***************************************************************************)
\* Nothing is bound while a walk is under way, and it goes by the graph of columns.
WalkInv ==
  /\ use = None => calls = <<>> /\ answer = None
  /\ use # None => Bound /\ IsBound(use, AllKeys("given"))
  /\ Answered => calls = <<>>
  /\ calls # <<>> => WalkOk(calls, Graph("given"), TableKeys("given"), KeysOf(use))
  /\ UpstreamIsExact

\* The graph is that of the blocks.
LEMMA SameGraph ==
  ASSUME scopes' = scopes, NEW v
  PROVE  Graph(v)' = Graph(v) /\ AllKeys(v)' = AllKeys(v) /\ TableKeys(v)' = TableKeys(v)
BY DEF Graph, AllKeys, TableKeys, Leads, IsTable, HasSource, Sources, RelationAt, OutputsShown, OutputBindings, BindingsOf,
       ScopeAt, Slots, Arm, OwnBindings, SlotBindings, ReferencesOf

LEMMA SameExact == ASSUME UNCHANGED <<scopes, use, answer>> PROVE UpstreamIsExact' <=> UpstreamIsExact
<1>1. \A k : IsTable(k)' <=> IsTable(k)
  BY DEF IsTable, RelationAt, ScopeAt
<1>. QED
  BY <1>1, SameGraph DEF UpstreamIsExact, Answered, PhysicalUpstream, FullyResolved

\* What a walk goes by.
Maps(start) == IsMap(Graph("given"), TableKeys("given"), start)

LEMMA GivenView == "given" \in Views
BY DEF Views

LEMMA MapAtRest == ASSUME Rest, NEW b, IsBound(b, AllKeys("given")) PROVE Maps(KeysOf(b))
<1> DEFINE g == Graph("given")
           K == AllKeys("given")
           T == TableKeys("given")
<1>1. LET h == Graph("given")
      IN  /\ DOMAIN h = AllKeys("given") /\ IsFiniteSet(DOMAIN h) /\ IsGraph(h)
          /\ \A k \in AllKeys("given") :
               /\ h[k].next = KeysIn(Leads(k, "given").bindings)
               /\ h[k].resolved <=> Leads(k, "given").complete /\ ~HasUnbound(Leads(k, "given").bindings)
          /\ \A k \in TableKeys("given") : k \in DOMAIN h /\ h[k].next = {} /\ h[k].resolved
  BY GivenView, GraphAtRest
<1>2. DOMAIN g = K /\ IsGraph(g) /\ \A k \in T : k \in DOMAIN g /\ g[k].next = {} /\ g[k].resolved
  BY <1>1
<1> HIDE DEF g, K, T
<1>3. KeysOf(b) \subseteq K
  BY DEF IsBound, K
<1>4. IsMap(g, T, KeysOf(b))
  BY <1>2, <1>3 DEF IsMap
<1>. QED
  BY <1>4 DEF Maps, g, T

LEMMA WalkFacts ==
  ASSUME Inv, RecordInv, WalkInv, calls # <<>>
  PROVE  /\ Rest /\ use # None /\ ~Answered /\ Maps(KeysOf(use))
         /\ WalkOk(calls, Graph("given"), TableKeys("given"), KeysOf(use))
         /\ IsSeq(calls) /\ Len(calls) \in Nat \ {0} /\ call = calls[Len(calls)]
<1>1. use # None /\ ~Answered
  BY DEF WalkInv
<1>2. Rest /\ IsBound(use, AllKeys("given"))
  BY <1>1 DEF WalkInv, Rest
<1>3. WalkOk(calls, Graph("given"), TableKeys("given"), KeysOf(use))
  BY DEF WalkInv
<1>4. IsSeq(calls)
  BY <1>3 DEF WalkOk, StackOk
<1>5. Len(calls) \in Nat \ {0}
  BY <1>4, SeqFacts
<1>. QED
  BY <1>1, <1>2, <1>3, <1>4, <1>5, MapAtRest DEF call, Last

\* The walk goes on.
LEMMA WalksOn ==
  ASSUME Inv, RecordInv, WalkInv, calls # <<>>, UNCHANGED <<vars, use, answer>>,
         WalkOk(calls', Graph("given"), TableKeys("given"), KeysOf(use))
  PROVE  WalkInv'
<1>1. use # None /\ ~Answered /\ UpstreamIsExact /\ Bound /\ IsBound(use, AllKeys("given"))
  BY DEF WalkInv
<1>2. scopes' = scopes /\ stack' = stack /\ use' = use /\ answer' = answer
  BY DEF vars
<1>3. UpstreamIsExact'
  BY <1>1, <1>2, SameExact
<1>4. Graph("given")' = Graph("given") /\ AllKeys("given")' = AllKeys("given") /\ TableKeys("given")' = TableKeys("given")
  BY <1>2, SameGraph
<1>5. IsBound(use', AllKeys("given")') /\ Bound'
  BY <1>1, <1>2, <1>4 DEF Bound
<1>6. WalkOk(calls', Graph("given")', TableKeys("given")', KeysOf(use'))
  BY <1>2, <1>4
<1>7. ~Answered'
  BY <1>1, <1>2 DEF Answered
<1>. QED
  BY <1>1, <1>2, <1>3, <1>5, <1>6, <1>7 DEF WalkInv

\* A call that takes a binding.
LEMMA WalkTakes ==
  ASSUME Inv, RecordInv, WalkInv, Walking
  PROVE  /\ Takes(calls, call, binding, Graph("given"), TableKeys("given"), KeysOf(use))
         /\ DOMAIN call = {"key", "pending", "facts", "complete"} /\ IsBound(binding, AllKeys("given"))
<1>1. calls # <<>> /\ call.pending # <<>>
  BY DEF Walking
<1>2. /\ Rest /\ Maps(KeysOf(use)) /\ WalkOk(calls, Graph("given"), TableKeys("given"), KeysOf(use)) /\ call = calls[Len(calls)]
  BY <1>1, WalkFacts
<1>3. Takes(calls, call, binding, Graph("given"), TableKeys("given"), KeysOf(use))
  BY <1>1, <1>2 DEF Takes, Maps, binding
<1>4. CallOk(call, Graph("given"), TableKeys("given"), KeysOf(use)) /\ IsBound(binding, DOMAIN Graph("given"))
  BY <1>3, TakesFacts
<1>5. DOMAIN Graph("given") = AllKeys("given")
  BY DEF Graph
<1>. QED
  BY <1>3, <1>4, <1>5 DEF CallOk

\* What is left of a call once a binding is taken.
LEMMA WalkConsumes ==
  ASSUME Inv, RecordInv, WalkInv, Walking, NEW frame, DOMAIN frame = DOMAIN call, frame.key = call.key,
         frame.pending = call.pending, call.facts \subseteq frame.facts, frame.complete \in BOOLEAN
  PROVE  \E d : /\ GoesOnWith(calls, Consumed(frame), call, d) /\ d.facts = frame.facts /\ d.complete = frame.complete
                /\ Consumed(frame) = Front(calls) \o <<d>>
<1> DEFINE d == [frame EXCEPT !.pending = Tail(@)]
<1>1. /\ DOMAIN d = DOMAIN call /\ d.key = call.key /\ d.pending = Tail(call.pending) /\ d.facts = frame.facts
      /\ d.complete = frame.complete
  BY WalkTakes
<1>2. Consumed(frame) = Front(calls) \o <<d>>
  BY DEF Consumed
<1> HIDE DEF d
<1>3. IsSeq(calls) /\ calls # <<>>
  BY WalkFacts DEF Walking
<1>4. Changes(calls, Front(calls) \o <<d>>, d)
  BY <1>3, Changed
<1>. QED
  BY <1>1, <1>2, <1>4 DEF GoesOnWith

LEMMA WalkUnresolved == ASSUME Inv, RecordInv, WalkInv, Unresolved PROVE WalkInv'
<1> DEFINE frame == [call EXCEPT !.complete = FALSE]
<1>1. /\ Walking /\ calls' = Consumed(frame) /\ UNCHANGED <<vars, use, answer>>
      /\ binding.status \in {"unknown", "ambiguous", "missing"}
  BY DEF Unresolved
<1>2. /\ Takes(calls, call, binding, Graph("given"), TableKeys("given"), KeysOf(use))
      /\ DOMAIN call = {"key", "pending", "facts", "complete"}
  BY <1>1, WalkTakes
<1>3. /\ DOMAIN frame = DOMAIN call /\ frame.key = call.key /\ frame.pending = call.pending /\ frame.facts = call.facts
      /\ frame.complete = FALSE
  BY <1>2
<1>a. frame.complete \in BOOLEAN /\ call.facts \subseteq frame.facts
  BY <1>3
<1> HIDE DEF frame
<1>4. PICK d : GoesOnWith(calls, calls', call, d) /\ d.facts = call.facts /\ ~d.complete
  <2>1. \E d : /\ GoesOnWith(calls, Consumed(frame), call, d) /\ d.facts = frame.facts /\ d.complete = frame.complete
               /\ Consumed(frame) = Front(calls) \o <<d>>
    BY <1>1, <1>3, <1>a, WalkConsumes
  <2>. QED
    BY <1>1, <1>3, <2>1
<1>5. KeysOf(binding) = {}
  BY <1>1 DEF KeysOf
<1>6. WalkOk(calls', Graph("given"), TableKeys("given"), KeysOf(use))
  BY <1>2, <1>4, <1>5, WalkUnbound
<1>. QED
  BY <1>1, <1>6, WalksOn DEF Walking

\* A resolved binding is one column.
LEMMA ResolvedKey ==
  ASSUME Inv, RecordInv, WalkInv, Resolved
  PROVE  /\ Walking /\ KeysOf(binding) = {key} /\ key \in AllKeys("given") /\ key # None
         /\ key \in TableKeys("given") <=> RelationAt(key.id).kind = "table"
<1>1. Walking /\ binding.status = "resolved"
  BY DEF Resolved
<1>2. IsBound(binding, AllKeys("given"))
  BY <1>1, WalkTakes
<1>3. PICK id : binding.sources = {id}
  BY <1>1, <1>2 DEF IsBound
<1>4. key = Key(id, binding.column)
  BY <1>3 DEF key
<1>5. KeysOf(binding) = {key}
  BY <1>1, <1>3, <1>4 DEF KeysOf
<1>6. key \in AllKeys("given")
  BY <1>2, <1>5 DEF IsBound
<1>7. key # None
  BY <1>4 DEF Key, None
<1>. QED
  BY <1>1, <1>5, <1>6, <1>7 DEF TableKeys, IsTable

LEMMA WalkPhysical == ASSUME Inv, RecordInv, WalkInv, Physical PROVE WalkInv'
<1> DEFINE k == key
           frame == [call EXCEPT !.facts = @ \cup {k}]
<1>1. Resolved /\ RelationAt(key.id).kind = "table" /\ calls' = Consumed(frame) /\ UNCHANGED <<vars, use, answer>>
  BY DEF Physical
<1>2. Walking /\ KeysOf(binding) = {k} /\ k \in TableKeys("given")
  BY <1>1, ResolvedKey
<1>3. /\ Takes(calls, call, binding, Graph("given"), TableKeys("given"), KeysOf(use))
      /\ DOMAIN call = {"key", "pending", "facts", "complete"}
  BY <1>2, WalkTakes
<1>4. call.complete \in BOOLEAN
  BY <1>3, TakesFacts DEF CallOk
<1>5. /\ DOMAIN frame = DOMAIN call /\ frame.key = call.key /\ frame.pending = call.pending /\ frame.facts = call.facts \cup {k}
      /\ frame.complete = call.complete
  BY <1>3
<1> HIDE DEF frame, k
<1>6. PICK d : GoesOnWith(calls, calls', call, d) /\ d.facts = call.facts \cup {k} /\ d.complete = call.complete
  BY <1>1, <1>2, <1>4, <1>5, WalkConsumes
<1>7. WalkOk(calls', Graph("given"), TableKeys("given"), KeysOf(use))
  BY <1>2, <1>3, <1>6, WalkTable
<1>. QED
  BY <1>1, <1>2, <1>7, WalksOn DEF Walking

LEMMA WalkSpread == ASSUME Inv, RecordInv, WalkInv, Spread PROVE WalkInv'
<1> DEFINE ids == binding.sources
           column == binding.column
           K == AllKeys("given")
           p == SetToSeq({Direct(id, column) : id \in ids})
           rest == Tail(call.pending)
           d == [call EXCEPT !.pending = p \o Tail(@)]
           g == Graph("given")
           T == TableKeys("given")
<1>1. /\ Walking /\ binding.status = "coalesced" /\ UNCHANGED <<vars, use, answer>>
      /\ calls' = Front(calls) \o <<d>>
  BY DEF Spread
<1>2. /\ Takes(calls, call, binding, g, T, KeysOf(use))
      /\ DOMAIN call = {"key", "pending", "facts", "complete"} /\ IsBound(binding, K)
  BY <1>1, WalkTakes
<1>3. IsSeq(calls) /\ calls # <<>> /\ call = calls[Len(calls)] /\ Maps(KeysOf(use)) /\ WalkOk(calls, g, T, KeysOf(use))
  BY <1>1, WalkFacts DEF Walking
<1>4. KeysOf(binding) = {Key(id, column) : id \in ids} /\ ids # {}
  BY <1>1, <1>2 DEF KeysOf, IsBound
<1>5. IsFiniteSet(ids) /\ \A id \in ids : Key(id, column) \in K
  BY <1>2, <1>4 DEF IsBound
<1>6. /\ DOMAIN d = DOMAIN call /\ d.key = call.key /\ d.facts = call.facts /\ d.complete = call.complete
      /\ d.pending = p \o rest
  BY <1>2
<1>7. DOMAIN g = K
  BY DEF Graph
<1>8. /\ AreBound(rest, DOMAIN g) /\ KeysIn(call.pending) = KeysOf(binding) \cup KeysIn(rest)
      /\ HasUnbound(call.pending) <=> KeysOf(binding) = {} \/ HasUnbound(rest)
  BY <1>2, TakesFacts
<1> HIDE DEF ids, column, K, g, T
<1>9. LET q == SetToSeq({Direct(id, column) : id \in ids})
      IN  AreBound(q, K) /\ KeysIn(q) = {Key(id, column) : id \in ids} /\ ~HasUnbound(q)
  BY <1>5, DirectBindings
<1>10. AreBound(p, K) /\ KeysIn(p) = KeysOf(binding) /\ ~HasUnbound(p)
  BY <1>4, <1>9
<1> HIDE DEF p, rest, d
<1>11. AreBound(p \o rest, K) /\ KeysIn(p \o rest) = KeysIn(p) \cup KeysIn(rest) /\ (HasUnbound(p \o rest) <=> HasUnbound(p) \/ HasUnbound(rest))
  BY <1>7, <1>8, <1>10, MoreBindings
<1>12. KeysOf(binding) # {}
  BY <1>4
<1>13. AreBound(d.pending, DOMAIN g) /\ KeysIn(d.pending) = KeysIn(call.pending) /\ (HasUnbound(d.pending) <=> HasUnbound(call.pending))
  BY <1>6, <1>7, <1>8, <1>10, <1>11, <1>12
<1>14. Changes(calls, calls', d)
  BY <1>1, <1>3, Changed
<1>15. WalkOk(calls', g, T, KeysOf(use))
  BY <1>3, <1>6, <1>13, <1>14, WalkSame DEF Maps, g, T
<1>. QED
  BY <1>1, <1>15, WalksOn DEF Walking, g, T

\* A column that is visited already is among those of the calls under way.
LEMMA VisitingIs ==
  ASSUME Inv, RecordInv, WalkInv, calls # <<>>, NEW k, k # None
  PROVE  Visiting(k) <=> k \in Visits(calls, Len(calls))
<1>1. StackOk(calls, Graph("given"), TableKeys("given"), KeysOf(use)) /\ IsSeq(calls) /\ Len(calls) \in Nat \ {0}
  BY WalkFacts DEF WalkOk
<1>2. DOMAIN calls = 1..Len(calls)
  BY <1>1, SeqFacts
<1>3. calls[1].key = None
  BY <1>1, <1>2 DEF StackOk
<1>4. \A n \in DOMAIN calls : n = 1 \/ n \in 2..Len(calls)
  BY <1>1, <1>2
<1>5. 2..Len(calls) \subseteq DOMAIN calls
  BY <1>1, <1>2
<1>. QED
  BY <1>3, <1>4, <1>5 DEF Visiting, Visits

\* What a column leads to, in the graph.
LEMMA LeadsInGraph ==
  ASSUME Rest, NEW k \in AllKeys("given")
  PROVE  LET g == Graph("given")
             leads == Leads(k, "given")
         IN  /\ g[k].next = KeysIn(leads.bindings)
             /\ g[k].resolved <=> leads.complete /\ ~HasUnbound(leads.bindings)
             /\ AreBound(leads.bindings, DOMAIN g) /\ leads.complete \in BOOLEAN
<1> DEFINE g == Graph("given")
           leads == Leads(k, "given")
           v == "given"
<1>1. LET h == Graph(v)
      IN  /\ DOMAIN h = AllKeys(v) /\ IsFiniteSet(DOMAIN h) /\ IsGraph(h)
          /\ \A j \in AllKeys(v) :
               /\ h[j].next = KeysIn(Leads(j, v).bindings)
               /\ h[j].resolved <=> Leads(j, v).complete /\ ~HasUnbound(Leads(j, v).bindings)
          /\ \A j \in TableKeys(v) : j \in DOMAIN h /\ h[j].next = {} /\ h[j].resolved
  BY GivenView, GraphAtRest
<1>2. IsGathered(leads, v)
  BY GivenView, LeadsAtRest
<1>3. AreBound(leads.bindings, AllKeys(v)) /\ leads.complete \in BOOLEAN
  BY <1>2 DEF IsGathered
<1>. QED
  BY <1>1, <1>3

LEMMA WalkCutStep == ASSUME Inv, RecordInv, WalkInv, Cut PROVE WalkInv'
<1> DEFINE k == key
           frame == [call EXCEPT !.complete = FALSE]
           g == Graph("given")
           T == TableKeys("given")
<1>1. /\ Resolved /\ RelationAt(k.id).kind # "table" /\ (Visiting(k) \/ ~HasSource(k, "given"))
      /\ calls' = Consumed(frame) /\ UNCHANGED <<vars, use, answer>>
  BY DEF Cut, Followed
<1>2. Walking /\ KeysOf(binding) = {k} /\ k \in AllKeys("given") /\ k # None /\ k \notin T
  BY <1>1, ResolvedKey
<1>3. Takes(calls, call, binding, g, T, KeysOf(use)) /\ DOMAIN call = {"key", "pending", "facts", "complete"}
  BY <1>2, WalkTakes
<1>4. /\ DOMAIN frame = DOMAIN call /\ frame.key = call.key /\ frame.pending = call.pending /\ frame.facts = call.facts
      /\ frame.complete = FALSE
  BY <1>3
<1>5. frame.complete \in BOOLEAN /\ call.facts \subseteq frame.facts
  BY <1>4
<1>6. ~IsTable(k)
  BY <1>1 DEF IsTable
<1>7. calls # <<>> /\ Rest
  BY <1>2, WalkFacts DEF Walking
<1> HIDE DEF frame, k
<1>8. PICK d : GoesOnWith(calls, calls', call, d) /\ d.facts = call.facts /\ ~d.complete
  <2>1. \E d : /\ GoesOnWith(calls, Consumed(frame), call, d) /\ d.facts = frame.facts /\ d.complete = frame.complete
               /\ Consumed(frame) = Front(calls) \o <<d>>
    BY <1>2, <1>4, <1>5, WalkConsumes
  <2>. QED
    BY <1>1, <1>4, <2>1
<1>9. k \in Visits(calls, Len(calls)) \/ (g[k].next = {} /\ ~g[k].resolved)
  <2>1. CASE Visiting(k)
    BY <1>2, <1>7, <2>1, VisitingIs
  <2>2. CASE ~HasSource(k, "given")
    <3>1. Leads(k, "given") = Gathered(<<>>, IsTable(k))
      BY <2>2 DEF Leads
    <3>2. Leads(k, "given").bindings = <<>> /\ ~Leads(k, "given").complete
      BY <1>6, <3>1, GatheredFields
    <3>3. /\ g[k].next = KeysIn(Leads(k, "given").bindings)
          /\ g[k].resolved <=> Leads(k, "given").complete /\ ~HasUnbound(Leads(k, "given").bindings)
      BY <1>2, <1>7, LeadsInGraph
    <3>. QED
      BY <3>2, <3>3, NoBindings
  <2>. QED
    BY <1>1, <2>1, <2>2
<1> HIDE DEF g, T
<1>10. WalkOk(calls', g, T, KeysOf(use))
  BY <1>2, <1>3, <1>8, <1>9, WalkCut
<1>. QED
  BY <1>1, <1>7, <1>10, WalksOn DEF g, T

\* Putting one call on top of the stack.
LEMMA GrownByOne == ASSUME NEW s, NEW x, IsSeq(s) PROVE Grown(s, s \o <<x>>, x)
<1> DEFINE one == <<x>>
<1>1. IsSeq(one) /\ Len(one) = 1 /\ one[1] = x
  BY SeqOne
<1> HIDE DEF one
<1>2. /\ IsSeq(s \o one) /\ Len(s \o one) = Len(s) + Len(one)
      /\ \A i \in 1..Len(s) : (s \o one)[i] = s[i]
      /\ \A i \in 1..Len(one) : (s \o one)[Len(s) + i] = one[i]
      /\ \A i \in DOMAIN (s \o one) : (s \o one)[i] = IF i <= Len(s) THEN s[i] ELSE one[i - Len(s)]
  BY ONLY IsSeq(s), <1>1, SeqConcat
<1>3. (s \o one)[Len(s) + 1] = one[1]
  <2>1. 1 \in 1..Len(one)
    BY <1>1
  <2>. QED
    BY <1>2, <2>1
<1>. QED
  BY <1>1, <1>2, <1>3 DEF Grown, one

LEMMA WalkFollow == ASSUME Inv, RecordInv, WalkInv, Follow PROVE WalkInv'
<1> DEFINE k == key
           es == Consumed(call)
           f == CallOf(k, Sources(k, "given"))
           ds == es \o <<f>>
           g == Graph("given")
           T == TableKeys("given")
<1>1. /\ Resolved /\ RelationAt(k.id).kind # "table" /\ ~Visiting(k) /\ HasSource(k, "given")
      /\ calls' = ds /\ UNCHANGED <<vars, use, answer>>
  BY DEF Follow, Followed
<1>2. Walking /\ KeysOf(binding) = {k} /\ k \in AllKeys("given") /\ k # None /\ k \notin T
  BY <1>1, ResolvedKey
<1>3. Takes(calls, call, binding, g, T, KeysOf(use)) /\ DOMAIN call = {"key", "pending", "facts", "complete"}
  BY <1>2, WalkTakes
<1>4. calls # <<>> /\ Rest /\ IsSeq(calls)
  BY <1>2, WalkFacts DEF Walking
<1>5. call.complete \in BOOLEAN
  BY <1>3, TakesFacts DEF CallOk
<1>6. Leads(k, "given") = Sources(k, "given")
  BY <1>1 DEF Leads, IsTable
<1>7. /\ DOMAIN f = {"key", "pending", "facts", "complete"} /\ f.key = k /\ f.pending = Sources(k, "given").bindings
      /\ f.facts = {} /\ f.complete = Sources(k, "given").complete
  BY DEF CallOf
<1> HIDE DEF k, f
<1>8. PICK d : GoesOnWith(calls, es, call, d) /\ d.facts = call.facts /\ d.complete = call.complete
  BY <1>2, <1>5, WalkConsumes
<1>9. /\ g[k].next = KeysIn(Leads(k, "given").bindings)
      /\ g[k].resolved <=> Leads(k, "given").complete /\ ~HasUnbound(Leads(k, "given").bindings)
      /\ AreBound(Leads(k, "given").bindings, DOMAIN g) /\ Leads(k, "given").complete \in BOOLEAN
  BY <1>2, <1>4, LeadsInGraph
<1>10. k \notin Visits(calls, Len(calls))
  BY <1>1, <1>2, <1>4, VisitingIs
<1> HIDE DEF es, g, T
<1>11. Grown(es, ds, f)
  <2>1. IsSeq(es)
    BY <1>8 DEF GoesOnWith, Changes
  <2>. QED
    BY <2>1, GrownByOne DEF ds
<1> HIDE DEF ds
<1>12. EntersColumn(calls, es, ds, call, d, f, k, g)
  BY <1>2, <1>3, <1>6, <1>7, <1>8, <1>9, <1>10, <1>11 DEF EntersColumn
<1>13. WalkOk(ds, g, T, KeysOf(use))
  BY <1>2, <1>3, <1>12, WalkEnter
<1>. QED
  BY <1>1, <1>4, <1>13, WalksOn DEF g, T

\* What the walk returns is what the graph says.
LEMMA ExactAtRest ==
  ASSUME Rest, NEW b, IsBound(b, AllKeys("given"))
  PROVE  /\ PhysicalUpstream(b, "given") = Onward(Graph("given"), KeysOf(b)) \cap TableKeys("given")
         /\ FullyResolved(b, "given") <=> Whole(Graph("given"), KeysOf(b))
<1> DEFINE g == Graph("given")
           start == KeysOf(b)
           T == TableKeys("given")
           v == "given"
<1>1. IsGraph(g) /\ IsFiniteSet(DOMAIN g) /\ DOMAIN g = AllKeys("given")
  <2>1. LET h == Graph(v)
        IN  /\ DOMAIN h = AllKeys(v) /\ IsFiniteSet(DOMAIN h) /\ IsGraph(h)
            /\ \A j \in AllKeys(v) :
                 /\ h[j].next = KeysIn(Leads(j, v).bindings)
                 /\ h[j].resolved <=> Leads(j, v).complete /\ ~HasUnbound(Leads(j, v).bindings)
            /\ \A j \in TableKeys(v) : j \in DOMAIN h /\ h[j].next = {} /\ h[j].resolved
    BY GivenView, GraphAtRest
  <2>. QED
    BY <2>1
<1>2. start \subseteq DOMAIN g
  BY <1>1 DEF IsBound
<1>3. PhysicalUpstream(b, "given") = {k \in Reached(g, start) : IsTable(k)}
  BY DEF PhysicalUpstream
<1>4. FullyResolved(b, "given") <=> start # {} /\ \A k \in Reached(g, start) : g[k].resolved /\ k \notin Reached(g, g[k].next)
  BY DEF FullyResolved
<1>5. T = {k \in DOMAIN g : IsTable(k)}
  BY <1>1 DEF TableKeys
<1> HIDE DEF g, start, T
<1>6. Reached(g, start) = Onward(g, start)
  BY <1>1, <1>2, ReachedIs DEF Onward
<1>7. Onward(g, start) \subseteq DOMAIN g
  BY <1>1, <1>2, SpansAre DEF Onward
<1>8. \A k \in DOMAIN g : Reached(g, g[k].next) = After(g, k)
  <2>1. ASSUME NEW k \in DOMAIN g PROVE Reached(g, g[k].next) = After(g, k)
    <3> DEFINE next == g[k].next
    <3>1. next \subseteq DOMAIN g
      BY <1>1 DEF IsGraph
    <3> HIDE DEF next
    <3>2. Reached(g, next) = Spans(g, next, {})
      BY <1>1, <3>1, ReachedIs
    <3>. QED
      BY <3>2 DEF next, After, Onward
  <2>. QED
    BY <2>1
<1>9. PhysicalUpstream(b, "given") = Onward(g, start) \cap T
  BY <1>3, <1>5, <1>6, <1>7
<1>10. FullyResolved(b, "given") <=> Whole(g, start)
  BY <1>4, <1>6, <1>7, <1>8 DEF Whole
<1>. QED
  BY <1>9, <1>10 DEF g, start, T

LEMMA WalkFinishStep == ASSUME Inv, RecordInv, WalkInv, Finish PROVE WalkInv'
<1> DEFINE g == Graph("given")
           T == TableKeys("given")
           n == Len(calls)
<1>1. /\ calls # <<>> /\ call.pending = <<>> /\ UNCHANGED <<vars, use>>
      /\ n = 1 => answer' = [facts |-> call.facts, complete |-> call.complete] /\ calls' = <<>>
      /\ n # 1 => /\ calls' = [Front(calls) EXCEPT ![Len(calls) - 1].facts = @ \cup call.facts,
                                                  ![Len(calls) - 1].complete = @ /\ call.complete]
                  /\ UNCHANGED answer
  BY DEF Finish
<1>2. /\ Rest /\ use # None /\ ~Answered /\ Maps(KeysOf(use)) /\ WalkOk(calls, g, T, KeysOf(use))
      /\ IsSeq(calls) /\ n \in Nat \ {0} /\ call = calls[n]
  BY <1>1, WalkFacts
<1>3. scopes' = scopes /\ stack' = stack /\ use' = use
  BY <1>1 DEF vars
<1>4. IsBound(use, AllKeys("given")) /\ Bound
  BY <1>2 DEF WalkInv
<1>5. CASE n = 1
  <2>1. call.facts = Onward(g, KeysOf(use)) \cap T /\ (call.complete <=> Whole(g, KeysOf(use)))
    BY <1>1, <1>2, <1>5, WalkAnswer DEF Maps
  <2>2. answer'.facts = call.facts /\ answer'.complete = call.complete
    BY <1>1, <1>5
  <2>3. /\ PhysicalUpstream(use, "given") = Onward(g, KeysOf(use)) \cap T
        /\ FullyResolved(use, "given") <=> Whole(g, KeysOf(use))
    BY <1>2, <1>4, ExactAtRest
  <2>4. Graph("given")' = Graph("given") /\ AllKeys("given")' = AllKeys("given")
    BY <1>3, SameGraph
  <2>5. \A k : IsTable(k)' <=> IsTable(k)
    BY <1>3 DEF IsTable, RelationAt, ScopeAt
  <2>6. PhysicalUpstream(use, "given")' = PhysicalUpstream(use, "given")
    BY <1>3, <2>4, <2>5 DEF PhysicalUpstream
  <2>7. FullyResolved(use, "given")' <=> FullyResolved(use, "given")
    BY <1>3, <2>4 DEF FullyResolved
  <2>8. answer'.facts = PhysicalUpstream(use, "given")' /\ (answer'.complete <=> FullyResolved(use, "given")')
    BY <2>1, <2>2, <2>3, <2>6, <2>7
  <2>9. UpstreamIsExact'
    BY <2>8 DEF UpstreamIsExact
  <2>10. IsBound(use', AllKeys("given")') /\ Bound' /\ calls' = <<>>
    BY <1>1, <1>3, <1>4, <1>5, <2>4 DEF Bound
  <2>. QED
    BY <1>2, <1>3, <2>9, <2>10 DEF WalkInv
<1>6. CASE n # 1
  <2> DEFINE e == calls[n - 1]
             front == Front(calls)
             d == [e EXCEPT !.facts = @ \cup call.facts, !.complete = @ /\ call.complete]
             ds == [front EXCEPT ![n - 1].facts = @ \cup call.facts, ![n - 1].complete = @ /\ call.complete]
  <2>1. /\ IsSeq(front) /\ Len(front) = n - 1 /\ \A i \in 1..(n - 1) : front[i] = calls[i]
    BY <1>1, <1>2, FrontFacts
  <2>2. n - 1 \in Nat \ {0} /\ DOMAIN front = 1..(n - 1) /\ n - 1 \in 1..(n - 1)
    BY <1>2, <1>6, <2>1, SeqFacts
  <2>3. front[n - 1] = e
    BY <2>1, <2>2
  <2>4. CallOk(e, g, T, KeysOf(use))
    <3>1. StackOk(calls, g, T, KeysOf(use)) /\ DOMAIN calls = 1..n
      BY <1>2, SeqFacts DEF WalkOk
    <3>2. n - 1 \in DOMAIN calls
      BY <1>2, <2>2, <3>1
    <3>. QED
      BY <3>1, <3>2 DEF StackOk
  <2>5. DOMAIN e = {"key", "pending", "facts", "complete"}
    BY <2>4 DEF CallOk
  <2>6. /\ DOMAIN d = DOMAIN e /\ d.key = e.key /\ d.pending = e.pending /\ d.facts = e.facts \cup call.facts
        /\ d.complete = (e.complete /\ call.complete)
    BY <2>5
  <2>7. ds = [front EXCEPT ![n - 1] = d]
    BY <2>2, <2>3, <2>5
  <2>8. calls' = ds
    BY <1>1, <1>6
  <2> HIDE DEF e, d, ds, front, n
  <2>9. DOMAIN ds = 1..(n - 1) /\ ds[n - 1] = d /\ \A i \in 1..(n - 1) : i # n - 1 => ds[i] = front[i]
    BY <2>2, <2>7
  <2>10. ds = [i \in 1..(n - 1) |-> ds[i]]
    BY <2>2, <2>7
  <2>11. IsSeq(ds) /\ Len(ds) = n - 1
    BY <2>2, <2>9, <2>10, SeqNew
  <2>12. \A i \in 1..(n - 2) : ds[i] = calls[i]
    <3>1. \A i \in 1..(n - 2) : i \in 1..(n - 1) /\ i # n - 1
      BY <1>2, <2>2
    <3>. QED
      BY <2>1, <2>9, <3>1
  <2>13. n > 1
    BY <1>2, <1>6
  <2>14. Closes(calls, ds, e, call, d)
    BY <1>1, <1>2, <2>6, <2>9, <2>11, <2>12, <2>13 DEF Closes, n, e
  <2>15. WalkOk(ds, g, T, KeysOf(use))
    BY <1>2, <2>14, WalkFinish DEF Maps
  <2>. QED
    BY <1>1, <1>6, <2>8, <2>15, WalksOn
<1>. QED
  BY <1>5, <1>6

LEMMA WalkStartStep == ASSUME Inv, RecordInv, WalkInv, StartWalk PROVE WalkInv'
<1> DEFINE b == use'
           c == CallOf(None, Gathered(<<b>>, TRUE))
           g == Graph("given")
           T == TableKeys("given")
<1>1. Bound /\ use = None /\ calls' = <<c>> /\ UNCHANGED vars /\ answer' = answer
  BY DEF StartWalk
<1>2. PICK s \in scopes : \E chain \in Chains(s), ref \in References : b = BoundTo(ref.column, Resolve(ChainSeen(chain, "given"), ref))
  BY DEF StartWalk
<1>3. PICK chain \in Chains(s), ref \in References : b = BoundTo(ref.column, Resolve(ChainSeen(chain, "given"), ref))
  BY <1>2
<1>4. Rest /\ answer = None
  BY <1>1 DEF Rest, WalkInv
<1>5. IsSeq(chain) /\ Shows(chain, OwnRelations)
  BY <1>4, ChainsAtRest
<1>6. IsBound(b, AllKeys("given"))
  BY <1>3, <1>4, <1>5, GivenView, ResolveBinds
<1>7. b # None
  <2>1. DOMAIN b = {"column", "status", "sources"}
    BY <1>3 DEF BoundTo
  <2>2. DOMAIN None = {"none"}
    BY DEF None
  <2>. QED
    BY <2>1, <2>2
<1> HIDE DEF b
<1>8. Maps(KeysOf(b))
  BY <1>4, <1>6, MapAtRest
<1>9. WalkOk(<<c>>, g, T, KeysOf(b))
  <2>1. DOMAIN g = AllKeys("given") /\ IsMap(g, T, KeysOf(b))
    BY <1>8 DEF Graph, Maps
  <2> HIDE DEF c, g, T
  <2>2. IsBound(b, DOMAIN g)
    BY <1>6, <2>1
  <2>. QED
    BY <2>1, <2>2, WalkStart DEF c
<1>10. scopes' = scopes /\ stack' = stack
  BY <1>1 DEF vars
<1>11. g' = g /\ AllKeys("given")' = AllKeys("given") /\ T' = T
  BY <1>10, SameGraph
<1>12. use' # None /\ ~Answered' /\ Bound' /\ IsBound(use', AllKeys("given")')
  BY <1>1, <1>4, <1>6, <1>7, <1>10, <1>11 DEF b, Answered, Bound
<1>13. WalkOk(calls', g', T', KeysOf(use'))
  BY <1>1, <1>9, <1>11 DEF b
<1>14. UpstreamIsExact'
  BY <1>12 DEF UpstreamIsExact
<1>. QED
  BY <1>12, <1>13, <1>14 DEF WalkInv

\* While a walk is under way there is nothing left to bind.
LEMMA BindsBeforeWalks == ASSUME Next PROVE stack # <<>>
BY DEF Next, BuildCte, BindCte, CollectTable, CollectName, CollectFunctionOrRaw, CollectGroup, BuildDerived, BindDerived,
       Join, Joined, CollectOutputs, BuildLeft, BindLeft, BuildRight, BindRight, BindCompoundOrder, BuildSubquery, Return, Doing

LEMMA WalkBind == ASSUME WalkInv, Bind PROVE WalkInv'
<1>1. Next /\ UNCHANGED <<use, calls, answer>>
  BY DEF Bind, walk
<1>2. use = None
  BY <1>1, BindsBeforeWalks DEF WalkInv, Bound
<1>3. use' = None /\ calls' = <<>> /\ answer' = None
  BY <1>1, <1>2 DEF WalkInv
<1>. QED
  BY <1>3 DEF WalkInv, UpstreamIsExact, Answered

LEMMA WalkStutters == ASSUME WalkInv, UNCHANGED allVars PROVE WalkInv'
<1>1. scopes' = scopes /\ stack' = stack /\ use' = use /\ calls' = calls /\ answer' = answer
  BY DEF allVars, vars, walk
<1>2. UpstreamIsExact' <=> UpstreamIsExact
  BY <1>1, SameExact
<1>3. Graph("given")' = Graph("given") /\ AllKeys("given")' = AllKeys("given") /\ TableKeys("given")' = TableKeys("given")
  BY <1>1, SameGraph
<1>4. Bound' <=> Bound
  BY <1>1 DEF Bound
<1>5. Answered' <=> Answered
  BY <1>1 DEF Answered
<1>. QED
  BY <1>1, <1>2, <1>3, <1>4, <1>5 DEF WalkInv

\* Binding the query and then walking it.
TracedInv == Inv /\ BlocksInv /\ RecordInv /\ WalkInv

LEMMA InitTraced == WalkInit => TracedInv
<1> SUFFICES ASSUME WalkInit PROVE TracedInv
  OBVIOUS
<1>1. Init /\ use = None /\ calls = <<>> /\ answer = None
  BY DEF WalkInit
<1>2. WalkInv
  BY <1>1 DEF WalkInv, UpstreamIsExact, Answered
<1>. QED
  BY <1>1, <1>2, InitInv, InitBlocks, InitRecord DEF TracedInv

LEMMA StepTraced == ASSUME TracedInv, [WalkNext]_allVars PROVE TracedInv'
<1>1. [Next]_vars
  <2>1. CASE Bind
    BY <2>1 DEF Bind
  <2>2. CASE UNCHANGED allVars
    BY <2>2 DEF allVars
  <2>3. CASE StartWalk \/ Spread \/ Unresolved \/ Physical \/ Cut \/ Follow \/ Finish
    BY <2>3 DEF StartWalk, Spread, Unresolved, Physical, Cut, Follow, Finish
  <2>. QED
    BY <2>1, <2>2, <2>3 DEF WalkNext
<1>2. Inv /\ BlocksInv /\ RecordInv /\ WalkInv
  BY DEF TracedInv
<1>3. Inv' /\ BlocksInv' /\ RecordInv'
  BY <1>1, <1>2, StepInv, StepBlocks, StepRecord
<1>4. WalkInv'
  <2>1. CASE WalkNext
    BY <1>2, <2>1, WalkBind, WalkStartStep, WalkSpread, WalkUnresolved, WalkPhysical, WalkCutStep, WalkFollow, WalkFinishStep
       DEF WalkNext
  <2>2. CASE UNCHANGED allVars
    BY <1>2, <2>2, WalkStutters
  <2>. QED
    BY <2>1, <2>2
<1>. QED
  BY <1>3, <1>4 DEF TracedInv

\* bindingUpstream returns the columns of tables that the used column comes from,
\* no more and no fewer, and calls them complete exactly when all that the column
\* is computed from is resolved: in what order it takes the bindings, which
\* column it meets again while visiting it and how the calls nest is no matter.
THEOREM UpstreamExact == WalkSpec => []UpstreamIsExact
<1>1. TracedInv => UpstreamIsExact
  BY DEF TracedInv, WalkInv
<1>. QED
  BY <1>1, InitTraced, StepTraced, PTL DEF WalkSpec

\* The recursion of bindingUpstream is no deeper than the query has columns: every
\* call below the first visits a column of the query that no other one visits, not
\* through a CTE that reads itself, a set operation or a lateral reference.
THEOREM WalkIsShallow == WalkSpec => []DepthIsBounded
<1>1. TracedInv => DepthIsBounded
  <2> SUFFICES ASSUME TracedInv, calls # <<>> PROVE Len(calls) <= Cardinality(AllKeys("given")) + 1
    BY DEF DepthIsBounded
  <2> DEFINE K == AllKeys("given")
             n == Len(calls)
             f == [i \in 2..n |-> calls[i].key]
  <2>1. Rest /\ Maps(KeysOf(use)) /\ WalkOk(calls, Graph("given"), TableKeys("given"), KeysOf(use))
    BY WalkFacts DEF TracedInv
  <2>2. IsFiniteSet(K) /\ DOMAIN Graph("given") = K
    <3>1. LET g == Graph("given")
          IN  /\ DOMAIN g = AllKeys("given") /\ IsFiniteSet(DOMAIN g) /\ IsGraph(g)
              /\ \A k \in AllKeys("given") :
                   /\ g[k].next = KeysIn(Leads(k, "given").bindings)
                   /\ g[k].resolved <=> Leads(k, "given").complete /\ ~HasUnbound(Leads(k, "given").bindings)
              /\ \A k \in TableKeys("given") : k \in DOMAIN g /\ g[k].next = {} /\ g[k].resolved
      BY <2>1, GivenView, GraphAtRest
    <3>. QED
      BY <3>1
  <2>3. /\ IsSeq(calls)
        /\ \A i \in DOMAIN calls : i > 1 => calls[i].key \in Onward(Graph("given"), KeysOf(use)) \ TableKeys("given")
        /\ \A i, j \in DOMAIN calls : calls[i].key = calls[j].key => i = j
    BY <2>1 DEF WalkOk, StackOk
  <2>4. n \in Nat /\ DOMAIN calls = 1..n
    BY <2>3, SeqFacts
  <2>5. Onward(Graph("given"), KeysOf(use)) \subseteq K
    BY <2>2 DEF Onward, Spans
  <2> HIDE DEF K, n
  <2>6. f \in Injection(2..n, K)
    <3>1. \A i \in 2..n : i \in DOMAIN calls /\ i > 1
      BY <2>4
    <3>. QED
      BY <2>3, <2>5, <3>1 DEF Injection, IsInjective
  <2>7. Cardinality(2..n) <= Cardinality(K)
    BY <2>2, <2>6, FS_Injection
  <2>8. Cardinality(2..n) = IF 2 > n THEN 0 ELSE n - 2 + 1
    BY <2>4, FS_Interval
  <2>9. Cardinality(K) \in Nat
    BY <2>2, FS_CardinalityType
  <2>. QED
    BY <2>4, <2>7, <2>8, <2>9 DEF n, K
<1>. QED
  BY <1>1, InitTraced, StepTraced, PTL DEF WalkSpec
=============================================================================
