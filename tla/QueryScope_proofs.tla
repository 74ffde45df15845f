--------------------------- MODULE QueryScope_proofs ---------------------------
(***************************************************************************)
(* Proofs about QueryScope, for any catalog, any part of it as the schema,  *)
(* and queries of any shape and size.                                       *)
(***************************************************************************)
EXTENDS QueryScope, DataLemmas

(***************************************************************************)
(* Levels: what is known with the given schema is so with the full one      *)
(***************************************************************************)
\* A relation or a CTE whose columns are known stays as it is.
Sure(r) == r.known["given"] => r.known["full"] /\ r.columns["given"] = r.columns["full"]

AllKnown(relations) == \A i \in DOMAIN relations : relations[i].known["given"]

\* USING merged the same columns of these relations, if any.
MergedAlike(relations, coalesced) ==
  \A c \in Columns : \/ coalesced["given"][c] = coalesced["full"][c]
                     \/ \A v \in Views, i \in DOMAIN relations : relations[i].id \notin ToSet(coalesced[v][c])

StableLevel(level) ==
  /\ \A i \in DOMAIN level.relations : Sure(level.relations[i])
  /\ AllKnown(level.relations) => MergedAlike(level.relations, level.coalesced)

LEMMA SeenFacts ==
  ASSUME NEW level, NEW v \in Views
  PROVE  /\ DOMAIN Seen(level, v).relations = DOMAIN level.relations
         /\ \A i \in DOMAIN level.relations :
              LET seen == Seen(level, v).relations[i]
                  r    == level.relations[i]
              IN  /\ seen.id = r.id /\ seen.name = r.name /\ seen.alias = r.alias
                  /\ seen.columns = r.columns[v] /\ seen.known = r.known[v]
         /\ Seen(level, v).coalesced = level.coalesced[v]
BY DEF Seen

LEMMA CandidatesAlike ==
  ASSUME NEW level, NEW ref
  PROVE  /\ Candidates(Seen(level, "given"), ref) = Candidates(Seen(level, "full"), ref)
         /\ Candidates(Seen(level, "given"), ref) \subseteq DOMAIN level.relations
         /\ ref.table = Unnamed => Candidates(Seen(level, "given"), ref) = DOMAIN level.relations
<1>. "given" \in Views /\ "full" \in Views
  BY DEF Views
<1> DEFINE g == Seen(level, "given")
           f == Seen(level, "full")
<1>1. DOMAIN g.relations = DOMAIN level.relations /\ DOMAIN f.relations = DOMAIN level.relations
  BY SeenFacts
<1>2. ASSUME NEW i \in DOMAIN level.relations PROVE Matches(g.relations[i], ref.table) <=> Matches(f.relations[i], ref.table)
  <2>1. g.relations[i].name = f.relations[i].name /\ g.relations[i].alias = f.relations[i].alias
    BY SeenFacts
  <2>. QED
    BY <2>1 DEF Matches
<1> HIDE DEF g, f
<1>3. Candidates(g, ref) = Candidates(f, ref)
  BY <1>1, <1>2 DEF Candidates
<1>4. /\ Candidates(g, ref) \subseteq DOMAIN level.relations
      /\ ref.table = Unnamed => Candidates(g, ref) = DOMAIN level.relations
  BY <1>1 DEF Candidates
<1>. QED
  BY <1>3, <1>4 DEF g, f

\* With every candidate known both views find the same.
LEMMA FoundAlike ==
  ASSUME NEW level, NEW ref, StableLevel(level), Unknown(Seen(level, "given"), ref) = {}
  PROVE  /\ Unknown(Seen(level, "full"), ref) = {}
         /\ Found(Seen(level, "full"), ref) = Found(Seen(level, "given"), ref)
         /\ Ids(Seen(level, "full"), Found(Seen(level, "given"), ref)) = Ids(Seen(level, "given"), Found(Seen(level, "given"), ref))
         /\ \A p \in Found(Seen(level, "given"), ref) : p[1] \in DOMAIN level.relations
<1>. "given" \in Views /\ "full" \in Views
  BY DEF Views
<1> DEFINE g == Seen(level, "given")
           f == Seen(level, "full")
           C == Candidates(g, ref)
<1>1. C = Candidates(f, ref) /\ C \subseteq DOMAIN level.relations
  BY CandidatesAlike
<1>2. \A i \in C : g.relations[i].known
  BY DEF Unknown
<1>3. ASSUME NEW i \in C
      PROVE  f.relations[i].known /\ f.relations[i].columns = g.relations[i].columns /\ f.relations[i].id = g.relations[i].id
  <2>1. i \in DOMAIN level.relations /\ g.relations[i].known
    BY <1>1, <1>2
  <2>2. Sure(level.relations[i])
    BY <2>1 DEF StableLevel
  <2>3. /\ g.relations[i].known = level.relations[i].known["given"]
        /\ f.relations[i].known = level.relations[i].known["full"]
        /\ g.relations[i].columns = level.relations[i].columns["given"]
        /\ f.relations[i].columns = level.relations[i].columns["full"]
        /\ g.relations[i].id = f.relations[i].id
    BY <2>1, SeenFacts
  <2>. QED
    BY <2>1, <2>2, <2>3 DEF Sure
<1> HIDE DEF g, f, C
<1>4. Unknown(g, ref) = {}
  BY DEF g
<1>5. Unknown(f, ref) = {}
  BY <1>1, <1>3 DEF Unknown
<1>6. \A i \in C : MatchesColumn(f.relations[i], ref.column) = MatchesColumn(g.relations[i], ref.column)
  BY <1>3 DEF MatchesColumn
<1>7. Found(f, ref) = Found(g, ref)
  <2>1. Found(f, ref) = UNION {{<<i, k>> : k \in MatchesColumn(f.relations[i], ref.column)} : i \in C}
    BY <1>1, <1>5 DEF Found
  <2>2. Found(g, ref) = UNION {{<<i, k>> : k \in MatchesColumn(g.relations[i], ref.column)} : i \in C}
    BY <1>4 DEF Found, C
  <2>3. \A i \in C : {<<i, k>> : k \in MatchesColumn(f.relations[i], ref.column)} = {<<i, k>> : k \in MatchesColumn(g.relations[i], ref.column)}
    BY <1>6
  <2>. QED
    BY <2>1, <2>2, <2>3
<1>8. \A p \in Found(g, ref) : p[1] \in C
  BY <1>4 DEF Found, C
<1>9. Ids(f, Found(g, ref)) = Ids(g, Found(g, ref))
  BY <1>3, <1>8 DEF Ids
<1>. QED
  BY <1>1, <1>5, <1>7, <1>8, <1>9 DEF g, f

LEMMA CoalescedAlike ==
  ASSUME NEW level, NEW ref \in References, StableLevel(level), Unknown(Seen(level, "given"), ref) = {},
         Cardinality(Found(Seen(level, "given"), ref)) > 1
  PROVE  /\ Coalesced(Seen(level, "full"), ref) <=> Coalesced(Seen(level, "given"), ref)
         /\ Coalesced(Seen(level, "given"), ref) => level.coalesced["given"][ref.column] = level.coalesced["full"][ref.column]
<1>. "given" \in Views /\ "full" \in Views /\ ref.column \in Columns
  BY DEF Views, References
<1> DEFINE g == Seen(level, "given")
           f == Seen(level, "full")
           F == Found(g, ref)
           I == Ids(g, F)
           G(v) == level.coalesced[v][ref.column]
<1>1. Unknown(f, ref) = {} /\ Found(f, ref) = F /\ Ids(f, F) = I /\ \A p \in F : p[1] \in DOMAIN level.relations
  BY FoundAlike
<1>2. g.coalesced = level.coalesced["given"] /\ f.coalesced = level.coalesced["full"]
  BY SeenFacts
<1>3. CASE ref.table # Unnamed
  BY <1>3 DEF Coalesced
<1>4. CASE ref.table = Unnamed
  <2>1. AllKnown(level.relations)
    <3>1. Candidates(g, ref) = DOMAIN level.relations
      BY <1>4, CandidatesAlike
    <3>2. \A i \in DOMAIN level.relations : g.relations[i].known = level.relations[i].known["given"]
      BY SeenFacts
    <3>3. \A i \in DOMAIN level.relations : g.relations[i].known
      BY <3>1 DEF Unknown
    <3>. QED
      BY <3>2, <3>3 DEF AllKnown
  <2>2. MergedAlike(level.relations, level.coalesced)
    BY <2>1 DEF StableLevel
  <2>3. PICK p : p \in F
    <3>1. F # {}
      BY FS_EmptySet
    <3>. QED
      BY <3>1
  <2>4. level.relations[p[1]].id \in I /\ p[1] \in DOMAIN level.relations
    <3>1. p[1] \in DOMAIN level.relations
      BY <1>1, <2>3
    <3>2. g.relations[p[1]].id = level.relations[p[1]].id
      BY <3>1, SeenFacts
    <3>. QED
      BY <2>3, <3>1, <3>2 DEF Ids
  <2>5. /\ Coalesced(g, ref) <=> Len(G("given")) = Cardinality(F) /\ I \subseteq ToSet(G("given"))
        /\ Coalesced(f, ref) <=> Len(G("full")) = Cardinality(F) /\ I \subseteq ToSet(G("full"))
    <3> HIDE DEF g, f, I
    <3>0. Unknown(g, ref) = {}
      BY DEF g
    <3>1. Coalesced(f, ref) <=> Len(f.coalesced[ref.column]) = Cardinality(F) /\ I \subseteq ToSet(f.coalesced[ref.column])
      BY <1>1, <1>4 DEF Coalesced, SameScopeRelations
    <3>2. Coalesced(g, ref) <=> Len(g.coalesced[ref.column]) = Cardinality(F) /\ I \subseteq ToSet(g.coalesced[ref.column])
      BY <3>0, <1>4 DEF Coalesced, SameScopeRelations, I
    <3>. QED
      BY <1>2, <3>1, <3>2
  <2>6. CASE G("given") = G("full")
    BY <2>5, <2>6
  <2>7. CASE \A v \in Views, i \in DOMAIN level.relations : level.relations[i].id \notin ToSet(level.coalesced[v][ref.column])
    <3>1. ~(I \subseteq ToSet(G("given"))) /\ ~(I \subseteq ToSet(G("full")))
      <4> HIDE DEF I
      <4>. QED
        BY <2>4, <2>7
    <3>. QED
      BY <2>5, <3>1
  <2>. QED
    BY <2>2, <2>6, <2>7 DEF MergedAlike
<1>. QED
  BY <1>3, <1>4

\* What one level says of a reference whose candidates are all known.
LEMMA DecideAlike ==
  ASSUME NEW level, NEW ref \in References, StableLevel(level), Unknown(Seen(level, "given"), ref) = {}
  PROVE  Decide(Seen(level, "full"), ref) = Decide(Seen(level, "given"), ref)
<1> DEFINE g == Seen(level, "given")
           f == Seen(level, "full")
           F == Found(g, ref)
           many == Cardinality(F) > 1
<1>1. Unknown(g, ref) = {}
  OBVIOUS
<1>2. /\ Unknown(f, ref) = {} /\ Found(f, ref) = F /\ Ids(f, F) = Ids(g, F)
      /\ Candidates(f, ref) = Candidates(g, ref)
      /\ many => (Coalesced(f, ref) <=> Coalesced(g, ref))
  BY <1>1, FoundAlike, CandidatesAlike, CoalescedAlike
<1> HIDE DEF g, f, F
<1>3. CASE many
  <2>1. CASE Coalesced(g, ref)
    <3>1. Decide(g, ref) = Binding("coalesced", Ids(g, F))
      BY <1>3, <2>1 DEF Decide, F
    <3>2. Decide(f, ref) = Binding("coalesced", Ids(f, F))
      BY <1>2, <1>3, <2>1 DEF Decide
    <3>. QED
      BY <1>2, <3>1, <3>2 DEF g, f
  <2>2. CASE ~Coalesced(g, ref)
    <3>1. Decide(g, ref) = Binding("ambiguous", {})
      BY <1>3, <2>2 DEF Decide, F
    <3>2. Decide(f, ref) = Binding("ambiguous", {})
      BY <1>2, <1>3, <2>2 DEF Decide
    <3>. QED
      BY <3>1, <3>2 DEF g, f
  <2>. QED
    BY <2>1, <2>2
<1>4. CASE ~many /\ Cardinality(F) = 1
  <2>1. Decide(g, ref) = Binding("resolved", Ids(g, F))
    BY <1>1, <1>4 DEF Decide, F, g
  <2>2. Decide(f, ref) = Binding("resolved", Ids(f, F))
    BY <1>2, <1>4 DEF Decide
  <2>. QED
    BY <1>2, <2>1, <2>2 DEF g, f
<1>5. CASE ~many /\ Cardinality(F) # 1
  <2>1. Decide(g, ref) = Binding(IF ref.table # Unnamed /\ Candidates(g, ref) # {} THEN "missing" ELSE "outer", {})
    BY <1>1, <1>5 DEF Decide, F, g
  <2>2. Decide(f, ref) = Binding(IF ref.table # Unnamed /\ Candidates(f, ref) # {} THEN "missing" ELSE "outer", {})
    BY <1>2, <1>5 DEF Decide
  <2>. QED
    BY <1>2, <2>1, <2>2 DEF g, f
<1>. QED
  BY <1>3, <1>4, <1>5

\* A level that does decide knows all that a reference could mean.
LEMMA Decided ==
  ASSUME NEW level, NEW ref, Decide(level, ref).status \notin {"unknown", "ambiguous"}
  PROVE  Unknown(level, ref) = {}
<1> DEFINE many == Cardinality(Found(level, ref)) > 1
<1> SUFFICES ASSUME Unknown(level, ref) # {} PROVE Decide(level, ref).status \in {"unknown", "ambiguous"}
  OBVIOUS
<1>1. ~Coalesced(level, ref)
  BY DEF Coalesced
<1>2. CASE many
  BY <1>1, <1>2 DEF Decide, Binding
<1>3. CASE ~many
  BY <1>1, <1>3 DEF Decide, Binding
<1>. QED
  BY <1>2, <1>3

\* What one level says of a reference with the given schema, if it is not that it
\* does not know or that there is more than one column, it says with the full one.
LEMMA DecideStable ==
  ASSUME NEW level, NEW ref \in References, StableLevel(level),
         Decide(Seen(level, "given"), ref).status \notin {"unknown", "ambiguous"}
  PROVE  Decide(Seen(level, "full"), ref) = Decide(Seen(level, "given"), ref)
<1>1. Unknown(Seen(level, "given"), ref) = {}
  BY Decided
<1>. QED
  BY <1>1, DecideAlike

Answers == {"resolved", "coalesced", "missing"}

\* The same of a chain of levels: the innermost one to decide is the same.
LEMMA ResolveStable ==
  ASSUME NEW chain, NEW ref \in References, DOMAIN chain \subseteq Nat,
         \A k \in DOMAIN chain : StableLevel(chain[k]),
         Resolve(ChainSeen(chain, "given"), ref).status \in Answers
  PROVE  Resolve(ChainSeen(chain, "full"), ref) = Resolve(ChainSeen(chain, "given"), ref)
<1> DEFINE G(k) == Decide(Seen(chain[k], "given"), ref)
           F(k) == Decide(Seen(chain[k], "full"), ref)
           D    == {k \in DOMAIN chain : G(k).status # "outer"}
           E    == {k \in DOMAIN chain : F(k).status # "outer"}
           gs   == ChainSeen(chain, "given")
           fs   == ChainSeen(chain, "full")
<1>1. /\ DOMAIN gs = DOMAIN chain /\ DOMAIN fs = DOMAIN chain
      /\ \A k \in DOMAIN chain : gs[k] = Seen(chain[k], "given") /\ fs[k] = Seen(chain[k], "full")
  BY DEF ChainSeen
<1>2. \A k \in DOMAIN chain : G(k).status \notin {"unknown", "ambiguous"} => F(k) = G(k)
  BY DecideStable
<1>3. Resolve(gs, ref) = IF D = {} THEN Binding("missing", {}) ELSE G(Min(D))
  <2> HIDE DEF gs
  <2>1. {k \in DOMAIN gs : Decide(gs[k], ref).status # "outer"} = D
    BY <1>1
  <2>2. D # {} => Min(D) \in D
    <3>1. D \in SUBSET Nat
      OBVIOUS
    <3>. QED
      BY <3>1, MinOfNaturals
  <2>3. D # {} => Decide(gs[Min(D)], ref) = G(Min(D))
    BY <1>1, <2>2
  <2> HIDE DEF D, G
  <2>. QED
    BY <2>1, <2>3 DEF Resolve
<1>4. Resolve(fs, ref) = IF E = {} THEN Binding("missing", {}) ELSE F(Min(E))
  <2> HIDE DEF fs
  <2>1. {k \in DOMAIN fs : Decide(fs[k], ref).status # "outer"} = E
    BY <1>1
  <2>2. E # {} => Min(E) \in E
    <3>1. E \in SUBSET Nat
      OBVIOUS
    <3>. QED
      BY <3>1, MinOfNaturals
  <2>3. E # {} => Decide(fs[Min(E)], ref) = F(Min(E))
    BY <1>1, <2>2
  <2> HIDE DEF E, F
  <2>. QED
    BY <2>1, <2>3 DEF Resolve
<1> HIDE DEF gs, fs
<1>5. CASE D = {}
  <2>1. E = {}
    BY <1>2, <1>5
  <2>. QED
    BY <1>3, <1>4, <1>5, <2>1 DEF gs, fs
<1>6. CASE D # {}
  <2>1. /\ Min(D) \in D /\ \A x \in D : Min(D) <= x
    <3>1. D \in SUBSET Nat
      OBVIOUS
    <3>. QED
      BY <1>6, <3>1, MinOfNaturals
  <2>2. G(Min(D)).status \in Answers
    BY <1>3, <1>6 DEF gs
  <2>3. F(Min(D)) = G(Min(D)) /\ Min(D) \in E
    BY <1>2, <2>1, <2>2 DEF Answers
  <2>4. Min(E) \in E /\ \A x \in E : Min(E) <= x
    <3>1. E \in SUBSET Nat /\ E # {}
      BY <2>3
    <3>. QED
      BY <3>1, MinOfNaturals
  <2>5. Min(E) \in D
    BY <1>2, <2>4
  <2>6. Min(D) \in Nat /\ Min(E) \in Nat /\ Min(D) <= Min(E) /\ Min(E) <= Min(D)
    <3>1. Min(D) <= Min(E) /\ Min(E) <= Min(D)
      BY <2>1, <2>3, <2>4, <2>5
    <3>2. Min(D) \in DOMAIN chain /\ Min(E) \in DOMAIN chain
      BY <2>1, <2>4
    <3>. QED
      BY <3>1, <3>2
  <2> HIDE DEF D, E, F, G
  <2>7. Min(D) = Min(E)
    BY <2>6
  <2>. QED
    BY <1>3, <1>4, <1>6, <2>3, <2>7 DEF gs, fs
<1>. QED
  BY <1>5, <1>6

(***************************************************************************)
(* The level of a block under way                                           *)
(***************************************************************************)
\* The relations of a level after the first m are a side of a join, or all of it.
StableAfter(level, m) ==
  (\A i \in DOMAIN level.relations : i > m => level.relations[i].known["given"]) =>
    \A c \in Columns :
      \/ level.coalesced["given"][c] = level.coalesced["full"][c]
      \/ \A v \in Views, i \in DOMAIN level.relations : i > m => level.relations[i].id \notin ToSet(level.coalesced[v][c])

IdsOf(level) == {level.relations[i].id : i \in DOMAIN level.relations}

MergedColumns(ids) == [Views -> [Columns -> Seq(ids)]]

LevelInv(path, level) ==
  /\ DOMAIN level = {"relations", "coalesced"}
  /\ IsSeq(level.relations)
  /\ \A i \in DOMAIN level.relations :
       Sure(level.relations[i]) /\ level.relations[i].id = [owner |-> path, index |-> i]
  /\ level.coalesced \in MergedColumns(IdsOf(level))
  /\ StableAfter(level, 0)

LEMMA FromFacts ==
  ASSUME NEW level, NEW m \in Nat, IsSeq(level.relations), m <= Len(level.relations),
         DOMAIN level = {"relations", "coalesced"}
  PROVE  /\ From(level, m).coalesced = level.coalesced
         /\ From(level, m).relations = SubSeq(level.relations, m + 1, Len(level.relations))
         /\ IsSeq(From(level, m).relations)
         /\ DOMAIN From(level, m).relations = 1..(Len(level.relations) - m)
         /\ \A i \in 1..(Len(level.relations) - m) :
              /\ i + m \in DOMAIN level.relations /\ i + m > m
              /\ From(level, m).relations[i] = level.relations[i + m]
<1> DEFINE n == Len(level.relations)
<1>1. n \in Nat /\ DOMAIN level.relations = 1..n
  BY SeqFacts
<1>2. From(level, m).coalesced = level.coalesced /\ From(level, m).relations = SubSeq(level.relations, m + 1, n)
  BY DEF From
<1>3. m + 1 \in Nat /\ m + 1 \in 1..(n + 1) /\ n + 1 - (m + 1) = n - m
  BY <1>1
<1> HIDE DEF n
<1>4. /\ IsSeq(SubSeq(level.relations, m + 1, n)) /\ Len(SubSeq(level.relations, m + 1, n)) = n - m
      /\ \A i \in 1..(n - m) : SubSeq(level.relations, m + 1, n)[i] = level.relations[(m + 1) + i - 1]
  <2>1. n <= Len(level.relations)
    BY <1>1 DEF n
  <2>. QED
    BY <1>1, <1>3, <2>1, SeqPart
<1>5. DOMAIN SubSeq(level.relations, m + 1, n) = 1..(n - m)
  BY <1>4, SeqFacts
<1>6. \A i \in 1..(n - m) : (m + 1) + i - 1 = i + m /\ i + m \in 1..n /\ i + m > m
  BY <1>1
<1>. QED
  BY <1>1, <1>2, <1>4, <1>5, <1>6 DEF n

\* What a side of a join, or the block, looks like to those who keep it.
LEMMA FromStable ==
  ASSUME NEW path, NEW level, NEW m \in Nat, LevelInv(path, level), m <= Len(level.relations), StableAfter(level, m)
  PROVE  /\ StableLevel(From(level, m))
         /\ \A i \in DOMAIN From(level, m).relations : From(level, m).relations[i].id \in IdsOf(level)
<1> DEFINE side == From(level, m)
<1>1. /\ side.coalesced = level.coalesced
      /\ \A i \in DOMAIN side.relations : /\ i + m \in DOMAIN level.relations /\ i + m > m
                                          /\ side.relations[i] = level.relations[i + m]
  <2>1. IsSeq(level.relations) /\ DOMAIN level = {"relations", "coalesced"}
    BY DEF LevelInv
  <2>. QED
    BY <2>1, FromFacts
<1>2. \A j \in DOMAIN level.relations : j > m => j - m \in DOMAIN side.relations /\ side.relations[j - m] = level.relations[j]
  <2>1. DOMAIN side.relations = 1..(Len(level.relations) - m) /\ DOMAIN level.relations = 1..Len(level.relations)
    BY FromFacts, SeqFacts DEF LevelInv
  <2>2. Len(level.relations) \in Nat
    BY SeqFacts DEF LevelInv
  <2>3. ASSUME NEW j \in DOMAIN level.relations, j > m
        PROVE  j - m \in DOMAIN side.relations /\ side.relations[j - m] = level.relations[j]
    <3>1. j - m \in 1..(Len(level.relations) - m) /\ (j - m) + m = j
      BY <2>1, <2>2, <2>3
    <3>. QED
      BY <1>1, <2>1, <3>1
  <2>. QED
    BY <2>3
<1> HIDE DEF side
<1>3. ASSUME NEW i \in DOMAIN side.relations PROVE Sure(side.relations[i]) /\ side.relations[i].id \in IdsOf(level)
  BY <1>1, <1>3 DEF LevelInv, IdsOf
<1>4. ASSUME AllKnown(side.relations) PROVE MergedAlike(side.relations, side.coalesced)
  <2>1. \A j \in DOMAIN level.relations : j > m => level.relations[j].known["given"]
    BY <1>2, <1>4 DEF AllKnown
  <2>2. ASSUME NEW c \in Columns
        PROVE  \/ side.coalesced["given"][c] = side.coalesced["full"][c]
               \/ \A v \in Views, i \in DOMAIN side.relations : side.relations[i].id \notin ToSet(side.coalesced[v][c])
    <3>1. \/ level.coalesced["given"][c] = level.coalesced["full"][c]
          \/ \A v \in Views, i \in DOMAIN level.relations : i > m => level.relations[i].id \notin ToSet(level.coalesced[v][c])
      BY <2>1 DEF StableAfter
    <3>. QED
      BY <1>1, <3>1
  <2>. QED
    BY <2>2 DEF MergedAlike
<1>. QED
  BY <1>3, <1>4 DEF StableLevel, side

\* The whole level of a block is From its beginning.
LEMMA WholeStable ==
  ASSUME NEW path, NEW level, LevelInv(path, level)
  PROVE  StableLevel(level)
<1>1. Len(level.relations) \in Nat /\ DOMAIN level.relations = 1..Len(level.relations)
  BY SeqFacts DEF LevelInv
<1>2. \A i \in DOMAIN level.relations : i > 0 /\ Sure(level.relations[i])
  <2>1. \A i \in DOMAIN level.relations : i > 0
    BY <1>1
  <2>. QED
    BY <2>1 DEF LevelInv
<1>. QED
  BY <1>2 DEF LevelInv, StableAfter, StableLevel, AllKnown, MergedAlike

LEMMA MergedWider ==
  ASSUME NEW A, NEW B, A \subseteq B
  PROVE  MergedColumns(A) \subseteq MergedColumns(B)
<1>1. Seq(A) \subseteq Seq(B)
  <2>1. ASSUME NEW s \in Seq(A) PROVE s \in Seq(B)
    BY SeqMonotonic
  <2>. QED
    BY <2>1
<1>. QED
  BY <1>1 DEF MergedColumns

\* A relation is added at the end: no column was merged from it yet.
LEMMA Adding ==
  ASSUME NEW path, NEW level, NEW r, LevelInv(path, level), Sure(r),
         r.id = [owner |-> path, index |-> Len(level.relations) + 1],
         NEW next, next.relations = Append(level.relations, r), next.coalesced = level.coalesced,
         DOMAIN next = {"relations", "coalesced"}
  PROVE  /\ LevelInv(path, next)
         /\ Len(next.relations) = Len(level.relations) + 1
         /\ \A i \in DOMAIN level.relations : next.relations[i] = level.relations[i]
         /\ IdsOf(level) \subseteq IdsOf(next)
         /\ \A m \in Nat : StableAfter(level, m) => StableAfter(next, m)
<1> DEFINE n == Len(level.relations)
<1>1. n \in Nat /\ DOMAIN level.relations = 1..n /\ IsSeq(level.relations)
  BY SeqFacts DEF LevelInv
<1>2. /\ IsSeq(next.relations) /\ Len(next.relations) = n + 1 /\ next.relations[n + 1] = r
      /\ \A i \in 1..n : next.relations[i] = level.relations[i]
  BY <1>1, SeqAppend
<1>3. DOMAIN next.relations = 1..(n + 1)
  BY <1>2, SeqFacts
<1> HIDE DEF n
<1>4. IdsOf(level) \subseteq IdsOf(next)
  BY <1>1, <1>2, <1>3 DEF IdsOf
<1>5. next.coalesced \in MergedColumns(IdsOf(next))
  BY <1>4, MergedWider DEF LevelInv
<1>6. \A v \in Views, c \in Columns : r.id \notin ToSet(level.coalesced[v][c])
  <2>1. r.id \notin IdsOf(level)
    <3>1. \A i \in 1..n : level.relations[i].id.index = i
      <4> SUFFICES ASSUME NEW i \in 1..n PROVE level.relations[i].id.index = i
        OBVIOUS
      <4>1. level.relations[i].id = [owner |-> path, index |-> i]
        BY <1>1 DEF LevelInv
      <4>. QED
        BY <4>1
    <3>2. r.id.index = n + 1 /\ n + 1 \notin 1..n
      BY <1>1 DEF n
    <3>. QED
      BY <1>1, <3>1, <3>2 DEF IdsOf
  <2>2. \A v \in Views, c \in Columns : ToSet(level.coalesced[v][c]) \subseteq IdsOf(level)
    <3>1. \A v \in Views, c \in Columns : level.coalesced[v][c] \in Seq(IdsOf(level))
      BY DEF LevelInv, MergedColumns
    <3>. QED
      BY <3>1 DEF ToSet
  <2>. QED
    BY <2>1, <2>2
<1>7. ASSUME NEW m \in Nat, StableAfter(level, m) PROVE StableAfter(next, m)
  <2> SUFFICES ASSUME \A i \in DOMAIN next.relations : i > m => next.relations[i].known["given"], NEW c \in Columns
               PROVE  \/ next.coalesced["given"][c] = next.coalesced["full"][c]
                      \/ \A v \in Views, i \in DOMAIN next.relations : i > m => next.relations[i].id \notin ToSet(next.coalesced[v][c])
    BY DEF StableAfter
  <2>1. \A i \in DOMAIN level.relations : i > m => level.relations[i].known["given"]
    BY <1>1, <1>2, <1>3
  <2>2. \/ level.coalesced["given"][c] = level.coalesced["full"][c]
        \/ \A v \in Views, i \in DOMAIN level.relations : i > m => level.relations[i].id \notin ToSet(level.coalesced[v][c])
    BY <1>7, <2>1 DEF StableAfter
  <2>3. \A i \in DOMAIN next.relations : next.relations[i] = r \/ (i \in DOMAIN level.relations /\ next.relations[i] = level.relations[i])
    BY <1>1, <1>2, <1>3
  <2>. QED
    BY <1>6, <2>2, <2>3
<1>8. \A i \in DOMAIN next.relations : Sure(next.relations[i]) /\ next.relations[i].id = [owner |-> path, index |-> i]
  <2>1. \A i \in DOMAIN next.relations : i = n + 1 \/ i \in 1..n
    BY <1>1, <1>3
  <2>2. r.id = [owner |-> path, index |-> n + 1]
    BY DEF n
  <2>3. \A i \in 1..n : Sure(level.relations[i]) /\ level.relations[i].id = [owner |-> path, index |-> i]
    BY <1>1 DEF LevelInv
  <2>. QED
    BY <1>2, <2>1, <2>2, <2>3
<1>9. StableAfter(next, 0)
  BY <1>7 DEF LevelInv
<1>. QED
  BY <1>1, <1>2, <1>4, <1>5, <1>7, <1>8, <1>9 DEF LevelInv, n

(***************************************************************************)
(* USING                                                                    *)
(***************************************************************************)
LEMMA SideTypes ==
  ASSUME NEW ids, NEW level, NEW column \in Columns, NEW v \in Views, level.coalesced \in MergedColumns(ids),
         \A i \in DOMAIN level.relations : level.relations[i].id \in ids
  PROVE  Side(level, column, v) \in Seq(ids)
<1> DEFINE ref == [table |-> Unnamed, column |-> column]
           g   == Seen(level, v)
           F   == Found(g, ref)
           b   == Decide(g, ref)
<1>1. CASE b.status = "coalesced"
  <2>1. Side(level, column, v) = level.coalesced[v][column]
    BY <1>1 DEF Side
  <2>. QED
    BY <2>1 DEF MergedColumns
<1>2. CASE b.status = "resolved"
  <2>1. Side(level, column, v) = <<CHOOSE id \in b.sources : TRUE>>
    BY <1>2 DEF Side
  <2> HIDE DEF g, ref
  <2>2. b.sources = Ids(g, F) /\ Cardinality(F) = 1
    BY <1>2 DEF Decide, Binding
  <2>3. F # {}
    BY <2>2, FS_EmptySet
  <2>4. \A p \in F : g.relations[p[1]].id \in ids
    <3>1. /\ DOMAIN g.relations = DOMAIN level.relations
          /\ \A i \in DOMAIN level.relations : g.relations[i].id = level.relations[i].id
      BY SeenFacts DEF g
    <3>2. \A p \in F : p[1] \in DOMAIN g.relations
      BY DEF Found, Candidates
    <3>. QED
      BY <3>1, <3>2
  <2>5. b.sources # {} /\ b.sources \subseteq ids
    BY <2>2, <2>3, <2>4 DEF Ids
  <2>6. (CHOOSE id \in b.sources : TRUE) \in ids
    BY <2>5
  <2>. QED
    BY <2>1, <2>6
<1>3. CASE b.status \notin {"coalesced", "resolved"}
  <2>1. Side(level, column, v) = <<>>
    BY <1>3 DEF Side
  <2>. QED
    BY <2>1
<1>. QED
  BY <1>1, <1>2, <1>3

\* A side all of whose relations are known shows the same in both views.
LEMMA SideAlike ==
  ASSUME NEW level, NEW column \in Columns, StableLevel(level), AllKnown(level.relations)
  PROVE  Side(level, column, "given") = Side(level, column, "full")
<1> DEFINE ref == [table |-> Unnamed, column |-> column]
           g   == Seen(level, "given")
           f   == Seen(level, "full")
<1>1. ref \in References /\ ref.column = column
  BY DEF References
<1>2. Unknown(g, ref) = {}
  <2>1. "given" \in Views
    BY DEF Views
  <2>2. \A i \in Candidates(g, ref) : g.relations[i].known
    <3>1. Candidates(g, ref) \subseteq DOMAIN level.relations
      BY CandidatesAlike
    <3>. QED
      BY <2>1, <3>1, SeenFacts DEF AllKnown
  <2> HIDE DEF g, ref
  <2>. QED
    BY <2>2 DEF Unknown
<1> HIDE DEF ref
<1>3. Decide(f, ref) = Decide(g, ref)
  BY <1>1, <1>2, DecideAlike
<1>4. Decide(g, ref).status = "coalesced" => level.coalesced["given"][column] = level.coalesced["full"][column]
  <2> SUFFICES ASSUME Decide(g, ref).status = "coalesced"
               PROVE  level.coalesced["given"][column] = level.coalesced["full"][column]
    OBVIOUS
  <2>1. Cardinality(Found(g, ref)) > 1 /\ Coalesced(g, ref)
    <3> HIDE DEF g
    <3>. QED
      BY DEF Decide, Binding
  <2>. QED
    BY <1>1, <1>2, <2>1, CoalescedAlike
<1> HIDE DEF g, f
<1>5. Side(level, column, "given") =
        CASE Decide(g, ref).status = "coalesced" -> level.coalesced["given"][column]
          [] Decide(g, ref).status = "resolved"  -> <<CHOOSE id \in Decide(g, ref).sources : TRUE>>
          [] OTHER -> <<>>
  BY DEF Side, g, ref
<1>6. Side(level, column, "full") =
        CASE Decide(f, ref).status = "coalesced" -> level.coalesced["full"][column]
          [] Decide(f, ref).status = "resolved"  -> <<CHOOSE id \in Decide(f, ref).sources : TRUE>>
          [] OTHER -> <<>>
  BY DEF Side, f, ref
<1>. QED
  BY <1>3, <1>4, <1>5, <1>6

\* What a join recorded of its left side when it went on to the right one.
LeftInv(left, level, start, before) ==
  /\ StableLevel(left)
  /\ left.relations = SubSeq(level.relations, start + 1, before)
  /\ left.coalesced \in MergedColumns(IdsOf(level))

LEMMA LeftFacts ==
  ASSUME NEW left, NEW level, NEW start \in Nat, NEW before \in Nat, IsSeq(level.relations),
         start <= before, before <= Len(level.relations), LeftInv(left, level, start, before)
  PROVE  \A i \in DOMAIN left.relations :
           \E j \in DOMAIN level.relations : j > start /\ left.relations[i] = level.relations[j]
<1>1. /\ IsSeq(left.relations) /\ Len(left.relations) = before + 1 - (start + 1)
      /\ \A i \in 1..(before + 1 - (start + 1)) : left.relations[i] = level.relations[(start + 1) + i - 1]
  <2>1. start + 1 \in Nat /\ start + 1 \in 1..(before + 1)
    OBVIOUS
  <2>. QED
    BY <2>1, SeqPart DEF LeftInv
<1>2. DOMAIN left.relations = 1..(before - start)
  <2>1. before + 1 - (start + 1) = before - start
    OBVIOUS
  <2>. QED
    BY <1>1, <2>1, SeqFacts
<1>3. DOMAIN level.relations = 1..Len(level.relations) /\ Len(level.relations) \in Nat
  BY SeqFacts
<1>4. ASSUME NEW i \in DOMAIN left.relations
      PROVE  \E j \in DOMAIN level.relations : j > start /\ left.relations[i] = level.relations[j]
  <2>1. i \in 1..(before - start)
    BY <1>2
  <2>2. i + start \in 1..Len(level.relations) /\ i + start > start /\ (start + 1) + i - 1 = i + start /\ i \in 1..(before + 1 - (start + 1))
    BY <1>3, <2>1
  <2>3. left.relations[i] = level.relations[i + start]
    BY <1>1, <2>2
  <2>. QED
    BY <1>3, <2>2, <2>3
<1>. QED
  BY <1>4

\* A join that ends.
EndsInv(path, level, left, start, before) ==
  /\ LevelInv(path, level) /\ start \in Nat /\ before \in Nat /\ start <= before /\ before <= Len(level.relations)
  /\ StableAfter(level, start) /\ StableAfter(level, before) /\ LeftInv(left, level, start, before)

\* A join with USING: what it merges it merges alike in both views, or it has a
\* relation that is not known.
LEMMA Joining ==
  ASSUME NEW path, NEW level, NEW left, NEW start, NEW before, EndsInv(path, level, left, start, before), NEW using,
         NEW next, next = Coalesce(level, left, From(level, before), using)
  PROVE  /\ LevelInv(path, next)
         /\ next.relations = level.relations
         /\ \A m \in Nat : m <= start /\ StableAfter(level, m) => StableAfter(next, m)
<1>0. /\ LevelInv(path, level) /\ start \in Nat /\ before \in Nat /\ start <= before /\ before <= Len(level.relations)
      /\ StableAfter(level, start) /\ StableAfter(level, before) /\ LeftInv(left, level, start, before)
  BY DEF EndsInv
<1> USE <1>0
<1> DEFINE right == From(level, before)
           ids   == IdsOf(level)
           New(c, v) == IF c \in ToSet(using) THEN Merged(left, right, c, v) ELSE <<>>
<1>1. /\ DOMAIN next = {"relations", "coalesced"} /\ next.relations = level.relations
      /\ next.coalesced = [v \in Views |-> [c \in Columns |->
                             IF Len(New(c, v)) > 1 THEN New(c, v) ELSE level.coalesced[v][c]]]
  BY DEF LevelInv, Coalesce
<1>2. IsSeq(level.relations) /\ DOMAIN level = {"relations", "coalesced"} /\ level.coalesced \in MergedColumns(ids)
  BY DEF LevelInv
<1>3. \A i \in DOMAIN left.relations : \E j \in DOMAIN level.relations : j > start /\ left.relations[i] = level.relations[j]
  <2>1. /\ IsSeq(level.relations) /\ start \in Nat /\ before \in Nat /\ start <= before /\ before <= Len(level.relations)
        /\ LeftInv(left, level, start, before)
    BY <1>2
  <2>. QED
    BY ONLY <2>1, LeftFacts
<1>4. /\ right.coalesced = level.coalesced
      /\ \A i \in DOMAIN right.relations : \E j \in DOMAIN level.relations : j > before /\ right.relations[i] = level.relations[j]
  <2>1. /\ right.coalesced = level.coalesced /\ DOMAIN right.relations = 1..(Len(level.relations) - before)
        /\ \A i \in 1..(Len(level.relations) - before) :
             /\ i + before \in DOMAIN level.relations /\ i + before > before
             /\ right.relations[i] = level.relations[i + before]
    BY <1>2, FromFacts
  <2> HIDE DEF right
  <2>. QED
    BY <2>1
<1>5. StableLevel(right)
  BY FromStable
<1> HIDE DEF right, ids
<1>6. ASSUME NEW c \in Columns, NEW v \in Views PROVE Side(left, c, v) \in Seq(ids) /\ Side(right, c, v) \in Seq(ids)
  <2>1. Side(left, c, v) \in Seq(ids)
    <3>1. left.coalesced \in MergedColumns(ids)
      BY DEF LeftInv, ids
    <3>2. \A i \in DOMAIN left.relations : left.relations[i].id \in ids
      BY <1>3 DEF ids, IdsOf
    <3>. QED
      BY <3>1, <3>2, SideTypes
  <2>2. Side(right, c, v) \in Seq(ids)
    <3>1. right.coalesced \in MergedColumns(ids)
      BY <1>2, <1>4
    <3>2. \A i \in DOMAIN right.relations : right.relations[i].id \in ids
      BY <1>4 DEF ids, IdsOf
    <3>. QED
      BY <3>1, <3>2, SideTypes
  <2>. QED
    BY <2>1, <2>2
<1>7. ASSUME NEW c \in Columns, NEW v \in Views PROVE New(c, v) \in Seq(ids)
  BY <1>6 DEF Merged
<1>8. next.coalesced \in MergedColumns(ids)
  <2> HIDE DEF New
  <2>1. \A v \in Views, c \in Columns : level.coalesced[v][c] \in Seq(ids)
    BY <1>2 DEF MergedColumns
  <2>. QED
    BY <1>1, <1>7, <2>1 DEF MergedColumns
<1>9. ASSUME NEW m \in Nat, m <= start, StableAfter(level, m) PROVE StableAfter(next, m)
  <2> SUFFICES ASSUME \A i \in DOMAIN next.relations : i > m => next.relations[i].known["given"], NEW c \in Columns
               PROVE  \/ next.coalesced["given"][c] = next.coalesced["full"][c]
                      \/ \A v \in Views, i \in DOMAIN next.relations : i > m => next.relations[i].id \notin ToSet(next.coalesced[v][c])
    BY DEF StableAfter
  <2>1. \A i \in DOMAIN level.relations : i > m => level.relations[i].known["given"]
    BY <1>1
  <2>2. DOMAIN level.relations \subseteq Nat
    BY <1>2, SeqFacts
  <2>3. AllKnown(left.relations) /\ AllKnown(right.relations)
    <3>1. \A j \in DOMAIN level.relations : j > start => j > m
      BY <1>9, <2>2
    <3>2. \A j \in DOMAIN level.relations : j > before => j > m
      BY <1>9, <2>2
    <3>. QED
      BY <1>3, <1>4, <2>1, <3>1, <3>2 DEF AllKnown
  <2>4. Side(left, c, "given") = Side(left, c, "full") /\ Side(right, c, "given") = Side(right, c, "full")
    BY <1>5, <2>3, SideAlike DEF LeftInv
  <2>5. New(c, "given") = New(c, "full")
    BY <2>4 DEF Merged
  <2>6. \/ level.coalesced["given"][c] = level.coalesced["full"][c]
        \/ \A v \in Views, i \in DOMAIN level.relations : i > m => level.relations[i].id \notin ToSet(level.coalesced[v][c])
    BY <1>9, <2>1 DEF StableAfter
  <2> HIDE DEF New
  <2>7. \A v \in Views : next.coalesced[v][c] = IF Len(New(c, v)) > 1 THEN New(c, v) ELSE level.coalesced[v][c]
    BY <1>1
  <2>8. CASE Len(New(c, "given")) > 1
    BY <2>5, <2>7, <2>8 DEF Views
  <2>9. CASE ~(Len(New(c, "given")) > 1)
    <3>1. \A v \in Views : next.coalesced[v][c] = level.coalesced[v][c]
      BY <2>5, <2>7, <2>9 DEF Views
    <3>2. next.coalesced["given"][c] = level.coalesced["given"][c] /\ next.coalesced["full"][c] = level.coalesced["full"][c]
      BY <3>1 DEF Views
    <3>. QED
      BY <1>1, <2>6, <3>1, <3>2
  <2>. QED
    BY <2>8, <2>9
<1>10. LevelInv(path, next)
  <2>1. IdsOf(next) = ids
    BY <1>1 DEF IdsOf, ids
  <2>2. StableAfter(next, 0)
    BY <1>9 DEF LevelInv
  <2>. QED
    BY <1>1, <1>8, <2>1, <2>2 DEF LevelInv
<1>. QED
  BY <1>1, <1>9, <1>10

(***************************************************************************)
(* The agenda of a block                                                    *)
(***************************************************************************)
GrammarInv == IsGrammar(Nodes) /\ Queries \subseteq Nodes.blocks

LEMMA TheGrammar == GrammarInv
BY QueriesAssumption DEF GrammarInv

\* A join under way: the relations after its start are its own, those after High
\* the ones of its right side, once that is begun.
Marked(t) == t.do \in {"join", "joined"}

High(t) == IF t.do = "joined" THEN t.what.before ELSE t.what.start

MarkInv(t, level) ==
  /\ t.what.join \in Nodes.joins
  /\ t.what.start \in Nat /\ High(t) \in Nat /\ t.what.start <= High(t) /\ High(t) <= Len(level.relations)
  /\ StableAfter(level, t.what.start) /\ StableAfter(level, High(t))
  /\ t.do = "joined" => LeftInv(t.what.left, level, t.what.start, t.what.before)

TodoInv(t, q, level, joins) ==
  /\ t.do \in {"cte", "bind_cte"} => t.what \in DOMAIN q.with
  /\ t.do = "table" => t.what \in Nodes.tables
  /\ t.do = "item" => t.what \in Nodes.items
  /\ t.do = "left" => Has(q.left)
  /\ t.do = "right" => Has(q.right)
  /\ t.do = "subquery" => /\ t.what.query \in Nodes.blocks /\ t.what.role \in {"where", "on"}
                          /\ t.what.role = "on" => t.what.index \in DOMAIN joins
  /\ Marked(t) => MarkInv(t, level)

\* The subqueries of WHERE come last, and joins end in the order of their nesting.
AgendaInv(q, level, joins, todo) ==
  /\ IsSeq(todo)
  /\ \A i \in DOMAIN todo : TodoInv(todo[i], q, level, joins)
  /\ \A i \in DOMAIN todo : todo[i].do # "subquery" => Len(q.where) <= Len(todo) - i
  /\ \A i, j \in DOMAIN todo : i < j /\ Marked(todo[i]) /\ Marked(todo[j]) => High(todo[j]) <= todo[i].what.start

LEMMA AgendaTail ==
  ASSUME NEW q, NEW level, NEW joins, NEW todo, AgendaInv(q, level, joins, todo), todo # <<>>
  PROVE  /\ AgendaInv(q, level, joins, Tail(todo))
         /\ TodoInv(Head(todo), q, level, joins)
         /\ Head(todo).do # "subquery" => Len(q.where) <= Len(Tail(todo))
         /\ Marked(Head(todo)) =>
              \A j \in DOMAIN Tail(todo) : Marked(Tail(todo)[j]) => High(Tail(todo)[j]) <= Head(todo).what.start
<1>1. /\ Len(todo) \in Nat \ {0} /\ DOMAIN todo = 1..Len(todo) /\ IsSeq(todo)
  BY SeqFacts DEF AgendaInv
<1>2. /\ IsSeq(Tail(todo)) /\ Len(Tail(todo)) = Len(todo) - 1
      /\ \A i \in 1..(Len(todo) - 1) : Tail(todo)[i] = todo[i + 1]
  BY <1>1, SeqTail
<1>3. DOMAIN Tail(todo) = 1..(Len(todo) - 1)
  BY <1>2, SeqFacts
<1>4. Head(todo) = todo[1] /\ 1 \in DOMAIN todo
  BY <1>1 DEF IsSeq
<1>5. \A i \in DOMAIN Tail(todo) : i + 1 \in DOMAIN todo /\ Tail(todo)[i] = todo[i + 1] /\ Len(todo) - (i + 1) = Len(Tail(todo)) - i
  BY <1>1, <1>2, <1>3
<1>6. \A i \in DOMAIN Tail(todo) : TodoInv(Tail(todo)[i], q, level, joins)
  BY <1>5 DEF AgendaInv
<1>7. \A i \in DOMAIN Tail(todo) : Tail(todo)[i].do # "subquery" => Len(q.where) <= Len(Tail(todo)) - i
  <2>1. \A i \in DOMAIN todo : todo[i].do # "subquery" => Len(q.where) <= Len(todo) - i
    BY DEF AgendaInv
  <2>2. ASSUME NEW i \in DOMAIN Tail(todo), Tail(todo)[i].do # "subquery" PROVE Len(q.where) <= Len(Tail(todo)) - i
    <3>1. i + 1 \in DOMAIN todo /\ todo[i + 1].do # "subquery" /\ Len(todo) - (i + 1) = Len(Tail(todo)) - i
      BY <1>5, <2>2
    <3>2. Len(q.where) <= Len(todo) - (i + 1)
      BY <2>1, <3>1
    <3>. QED
      BY <3>1, <3>2
  <2>. QED
    BY <2>2
<1>8. \A i, j \in DOMAIN Tail(todo) :
        i < j /\ Marked(Tail(todo)[i]) /\ Marked(Tail(todo)[j]) => High(Tail(todo)[j]) <= Tail(todo)[i].what.start
  <2>1. \A i, j \in DOMAIN Tail(todo) : i < j => i + 1 < j + 1
    BY <1>1, <1>3
  <2>. QED
    BY <1>5, <2>1 DEF AgendaInv
<1>9. TodoInv(Head(todo), q, level, joins)
  BY <1>4 DEF AgendaInv
<1>10. Head(todo).do # "subquery" => Len(q.where) <= Len(Tail(todo))
  BY <1>1, <1>2, <1>4 DEF AgendaInv
<1>11. Marked(Head(todo)) =>
         \A j \in DOMAIN Tail(todo) : Marked(Tail(todo)[j]) => High(Tail(todo)[j]) <= Head(todo).what.start
  <2>1. \A j \in DOMAIN Tail(todo) : 1 < j + 1
    BY <1>1, <1>3
  <2>. QED
    BY <1>4, <1>5, <2>1 DEF AgendaInv
<1>. QED
  BY <1>2, <1>6, <1>7, <1>8, <1>9, <1>10, <1>11 DEF AgendaInv

\* What a step puts in front of the agenda.
NextInv(next, q, level, joins, rest) ==
  /\ IsSeq(next)
  /\ \A i \in DOMAIN next : TodoInv(next[i], q, level, joins) /\ next[i].do # "subquery"
  /\ next # <<>> => Len(q.where) <= Len(rest)
  /\ \A i, j \in DOMAIN next : i < j /\ Marked(next[i]) /\ Marked(next[j]) => High(next[j]) <= next[i].what.start
  /\ \A i \in DOMAIN next, j \in DOMAIN rest : Marked(next[i]) /\ Marked(rest[j]) => High(rest[j]) <= next[i].what.start

LEMMA AgendaNext ==
  ASSUME NEW q, NEW level, NEW joins, NEW next, NEW rest, Len(q.where) \in Nat,
         AgendaInv(q, level, joins, rest), NextInv(next, q, level, joins, rest)
  PROVE  AgendaInv(q, level, joins, next \o rest)
<1> DEFINE all == next \o rest
           n   == Len(next)
<1>1. IsSeq(next) /\ IsSeq(rest)
  BY DEF AgendaInv, NextInv
<1>2. /\ n \in Nat /\ Len(rest) \in Nat /\ DOMAIN next = 1..n /\ DOMAIN rest = 1..Len(rest)
      /\ next = <<>> <=> n = 0
  BY <1>1, SeqFacts
<1>3. /\ IsSeq(all) /\ Len(all) = n + Len(rest)
      /\ \A i \in DOMAIN all : all[i] = IF i <= n THEN next[i] ELSE rest[i - n]
  BY <1>1, SeqConcat
<1>4. DOMAIN all = 1..(n + Len(rest))
  BY <1>3, SeqFacts
<1> HIDE DEF all, n
<1>5. ASSUME NEW i \in DOMAIN all
      PROVE  \/ i <= n /\ i \in DOMAIN next /\ all[i] = next[i]
             \/ i > n /\ i - n \in DOMAIN rest /\ all[i] = rest[i - n]
  BY <1>2, <1>3, <1>4
<1>6. ASSUME NEW i \in DOMAIN all PROVE TodoInv(all[i], q, level, joins)
  BY <1>5 DEF AgendaInv, NextInv
<1>7. ASSUME NEW i \in DOMAIN all, all[i].do # "subquery" PROVE Len(q.where) <= Len(all) - i
  <2>0. i \in Nat
    BY <1>2, <1>4
  <2>1. CASE i <= n /\ i \in DOMAIN next /\ all[i] = next[i]
    <3>1. n # 0
      BY <1>2, <2>1
    <3>2. Len(q.where) <= Len(rest)
      BY <1>2, <3>1 DEF NextInv
    <3>. QED
      BY <1>2, <1>3, <2>0, <2>1, <3>2
  <2>2. CASE i > n /\ i - n \in DOMAIN rest /\ all[i] = rest[i - n]
    <3>1. Len(q.where) <= Len(rest) - (i - n)
      BY <1>7, <2>2 DEF AgendaInv
    <3>. QED
      BY <1>2, <1>3, <2>0, <3>1
  <2>. QED
    BY <1>5, <2>1, <2>2
<1>8. ASSUME NEW i \in DOMAIN all, NEW j \in DOMAIN all, i < j, Marked(all[i]), Marked(all[j])
      PROVE  High(all[j]) <= all[i].what.start
  <2>0. i \in Nat /\ j \in Nat
    BY <1>2, <1>4
  <2>1. CASE i > n /\ i - n \in DOMAIN rest /\ all[i] = rest[i - n]
    <3>1. j - n \in DOMAIN rest /\ all[j] = rest[j - n] /\ i - n < j - n
      BY <1>2, <1>5, <1>8, <2>0, <2>1
    <3>. QED
      BY <1>8, <2>1, <3>1 DEF AgendaInv
  <2>2. CASE i <= n /\ i \in DOMAIN next /\ all[i] = next[i]
    <3>1. CASE j <= n /\ j \in DOMAIN next /\ all[j] = next[j]
      BY <1>8, <2>2, <3>1 DEF NextInv
    <3>2. CASE j > n /\ j - n \in DOMAIN rest /\ all[j] = rest[j - n]
      BY <1>8, <2>2, <3>2 DEF NextInv
    <3>. QED
      BY <1>5, <3>1, <3>2
  <2>. QED
    BY <1>5, <2>1, <2>2
<1>. QED
  BY <1>3, <1>6, <1>7, <1>8 DEF AgendaInv, all

\* The subqueries of a condition go between the rest of the block and WHERE.
LEMMA AgendaInserted ==
  ASSUME NEW q, NEW level, NEW joins, NEW rest, NEW subs, NEW n \in Nat, n + Len(q.where) = Len(rest), Len(q.where) \in Nat,
         AgendaInv(q, level, joins, rest), IsSeq(subs),
         \A i \in DOMAIN subs : subs[i].do = "subquery" /\ TodoInv(subs[i], q, level, joins)
  PROVE  AgendaInv(q, level, joins, Inserted(rest, subs, n))
<1> DEFINE L == Len(rest)
           m == Len(subs)
           w == Len(q.where)
           all == Inserted(rest, subs, n)
<1>1. L \in Nat /\ m \in Nat /\ w \in Nat /\ n + w = L /\ n <= L
  BY SeqFacts DEF AgendaInv
<1>0. DOMAIN rest = 1..L /\ DOMAIN subs = 1..m /\ IsSeq(rest)
  BY <1>1, SeqFacts DEF AgendaInv
<1>2. /\ IsSeq(all) /\ Len(all) = L + m /\ DOMAIN all = 1..(L + m)
      /\ \A i \in DOMAIN all :
           \/ i <= n /\ i \in DOMAIN rest /\ all[i] = rest[i]
           \/ i > n /\ i <= n + m /\ i - n \in DOMAIN subs /\ all[i] = subs[i - n]
           \/ i > n + m /\ i - m \in DOMAIN rest /\ all[i] = rest[i - m]
  <2>1. IsSeq(rest) /\ n <= Len(rest)
    BY <1>0, <1>1
  <2> DEFINE put == Inserted(rest, subs, n)
  <2>2. /\ IsSeq(put) /\ Len(put) = Len(rest) + Len(subs) /\ DOMAIN put = 1..(Len(rest) + Len(subs))
        /\ \A i \in DOMAIN put :
             \/ i <= n /\ i \in DOMAIN rest /\ put[i] = rest[i]
             \/ i > n /\ i <= n + Len(subs) /\ i - n \in DOMAIN subs /\ put[i] = subs[i - n]
             \/ i > n + Len(subs) /\ i - Len(subs) \in DOMAIN rest /\ put[i] = rest[i - Len(subs)]
    BY ONLY <2>1, IsSeq(subs), n \in Nat, InsertedFacts
  <2>. QED
    BY <2>2
<1> HIDE DEF L, m, w, all
<1>5. Len(all) = L + m /\ \A i \in 1..n : all[i] = rest[i]
  <2>1. \A i \in 1..n : i \in DOMAIN all /\ i \in Nat /\ i <= n
    BY <1>1, <1>2
  <2>2. \A i \in 1..n : all[i] = rest[i]
    BY <1>1, <1>2, <2>1
  <2>. QED
    BY <1>2, <2>2
<1>6. DOMAIN all = 1..(L + m)
  BY <1>2
<1>7. ASSUME NEW i \in DOMAIN all
      PROVE  \/ i <= n /\ i \in DOMAIN rest /\ all[i] = rest[i]
             \/ i > n /\ i <= n + m /\ i - n \in DOMAIN subs /\ all[i] = subs[i - n]
             \/ i > n + m /\ i - m \in DOMAIN rest /\ all[i] = rest[i - m]
  BY <1>2
<1>8. ASSUME NEW i \in DOMAIN all PROVE TodoInv(all[i], q, level, joins)
  BY <1>7 DEF AgendaInv
<1>9. ASSUME NEW i \in DOMAIN all, all[i].do # "subquery" PROVE w <= Len(all) - i
  <2>0. i \in 1..(L + m)
    BY <1>6
  <2>1. CASE i <= n
    BY <1>0, <1>1, <1>5, <2>0, <2>1
  <2>2. CASE i > n + m /\ i - m \in DOMAIN rest /\ all[i] = rest[i - m]
    <3>1. w <= L - (i - m)
      BY <1>9, <2>2 DEF AgendaInv, w, L
    <3>. QED
      BY <1>0, <1>1, <1>5, <2>0, <3>1
  <2>. QED
    BY <1>7, <1>9, <2>1, <2>2
<1>10. ASSUME NEW i \in DOMAIN all, NEW j \in DOMAIN all, i < j, Marked(all[i]), Marked(all[j])
       PROVE  High(all[j]) <= all[i].what.start
  <2>0. i \in Nat /\ j \in Nat
    BY <1>1, <1>6
  <2>1. \A k \in DOMAIN subs : ~Marked(subs[k])
    BY DEF Marked
  <2>2. CASE i <= n /\ i \in DOMAIN rest /\ all[i] = rest[i]
    <3>1. CASE j <= n /\ j \in DOMAIN rest /\ all[j] = rest[j]
      BY <1>10, <2>2, <3>1 DEF AgendaInv
    <3>2. CASE j > n + m /\ j - m \in DOMAIN rest /\ all[j] = rest[j - m]
      <4>1. i < j - m
        BY <1>1, <2>0, <2>2, <3>2
      <4>. QED
        BY <1>10, <2>2, <3>2, <4>1 DEF AgendaInv
    <3>. QED
      BY <1>7, <1>10, <2>1, <3>1, <3>2
  <2>3. CASE i > n + m /\ i - m \in DOMAIN rest /\ all[i] = rest[i - m]
    <3>1. j > n + m
      BY <1>1, <1>10, <2>0, <2>3
    <3>2. j - m \in DOMAIN rest /\ all[j] = rest[j - m] /\ i - m < j - m
      BY <1>1, <1>7, <1>10, <2>0, <3>1
    <3>. QED
      BY <1>10, <2>3, <3>2 DEF AgendaInv
  <2>. QED
    BY <1>7, <1>10, <2>1, <2>2, <2>3
<1>. QED
  BY <1>2, <1>8, <1>9, <1>10 DEF AgendaInv, all, w, L

(***************************************************************************)
(* Blocks under way and finished                                            *)
(***************************************************************************)
KeepsLevels(levels) == IsSeq(levels) /\ \A k \in DOMAIN levels : StableLevel(levels[k])

CtesInv(ctes) == DOMAIN ctes = Tables /\ \A n \in Tables : ctes[n].declared => Sure(ctes[n])

\* A block whose outputs are complete with the given schema has them with the full
\* one, whatever relations and set operations they come from.
OutputsInv(outputs) ==
  /\ DOMAIN outputs = {"slots", "left", "complete"}
  /\ outputs.complete["given"] => outputs.complete["full"] /\ outputs.slots["given"] = outputs.slots["full"]

FrameInv(f) ==
  /\ DOMAIN f = {"query", "path", "parent", "ctes", "level", "joins", "outputs", "compoundOrder", "todo"}
  /\ f.query \in Nodes.blocks
  /\ LevelInv(f.path, f.level)
  /\ AgendaInv(f.query, f.level, f.joins, f.todo)
  /\ KeepsLevels(f.parent) /\ KeepsLevels(f.joins) /\ CtesInv(f.ctes) /\ OutputsInv(f.outputs)

ScopeInv(s) ==
  /\ DOMAIN s = {"path", "query", "chain", "joins", "ctes", "outputs", "compoundOrder"}
  /\ KeepsLevels(s.chain) /\ s.chain # <<>> /\ KeepsLevels(s.joins) /\ OutputsInv(s.outputs)

\* The blocks around a block are under way or finished.
KnownPaths == {s.path : s \in scopes} \cup {stack[i].path : i \in DOMAIN stack}

PathsInv == \A p \in KnownPaths : IsSeq(p) /\ \A n \in 0..Len(p) : SubSeq(p, 1, n) \in KnownPaths

\* An ORDER BY is bound to the outputs of a block.
OrderOf(s) == Has(s.compoundOrder) => s.compoundOrder[1] \in KnownPaths

Inv ==
  /\ GrammarInv
  /\ schema["given"] \subseteq schema["full"]
  /\ IsSeq(stack) /\ \A i \in DOMAIN stack : FrameInv(stack[i]) /\ OrderOf(stack[i])
  /\ \A s \in scopes : ScopeInv(s) /\ OrderOf(s)
  /\ OutputsInv(returned)
  /\ PathsInv

\* A relation is added to a block: the joins under way are as they were.
LEMMA AgendaAdding ==
  ASSUME NEW path, NEW level, NEW r, LevelInv(path, level), Sure(r),
         r.id = [owner |-> path, index |-> Len(level.relations) + 1],
         NEW next, next.relations = Append(level.relations, r), next.coalesced = level.coalesced,
         DOMAIN next = {"relations", "coalesced"},
         NEW q, NEW joins, NEW todo, AgendaInv(q, level, joins, todo)
  PROVE  AgendaInv(q, next, joins, todo)
<1> DEFINE n == Len(level.relations)
<1>1. /\ n \in Nat /\ IsSeq(level.relations) /\ DOMAIN level.relations = 1..n
  BY SeqFacts DEF LevelInv
<1>2. /\ LevelInv(path, next) /\ Len(next.relations) = n + 1 /\ IdsOf(level) \subseteq IdsOf(next)
      /\ \A i \in 1..n : next.relations[i] = level.relations[i]
      /\ \A m \in Nat : StableAfter(level, m) => StableAfter(next, m)
  BY <1>1, Adding
<1>3. IsSeq(next.relations)
  BY <1>2 DEF LevelInv
<1> HIDE DEF n
<1>4. ASSUME NEW left, NEW start \in Nat, NEW before \in Nat, start <= before, before <= n, LeftInv(left, level, start, before)
      PROVE  LeftInv(left, next, start, before)
  <2>1. SubSeq(level.relations, start + 1, before) = SubSeq(next.relations, start + 1, before)
    <3>1. start + 1 \in Nat /\ start + 1 \in 1..(before + 1)
      BY <1>4
    <3>2. before <= Len(level.relations) /\ before <= Len(next.relations)
      BY <1>1, <1>2, <1>4 DEF n
    <3>3. /\ IsSeq(SubSeq(level.relations, start + 1, before))
          /\ Len(SubSeq(level.relations, start + 1, before)) = before + 1 - (start + 1)
          /\ \A i \in 1..(before + 1 - (start + 1)) :
               SubSeq(level.relations, start + 1, before)[i] = level.relations[(start + 1) + i - 1]
      BY <1>1, <3>1, <3>2, SeqPart
    <3>4. /\ IsSeq(SubSeq(next.relations, start + 1, before))
          /\ Len(SubSeq(next.relations, start + 1, before)) = before + 1 - (start + 1)
          /\ \A i \in 1..(before + 1 - (start + 1)) :
               SubSeq(next.relations, start + 1, before)[i] = next.relations[(start + 1) + i - 1]
      <4> DEFINE s == next.relations
      <4>1. IsSeq(s) /\ before <= Len(s)
        BY <1>3, <3>2
      <4> HIDE DEF s
      <4>2. /\ IsSeq(SubSeq(s, start + 1, before)) /\ Len(SubSeq(s, start + 1, before)) = before + 1 - (start + 1)
            /\ \A i \in 1..(before + 1 - (start + 1)) : SubSeq(s, start + 1, before)[i] = s[(start + 1) + i - 1]
        BY <3>1, <4>1, SeqPart
      <4>. QED
        BY <4>2 DEF s
    <3>5. \A i \in 1..(before + 1 - (start + 1)) : (start + 1) + i - 1 \in 1..n
      BY <1>1, <1>4
    <3>. QED
      <4> DEFINE s == SubSeq(level.relations, start + 1, before)
                 t == SubSeq(next.relations, start + 1, before)
      <4>1. IsSeq(s) /\ IsSeq(t) /\ Len(s) = Len(t) /\ Len(s) = before + 1 - (start + 1)
        BY <3>3, <3>4
      <4>2. \A i \in 1..Len(s) : s[i] = t[i]
        BY <1>2, <3>3, <3>4, <3>5
      <4> HIDE DEF s, t
      <4>3. s = t
        BY <4>1, <4>2, SeqSame
      <4>. QED
        BY <4>3 DEF s, t
  <2>2. left.coalesced \in MergedColumns(IdsOf(next))
    BY <1>2, <1>4, MergedWider DEF LeftInv
  <2>. QED
    BY <1>4, <2>1, <2>2 DEF LeftInv
<1>5. ASSUME NEW t, MarkInv(t, level) PROVE MarkInv(t, next)
  <2>1. /\ t.what.start \in Nat /\ High(t) \in Nat /\ t.what.start <= High(t) /\ High(t) <= n
    BY <1>5 DEF MarkInv, n
  <2>2. High(t) <= Len(next.relations)
    BY <1>1, <1>2, <2>1
  <2>3. StableAfter(next, t.what.start) /\ StableAfter(next, High(t))
    BY <1>2, <1>5, <2>1 DEF MarkInv
  <2>4. t.do = "joined" => LeftInv(t.what.left, next, t.what.start, t.what.before)
    <3> SUFFICES ASSUME t.do = "joined" PROVE LeftInv(t.what.left, next, t.what.start, t.what.before)
      OBVIOUS
    <3>1. High(t) = t.what.before
      BY DEF High
    <3>2. LeftInv(t.what.left, level, t.what.start, t.what.before)
      BY <1>5 DEF MarkInv
    <3>3. t.what.before \in Nat /\ t.what.start <= t.what.before /\ t.what.before <= n
      BY <2>1, <3>1
    <3>. QED
      BY <1>4, <2>1, <3>2, <3>3
  <2>. QED
    BY <1>5, <2>1, <2>2, <2>3, <2>4 DEF MarkInv
<1>6. \A i \in DOMAIN todo : TodoInv(todo[i], q, next, joins)
  <2>1. ASSUME NEW t, TodoInv(t, q, level, joins) PROVE TodoInv(t, q, next, joins)
    BY <1>5, <2>1 DEF TodoInv
  <2>. QED
    BY <2>1 DEF AgendaInv
<1>. QED
  BY <1>6 DEF AgendaInv

LEMMA Grammar ==
  ASSUME GrammarInv
  PROVE  /\ \A q \in Nodes.blocks :
              /\ IsSeq(q.with) /\ \A i \in DOMAIN q.with : q.with[i].name \in Tables /\ q.with[i].query \in Nodes.blocks
              /\ IsSeq(q.from) /\ \A i \in DOMAIN q.from : q.from[i] \in Nodes.tables
              /\ IsSeq(q.where) /\ \A i \in DOMAIN q.where : q.where[i] \in Nodes.blocks
              /\ Has(q.left) => q.left[1] \in Nodes.blocks
              /\ Has(q.right) => q.right[1] \in Nodes.blocks
         /\ \A t \in Nodes.tables : /\ t.primary \in Nodes.items
                                    /\ IsSeq(t.joins) /\ \A i \in DOMAIN t.joins : t.joins[i] \in Nodes.joins
         /\ \A j \in Nodes.joins : /\ j.right \in Nodes.items
                                   /\ IsSeq(j.on) /\ \A i \in DOMAIN j.on : j.on[i] \in Nodes.blocks
         /\ \A i \in Nodes.items : /\ i.kind = "table" => i.name \in Tables
                                   /\ i.kind = "derived" => i.query \in Nodes.blocks
                                   /\ i.kind = "group" => IsSeq(i.items) /\ \A k \in DOMAIN i.items : i.items[k] \in Nodes.tables
<1>1. ASSUME NEW S, NEW s \in Seq(S) PROVE IsSeq(s) /\ (\A i \in DOMAIN s : s[i] \in S) /\ (Has(s) => s[1] \in S)
  <2>1. Len(s) \in Nat /\ DOMAIN s = 1..Len(s) /\ (s # <<>> => 1 \in DOMAIN s)
    OBVIOUS
  <2>. QED
    BY <2>1 DEF IsSeq, Has
<1>2. IsGrammar(Nodes)
  BY DEF GrammarInv
<1>3. ASSUME NEW q \in Nodes.blocks
      PROVE  /\ IsSeq(q.with) /\ \A i \in DOMAIN q.with : q.with[i].name \in Tables /\ q.with[i].query \in Nodes.blocks
             /\ IsSeq(q.from) /\ \A i \in DOMAIN q.from : q.from[i] \in Nodes.tables
             /\ IsSeq(q.where) /\ \A i \in DOMAIN q.where : q.where[i] \in Nodes.blocks
             /\ Has(q.left) => q.left[1] \in Nodes.blocks
             /\ Has(q.right) => q.right[1] \in Nodes.blocks
  <2>1. /\ q.with \in Seq(Nodes.ctes) /\ q.from \in Seq(Nodes.tables)
        /\ q.where \in Seq(Nodes.blocks) /\ q.left \in Seq(Nodes.blocks) /\ q.right \in Seq(Nodes.blocks)
    BY <1>2 DEF IsGrammar
  <2>2. \A c \in Nodes.ctes : c.name \in Tables /\ c.query \in Nodes.blocks
    BY <1>2 DEF IsGrammar
  <2>. QED
    BY <1>1, <2>1, <2>2
<1>4. \A t \in Nodes.tables : /\ t.primary \in Nodes.items
                              /\ IsSeq(t.joins) /\ \A i \in DOMAIN t.joins : t.joins[i] \in Nodes.joins
  <2>1. \A t \in Nodes.tables : t.primary \in Nodes.items /\ t.joins \in Seq(Nodes.joins)
    BY <1>2 DEF IsGrammar
  <2>. QED
    BY <1>1, <2>1
<1>5. \A j \in Nodes.joins : /\ j.right \in Nodes.items
                             /\ IsSeq(j.on) /\ \A i \in DOMAIN j.on : j.on[i] \in Nodes.blocks
  <2>1. \A j \in Nodes.joins : j.right \in Nodes.items /\ j.on \in Seq(Nodes.blocks)
    BY <1>2 DEF IsGrammar
  <2>. QED
    BY <1>1, <2>1
<1>6. \A i \in Nodes.items : /\ i.kind = "table" => i.name \in Tables
                             /\ i.kind = "derived" => i.query \in Nodes.blocks
                             /\ i.kind = "group" => IsSeq(i.items) /\ \A k \in DOMAIN i.items : i.items[k] \in Nodes.tables
  <2>1. \A i \in Nodes.items : /\ i.kind = "table" => i.name \in Tables
                               /\ i.kind = "derived" => i.query \in Nodes.blocks
                               /\ i.kind = "group" => i.items \in Seq(Nodes.tables)
    BY <1>2 DEF IsGrammar
  <2>. QED
    BY <1>1, <2>1
<1>. QED
  BY <1>3, <1>4, <1>5, <1>6

LEMMA WhereLength ==
  ASSUME GrammarInv, NEW q \in Nodes.blocks
  PROVE  Len(q.where) \in Nat
<1>1. IsSeq(q.where)
  BY Grammar
<1>. QED
  BY <1>1, SeqFacts

\* The agenda that a block begins with.
LEMMA FirstAgenda ==
  ASSUME GrammarInv, NEW q \in Nodes.blocks, NEW level, NEW joins
  PROVE  AgendaInv(q, level, joins, Agenda(q))
<1> DEFINE a == [i \in DOMAIN q.with |-> Todo("cte", i)]
           b == [i \in DOMAIN q.from |-> Todo("table", q.from[i])]
           c == IF Has(q.left) THEN <<Todo("left", 1)>> ELSE <<Todo("outputs", 1)>>
           d == IF Has(q.right) THEN <<Todo("right", 1), Todo("order", 1)>> ELSE <<>>
           w == [i \in DOMAIN q.where |-> Todo("subquery", [role |-> "where", index |-> i, query |-> q.where[i]])]
           Plain(s) == IsSeq(s) /\ \A i \in DOMAIN s : TodoInv(s[i], q, level, joins) /\ s[i].do # "subquery" /\ ~Marked(s[i])
<1>1. /\ IsSeq(q.with) /\ IsSeq(q.from) /\ \A i \in DOMAIN q.from : q.from[i] \in Nodes.tables
      /\ IsSeq(q.where) /\ \A i \in DOMAIN q.where : q.where[i] \in Nodes.blocks
  BY Grammar
<1>2. /\ Len(q.with) \in Nat /\ DOMAIN q.with = 1..Len(q.with) /\ Len(q.from) \in Nat /\ DOMAIN q.from = 1..Len(q.from)
      /\ Len(q.where) \in Nat /\ DOMAIN q.where = 1..Len(q.where)
  BY <1>1, SeqFacts
<1>3. Plain(a)
  <2>1. IsSeq(a)
    BY <1>2, SeqNew
  <2>2. \A i \in DOMAIN a : a[i].do = "cte" /\ a[i].what \in DOMAIN q.with
    BY DEF Todo
  <2> HIDE DEF a
  <2>. QED
    BY <2>1, <2>2 DEF TodoInv, Marked
<1>4. Plain(b)
  <2>1. IsSeq(b)
    BY <1>2, SeqNew
  <2>2. \A i \in DOMAIN b : b[i].do = "table" /\ b[i].what \in Nodes.tables
    BY <1>1 DEF Todo
  <2> HIDE DEF b
  <2>. QED
    BY <2>1, <2>2 DEF TodoInv, Marked
<1>5. Plain(c)
  <2>1. IsSeq(c)
    BY SeqOne
  <2>2. \A i \in DOMAIN c : c[i].do \in {"left", "outputs"} /\ (c[i].do = "left" => Has(q.left))
    BY DEF Todo
  <2> HIDE DEF c
  <2>. QED
    BY <2>1, <2>2 DEF TodoInv, Marked
<1>6. Plain(d)
  <2>1. IsSeq(d)
    <3>1. <<Todo("right", 1), Todo("order", 1)>> \in Seq({Todo("right", 1), Todo("order", 1)})
      OBVIOUS
    <3>. QED
      BY <3>1, SeqEmpty DEF IsSeq
  <2>2. \A i \in DOMAIN d : d[i].do \in {"right", "order"} /\ (d[i].do = "right" => Has(q.right))
    BY DEF Todo
  <2> HIDE DEF d
  <2>. QED
    BY <2>1, <2>2 DEF TodoInv, Marked
<1>7. AgendaInv(q, level, joins, w)
  <2>1. IsSeq(w)
    BY <1>2, SeqNew
  <2>2. \A i \in DOMAIN w : w[i].do = "subquery" /\ w[i].what.query \in Nodes.blocks /\ w[i].what.role = "where"
    BY <1>1 DEF Todo
  <2> HIDE DEF w
  <2>3. \A i \in DOMAIN w : TodoInv(w[i], q, level, joins) /\ ~Marked(w[i])
    BY <2>2 DEF TodoInv, Marked
  <2>. QED
    BY <2>1, <2>2, <2>3 DEF AgendaInv
<1>8. Len(w) = Len(q.where)
  BY <1>2, SeqNew
<1> HIDE DEF a, b, c, d, w
<1>9. ASSUME NEW s, NEW t, Plain(s), Plain(t) PROVE Plain(s \o t)
  <2>1. /\ IsSeq(s \o t) /\ \A i \in DOMAIN (s \o t) : (s \o t)[i] = IF i <= Len(s) THEN s[i] ELSE t[i - Len(s)]
        /\ Len(s \o t) = Len(s) + Len(t)
    BY <1>9, SeqConcat
  <2>2. /\ Len(s) \in Nat /\ Len(t) \in Nat /\ DOMAIN s = 1..Len(s) /\ DOMAIN t = 1..Len(t)
        /\ DOMAIN (s \o t) = 1..(Len(s) + Len(t))
    BY <1>9, <2>1, SeqFacts
  <2>3. \A i \in DOMAIN (s \o t) : \/ i \in DOMAIN s /\ (s \o t)[i] = s[i]
                                   \/ i - Len(s) \in DOMAIN t /\ (s \o t)[i] = t[i - Len(s)]
    BY <2>1, <2>2
  <2>. QED
    BY <1>9, <2>1, <2>3
<1>10. Plain(a \o b \o c \o d)
  <2> HIDE DEF Plain
  <2>. QED
    BY <1>3, <1>4, <1>5, <1>6, <1>9
<1>11. NextInv(a \o b \o c \o d, q, level, joins, w)
  <2> DEFINE s == a \o b \o c \o d
  <2> HIDE DEF s
  <2>1. Plain(s)
    BY <1>10 DEF s
  <2>2. NextInv(s, q, level, joins, w)
    BY <1>2, <1>8, <2>1 DEF NextInv
  <2>. QED
    BY <2>2 DEF s
<1>12. AgendaInv(q, level, joins, a \o b \o c \o d \o w)
  BY <1>2, <1>7, <1>11, AgendaNext
<1>. QED
  BY <1>12 DEF Agenda, a, b, c, d, w

(***************************************************************************)
(* What steps do to frames and to the stack                                 *)
(***************************************************************************)
LEMMA GoesFields ==
  ASSUME NEW f, NEW next, DOMAIN f = {"query", "path", "parent", "ctes", "level", "joins", "outputs", "compoundOrder", "todo"}
  PROVE  /\ DOMAIN Goes(f, next) = DOMAIN f
         /\ Goes(f, next).todo = next \o Tail(f.todo)
         /\ Goes(f, next).query = f.query /\ Goes(f, next).path = f.path /\ Goes(f, next).parent = f.parent
         /\ Goes(f, next).ctes = f.ctes /\ Goes(f, next).level = f.level /\ Goes(f, next).joins = f.joins
         /\ Goes(f, next).outputs = f.outputs /\ Goes(f, next).compoundOrder = f.compoundOrder
BY DEF Goes

LEMMA GoesKeeps ==
  ASSUME GrammarInv, NEW f, FrameInv(f), f.todo # <<>>, NEW next,
         NextInv(next, f.query, f.level, f.joins, Tail(f.todo))
  PROVE  FrameInv(Goes(f, next)) /\ Goes(f, next).path = f.path /\ Goes(f, next).compoundOrder = f.compoundOrder
<1>1. Len(f.query.where) \in Nat
  BY WhereLength DEF FrameInv
<1>2. AgendaInv(f.query, f.level, f.joins, Tail(f.todo))
  BY AgendaTail DEF FrameInv
<1>3. AgendaInv(f.query, f.level, f.joins, next \o Tail(f.todo))
  BY <1>1, <1>2, AgendaNext
<1>4. /\ DOMAIN Goes(f, next) = DOMAIN f
      /\ Goes(f, next).todo = next \o Tail(f.todo)
      /\ Goes(f, next).query = f.query /\ Goes(f, next).path = f.path /\ Goes(f, next).parent = f.parent
      /\ Goes(f, next).ctes = f.ctes /\ Goes(f, next).level = f.level /\ Goes(f, next).joins = f.joins
      /\ Goes(f, next).outputs = f.outputs /\ Goes(f, next).compoundOrder = f.compoundOrder
  BY GoesFields DEF FrameInv
<1>. QED
  BY <1>3, <1>4 DEF FrameInv

\* A step that puts nothing in front of the agenda.
LEMMA NothingNext ==
  ASSUME NEW q, NEW level, NEW joins, NEW rest
  PROVE  NextInv(<<>>, q, level, joins, rest)
<1>1. DOMAIN <<>> = {}
  OBVIOUS
<1>. QED
  BY <1>1, SeqEmpty DEF NextInv

\* A step that puts one thing in front of it.
LEMMA OneNext ==
  ASSUME NEW q, NEW level, NEW joins, NEW rest, NEW t, TodoInv(t, q, level, joins), t.do # "subquery",
         Len(q.where) <= Len(rest), ~Marked(t)
  PROVE  NextInv(<<t>>, q, level, joins, rest)
<1>1. DOMAIN <<t>> = {1} /\ <<t>>[1] = t
  OBVIOUS
<1>2. IsSeq(<<t>>)
  BY SeqOne
<1>. QED
  BY <1>1, <1>2 DEF NextInv

LEMMA WithRelationKeeps ==
  ASSUME NEW f, FrameInv(f), NEW r, Sure(r), r.id = [owner |-> f.path, index |-> Len(f.level.relations) + 1]
  PROVE  /\ FrameInv(WithRelation(f, r))
         /\ WithRelation(f, r).todo = f.todo /\ WithRelation(f, r).path = f.path
         /\ WithRelation(f, r).compoundOrder = f.compoundOrder
<1> DEFINE g == WithRelation(f, r)
<1>1. DOMAIN f.level = {"relations", "coalesced"}
  BY DEF FrameInv, LevelInv
<1>2. /\ DOMAIN g = DOMAIN f /\ g.todo = f.todo /\ g.query = f.query /\ g.path = f.path /\ g.parent = f.parent /\ g.ctes = f.ctes
      /\ g.joins = f.joins /\ g.outputs = f.outputs /\ g.compoundOrder = f.compoundOrder
      /\ g.level = [f.level EXCEPT !.relations = Append(@, r)]
  BY DEF FrameInv, WithRelation
<1>3. DOMAIN g.level = {"relations", "coalesced"} /\ g.level.relations = Append(f.level.relations, r) /\ g.level.coalesced = f.level.coalesced
  BY <1>1, <1>2
<1> HIDE DEF g
<1>4. LevelInv(f.path, f.level) /\ AgendaInv(f.query, f.level, f.joins, f.todo)
  BY DEF FrameInv
<1> DEFINE level == f.level
           next  == g.level
<1>a. LevelInv(f.path, level) /\ Sure(r) /\ r.id = [owner |-> f.path, index |-> Len(level.relations) + 1]
  BY <1>4
<1>b. next.relations = Append(level.relations, r) /\ next.coalesced = level.coalesced /\ DOMAIN next = {"relations", "coalesced"}
  BY <1>3
<1> HIDE DEF level, next
<1>5. LevelInv(f.path, next)
  BY <1>a, <1>b, Adding
<1>6. AgendaInv(f.query, next, f.joins, f.todo)
  BY <1>a, <1>b, <1>4, AgendaAdding DEF level
<1>7. FrameInv(g)
  BY <1>2, <1>5, <1>6 DEF FrameInv, next
<1>. QED
  BY <1>2, <1>7 DEF g

LEMMA EmptyLevelKeeps == ASSUME NEW path PROVE LevelInv(path, EmptyLevel)
<1>1. /\ EmptyLevel.relations = <<>> /\ EmptyLevel.coalesced = [v \in Views |-> [c \in Columns |-> <<>>]]
      /\ DOMAIN EmptyLevel = {"relations", "coalesced"}
  BY DEF EmptyLevel
<1>2. DOMAIN EmptyLevel.relations = {} /\ IsSeq(EmptyLevel.relations)
  BY <1>1, SeqEmpty
<1>3. EmptyLevel.coalesced \in MergedColumns(IdsOf(EmptyLevel))
  BY <1>1 DEF MergedColumns
<1>. QED
  BY <1>1, <1>2, <1>3 DEF LevelInv, StableAfter

LEMMA NewFrame ==
  ASSUME GrammarInv, NEW q \in Nodes.blocks, NEW path, NEW parent, NEW ctes, KeepsLevels(parent), CtesInv(ctes)
  PROVE  LET f == Frame(q, path, parent, ctes)
         IN  FrameInv(f) /\ f.path = path /\ ~Has(f.compoundOrder)
<1> DEFINE f == Frame(q, path, parent, ctes)
<1>1. /\ DOMAIN f = {"query", "path", "parent", "ctes", "level", "joins", "outputs", "compoundOrder", "todo"}
      /\ f.query = q /\ f.path = path /\ f.parent = parent /\ f.ctes = ctes /\ f.level = EmptyLevel /\ f.joins = <<>>
      /\ f.outputs = NoOutputs /\ f.compoundOrder = <<>> /\ f.todo = Agenda(q)
  BY DEF Frame
<1> HIDE DEF f
<1>2. KeepsLevels(<<>>)
  <2>1. DOMAIN <<>> = {}
    OBVIOUS
  <2>. QED
    BY <2>1, SeqEmpty DEF KeepsLevels
<1>3. OutputsInv(NoOutputs)
  BY DEF OutputsInv, NoOutputs, Views
<1>4. FrameInv(f)
  BY <1>1, <1>2, <1>3, EmptyLevelKeeps, FirstAgenda DEF FrameInv
<1>. QED
  BY <1>1, <1>4 DEF Has, f

\* The levels that a nested block sees: one of a block, before those around it.
LEMMA Around ==
  ASSUME NEW level, NEW parent, StableLevel(level), KeepsLevels(parent)
  PROVE  KeepsLevels(<<level>> \o parent) /\ <<level>> \o parent # <<>>
<1> DEFINE one == <<level>>
<1>1. IsSeq(one) /\ Len(one) = 1 /\ one[1] = level
  BY SeqOne
<1>2. IsSeq(parent) /\ Len(parent) \in Nat /\ DOMAIN parent = 1..Len(parent) /\ \A k \in DOMAIN parent : StableLevel(parent[k])
  BY SeqFacts DEF KeepsLevels
<1> HIDE DEF one
<1>3. /\ IsSeq(one \o parent) /\ Len(one \o parent) = Len(one) + Len(parent)
      /\ \A k \in DOMAIN (one \o parent) : (one \o parent)[k] = IF k <= Len(one) THEN one[k] ELSE parent[k - Len(one)]
  BY <1>1, <1>2, SeqConcat
<1>4. \A k \in DOMAIN (one \o parent) : (one \o parent)[k] = IF k <= 1 THEN one[k] ELSE parent[k - 1]
  BY <1>1, <1>3
<1>5. DOMAIN (one \o parent) = 1..(1 + Len(parent)) /\ one \o parent # <<>>
  BY <1>1, <1>2, <1>3, SeqFacts
<1>6. ASSUME NEW k \in 1..(1 + Len(parent)) PROVE StableLevel((one \o parent)[k])
  <2>1. CASE k = 1
    BY <1>1, <1>4, <1>5, <2>1
  <2>2. CASE k # 1
    <3>1. ~(k <= 1) /\ k - 1 \in 1..Len(parent)
      BY <1>2, <2>2
    <3>. QED
      BY <1>2, <1>4, <1>5, <3>1
  <2>. QED
    BY <2>1, <2>2
<1>. QED
  BY <1>3, <1>5, <1>6 DEF KeepsLevels, one

\* The innermost call of build.
LEMMA TopFacts ==
  ASSUME Inv, stack # <<>>
  PROVE  /\ FrameInv(top) /\ OrderOf(top) /\ top.path \in KnownPaths /\ IsSeq(top.path)
         /\ \A n \in 0..Len(top.path) : SubSeq(top.path, 1, n) \in KnownPaths
         /\ top = stack[Len(stack)] /\ Len(stack) \in Nat \ {0} /\ DOMAIN stack = 1..Len(stack)
         /\ IsSeq(Front(stack)) /\ Len(Front(stack)) = Len(stack) - 1
         /\ \A i \in 1..(Len(stack) - 1) : Front(stack)[i] = stack[i]
<1>1. IsSeq(stack)
  BY DEF Inv
<1>2. /\ IsSeq(Front(stack)) /\ Len(Front(stack)) = Len(stack) - 1 /\ Len(stack) \in Nat \ {0} /\ DOMAIN stack = 1..Len(stack)
      /\ \A i \in 1..(Len(stack) - 1) : Front(stack)[i] = stack[i]
  BY <1>1, FrontFacts, SeqFacts
<1>3. top = stack[Len(stack)] /\ Len(stack) \in DOMAIN stack
  BY <1>2 DEF top, Last
<1>4. FrameInv(top) /\ OrderOf(top)
  BY <1>3 DEF Inv
<1>5. top.path \in KnownPaths
  BY <1>3 DEF KnownPaths
<1>. QED
  BY <1>2, <1>3, <1>4, <1>5 DEF Inv, PathsInv

\* The calls under way, when the innermost goes on, calls and returns.
LEMMA StackContinued ==
  ASSUME Inv, stack # <<>>, NEW f, stack' = Front(stack) \o <<f>>
  PROVE  /\ IsSeq(stack') /\ Len(stack') = Len(stack) /\ DOMAIN stack' = 1..Len(stack)
         /\ \A i \in 1..Len(stack) : \/ i = Len(stack) /\ stack'[i] = f
                                     \/ i \in 1..(Len(stack) - 1) /\ i \in DOMAIN stack /\ stack'[i] = stack[i]
<1> DEFINE n == Len(stack)
<1>1. /\ n \in Nat \ {0} /\ DOMAIN stack = 1..n /\ IsSeq(Front(stack)) /\ Len(Front(stack)) = n - 1
      /\ (\A i \in 1..(n - 1) : Front(stack)[i] = stack[i]) /\ top = stack[n]
  BY TopFacts
<1> HIDE DEF n
<1>2. IsSeq(<<f>>) /\ Len(<<f>>) = 1 /\ <<f>>[1] = f
  BY SeqOne
<1>3. /\ IsSeq(stack') /\ Len(stack') = n /\ stack'[n] = f /\ \A i \in 1..(n - 1) : stack'[i] = stack[i]
  <2>1. /\ IsSeq(Front(stack) \o <<f>>) /\ Len(Front(stack) \o <<f>>) = n
        /\ \A i \in 1..(n - 1) : (Front(stack) \o <<f>>)[i] = Front(stack)[i]
        /\ \A i \in 1..1 : (Front(stack) \o <<f>>)[(n - 1) + i] = <<f>>[i]
    BY <1>1, <1>2, SeqConcat
  <2>2. 1 \in 1..1 /\ (n - 1) + 1 = n
    BY <1>1
  <2>. QED
    BY <1>1, <1>2, <2>1, <2>2
<1>4. DOMAIN stack' = 1..n
  BY <1>3, SeqFacts
<1>5. \A i \in 1..n : \/ i = n /\ stack'[i] = f
                      \/ i \in 1..(n - 1) /\ i \in DOMAIN stack /\ stack'[i] = stack[i]
  BY <1>1, <1>3
<1>8. IsSeq(stack') /\ Len(stack') = n
  BY <1>3
<1>. QED
  BY <1>4, <1>5, <1>8 DEF n

LEMMA StackCalled ==
  ASSUME Inv, stack # <<>>, NEW g, NEW child, stack' = Front(stack) \o <<g, child>>
  PROVE  /\ IsSeq(stack') /\ Len(stack') = Len(stack) + 1 /\ DOMAIN stack' = 1..(Len(stack) + 1)
         /\ \A i \in 1..(Len(stack) + 1) : \/ i = Len(stack) + 1 /\ stack'[i] = child
                                           \/ i = Len(stack) /\ stack'[i] = g
                                           \/ i \in 1..(Len(stack) - 1) /\ i \in DOMAIN stack /\ stack'[i] = stack[i]
<1> DEFINE n == Len(stack)
<1>1. /\ n \in Nat \ {0} /\ DOMAIN stack = 1..n /\ IsSeq(Front(stack)) /\ Len(Front(stack)) = n - 1
      /\ (\A i \in 1..(n - 1) : Front(stack)[i] = stack[i]) /\ top = stack[n]
  BY TopFacts
<1>3. stack' = Front(stack) \o <<g, child>>
  OBVIOUS
<1> HIDE DEF n
<1>4. /\ IsSeq(stack') /\ Len(stack') = n + 1 /\ stack'[n] = g /\ stack'[n + 1] = child
      /\ \A i \in 1..(n - 1) : stack'[i] = stack[i]
  <2> DEFINE two == <<g, child>>
  <2>1. IsSeq(two) /\ Len(two) = 2 /\ two[1] = g /\ two[2] = child
    BY SeqTwo
  <2>a. stack' = Front(stack) \o two
    BY <1>3
  <2> HIDE DEF two
  <2> DEFINE front == Front(stack)
  <2>c. IsSeq(front) /\ Len(front) = n - 1 /\ stack' = front \o two
    BY <1>1, <2>a
  <2> HIDE DEF front
  <2>d. /\ IsSeq(front \o two) /\ Len(front \o two) = Len(front) + Len(two)
        /\ \A i \in 1..Len(front) : (front \o two)[i] = front[i]
        /\ \A i \in 1..Len(two) : (front \o two)[Len(front) + i] = two[i]
    <3>1. IsSeq(front) /\ IsSeq(two)
      BY <2>1, <2>c
    <3>. QED
      BY ONLY <3>1, SeqConcat
  <2>b. /\ IsSeq(stack') /\ Len(stack') = Len(Front(stack)) + Len(two)
        /\ \A i \in 1..Len(Front(stack)) : stack'[i] = Front(stack)[i]
        /\ \A i \in 1..Len(two) : stack'[Len(Front(stack)) + i] = two[i]
    BY <2>c, <2>d DEF front
  <2>2. /\ IsSeq(stack') /\ Len(stack') = (n - 1) + 2
        /\ \A i \in 1..(n - 1) : stack'[i] = Front(stack)[i]
        /\ \A i \in 1..2 : stack'[(n - 1) + i] = two[i]
    BY <1>1, <2>1, <2>b
  <2>3. 1 \in 1..2 /\ 2 \in 1..2 /\ (n - 1) + 1 = n /\ (n - 1) + 2 = n + 1
    BY <1>1
  <2>. QED
    BY <1>1, <1>3, <2>1, <2>2, <2>3
<1>5. DOMAIN stack' = 1..(n + 1)
  BY <1>4, SeqFacts
<1>6. \A i \in 1..(n + 1) : \/ i = n + 1 /\ stack'[i] = child
                            \/ i = n /\ stack'[i] = g
                            \/ i \in 1..(n - 1) /\ i \in DOMAIN stack /\ stack'[i] = stack[i]
  BY <1>1, <1>4
<1>8. IsSeq(stack') /\ Len(stack') = n + 1
  BY <1>4
<1>. QED
  BY <1>5, <1>6, <1>8 DEF n

LEMMA StackReturned ==
  ASSUME Inv, stack # <<>>, stack' = Front(stack)
  PROVE  /\ IsSeq(stack') /\ Len(stack') = Len(stack) - 1 /\ DOMAIN stack' = 1..(Len(stack) - 1)
         /\ \A i \in 1..(Len(stack) - 1) : i \in DOMAIN stack /\ stack'[i] = stack[i]
<1>1. /\ Len(stack) \in Nat \ {0} /\ DOMAIN stack = 1..Len(stack) /\ IsSeq(Front(stack)) /\ Len(Front(stack)) = Len(stack) - 1
      /\ (\A i \in 1..(Len(stack) - 1) : Front(stack)[i] = stack[i])
  BY TopFacts
<1>2. DOMAIN Front(stack) = 1..(Len(stack) - 1)
  BY <1>1, SeqFacts
<1>. QED
  BY <1>1, <1>2

\* A step that replaces the innermost frame.
LEMMA Replacing ==
  ASSUME Inv, stack # <<>>, NEW f, FrameInv(f), f.path = top.path,
         Has(f.compoundOrder) => f.compoundOrder[1] \in KnownPaths,
         stack' = Front(stack) \o <<f>>, UNCHANGED <<query, schema, returned>>,
         {s.path : s \in scopes'} = {s.path : s \in scopes},
         \A s \in scopes' : ScopeInv(s) /\ (Has(s.compoundOrder) => s.compoundOrder[1] \in KnownPaths)
  PROVE  Inv'
<1> DEFINE n == Len(stack)
<1>1. /\ n \in Nat \ {0} /\ DOMAIN stack = 1..n /\ IsSeq(Front(stack)) /\ Len(Front(stack)) = n - 1
      /\ (\A i \in 1..(n - 1) : Front(stack)[i] = stack[i]) /\ top = stack[n]
  BY TopFacts
<1> HIDE DEF n
<1>3. /\ IsSeq(stack') /\ DOMAIN stack' = 1..n
      /\ \A i \in 1..n : \/ i = n /\ stack'[i] = f
                         \/ i \in 1..(n - 1) /\ i \in DOMAIN stack /\ stack'[i] = stack[i]
  BY <1>1, StackContinued DEF n
<1>4. DOMAIN stack' = 1..n
  BY <1>3
<1>5. \A i \in 1..n : \/ i = n /\ stack'[i] = f
                      \/ i \in 1..(n - 1) /\ i \in DOMAIN stack /\ stack'[i] = stack[i]
  BY <1>3
<1>6. KnownPaths' = KnownPaths
  <2>1. {stack'[i].path : i \in 1..n} = {stack[i].path : i \in 1..n}
    <3>1. \A i \in 1..n : stack'[i].path = stack[i].path
      BY <1>1, <1>5
    <3>. QED
      BY <3>1
  <2>. QED
    BY <1>1, <1>4, <2>1 DEF KnownPaths
<1>7. PathsInv'
  BY <1>6 DEF PathsInv, Inv
<1>8. \A i \in DOMAIN stack' : FrameInv(stack'[i]) /\ (Has(stack'[i].compoundOrder) => stack'[i].compoundOrder[1] \in KnownPaths)
  BY <1>4, <1>5 DEF Inv, OrderOf
<1>9. OutputsInv(returned) /\ schema["given"] \subseteq schema["full"] /\ GrammarInv
  BY DEF Inv
<1>. QED
  BY <1>3, <1>6, <1>7, <1>8, <1>9 DEF Inv, OrderOf

LEMMA Continuing ==
  ASSUME Inv, stack # <<>>, top.todo # <<>>, NEW f, FrameInv(f), f.path = top.path, f.todo # <<>>,
         f.compoundOrder = top.compoundOrder, NEW next,
         NextInv(next, f.query, f.level, f.joins, Tail(f.todo)), Continue(f, next)
  PROVE  Inv'
<1>1. FrameInv(Goes(f, next)) /\ Goes(f, next).path = f.path /\ Goes(f, next).compoundOrder = f.compoundOrder
  BY GoesKeeps DEF Inv
<1>2. Has(Goes(f, next).compoundOrder) => Goes(f, next).compoundOrder[1] \in KnownPaths
  BY <1>1, TopFacts DEF OrderOf
<1>3. \A s \in scopes : ScopeInv(s) /\ (Has(s.compoundOrder) => s.compoundOrder[1] \in KnownPaths)
  BY DEF Inv, OrderOf
<1> DEFINE g == Goes(f, next)
<1>4. stack' = Front(stack) \o <<g>> /\ UNCHANGED <<query, schema, returned>> /\ scopes' = scopes
  BY DEF Continue
<1> HIDE DEF g
<1>5. FrameInv(g) /\ g.path = top.path /\ (Has(g.compoundOrder) => g.compoundOrder[1] \in KnownPaths)
  BY <1>1, <1>2 DEF g
<1>. QED
  BY <1>3, <1>4, <1>5, Replacing

\* A step that calls build for a nested query, whose path goes on from that of
\* the innermost frame.
LEMMA Calling ==
  ASSUME Inv, stack # <<>>, NEW f, FrameInv(f), f.path = top.path, f.todo # <<>>, f.compoundOrder = top.compoundOrder,
         NEW next, NextInv(next, f.query, f.level, f.joins, Tail(f.todo)),
         NEW child, FrameInv(child), ~Has(child.compoundOrder), NEW step, child.path = Append(top.path, step),
         Call(f, child, next)
  PROVE  Inv'
<1> DEFINE n == Len(stack)
           g == Goes(f, next)
<1>1. /\ n \in Nat \ {0} /\ DOMAIN stack = 1..n /\ IsSeq(Front(stack)) /\ Len(Front(stack)) = n - 1
      /\ (\A i \in 1..(n - 1) : Front(stack)[i] = stack[i]) /\ top = stack[n]
  BY TopFacts
<1>2. FrameInv(g) /\ g.path = top.path /\ g.compoundOrder = top.compoundOrder
  BY GoesKeeps DEF Inv
<1>3. stack' = Front(stack) \o <<g, child>> /\ UNCHANGED <<query, schema, scopes, returned>>
  BY DEF Call
<1> HIDE DEF n, g
<1>4. IsSeq(stack')
  BY <1>3, StackCalled
<1>5. DOMAIN stack' = 1..(n + 1)
  BY <1>3, StackCalled DEF n
<1>6. \A i \in 1..(n + 1) : \/ i = n + 1 /\ stack'[i] = child
                            \/ i = n /\ stack'[i] = g
                            \/ i \in 1..(n - 1) /\ i \in DOMAIN stack /\ stack'[i] = stack[i]
  BY <1>3, StackCalled DEF n
<1>7. KnownPaths' = KnownPaths \cup {child.path}
  <2>1. {stack'[i].path : i \in 1..(n + 1)} = {stack[i].path : i \in 1..n} \cup {child.path}
    <3>1. \A i \in 1..n : i \in 1..(n + 1) /\ stack'[i].path = stack[i].path
      BY <1>1, <1>2, <1>6
    <3>2. n + 1 \in 1..(n + 1) /\ stack'[n + 1].path = child.path
      <4>1. n + 1 \in 1..(n + 1) /\ n + 1 # n /\ n + 1 \notin 1..(n - 1)
        BY <1>1
      <4>2. stack'[n + 1] = child
        BY <1>6, <4>1
      <4>. QED
        BY <4>1, <4>2
    <3>3. \A i \in 1..(n + 1) : i = n + 1 \/ i \in 1..n
      BY <1>1
    <3>. QED
      BY <3>1, <3>2, <3>3
  <2>. QED
    BY <1>1, <1>3, <1>5, <2>1 DEF KnownPaths
<1>8. PathsInv'
  <2>1. /\ IsSeq(top.path) /\ (\A m \in 0..Len(top.path) : SubSeq(top.path, 1, m) \in KnownPaths)
        /\ Len(top.path) \in Nat
    BY TopFacts, SeqFacts
  <2>2. IsSeq(child.path) /\ Len(child.path) = Len(top.path) + 1
    BY <2>1, SeqAppend
  <2>3. \A m \in 0..Len(child.path) : SubSeq(child.path, 1, m) = IF m <= Len(top.path) THEN SubSeq(top.path, 1, m) ELSE child.path
    BY <2>1, Beginnings
  <2>4. ASSUME NEW m \in 0..Len(child.path) PROVE SubSeq(child.path, 1, m) \in KnownPaths'
    <3>1. CASE m <= Len(top.path)
      <4>1. m \in 0..Len(top.path)
        BY <2>1, <2>2, <3>1
      <4>2. SubSeq(child.path, 1, m) = SubSeq(top.path, 1, m)
        BY <2>3, <3>1
      <4>. QED
        BY <1>7, <2>1, <4>1, <4>2
    <3>2. CASE ~(m <= Len(top.path))
      <4>1. SubSeq(child.path, 1, m) = child.path
        BY <2>3, <3>2
      <4>. QED
        BY <1>7, <4>1
    <3>. QED
      BY <3>1, <3>2
  <2>5. \A p \in KnownPaths : IsSeq(p) /\ \A m \in 0..Len(p) : SubSeq(p, 1, m) \in KnownPaths'
    BY <1>7 DEF PathsInv, Inv
  <2>. QED
    BY <1>7, <2>2, <2>4, <2>5 DEF PathsInv
<1>9. \A i \in DOMAIN stack' : FrameInv(stack'[i]) /\ (Has(stack'[i].compoundOrder) => stack'[i].compoundOrder[1] \in KnownPaths')
  <2>1. \A i \in DOMAIN stack : FrameInv(stack[i]) /\ (Has(stack[i].compoundOrder) => stack[i].compoundOrder[1] \in KnownPaths')
    BY <1>7 DEF Inv, OrderOf
  <2>2. Has(g.compoundOrder) => g.compoundOrder[1] \in KnownPaths'
    BY <1>2, <1>7, TopFacts DEF OrderOf
  <2>. QED
    BY <1>2, <1>5, <1>6, <2>1, <2>2
<1>10. \A s \in scopes' : ScopeInv(s) /\ (Has(s.compoundOrder) => s.compoundOrder[1] \in KnownPaths')
  BY <1>3, <1>7 DEF Inv, OrderOf
<1>11. OutputsInv(returned') /\ schema'["given"] \subseteq schema'["full"] /\ GrammarInv
  BY <1>3 DEF Inv
<1>. QED
  BY <1>4, <1>8, <1>9, <1>10, <1>11 DEF Inv, OrderOf

\* A block is finished: its scope takes the place of its frame.
LEMMA Returning == ASSUME Inv, Return PROVE Inv'
<1> DEFINE n == Len(stack)
           s == [path |-> top.path, query |-> top.query, chain |-> <<top.level>> \o top.parent,
                 joins |-> top.joins, ctes |-> top.ctes, outputs |-> top.outputs, compoundOrder |-> top.compoundOrder]
<1>1. stack # <<>> /\ stack' = Front(stack) /\ returned' = top.outputs /\ scopes' = scopes \cup {s} /\ UNCHANGED schema
  BY DEF Return
<1>2. /\ n \in Nat \ {0} /\ DOMAIN stack = 1..n /\ IsSeq(Front(stack)) /\ Len(Front(stack)) = n - 1
      /\ (\A i \in 1..(n - 1) : Front(stack)[i] = stack[i]) /\ top = stack[n]
  BY <1>1, TopFacts
<1>3. FrameInv(top) /\ (Has(top.compoundOrder) => top.compoundOrder[1] \in KnownPaths)
  BY <1>1, TopFacts DEF OrderOf
<1>4. ScopeInv(s) /\ s.path = top.path /\ s.compoundOrder = top.compoundOrder
  <2>1. LevelInv(top.path, top.level) /\ KeepsLevels(top.parent) /\ KeepsLevels(top.joins) /\ OutputsInv(top.outputs)
    BY <1>3 DEF FrameInv
  <2>2. KeepsLevels(<<top.level>> \o top.parent) /\ <<top.level>> \o top.parent # <<>>
    BY <2>1, WholeStable, Around
  <2>. QED
    BY <2>1, <2>2 DEF ScopeInv
<1> HIDE DEF n, s
<1>5. IsSeq(stack') /\ DOMAIN stack' = 1..(n - 1) /\ \A i \in 1..(n - 1) : i \in DOMAIN stack /\ stack'[i] = stack[i]
  BY <1>1, StackReturned DEF n
<1>6. KnownPaths' = KnownPaths
  <2>1. {stack[i].path : i \in 1..n} = {stack'[i].path : i \in 1..(n - 1)} \cup {top.path}
    <3>1. \A i \in 1..n : i = n \/ i \in 1..(n - 1)
      BY <1>2
    <3>2. n \in 1..n /\ \A i \in 1..(n - 1) : i \in 1..n
      BY <1>2
    <3>. QED
      BY <1>2, <1>5, <3>1, <3>2
  <2>. QED
    BY <1>1, <1>2, <1>4, <1>5, <2>1 DEF KnownPaths
<1>7. PathsInv'
  BY <1>6 DEF PathsInv, Inv
<1>8. \A i \in DOMAIN stack' : FrameInv(stack'[i]) /\ (Has(stack'[i].compoundOrder) => stack'[i].compoundOrder[1] \in KnownPaths')
  BY <1>5, <1>6 DEF Inv, OrderOf
<1>9. \A r \in scopes' : ScopeInv(r) /\ (Has(r.compoundOrder) => r.compoundOrder[1] \in KnownPaths')
  BY <1>1, <1>3, <1>4, <1>6 DEF Inv, OrderOf
<1>10. OutputsInv(returned') /\ schema'["given"] \subseteq schema'["full"] /\ GrammarInv
  BY <1>1, <1>3 DEF Inv, FrameInv
<1>. QED
  BY <1>5, <1>7, <1>8, <1>9, <1>10 DEF Inv, OrderOf

(***************************************************************************)
(* Each step keeps what is known                                            *)
(***************************************************************************)
LEMMA DoingFacts ==
  ASSUME Inv, NEW do, Doing(do)
  PROVE  /\ stack # <<>> /\ top.todo # <<>> /\ FrameInv(top) /\ GrammarInv
         /\ Head(top.todo).do = do /\ Head(top.todo).what = what
         /\ TodoInv(Head(top.todo), top.query, top.level, top.joins)
         /\ AgendaInv(top.query, top.level, top.joins, Tail(top.todo))
         /\ do # "subquery" => Len(top.query.where) <= Len(Tail(top.todo))
         /\ do \in {"join", "joined"} =>
              \A j \in DOMAIN Tail(top.todo) : Marked(Tail(top.todo)[j]) => High(Tail(top.todo)[j]) <= what.start
<1>1. stack # <<>> /\ top.todo # <<>> /\ Head(top.todo).do = do /\ Head(top.todo).what = what
  BY DEF Doing, what
<1>2. FrameInv(top) /\ GrammarInv
  BY <1>1, TopFacts DEF Inv
<1>3. AgendaInv(top.query, top.level, top.joins, top.todo)
  BY <1>2 DEF FrameInv
<1>4. /\ AgendaInv(top.query, top.level, top.joins, Tail(top.todo))
      /\ TodoInv(Head(top.todo), top.query, top.level, top.joins)
      /\ Head(top.todo).do # "subquery" => Len(top.query.where) <= Len(Tail(top.todo))
      /\ Marked(Head(top.todo)) =>
           \A j \in DOMAIN Tail(top.todo) : Marked(Tail(top.todo)[j]) => High(Tail(top.todo)[j]) <= Head(top.todo).what.start
  BY <1>1, <1>3, AgendaTail
<1>. QED
  BY <1>1, <1>2, <1>4 DEF Marked

\* The schemas of the two views give a CTE or a relation the same columns, if they
\* are known, when they are the outputs of the block that was built last.
LEMMA OutputColumnsAlike ==
  ASSUME Inv, NEW aliases
  PROVE  returned.complete["given"] =>
           returned.complete["full"] /\ OutputColumns(aliases)["given"] = OutputColumns(aliases)["full"]
BY DEF Inv, OutputsInv, OutputColumns, Views

LEMMA CtesKeep ==
  ASSUME NEW f, FrameInv(f), NEW name \in Tables, NEW cte, cte.declared => Sure(cte),
         NEW g, g = [f EXCEPT !.ctes[name] = cte]
  PROVE  /\ FrameInv(g) /\ CtesInv(g.ctes) /\ g.path = f.path /\ g.todo = f.todo /\ g.compoundOrder = f.compoundOrder
         /\ g.query = f.query /\ g.level = f.level /\ g.joins = f.joins
<1>1. /\ DOMAIN g = DOMAIN f /\ g.todo = f.todo /\ g.query = f.query /\ g.path = f.path /\ g.parent = f.parent /\ g.level = f.level
      /\ g.joins = f.joins /\ g.outputs = f.outputs /\ g.compoundOrder = f.compoundOrder
      /\ g.ctes = [f.ctes EXCEPT ![name] = cte]
  BY DEF FrameInv
<1>2. CtesInv(g.ctes)
  BY <1>1 DEF FrameInv, CtesInv
<1>. QED
  BY <1>1, <1>2 DEF FrameInv

LEMMA OutputsKeep ==
  ASSUME NEW f, FrameInv(f), NEW outputs, OutputsInv(outputs), NEW g, g = [f EXCEPT !.outputs = outputs]
  PROVE  /\ FrameInv(g) /\ g.path = f.path /\ g.todo = f.todo /\ g.compoundOrder = f.compoundOrder
         /\ g.query = f.query /\ g.level = f.level /\ g.joins = f.joins
<1>1. /\ DOMAIN g = DOMAIN f /\ g.todo = f.todo /\ g.query = f.query /\ g.path = f.path /\ g.parent = f.parent /\ g.level = f.level
      /\ g.joins = f.joins /\ g.ctes = f.ctes /\ g.compoundOrder = f.compoundOrder /\ g.outputs = outputs
  BY DEF FrameInv
<1>. QED
  BY <1>1 DEF FrameInv

LEMMA StepBuildCte == ASSUME Inv, BuildCte PROVE Inv'
<1> DEFINE cte   == top.query.with[what]
           body  == CteBody(cte, what)
           self  == Cte(body, FALSE, Written(cte.columns), [v \in Views |-> cte.columns # <<>>])
           frame == IF cte.recursive THEN [top EXCEPT !.ctes[cte.name] = self] ELSE top
           child == Frame(cte.query, body, top.parent, frame.ctes)
           next  == <<Todo("bind_cte", what)>>
<1>1. Doing("cte") /\ Call(frame, child, next)
  BY DEF BuildCte
<1>2. /\ stack # <<>> /\ top.todo # <<>> /\ FrameInv(top) /\ GrammarInv
      /\ what \in DOMAIN top.query.with /\ Len(top.query.where) <= Len(Tail(top.todo))
  BY <1>1, DoingFacts DEF TodoInv
<1>3. cte.name \in Tables /\ cte.query \in Nodes.blocks
  BY <1>2, Grammar DEF FrameInv
<1>4. Sure(self)
  BY DEF Sure, Cte, Written, Views
<1>5. /\ FrameInv(frame) /\ CtesInv(frame.ctes) /\ frame.path = top.path /\ frame.todo = top.todo
      /\ frame.compoundOrder = top.compoundOrder /\ frame.query = top.query
  <2>1. CASE cte.recursive
    <3> HIDE DEF self, cte
    <3>1. frame = [top EXCEPT !.ctes[cte.name] = self]
      BY <2>1
    <3> HIDE DEF frame
    <3> DEFINE g == [top EXCEPT !.ctes[cte.name] = self]
    <3>2. FrameInv(g) /\ CtesInv(g.ctes)
      BY <1>2, <1>3, <1>4, CtesKeep
    <3>3. g.path = top.path /\ g.todo = top.todo
      BY <1>2, <1>3, <1>4, CtesKeep
    <3>4. g.compoundOrder = top.compoundOrder /\ g.query = top.query
      BY <1>2, <1>3, <1>4, CtesKeep
    <3>. QED
      BY <3>1, <3>2, <3>3, <3>4
  <2>2. CASE ~cte.recursive
    BY <1>2, <2>2 DEF FrameInv
  <2>. QED
    BY <2>1, <2>2
<1>6. body = Append(top.path, Step(IF cte.recursive THEN "recursive" ELSE "cte", what))
  BY DEF CteBody
<1>7. KeepsLevels(top.parent)
  BY <1>2 DEF FrameInv
<1>8. NextInv(next, frame.query, frame.level, frame.joins, Tail(frame.todo))
  <2> DEFINE t == Todo("bind_cte", what)
  <2>1. t.do = "bind_cte" /\ t.what = what
    BY DEF Todo
  <2> HIDE DEF t, frame
  <2>2. TodoInv(t, frame.query, frame.level, frame.joins) /\ t.do # "subquery" /\ ~Marked(t)
    BY <1>2, <1>5, <2>1 DEF TodoInv, Marked
  <2>. QED
    BY <1>2, <1>5, <2>2, OneNext DEF t
<1> HIDE DEF frame, self, cte, body
<1>9. FrameInv(child) /\ child.path = body /\ ~Has(child.compoundOrder)
  BY <1>2, <1>3, <1>5, <1>7, NewFrame
<1> HIDE DEF child, next
<1>. QED
  BY <1>1, <1>2, <1>5, <1>6, <1>8, <1>9, Calling

LEMMA StepBindCte == ASSUME Inv, BindCte PROVE Inv'
<1> DEFINE cte   == top.query.with[what]
           built == Cte(CteBody(cte, what), TRUE, OutputColumns(cte.columns), returned.complete)
           frame == [top EXCEPT !.ctes[cte.name] = built]
<1>1. Doing("bind_cte") /\ Continue(frame, <<>>)
  BY DEF BindCte
<1>2. stack # <<>> /\ top.todo # <<>> /\ FrameInv(top) /\ GrammarInv /\ what \in DOMAIN top.query.with
  BY <1>1, DoingFacts DEF TodoInv
<1>3. cte.name \in Tables
  BY <1>2, Grammar DEF FrameInv
<1>4. Sure(built)
  <2>1. built.known = returned.complete /\ built.columns = OutputColumns(cte.columns)
    BY DEF Cte
  <2>. QED
    BY <2>1, OutputColumnsAlike DEF Sure
<1> HIDE DEF cte, built
<1>5. FrameInv(frame) /\ frame.path = top.path /\ frame.todo = top.todo /\ frame.compoundOrder = top.compoundOrder
  BY <1>2, <1>3, <1>4, CtesKeep
<1> HIDE DEF frame
<1>. QED
  BY <1>1, <1>2, <1>5, NothingNext, Continuing

\* Nothing in front of the agenda but what is no join.
LEMMA PlainNext ==
  ASSUME NEW q, NEW level, NEW joins, NEW rest, NEW next, IsSeq(next), Len(q.where) <= Len(rest),
         \A i \in DOMAIN next : TodoInv(next[i], q, level, joins) /\ next[i].do # "subquery" /\ ~Marked(next[i])
  PROVE  NextInv(next, q, level, joins, rest)
BY DEF NextInv

\* No column is merged from the relations after the last.
LEMMA StableAfterAll ==
  ASSUME NEW path, NEW level, LevelInv(path, level)
  PROVE  Len(level.relations) \in Nat /\ StableAfter(level, Len(level.relations))
<1>1. Len(level.relations) \in Nat /\ DOMAIN level.relations = 1..Len(level.relations)
  BY SeqFacts DEF LevelInv
<1>2. \A i \in DOMAIN level.relations : ~(i > Len(level.relations))
  BY <1>1
<1>. QED
  BY <1>1, <1>2 DEF StableAfter

LEMMA StepCollectTable == ASSUME Inv, CollectTable PROVE Inv'
<1> DEFINE n     == Len(top.level.relations)
           begun == [i \in DOMAIN what.joins |-> Todo("join", [join |-> what.joins[i], start |-> n])]
           first == Todo("item", what.primary)
           next  == <<first>> \o begun
           rest  == Tail(top.todo)
<1>1. Doing("table") /\ Continue(top, next)
  BY DEF CollectTable
<1>2. /\ stack # <<>> /\ top.todo # <<>> /\ FrameInv(top) /\ GrammarInv
      /\ what \in Nodes.tables /\ Len(top.query.where) <= Len(rest)
      /\ AgendaInv(top.query, top.level, top.joins, rest)
  BY <1>1, DoingFacts DEF TodoInv
<1>3. what.primary \in Nodes.items /\ IsSeq(what.joins) /\ \A i \in DOMAIN what.joins : what.joins[i] \in Nodes.joins
  BY <1>2, Grammar
<1>4. n \in Nat /\ StableAfter(top.level, n)
  BY <1>2, StableAfterAll DEF FrameInv
<1>5. /\ IsSeq(begun) /\ Len(begun) \in Nat /\ DOMAIN begun = 1..Len(begun)
      /\ \A i \in DOMAIN begun : /\ begun[i].do = "join" /\ begun[i].what.join \in Nodes.joins /\ begun[i].what.start = n
  <2>1. Len(what.joins) \in Nat /\ DOMAIN what.joins = 1..Len(what.joins)
    BY <1>3, SeqFacts
  <2>2. DOMAIN begun = 1..Len(what.joins) /\ begun = [i \in 1..Len(what.joins) |-> begun[i]]
    BY <2>1
  <2>3. IsSeq(begun)
    BY <2>1, <2>2, SeqNew
  <2>4. \A i \in DOMAIN begun : begun[i] = Todo("join", [join |-> what.joins[i], start |-> n])
    OBVIOUS
  <2>. QED
    BY <1>3, <2>2, <2>3, <2>4, SeqFacts DEF Todo
<1>6. first.do = "item" /\ first.what \in Nodes.items
  BY <1>3 DEF Todo
<1> HIDE DEF n, begun, first
<1>7. /\ IsSeq(next) /\ DOMAIN next = 1..(1 + Len(begun)) /\ next[1] = first
      /\ \A i \in DOMAIN next : i = 1 \/ (i - 1 \in DOMAIN begun /\ next[i] = begun[i - 1])
  <2> DEFINE one == <<first>>
  <2>1. IsSeq(one) /\ Len(one) = 1 /\ one[1] = first
    BY SeqOne
  <2> HIDE DEF one
  <2>2. /\ IsSeq(one \o begun) /\ Len(one \o begun) = Len(one) + Len(begun)
        /\ \A i \in DOMAIN (one \o begun) : (one \o begun)[i] = IF i <= Len(one) THEN one[i] ELSE begun[i - Len(one)]
    BY <1>5, <2>1, SeqConcat
  <2>3. DOMAIN (one \o begun) = 1..(1 + Len(begun))
    BY <1>5, <2>1, <2>2, SeqFacts
  <2>4. \A i \in 1..(1 + Len(begun)) : i = 1 \/ (~(i <= 1) /\ i - 1 \in 1..Len(begun))
    BY <1>5
  <2>5. 1 \in 1..(1 + Len(begun)) /\ 1 <= 1
    BY <1>5
  <2>6. \A i \in DOMAIN (one \o begun) : (one \o begun)[i] = IF i <= 1 THEN one[i] ELSE begun[i - 1]
    BY <2>1, <2>2
  <2>. QED
    BY <1>5, <2>1, <2>2, <2>3, <2>4, <2>5, <2>6 DEF one
<1> HIDE DEF next
<1>8. \A i \in DOMAIN next : \/ next[i].do = "item" /\ next[i].what \in Nodes.items
                             \/ next[i].do = "join" /\ next[i].what.join \in Nodes.joins /\ next[i].what.start = n
  BY <1>5, <1>6, <1>7
<1>9. NextInv(next, top.query, top.level, top.joins, rest)
  <2>1. ASSUME NEW i \in DOMAIN next
        PROVE  /\ TodoInv(next[i], top.query, top.level, top.joins) /\ next[i].do # "subquery"
               /\ Marked(next[i]) => next[i].what.start = n /\ High(next[i]) = n
    <3>1. Marked(next[i]) => next[i].do = "join" /\ next[i].what.start = n /\ High(next[i]) = n /\ MarkInv(next[i], top.level)
      BY <1>4, <1>8 DEF Marked, High, MarkInv, n
    <3>. QED
      BY <1>8, <3>1 DEF TodoInv
  <2>2. \A j \in DOMAIN rest : Marked(rest[j]) => High(rest[j]) <= n
    BY <1>2 DEF AgendaInv, TodoInv, MarkInv, n
  <2>3. n <= n
    BY <1>4
  <2>. QED
    BY <1>2, <1>7, <2>1, <2>2, <2>3 DEF NextInv
<1>. QED
  BY <1>1, <1>2, <1>9, Continuing

LEMMA StepCollectGroup == ASSUME Inv, CollectGroup PROVE Inv'
<1> DEFINE next == [i \in DOMAIN what.items |-> Todo("table", what.items[i])]
<1>1. Doing("item") /\ what.kind = "group" /\ Continue(top, next)
  BY DEF CollectGroup
<1>2. /\ stack # <<>> /\ top.todo # <<>> /\ FrameInv(top) /\ GrammarInv
      /\ what \in Nodes.items /\ Len(top.query.where) <= Len(Tail(top.todo))
  BY <1>1, DoingFacts DEF TodoInv
<1>3. IsSeq(what.items) /\ \A k \in DOMAIN what.items : what.items[k] \in Nodes.tables
  BY <1>1, <1>2, Grammar
<1>4. IsSeq(next)
  <2>1. Len(what.items) \in Nat /\ DOMAIN what.items = 1..Len(what.items)
    BY <1>3, SeqFacts
  <2>2. DOMAIN next = 1..Len(what.items) /\ next = [i \in 1..Len(what.items) |-> next[i]]
    BY <2>1
  <2>. QED
    BY <2>1, <2>2, SeqNew
<1>5. \A i \in DOMAIN next : next[i].do = "table" /\ next[i].what \in Nodes.tables
  BY <1>3 DEF Todo
<1> HIDE DEF next
<1>6. \A i \in DOMAIN next : TodoInv(next[i], top.query, top.level, top.joins) /\ next[i].do # "subquery" /\ ~Marked(next[i])
  BY <1>5 DEF TodoInv, Marked
<1>. QED
  BY <1>1, <1>2, <1>4, <1>6, PlainNext, Continuing

\* A step that adds a relation to the block.
LEMMA Collecting ==
  ASSUME Inv, NEW do, do # "subquery", Doing(do), NEW r, Sure(r), r.id = NextId, Continue(WithRelation(top, r), <<>>)
  PROVE  Inv'
<1> DEFINE f == WithRelation(top, r)
<1>1. stack # <<>> /\ top.todo # <<>> /\ FrameInv(top)
  BY DoingFacts
<1>2. r.id = [owner |-> top.path, index |-> Len(top.level.relations) + 1]
  BY DEF NextId
<1>3. FrameInv(f) /\ f.todo = top.todo /\ f.path = top.path /\ f.compoundOrder = top.compoundOrder
  BY <1>1, <1>2, WithRelationKeeps
<1> HIDE DEF f
<1>4. Continue(f, <<>>)
  BY DEF f
<1>. QED
  BY <1>1, <1>3, <1>4, NothingNext, Continuing

LEMMA StepCollectName == ASSUME Inv, CollectName PROVE Inv'
<1>1. Doing("item") /\ what.kind = "table" /\ Continue(WithRelation(top, TableRelation(what)), <<>>)
  BY DEF CollectName
<1>2. FrameInv(top) /\ GrammarInv /\ what \in Nodes.items
  BY <1>1, DoingFacts DEF TodoInv
<1>3. what.name \in Tables
  BY <1>1, <1>2, Grammar
<1> DEFINE cte == CteFor(what)
           r   == TableRelation(what)
<1>4. cte.declared => Sure(cte)
  BY <1>2, <1>3 DEF CteFor, NoCte, FrameInv, CtesInv
<1> HIDE DEF cte
<1>5. /\ r.id = NextId
      /\ r.known = IF cte.declared THEN cte.known ELSE [v \in Views |-> what.name \in schema[v]]
      /\ r.columns = CASE what.columns # <<>> -> Written(what.columns)
                       [] what.columns = <<>> /\ cte.declared -> cte.columns
                       [] OTHER -> [v \in Views |-> IF what.name \in schema[v] THEN Catalog[what.name] ELSE <<>>]
  BY DEF TableRelation, cte
<1> HIDE DEF r
<1>6. Sure(r)
  <2>. "given" \in Views /\ "full" \in Views /\ schema["given"] \subseteq schema["full"]
    BY DEF Views, Inv
  <2>1. Written(what.columns)["given"] = Written(what.columns)["full"]
    BY DEF Written
  <2>2. CASE cte.declared
    BY <1>4, <1>5, <2>1, <2>2 DEF Sure
  <2>3. CASE ~cte.declared
    BY <1>5, <2>1, <2>3 DEF Sure
  <2>. QED
    BY <2>2, <2>3
<1>. QED
  BY <1>1, <1>5, <1>6, Collecting DEF r

LEMMA StepCollectFunctionOrRaw == ASSUME Inv, CollectFunctionOrRaw PROVE Inv'
<1> DEFINE columns == IF what.columns = <<>> /\ what.kind = "table_function" THEN <<what.name>> ELSE what.columns
           r == [id |-> NextId, name |-> what.name, alias |-> what.alias, qualified |-> FALSE, kind |-> what.kind,
                 body |-> <<>>, built |-> FALSE, args |-> what.args, columns |-> Written(columns),
                 known |-> [v \in Views |-> columns # <<>>]]
<1>1. Doing("item") /\ Continue(WithRelation(top, r), <<>>)
  BY DEF CollectFunctionOrRaw
<1>2. r.id = NextId /\ r.columns = Written(columns) /\ r.known = [v \in Views |-> columns # <<>>]
  OBVIOUS
<1> HIDE DEF r, columns
<1>3. Sure(r)
  BY <1>2 DEF Sure, Written, Views
<1>. QED
  BY <1>1, <1>2, <1>3, Collecting

LEMMA StepBindDerived == ASSUME Inv, BindDerived PROVE Inv'
<1> DEFINE r == [id |-> NextId, name |-> what.alias, alias |-> what.alias, qualified |-> FALSE, kind |-> "derived",
                 body |-> DerivedBody(what), built |-> TRUE, args |-> <<>>,
                 columns |-> OutputColumns(what.columns), known |-> returned.complete]
<1>1. Doing("bind_derived") /\ Continue(WithRelation(top, r), <<>>)
  BY DEF BindDerived
<1>2. r.id = NextId /\ r.columns = OutputColumns(what.columns) /\ r.known = returned.complete
  OBVIOUS
<1> HIDE DEF r
<1>3. Sure(r)
  BY <1>2, OutputColumnsAlike DEF Sure
<1>. QED
  BY <1>1, <1>2, <1>3, Collecting

\* A step that builds a nested query and binds it afterwards.
LEMMA CallingOne ==
  ASSUME Inv, NEW do, do # "subquery", Doing(do), NEW q \in Nodes.blocks, NEW step, NEW path, path = Append(top.path, step),
         NEW parent, KeepsLevels(parent), NEW t, t.do # "subquery", ~Marked(t), TodoInv(t, top.query, top.level, top.joins),
         Call(top, Frame(q, path, parent, top.ctes), <<t>>)
  PROVE  Inv'
<1> DEFINE child == Frame(q, path, parent, top.ctes)
           next  == <<t>>
<1>1. /\ stack # <<>> /\ top.todo # <<>> /\ FrameInv(top) /\ GrammarInv /\ Len(top.query.where) <= Len(Tail(top.todo))
  BY DoingFacts
<1>2. NextInv(next, top.query, top.level, top.joins, Tail(top.todo))
  BY <1>1, OneNext
<1>3. CtesInv(top.ctes)
  BY <1>1 DEF FrameInv
<1>4. FrameInv(child) /\ child.path = path /\ ~Has(child.compoundOrder)
  <2>1. GrammarInv /\ q \in Nodes.blocks /\ KeepsLevels(parent) /\ CtesInv(top.ctes)
    BY <1>1, <1>3
  <2>. QED
    BY ONLY <2>1, NewFrame
<1>5. Call(top, child, next)
  OBVIOUS
<1> HIDE DEF child, next
<1>. QED
  BY <1>1, <1>2, <1>4, <1>5, Calling

LEMMA StepBuildDerived == ASSUME Inv, BuildDerived PROVE Inv'
<1> DEFINE outer == IF what.lateral THEN <<top.level>> \o top.parent ELSE top.parent
           t     == Todo("bind_derived", what)
           step  == Step(IF what.lateral THEN "lateral" ELSE "derived", NextId.index)
<1>1. Doing("item") /\ what.kind = "derived" /\ Call(top, Frame(what.query, DerivedBody(what), outer, top.ctes), <<t>>)
  BY DEF BuildDerived
<1>2. FrameInv(top) /\ GrammarInv /\ what \in Nodes.items
  BY <1>1, DoingFacts DEF TodoInv
<1>3. what.query \in Nodes.blocks
  BY <1>1, <1>2, Grammar
<1>4. KeepsLevels(outer)
  BY <1>2, WholeStable, Around DEF FrameInv
<1>5. DerivedBody(what) = Append(top.path, step)
  BY DEF DerivedBody
<1>6. t.do = "bind_derived"
  BY DEF Todo
<1> HIDE DEF outer, t, step
<1>7. t.do # "subquery" /\ ~Marked(t) /\ TodoInv(t, top.query, top.level, top.joins)
  BY <1>6 DEF TodoInv, Marked
<1>. QED
  BY <1>1, <1>3, <1>4, <1>5, <1>7, CallingOne

LEMMA StepBuildLeft == ASSUME Inv, BuildLeft PROVE Inv'
<1> DEFINE t == Todo("bind_left", 1)
<1>1. Doing("left") /\ Call(top, Frame(top.query.left[1], Append(top.path, Step("left", 1)), top.parent, top.ctes), <<t>>)
  BY DEF BuildLeft
<1>2. FrameInv(top) /\ GrammarInv /\ Has(top.query.left)
  BY <1>1, DoingFacts DEF TodoInv
<1>3. top.query.left[1] \in Nodes.blocks /\ KeepsLevels(top.parent)
  BY <1>2, Grammar DEF FrameInv
<1>4. t.do = "bind_left"
  BY DEF Todo
<1> HIDE DEF t
<1>5. t.do # "subquery" /\ ~Marked(t) /\ TodoInv(t, top.query, top.level, top.joins)
  BY <1>4 DEF TodoInv, Marked
<1>. QED
  BY <1>1, <1>3, <1>5, CallingOne

LEMMA StepBuildRight == ASSUME Inv, BuildRight PROVE Inv'
<1> DEFINE t == Todo("bind_right", 1)
<1>1. Doing("right") /\ Call(top, Frame(top.query.right[1], Append(top.path, Step("right", 1)), top.parent, top.ctes), <<t>>)
  BY DEF BuildRight
<1>2. FrameInv(top) /\ GrammarInv /\ Has(top.query.right)
  BY <1>1, DoingFacts DEF TodoInv
<1>3. top.query.right[1] \in Nodes.blocks /\ KeepsLevels(top.parent)
  BY <1>2, Grammar DEF FrameInv
<1>4. t.do = "bind_right"
  BY DEF Todo
<1> HIDE DEF t
<1>5. t.do # "subquery" /\ ~Marked(t) /\ TodoInv(t, top.query, top.level, top.joins)
  BY <1>4 DEF TodoInv, Marked
<1>. QED
  BY <1>1, <1>3, <1>5, CallingOne

LEMMA StepBuildSubquery == ASSUME Inv, BuildSubquery PROVE Inv'
<1> DEFINE level == IF what.role = "on" THEN top.joins[what.index] ELSE top.level
           child == Frame(what.query, Append(top.path, Step(what.role, what.index)), <<level>> \o top.parent, top.ctes)
<1>1. Doing("subquery") /\ Call(top, child, <<>>)
  BY DEF BuildSubquery
<1>2. /\ stack # <<>> /\ top.todo # <<>> /\ FrameInv(top) /\ GrammarInv
      /\ what.query \in Nodes.blocks /\ (what.role = "on" => what.index \in DOMAIN top.joins)
  BY <1>1, DoingFacts DEF TodoInv
<1>3. StableLevel(level)
  <2>1. StableLevel(top.level) /\ KeepsLevels(top.joins)
    BY <1>2, WholeStable DEF FrameInv
  <2>. QED
    BY <1>2, <2>1 DEF KeepsLevels
<1> HIDE DEF level
<1>4. KeepsLevels(<<level>> \o top.parent) /\ CtesInv(top.ctes)
  BY <1>2, <1>3, Around DEF FrameInv
<1>5. FrameInv(child) /\ child.path = Append(top.path, Step(what.role, what.index)) /\ ~Has(child.compoundOrder)
  BY <1>2, <1>4, NewFrame
<1> HIDE DEF child
<1>. QED
  BY <1>1, <1>2, <1>5, NothingNext, Calling

(***************************************************************************)
(* Joins                                                                    *)
(***************************************************************************)
LEMMA StepJoin == ASSUME Inv, Join PROVE Inv'
<1> DEFINE n     == Len(top.level.relations)
           first == Todo("item", what.join.right)
           last  == Todo("joined", [join |-> what.join, start |-> what.start, left |-> From(top.level, what.start), before |-> n])
           next  == <<first, last>>
           rest  == Tail(top.todo)
<1>1. Doing("join") /\ Continue(top, next)
  BY DEF Join
<1>2. /\ stack # <<>> /\ top.todo # <<>> /\ FrameInv(top) /\ GrammarInv
      /\ Len(top.query.where) <= Len(rest)
      /\ \A j \in DOMAIN rest : Marked(rest[j]) => High(rest[j]) <= what.start
  BY <1>1, DoingFacts
<1>3. /\ what.join \in Nodes.joins /\ what.start \in Nat /\ what.start <= n
      /\ StableAfter(top.level, what.start)
  BY <1>1, DoingFacts DEF TodoInv, Marked, MarkInv, High
<1>4. what.join.right \in Nodes.items
  BY <1>2, <1>3, Grammar
<1>5. n \in Nat /\ StableAfter(top.level, n) /\ LevelInv(top.path, top.level)
  BY <1>2, StableAfterAll DEF FrameInv
<1>6. LeftInv(From(top.level, what.start), top.level, what.start, n)
  <2>1. StableLevel(From(top.level, what.start))
    BY <1>3, <1>5, FromStable
  <2>2. /\ From(top.level, what.start).coalesced = top.level.coalesced
        /\ From(top.level, what.start).relations = SubSeq(top.level.relations, what.start + 1, n)
    BY <1>3, <1>5, FromFacts DEF LevelInv
  <2>. QED
    BY <1>5, <2>1, <2>2 DEF LeftInv, LevelInv
<1>7. first.do = "item" /\ first.what \in Nodes.items
  BY <1>4 DEF Todo
<1>8. /\ last.do = "joined" /\ last.what.join = what.join /\ last.what.start = what.start /\ last.what.before = n
      /\ last.what.left = From(top.level, what.start)
  BY DEF Todo
<1>9. IsSeq(next) /\ DOMAIN next = {1, 2} /\ next[1] = first /\ next[2] = last
  BY SeqTwo, SeqFacts
<1> HIDE DEF first, last, next
<1>10. TodoInv(first, top.query, top.level, top.joins) /\ ~Marked(first) /\ first.do # "subquery"
  BY <1>7 DEF TodoInv, Marked
<1>11. High(last) = n
  BY <1>8 DEF High
<1>12. TodoInv(last, top.query, top.level, top.joins) /\ last.do # "subquery"
  <2>1. MarkInv(last, top.level)
    BY <1>3, <1>5, <1>6, <1>8, <1>11 DEF MarkInv
  <2>. QED
    BY <1>8, <2>1 DEF TodoInv
<1>13. NextInv(next, top.query, top.level, top.joins, rest)
  <2>1. \A i \in DOMAIN next : TodoInv(next[i], top.query, top.level, top.joins) /\ next[i].do # "subquery"
    BY <1>9, <1>10, <1>12
  <2>2. \A i, j \in DOMAIN next : i < j => ~Marked(next[i])
    BY <1>9, <1>10
  <2>3. \A i \in DOMAIN next : Marked(next[i]) => next[i].what.start = what.start
    BY <1>8, <1>9, <1>10
  <2>. QED
    BY <1>2, <1>9, <2>1, <2>2, <2>3 DEF NextInv
<1>. QED
  BY <1>1, <1>2, <1>13, Continuing

\* USING merges columns of a join: the joins around it are as they were, and what
\* subqueries its condition has wait with the others.
LEMMA AgendaJoining ==
  ASSUME NEW level, NEW next, next.relations = level.relations, NEW start \in Nat,
         \A m \in Nat : m <= start /\ StableAfter(level, m) => StableAfter(next, m),
         NEW q, NEW joins, NEW more, DOMAIN joins \subseteq DOMAIN more,
         NEW todo, AgendaInv(q, level, joins, todo),
         \A j \in DOMAIN todo : Marked(todo[j]) => High(todo[j]) <= start
  PROVE  AgendaInv(q, next, more, todo)
<1>1. IdsOf(next) = IdsOf(level)
  BY DEF IdsOf
<1>2. ASSUME NEW t, MarkInv(t, level), High(t) <= start PROVE MarkInv(t, next)
  <2>1. /\ t.what.start \in Nat /\ High(t) \in Nat /\ t.what.start <= High(t)
    BY <1>2 DEF MarkInv
  <2>2. t.what.start <= start
    BY <1>2, <2>1
  <2>3. StableAfter(next, t.what.start) /\ StableAfter(next, High(t))
    BY <1>2, <2>1, <2>2 DEF MarkInv
  <2>4. t.do = "joined" => LeftInv(t.what.left, next, t.what.start, t.what.before)
    BY <1>1, <1>2 DEF MarkInv, LeftInv
  <2>. QED
    BY <1>2, <2>3, <2>4 DEF MarkInv
<1>3. ASSUME NEW j \in DOMAIN todo PROVE TodoInv(todo[j], q, next, more)
  <2>1. TodoInv(todo[j], q, level, joins)
    BY DEF AgendaInv
  <2>2. Marked(todo[j]) => MarkInv(todo[j], next)
    BY <1>2, <2>1 DEF TodoInv
  <2>. QED
    BY <2>1, <2>2 DEF TodoInv
<1>. QED
  BY <1>3 DEF AgendaInv

\* What is left to do with the subqueries of a join before those of WHERE.
LEMMA JoinedAgenda ==
  ASSUME IsSeq(top.todo), top.todo # <<>>, Len(top.query.where) \in Nat, Len(top.query.where) <= Len(Tail(top.todo)),
         NEW subs, IsSeq(subs)
  PROVE  LET rest == Tail(top.todo)
             n    == Len(rest) - Len(top.query.where)
         IN  /\ n \in Nat /\ n + Len(top.query.where) = Len(rest) /\ IsSeq(rest)
             /\ Tail(BeforeWhere(top.todo, subs)) = Inserted(rest, subs, n)
<1> DEFINE rest == Tail(top.todo)
           w    == Len(top.query.where)
           n    == Len(rest) - w
           r    == Len(rest)
           t    == Len(top.todo)
<1>1. IsSeq(rest) /\ r \in Nat /\ t = r + 1 /\ w \in Nat /\ w <= r /\ n = r - w
  BY SeqTail, SeqFacts
<1> HIDE DEF r, t, w, n
<1>2. n \in Nat /\ n + w = r /\ n + 1 <= t /\ t - w = n + 1 /\ (n + 1) + 1 = n + 2
  BY <1>1
<1>3. BeforeWhere(top.todo, subs) = SubSeq(top.todo, 1, n + 1) \o subs \o SubSeq(top.todo, n + 2, Len(top.todo))
  BY <1>2 DEF BeforeWhere, t, w
<1>4. Tail(SubSeq(top.todo, 1, n + 1) \o subs \o SubSeq(top.todo, n + 2, Len(top.todo))) =
        SubSeq(Tail(top.todo), 1, n) \o subs \o SubSeq(Tail(top.todo), n + 1, Len(Tail(top.todo)))
  BY <1>2, TailInserted DEF t
<1>. QED
  BY <1>1, <1>2, <1>3, <1>4 DEF Inserted, n, w, r

LEMMA StepJoined == ASSUME Inv, Joined PROVE Inv'
<1> DEFINE old    == top.level
           right  == From(old, what.before)
           level  == Coalesce(old, what.left, right, what.join.using)
           mine   == [i \in DOMAIN what.join.on |-> From(level, what.start)]
           joins  == top.joins \o mine
           number == Len(top.joins)
           subs   == OnSubqueries(what.join, number)
           todo   == BeforeWhere(top.todo, subs)
           frame  == [top EXCEPT !.level = level,
                                 !.joins = @ \o mine,
                                 !.todo  = BeforeWhere(@, subs)]
           rest   == Tail(top.todo)
           q      == top.query
           start  == what.start
           before == what.before
<1>1. Doing("joined") /\ Continue(frame, <<>>)
  BY DEF Joined
<1>2. /\ stack # <<>> /\ top.todo # <<>> /\ FrameInv(top) /\ GrammarInv
      /\ Len(q.where) <= Len(rest) /\ AgendaInv(q, old, top.joins, rest)
      /\ \A j \in DOMAIN rest : Marked(rest[j]) => High(rest[j]) <= start
  BY <1>1, DoingFacts
<1>3. /\ what.join \in Nodes.joins /\ start \in Nat /\ before \in Nat /\ start <= before /\ before <= Len(old.relations)
      /\ StableAfter(old, start) /\ StableAfter(old, before) /\ LeftInv(what.left, old, start, before)
  BY <1>1, DoingFacts DEF TodoInv, Marked, MarkInv, High
<1>4. LevelInv(top.path, old) /\ KeepsLevels(top.joins) /\ IsSeq(top.todo) /\ top.todo # <<>> /\ q \in Nodes.blocks
  BY <1>2 DEF FrameInv, AgendaInv
<1>5. /\ LevelInv(top.path, level) /\ level.relations = old.relations
      /\ \A m \in Nat : m <= start /\ StableAfter(old, m) => StableAfter(level, m)
  <2> DEFINE left  == what.left
             using == what.join.using
  <2>1. EndsInv(top.path, old, left, start, before)
    BY <1>3, <1>4 DEF EndsInv
  <2>2. level = Coalesce(old, left, From(old, before), using)
    OBVIOUS
  <2> HIDE DEF old, left, using, start, before, level
  <2>. QED
    BY <2>1, <2>2, Joining
<1>6. /\ DOMAIN frame = DOMAIN top /\ frame.level = level /\ frame.joins = joins /\ frame.todo = todo
      /\ frame.query = top.query /\ frame.path = top.path /\ frame.parent = top.parent /\ frame.ctes = top.ctes
      /\ frame.outputs = top.outputs /\ frame.compoundOrder = top.compoundOrder
  BY <1>2 DEF FrameInv
<1> HIDE DEF old, right, level, subs, frame
<1>7. KeepsLevels(joins) /\ DOMAIN top.joins \subseteq DOMAIN joins /\ \A i \in DOMAIN what.join.on : number + i \in DOMAIN joins
  <2> DEFINE n == Len(what.join.on)
  <2>1. /\ IsSeq(top.joins) /\ number \in Nat /\ DOMAIN top.joins = 1..number
        /\ \A k \in DOMAIN top.joins : StableLevel(top.joins[k])
    BY <1>4, SeqFacts DEF KeepsLevels
  <2>2. n \in Nat /\ DOMAIN what.join.on = 1..n
    BY <1>2, <1>3, Grammar, SeqFacts
  <2> DEFINE joined == From(level, start)
  <2>3. StableLevel(joined)
    <3>1. start <= start /\ start <= Len(level.relations)
      <4>1. Len(old.relations) \in Nat
        BY <1>4, SeqFacts DEF LevelInv
      <4>. QED
        BY <1>3, <1>5, <4>1
    <3>2. StableAfter(level, start)
      BY <1>3, <1>5, <3>1
    <3>. QED
      BY <1>3, <1>5, <3>1, <3>2, FromStable
  <2>4. mine = [i \in 1..n |-> joined]
    BY <2>2
  <2> HIDE DEF joined, mine, joins, number
  <2>5. IsSeq(mine) /\ Len(mine) = n /\ DOMAIN mine = 1..n /\ \A i \in 1..n : mine[i] = joined
    BY <2>2, <2>4, SeqNew, SeqFacts
  <2>6. /\ IsSeq(top.joins \o mine) /\ Len(top.joins \o mine) = number + n
        /\ \A i \in 1..number : (top.joins \o mine)[i] = top.joins[i]
        /\ \A i \in 1..n : (top.joins \o mine)[number + i] = mine[i]
    <3> DEFINE js == top.joins
    <3>1. number = Len(js)
      BY DEF number
    <3>2. IsSeq(js)
      BY <2>1
    <3> HIDE DEF js, n
    <3>3. /\ IsSeq(js \o mine) /\ Len(js \o mine) = Len(js) + Len(mine)
          /\ \A i \in 1..Len(js) : (js \o mine)[i] = js[i]
          /\ \A i \in 1..Len(mine) : (js \o mine)[Len(js) + i] = mine[i]
      BY ONLY <2>5, <3>2, SeqConcat
    <3>. QED
      BY <2>5, <3>1, <3>3 DEF js
  <2>7. joins = top.joins \o mine
    BY DEF joins
  <2>8. IsSeq(joins) /\ DOMAIN joins = 1..(number + n)
    BY <2>6, <2>7, SeqFacts
  <2>9. \A k \in 1..(number + n) : k \in 1..number \/ \E i \in 1..n : k = number + i
    <3>1. \A k \in 1..(number + n) : k \in 1..number \/ (k - number \in 1..n /\ k = number + (k - number))
      BY <2>1, <2>2
    <3>. QED
      BY <3>1
  <2>10. \A k \in DOMAIN joins : StableLevel(joins[k])
    BY <2>1, <2>3, <2>5, <2>6, <2>7, <2>8, <2>9
  <2>11. DOMAIN top.joins \subseteq DOMAIN joins /\ \A i \in 1..n : number + i \in DOMAIN joins
    BY <2>1, <2>2, <2>8
  <2>. QED
    BY <2>2, <2>8, <2>10, <2>11 DEF KeepsLevels
<1>8. AgendaInv(q, level, joins, rest)
  <2> HIDE DEF joins, rest, q, start
  <2>. QED
    BY <1>2, <1>3, <1>5, <1>7, AgendaJoining
<1>9. IsSeq(subs) /\ \A i \in DOMAIN subs : subs[i].do = "subquery" /\ TodoInv(subs[i], q, level, joins)
  <2>1. IsSeq(what.join.on) /\ \A i \in DOMAIN what.join.on : what.join.on[i] \in Nodes.blocks
    BY <1>2, <1>3, Grammar
  <2>2. Len(what.join.on) \in Nat /\ DOMAIN what.join.on = 1..Len(what.join.on)
    BY <2>1, SeqFacts
  <2>3. /\ DOMAIN subs = DOMAIN what.join.on
        /\ \A i \in DOMAIN subs : subs[i] = Todo("subquery", [role |-> "on", index |-> number + i, query |-> what.join.on[i]])
        /\ subs = [i \in DOMAIN what.join.on |-> Todo("subquery", [role |-> "on", index |-> number + i, query |-> what.join.on[i]])]
    BY DEF subs, OnSubqueries
  <2>4. IsSeq(subs)
    <3>1. DOMAIN subs = 1..Len(what.join.on) /\ subs = [i \in 1..Len(what.join.on) |-> subs[i]]
      BY <2>2, <2>3
    <3>. QED
      BY <2>2, <3>1, SeqNew
  <2> HIDE DEF joins
  <2>5. ASSUME NEW i \in DOMAIN subs PROVE subs[i].do = "subquery" /\ TodoInv(subs[i], q, level, joins)
    <3>1. subs[i].do = "subquery" /\ subs[i].what.query \in Nodes.blocks /\ subs[i].what.index = number + i /\ subs[i].what.role = "on"
      BY <2>1, <2>3 DEF Todo
    <3>2. number + i \in DOMAIN joins
      BY <1>7, <2>3
    <3>. QED
      BY <3>1, <3>2 DEF TodoInv, Marked
  <2>. QED
    BY <2>4, <2>5
<1>10. AgendaInv(q, level, joins, Tail(todo))
  <2> DEFINE n == Len(rest) - Len(q.where)
  <2>1. n \in Nat /\ n + Len(q.where) = Len(rest) /\ Len(q.where) \in Nat /\ Tail(todo) = Inserted(rest, subs, n)
    <3>1. Len(q.where) \in Nat
      BY <1>2, <1>4, WhereLength
    <3>. QED
      BY <1>2, <1>4, <1>9, <3>1, JoinedAgenda
  <2> HIDE DEF n, joins, rest, q
  <2>2. AgendaInv(q, level, joins, Inserted(rest, subs, n))
    BY <1>8, <1>9, <2>1, AgendaInserted
  <2>. QED
    BY <2>1, <2>2
<1> DEFINE g == Goes(frame, <<>>)
<1> HIDE DEF joins, todo, rest, q
<1>11. /\ DOMAIN g = DOMAIN frame /\ g.todo = <<>> \o Tail(todo) /\ g.query = frame.query /\ g.path = frame.path
       /\ g.parent = frame.parent /\ g.ctes = frame.ctes /\ g.level = frame.level /\ g.joins = frame.joins
       /\ g.outputs = frame.outputs /\ g.compoundOrder = frame.compoundOrder
  BY <1>2, <1>6, GoesFields DEF FrameInv
<1>12. g.todo = Tail(todo)
  <2>1. IsSeq(Tail(todo))
    BY <1>10 DEF AgendaInv
  <2>. QED
    BY <1>11, <2>1 DEF IsSeq
<1>13. FrameInv(g) /\ g.path = top.path /\ g.compoundOrder = top.compoundOrder
  BY <1>2, <1>5, <1>6, <1>7, <1>10, <1>11, <1>12 DEF FrameInv, q
<1>14. stack' = Front(stack) \o <<g>> /\ UNCHANGED <<query, schema, returned>> /\ scopes' = scopes
  BY <1>1 DEF Continue
<1>15. Has(g.compoundOrder) => g.compoundOrder[1] \in KnownPaths
  BY <1>2, <1>13, TopFacts DEF OrderOf
<1>16. \A s \in scopes : ScopeInv(s) /\ (Has(s.compoundOrder) => s.compoundOrder[1] \in KnownPaths)
  BY DEF Inv, OrderOf
<1> HIDE DEF g
<1>. QED
  BY <1>2, <1>13, <1>14, <1>15, <1>16, Replacing

(***************************************************************************)
(* Outputs                                                                  *)
(***************************************************************************)
\* A star over relations whose columns are the same in both views expands to the
\* same slots.
LEMMA StarAlike ==
  ASSUME NEW projection,
         \A i \in Starred(projection) : top.level.relations[i].columns["given"] = top.level.relations[i].columns["full"]
  PROVE  StarSlots(projection, "given") = StarSlots(projection, "full")
<1> DEFINE part(i, v) == IF i \in Starred(projection) THEN Expanded(top.level.relations[i], projection.except, v) ELSE <<>>
<1>1. ASSUME NEW i \in Starred(projection)
      PROVE  Expanded(top.level.relations[i], projection.except, "given") = Expanded(top.level.relations[i], projection.except, "full")
  BY <1>1 DEF Expanded
<1>2. \A i \in DOMAIN top.level.relations : part(i, "given") = part(i, "full")
  BY <1>1
<1>3. \A v : StarSlots(projection, v) = FlattenSeq([i \in DOMAIN top.level.relations |-> part(i, v)])
  BY DEF StarSlots
<1> HIDE DEF part
<1>4. [i \in DOMAIN top.level.relations |-> part(i, "given")] = [i \in DOMAIN top.level.relations |-> part(i, "full")]
  BY <1>2
<1>. QED
  BY <1>3, <1>4

LEMMA ProjectedAlike ==
  ASSUME FrameInv(top), NEW projection, IsComplete(projection, "given")
  PROVE  IsComplete(projection, "full") /\ Projected(projection, "given") = Projected(projection, "full")
<1>1. CASE ~projection.star
  BY <1>1 DEF IsComplete, Projected
<1>2. CASE projection.star
  <2>1. Starred(projection) # {} /\ \A i \in Starred(projection) : top.level.relations[i].known["given"]
    BY <1>2 DEF IsComplete
  <2>2. \A i \in Starred(projection) : Sure(top.level.relations[i])
    BY DEF Starred, FrameInv, LevelInv
  <2>3. \A i \in Starred(projection) :
          /\ top.level.relations[i].known["full"]
          /\ top.level.relations[i].columns["given"] = top.level.relations[i].columns["full"]
    BY <2>1, <2>2 DEF Sure
  <2>4. StarSlots(projection, "given") = StarSlots(projection, "full")
    BY <2>3, StarAlike
  <2>5. IsComplete(projection, "full")
    BY <1>2, <2>1, <2>3 DEF IsComplete
  <2>. QED
    BY <1>2, <2>4, <2>5 DEF Projected
<1>. QED
  BY <1>1, <1>2

LEMMA CollectedAlike == ASSUME FrameInv(top), NEW q PROVE OutputsInv(Collected(q))
<1> DEFINE selected(v) == [i \in DOMAIN q.select |-> Projected(q.select[i], v)]
           values == [i \in DOMAIN q.values |-> Slot(q.values[i], top.path, {}, <<>>)]
           o == Collected(q)
<1>1. /\ DOMAIN o = {"slots", "left", "complete"}
      /\ o.slots = [v \in Views |-> FlattenSeq(selected(v)) \o values]
      /\ o.complete = [v \in Views |-> \A i \in DOMAIN q.select : IsComplete(q.select[i], v)]
  BY DEF Collected
<1>2. ASSUME \A i \in DOMAIN q.select : IsComplete(q.select[i], "given")
      PROVE  (\A i \in DOMAIN q.select : IsComplete(q.select[i], "full")) /\ selected("given") = selected("full")
  <2>1. \A i \in DOMAIN q.select : /\ IsComplete(q.select[i], "full")
                                   /\ Projected(q.select[i], "given") = Projected(q.select[i], "full")
    BY <1>2, ProjectedAlike
  <2>. QED
    BY <2>1
<1> HIDE DEF selected, values, o
<1>3. "given" \in Views /\ "full" \in Views
  BY DEF Views
<1>4. o.complete["given"] => o.complete["full"] /\ o.slots["given"] = o.slots["full"]
  BY <1>1, <1>2, <1>3
<1>. QED
  BY <1>1, <1>4 DEF OutputsInv, o

\* A step that sets the outputs of the block.
LEMMA Outputting ==
  ASSUME Inv, NEW do, do # "subquery", Doing(do), NEW outputs, OutputsInv(outputs),
         Continue([top EXCEPT !.outputs = outputs], <<>>)
  PROVE  Inv'
<1> DEFINE f == [top EXCEPT !.outputs = outputs]
<1>1. stack # <<>> /\ top.todo # <<>> /\ FrameInv(top)
  BY DoingFacts
<1>2. FrameInv(f) /\ f.path = top.path
  BY <1>1, OutputsKeep
<1>3. f.todo = top.todo /\ f.compoundOrder = top.compoundOrder
  BY <1>1, OutputsKeep
<1> HIDE DEF f
<1>4. Continue(f, <<>>)
  BY DEF f
<1>. QED
  BY <1>1, <1>2, <1>3, <1>4, NothingNext, Continuing

LEMMA StepCollectOutputs == ASSUME Inv, CollectOutputs PROVE Inv'
<1> DEFINE outputs == Collected(top.query)
<1>1. Doing("outputs") /\ Continue([top EXCEPT !.outputs = outputs], <<>>)
  BY DEF CollectOutputs
<1>2. OutputsInv(outputs)
  BY <1>1, DoingFacts, CollectedAlike
<1> HIDE DEF outputs
<1>. QED
  BY <1>1, <1>2, Outputting

LEMMA StepBindLeft == ASSUME Inv, BindLeft PROVE Inv'
<1> DEFINE outputs == [returned EXCEPT !.left = [v \in Views |-> Len(returned.slots[v])]]
<1>1. Doing("bind_left") /\ Continue([top EXCEPT !.outputs = outputs], <<>>)
  BY DEF BindLeft
<1>2. OutputsInv(outputs)
  BY DEF Inv, OutputsInv
<1> HIDE DEF outputs
<1>. QED
  BY <1>1, <1>2, Outputting

LEMMA ByNameAlike == ASSUME NEW left, NEW right, OutputsInv(left), OutputsInv(right) PROVE OutputsInv(ByName(left, right))
<1> DEFINE o == ByName(left, right)
<1>1. /\ DOMAIN o = {"slots", "left", "complete"}
      /\ o.slots = [v \in Views |-> WithNew(left.slots[v], right.slots[v])]
      /\ o.complete = [v \in Views |-> left.complete[v] /\ right.complete[v]]
  BY DEF ByName, OutputsInv
<1> HIDE DEF o
<1>2. "given" \in Views /\ "full" \in Views
  BY DEF Views
<1>3. o.complete["given"] => o.complete["full"] /\ o.slots["given"] = o.slots["full"]
  <2>1. \A v \in Views : /\ o.complete[v] = (left.complete[v] /\ right.complete[v])
                         /\ o.slots[v] = WithNew(left.slots[v], right.slots[v])
    BY <1>1, Zenon
  <2>2. /\ left.complete["given"] => left.complete["full"] /\ left.slots["given"] = left.slots["full"]
        /\ right.complete["given"] => right.complete["full"] /\ right.slots["given"] = right.slots["full"]
    BY DEF OutputsInv
  <2>. QED
    BY <1>2, <2>1, <2>2, Zenon
<1>. QED
  BY <1>1, <1>3 DEF OutputsInv, o

LEMMA StepBindRight == ASSUME Inv, BindRight PROVE Inv'
<1> DEFINE outputs == IF top.query.byName THEN ByName(top.outputs, returned) ELSE top.outputs
<1>1. Doing("bind_right")
  BY DEF BindRight
<1>2. FrameInv(top)
  BY <1>1, DoingFacts
<1>3. Continue([top EXCEPT !.outputs = outputs], <<>>)
  BY DEF BindRight
<1>4. OutputsInv(outputs)
  BY <1>2, ByNameAlike DEF FrameInv, Inv
<1> HIDE DEF outputs
<1>. QED
  BY <1>1, <1>3, <1>4, Outputting

\* An ORDER BY is bound to the outputs of the block, in the block or in some of
\* those that are finished.
LEMMA StepBindCompoundOrder == ASSUME Inv, BindCompoundOrder PROVE Inv'
<1> DEFINE Combined(s) == [s EXCEPT !.compoundOrder = <<top.path>>]
           owners == IF top.query.order THEN {} ELSE {s \in LastArms(top.path) : Trails(s)}
           frame  == IF top.query.order THEN Combined(top) ELSE top
           g      == Goes(frame, <<>>)
<1>1. /\ Doing("order") /\ stack' = Front(stack) \o <<g>> /\ UNCHANGED <<query, schema, returned>>
      /\ scopes' = (scopes \ owners) \cup {Combined(s) : s \in owners}
  BY DEF BindCompoundOrder
<1>2. stack # <<>> /\ top.todo # <<>> /\ FrameInv(top) /\ GrammarInv
  BY <1>1, DoingFacts
<1>3. /\ top.path \in KnownPaths /\ (Has(top.compoundOrder) => top.compoundOrder[1] \in KnownPaths)
  BY <1>2, TopFacts DEF OrderOf
<1>4. owners \subseteq scopes
  BY DEF LastArms
<1>5. \A s \in scopes : /\ Combined(s).path = s.path /\ ScopeInv(Combined(s))
                        /\ Combined(s).compoundOrder = <<top.path>>
  <2>1. ASSUME NEW s \in scopes
        PROVE  /\ DOMAIN Combined(s) = DOMAIN s /\ Combined(s).path = s.path /\ Combined(s).chain = s.chain
               /\ Combined(s).joins = s.joins /\ Combined(s).outputs = s.outputs /\ Combined(s).compoundOrder = <<top.path>>
    <3>1. DOMAIN s = {"path", "query", "chain", "joins", "ctes", "outputs", "compoundOrder"}
      BY DEF Inv, ScopeInv
    <3>. QED
      BY <3>1
  <2> HIDE DEF Combined
  <2>. QED
    BY <2>1 DEF Inv, ScopeInv
<1>6. /\ FrameInv(frame) /\ frame.path = top.path /\ frame.todo = top.todo
      /\ Has(frame.compoundOrder) => frame.compoundOrder[1] \in KnownPaths
  <2> DEFINE combined == Combined(top)
  <2>1. /\ DOMAIN combined = DOMAIN top /\ combined.path = top.path /\ combined.query = top.query /\ combined.parent = top.parent
        /\ combined.ctes = top.ctes /\ combined.level = top.level /\ combined.joins = top.joins
        /\ combined.outputs = top.outputs /\ combined.todo = top.todo /\ combined.compoundOrder = <<top.path>>
    BY <1>2 DEF FrameInv
  <2>2. frame = IF top.query.order THEN combined ELSE top
    OBVIOUS
  <2> HIDE DEF combined, frame
  <2>3. FrameInv(combined)
    BY <1>2, <2>1 DEF FrameInv
  <2>. QED
    BY <1>2, <1>3, <2>1, <2>2, <2>3
<1> HIDE DEF owners, frame, Combined
<1>7. FrameInv(g) /\ g.path = frame.path /\ g.compoundOrder = frame.compoundOrder
  BY <1>2, <1>6, NothingNext, GoesKeeps
<1> HIDE DEF g
<1>8. \A s \in scopes' : \/ s \in scopes
                         \/ \E r \in scopes : s = Combined(r)
  BY <1>1, <1>4
<1>9. {s.path : s \in scopes'} = {s.path : s \in scopes}
  <2>1. \A s \in scopes' : \E r \in scopes : r.path = s.path
    BY <1>5, <1>8
  <2>2. \A r \in scopes : \E s \in scopes' : r.path = s.path
    <3> SUFFICES ASSUME NEW r \in scopes PROVE \E s \in scopes' : r.path = s.path
      OBVIOUS
    <3>1. CASE r \in owners
      BY <1>1, <1>5, <3>1
    <3>2. CASE r \notin owners
      BY <1>1, <3>2
    <3>. QED
      BY <3>1, <3>2
  <2>. QED
    BY <2>1, <2>2
<1>10. \A s \in scopes' : ScopeInv(s) /\ (Has(s.compoundOrder) => s.compoundOrder[1] \in KnownPaths)
  <2>1. \A s \in scopes : ScopeInv(s) /\ (Has(s.compoundOrder) => s.compoundOrder[1] \in KnownPaths)
    BY DEF Inv, OrderOf
  <2>2. \A r \in scopes : ScopeInv(Combined(r)) /\ Combined(r).compoundOrder[1] \in KnownPaths
    BY <1>3, <1>5
  <2>. QED
    BY <1>8, <2>1, <2>2
<1>. QED
  BY <1>1, <1>2, <1>6, <1>7, <1>9, <1>10, Replacing

(***************************************************************************)
(* The invariant                                                            *)
(***************************************************************************)
LEMMA InitInv == Init => Inv
<1> SUFFICES ASSUME Init PROVE Inv
  OBVIOUS
<1> DEFINE none == [n \in Tables |-> NoCte]
           f    == Frame(query, <<>>, <<>>, none)
<1>1. /\ query \in Queries /\ stack = <<f>> /\ scopes = {} /\ returned = NoOutputs
      /\ schema["given"] \subseteq schema["full"]
  BY DEF Init, Views
<1>2. GrammarInv /\ query \in Nodes.blocks
  BY <1>1, TheGrammar DEF GrammarInv
<1>3. KeepsLevels(<<>>)
  <2>1. DOMAIN <<>> = {}
    OBVIOUS
  <2>. QED
    BY <2>1, SeqEmpty DEF KeepsLevels
<1>4. CtesInv(none)
  BY DEF CtesInv, NoCte
<1> HIDE DEF none
<1>5. FrameInv(f) /\ f.path = <<>> /\ ~Has(f.compoundOrder)
  BY <1>2, <1>3, <1>4, NewFrame
<1> HIDE DEF f
<1>6. IsSeq(stack) /\ DOMAIN stack = {1} /\ stack[1] = f
  BY <1>1, SeqOne
<1>7. KnownPaths = {<<>>}
  BY <1>1, <1>5, <1>6 DEF KnownPaths
<1>8. PathsInv
  <2>1. IsSeq(<<>>) /\ Len(<<>>) = 0 /\ SubSeq(<<>>, 1, 0) = <<>>
    BY SeqEmpty
  <2>2. \A n \in 0..Len(<<>>) : n = 0
    BY <2>1
  <2>. QED
    BY <1>7, <2>1, <2>2 DEF PathsInv
<1>9. OutputsInv(returned)
  BY <1>1 DEF OutputsInv, NoOutputs, Views
<1>. QED
  BY <1>1, <1>2, <1>5, <1>6, <1>8, <1>9 DEF Inv, OrderOf

LEMMA StepInv == ASSUME Inv, [Next]_vars PROVE Inv'
<1>1. CASE UNCHANGED vars
  BY <1>1 DEF vars, Inv, OrderOf, PathsInv, KnownPaths
<1>2. CASE Next
  BY <1>2, StepBuildCte, StepBindCte, StepCollectTable, StepCollectName, StepCollectFunctionOrRaw, StepCollectGroup,
     StepBuildDerived, StepBindDerived, StepJoin, StepJoined, StepCollectOutputs, StepBuildLeft, StepBindLeft, StepBuildRight,
     StepBindRight, StepBindCompoundOrder, StepBuildSubquery, Returning DEF Next
<1>. QED
  BY <1>1, <1>2

THEOREM Invariance == Spec => []Inv
BY InitInv, StepInv, PTL DEF Spec

(***************************************************************************)
(* What the binder claims with the given schema                             *)
(***************************************************************************)
\* A block whose outputs the binder calls complete has exactly those outputs.
THEOREM CompletenessIsExact == Spec => []CompleteIsExact
<1>1. Inv => CompleteIsExact
  <2> SUFFICES ASSUME Inv, NEW s \in scopes, s.outputs.complete["given"]
               PROVE  /\ s.outputs.complete["full"]
                      /\ NamesOf(s.outputs.slots["given"]) = NamesOf(s.outputs.slots["full"])
    BY DEF CompleteIsExact
  <2>1. OutputsInv(s.outputs)
    BY DEF Inv, ScopeInv
  <2>. QED
    BY <2>1 DEF OutputsInv
<1>. QED
  BY <1>1, Invariance, PTL

LEMMA ChainsAreStable ==
  ASSUME Inv, NEW s \in scopes, NEW chain \in Chains(s)
  PROVE  DOMAIN chain \subseteq Nat /\ \A k \in DOMAIN chain : StableLevel(chain[k])
<1>1. KeepsLevels(s.chain) /\ s.chain # <<>> /\ KeepsLevels(s.joins)
  BY DEF Inv, ScopeInv
<1>2. KeepsLevels(chain)
  <2>1. CASE chain = s.chain
    BY <1>1, <2>1
  <2>2. ASSUME NEW j \in DOMAIN s.joins, chain = <<s.joins[j]>> \o Tail(s.chain) PROVE KeepsLevels(chain)
    <3> DEFINE outer == Tail(s.chain)
               levels == s.chain
    <3>1. KeepsLevels(outer)
      <4>1. IsSeq(levels) /\ levels # <<>> /\ \A k \in DOMAIN levels : StableLevel(levels[k])
        BY <1>1 DEF KeepsLevels
      <4> HIDE DEF levels
      <4>2. /\ IsSeq(Tail(levels)) /\ Len(Tail(levels)) = Len(levels) - 1 /\ Len(levels) \in Nat
            /\ DOMAIN levels = 1..Len(levels) /\ \A k \in 1..(Len(levels) - 1) : Tail(levels)[k] = levels[k + 1]
        BY <4>1, SeqTail, SeqFacts
      <4>3. DOMAIN Tail(levels) = 1..(Len(levels) - 1)
        BY <4>2, SeqFacts
      <4>4. \A k \in 1..(Len(levels) - 1) : k + 1 \in 1..Len(levels)
        BY <4>2
      <4>. QED
        BY <4>1, <4>2, <4>3, <4>4 DEF KeepsLevels, levels
    <3>2. StableLevel(s.joins[j])
      BY <1>1 DEF KeepsLevels
    <3> HIDE DEF outer
    <3>. QED
      BY <2>2, <3>1, <3>2, Around DEF outer
  <2>. QED
    BY <2>1, <2>2 DEF Chains
<1>. QED
  BY <1>2, SeqFacts DEF KeepsLevels

\* What the binder says of a reference, wherever the reference is.
LEMMA ReferencesAreStable ==
  ASSUME Inv, NEW s \in scopes, NEW chain \in Chains(s), NEW ref \in References,
         Resolve(ChainSeen(chain, "given"), ref).status \in Answers
  PROVE  Resolve(ChainSeen(chain, "full"), ref) = Resolve(ChainSeen(chain, "given"), ref)
BY ChainsAreStable, ResolveStable

\* When all has been bound every path that is known is that of a scope.
LEMMA ScopesFound ==
  ASSUME Inv, Bound, NEW path \in KnownPaths
  PROVE  ScopeAt(path) \in scopes /\ ScopeAt(path).path = path
<1>1. DOMAIN stack = {}
  BY DEF Bound
<1>2. \E s \in scopes : s.path = path
  BY <1>1 DEF KnownPaths
<1>. QED
  BY <1>2 DEF ScopeAt

\* The blocks from a set operation down to one of its arms are arms of it too.
LEMMA WayOfArms ==
  ASSUME Inv, Bound, NEW path, IsSeq(path), NEW arm \in ArmScopes(path), NEW n \in DOMAIN Way(arm, path)
  PROVE  Way(arm, path)[n] \in ArmScopes(path)
<1> DEFINE l == Len(path)
           m == Len(path) + n - 1
           p == SubSeq(arm.path, 1, m)
<1>1. arm \in scopes /\ IsPrefix(path, arm.path) /\ \A i \in (l + 1)..Len(arm.path) : arm.path[i].role \in {"left", "right"}
  BY DEF ArmScopes
<1>2. IsSeq(arm.path) /\ arm.path \in KnownPaths /\ \A i \in 0..Len(arm.path) : SubSeq(arm.path, 1, i) \in KnownPaths
  BY <1>1 DEF KnownPaths, Inv, PathsInv
<1>3. l \in Nat /\ Len(arm.path) \in Nat /\ l <= Len(arm.path)
  BY <1>1, <1>2, SeqFacts DEF IsPrefix
<1>4. n \in 1..(1 + Len(arm.path) - l) /\ Way(arm, path)[n] = ScopeAt(p)
  BY DEF Way
<1>5. m \in Nat /\ l <= m /\ m <= Len(arm.path) /\ m \in 0..Len(arm.path) /\ 1 \in 1..(m + 1) /\ 1 \in 1..(l + 1)
  BY <1>3, <1>4
<1> HIDE DEF m, l
<1>6. IsSeq(p) /\ Len(p) = m /\ \A i \in 1..m : p[i] = arm.path[i]
  <2>1. IsSeq(p) /\ Len(p) = m + 1 - 1 /\ \A i \in 1..(m + 1 - 1) : p[i] = arm.path[1 + i - 1]
    BY <1>2, <1>5, SeqPart
  <2>2. m + 1 - 1 = m /\ \A i \in 1..m : 1 + i - 1 = i
    BY <1>5
  <2>. QED
    BY <2>1, <2>2
<1>7. ScopeAt(p) \in scopes /\ ScopeAt(p).path = p
  BY <1>2, <1>5, ScopesFound
<1> HIDE DEF p
<1>8. IsPrefix(path, p)
  <2> DEFINE a == SubSeq(p, 1, l)
             b == SubSeq(arm.path, 1, l)
  <2>1. IsSeq(a) /\ Len(a) = l + 1 - 1 /\ \A i \in 1..(l + 1 - 1) : a[i] = p[1 + i - 1]
    BY <1>3, <1>5, <1>6, SeqPart
  <2>2. IsSeq(b) /\ Len(b) = l + 1 - 1 /\ \A i \in 1..(l + 1 - 1) : b[i] = arm.path[1 + i - 1]
    BY <1>2, <1>3, <1>5, SeqPart
  <2>3. \A i \in 1..(l + 1 - 1) : 1 + i - 1 \in 1..m
    BY <1>3, <1>5
  <2> HIDE DEF a, b
  <2>4. a = b
    BY <1>6, <2>1, <2>2, <2>3, SeqSame
  <2>. QED
    BY <1>1, <1>5, <1>6, <2>4 DEF IsPrefix, a, b, l
<1>9. \A i \in (l + 1)..Len(p) : p[i].role \in {"left", "right"}
  <2>1. \A i \in (l + 1)..m : i \in 1..m /\ i \in (l + 1)..Len(arm.path)
    BY <1>3, <1>5
  <2>. QED
    BY <1>1, <1>6, <2>1
<1>. QED
  BY <1>4, <1>7, <1>8, <1>9 DEF ArmScopes, l, p

\* The names an arm lends are the same if the outputs on the way to it are.
LEMMA LentAlike ==
  ASSUME NEW arm, NEW path, arm.outputs.slots["given"] = arm.outputs.slots["full"],
         \A n \in DOMAIN Way(arm, path) :
           Way(arm, path)[n].outputs.slots["given"] = Way(arm, path)[n].outputs.slots["full"]
  PROVE  Lent(arm, path, "given") = Lent(arm, path, "full")
<1> DEFINE way      == Way(arm, path)
           byName   == [n \in DOMAIN way |-> way[n].query.byName]
           slots(v) == [n \in DOMAIN way |-> way[n].outputs.slots[v]]
<1>1. slots("given") = slots("full")
  OBVIOUS
<1>2. /\ Positions(arm, path, "given") = Climbed(slots("given"), byName)
      /\ Positions(arm, path, "full") = Climbed(slots("full"), byName)
  BY DEF Positions
<1> HIDE DEF slots, byName, way
<1>3. Positions(arm, path, "given") = Positions(arm, path, "full")
  BY <1>1, <1>2
<1>. QED
  BY <1>3 DEF Lent

(***************************************************************************)
(* ORDER BY after a set operation                                           *)
(***************************************************************************)
\* The level that such an ORDER BY is bound in: the names it can use, as the
\* columns of one relation.
OrderLevel(path, names) ==
  [relations |-> <<[id |-> path, name |-> Unnamed, alias |-> Unnamed, known |-> ScopeAt(path).outputs.complete,
                    columns |-> [v \in Views |-> NamesOf(names[v])]]>>,
   coalesced |-> [v \in Views |-> [d \in Columns |-> <<>>]]]

Named(columns, c) == {k \in DOMAIN columns : columns[k] = c}

LEMMA OrderIsResolved ==
  ASSUME NEW path, NEW c, NEW v \in Views, NEW duckdb, NEW names, DOMAIN names = Views, names[v] = OrderNames(path, v, duckdb)
  PROVE  OrderBinding(path, c, v, duckdb) =
           [status  |-> Resolve(ChainSeen(<<OrderLevel(path, names)>>, v), [table |-> Unnamed, column |-> c]).status,
            outputs |-> {names[v][k].position : k \in Named(NamesOf(names[v]), c)}]
<1> DEFINE level == OrderLevel(path, names)
           r     == [id |-> path, name |-> Unnamed, alias |-> Unnamed,
                     known |-> ScopeAt(path).outputs.complete[v], columns |-> NamesOf(names[v])]
           seen  == [relations |-> <<r>>, coalesced |-> [d \in Columns |-> <<>>]]
<1>1. Seen(level, v) = seen
  <2>1. /\ DOMAIN level.relations = {1} /\ level.relations[1].id = path /\ level.relations[1].name = Unnamed
        /\ level.relations[1].alias = Unnamed /\ level.relations[1].known = ScopeAt(path).outputs.complete
        /\ level.relations[1].columns = [w \in Views |-> NamesOf(names[w])]
        /\ level.coalesced = [w \in Views |-> [d \in Columns |-> <<>>]]
    BY DEF OrderLevel
  <2> HIDE DEF level
  <2> DEFINE shown == [i \in DOMAIN level.relations |->
                         LET q == level.relations[i]
                         IN  [id |-> q.id, name |-> q.name, alias |-> q.alias, columns |-> q.columns[v], known |-> q.known[v]]]
  <2>2. DOMAIN shown = {1} /\ shown[1] = r
    BY <2>1
  <2>3. IsSeq(shown) /\ Len(shown) = 1
    <3>1. DOMAIN shown = 1..1 /\ shown = [i \in 1..1 |-> shown[i]]
      BY <2>1
    <3> HIDE DEF shown
    <3>2. 1 \in Nat
      OBVIOUS
    <3>. QED
      BY <3>1, <3>2, SeqNew
  <2>4. shown = <<r>>
    <3> DEFINE one == <<r>>
    <3>1. IsSeq(one) /\ Len(one) = 1 /\ one[1] = r
      BY SeqOne
    <3> HIDE DEF one, shown, r
    <3>2. \A i \in 1..Len(shown) : shown[i] = one[i]
      BY <2>2, <2>3, <3>1
    <3>3. shown = one
      BY <2>3, <3>1, <3>2, SeqSame
    <3>. QED
      BY <3>3 DEF one
  <2>5. Seen(level, v) = [relations |-> shown, coalesced |-> level.coalesced[v]]
    BY DEF Seen
  <2> HIDE DEF shown, r
  <2>. QED
    BY <2>1, <2>4, <2>5
<1>2. ChainSeen(<<level>>, v) = <<seen>>
  <2> DEFINE one   == <<level>>
             chain == ChainSeen(one, v)
  <2>1. DOMAIN one = 1..1 /\ one[1] = level
    OBVIOUS
  <2> HIDE DEF one, level, seen
  <2>2. DOMAIN chain = 1..1 /\ chain[1] = seen /\ chain = [k \in 1..1 |-> chain[k]]
    BY <1>1, <2>1 DEF ChainSeen
  <2> HIDE DEF chain
  <2>3. IsSeq(chain) /\ Len(chain) = 1
    <3>1. 1 \in Nat
      OBVIOUS
    <3>. QED
      BY <2>2, <3>1, SeqNew
  <2> DEFINE two == <<seen>>
  <2>4. IsSeq(two) /\ Len(two) = 1 /\ two[1] = seen
    BY SeqOne
  <2> HIDE DEF two
  <2>5. \A i \in 1..Len(chain) : chain[i] = two[i]
    BY <2>2, <2>3, <2>4
  <2>6. chain = two
    BY <2>3, <2>4, <2>5, SeqSame
  <2>. QED
    BY <2>6 DEF chain, one, two
<1>3. OrderBinding(path, c, v, duckdb) =
        [status |-> Resolve(<<seen>>, [table |-> Unnamed, column |-> c]).status,
         outputs |-> {names[v][k].position : k \in Named(NamesOf(names[v]), c)}]
  <2>1. MatchesColumn(seen.relations[1], c) = Named(NamesOf(names[v]), c)
    BY DEF MatchesColumn, Named
  <2>2. OrderBinding(path, c, v, duckdb) =
          [status |-> Resolve(<<seen>>, [table |-> Unnamed, column |-> c]).status,
           outputs |-> {names[v][k].position : k \in MatchesColumn(seen.relations[1], c)}]
    BY DEF OrderBinding
  <2>. QED
    BY <2>1, <2>2
<1> HIDE DEF seen, level
<1>. QED
  BY <1>2, <1>3 DEF level

\* A binding that is certain is one of outputs that are known.
LEMMA OrderIsKnown ==
  ASSUME NEW path, NEW names, NEW c, NEW v \in Views,
         Resolve(ChainSeen(<<OrderLevel(path, names)>>, v), [table |-> Unnamed, column |-> c]).status \in {"resolved", "missing"}
  PROVE  ScopeAt(path).outputs.complete[v]
<1> DEFINE level == OrderLevel(path, names)
           seen  == Seen(level, v)
           ref   == [table |-> Unnamed, column |-> c]
           chain == ChainSeen(<<level>>, v)
<1>1. DOMAIN chain = {1} /\ chain[1] = seen
  BY DEF ChainSeen
<1>2. ref.table = Unnamed
  OBVIOUS
<1>3. /\ DOMAIN seen.relations = {1} /\ seen.relations[1].known = ScopeAt(path).outputs.complete[v]
  BY SeenFacts DEF OrderLevel
<1> HIDE DEF level, seen, ref, chain
<1> DEFINE D == {k \in DOMAIN chain : Decide(chain[k], ref).status # "outer"}
<1>4. Decide(seen, ref).status \notin {"unknown", "ambiguous"}
  <2> SUFFICES ASSUME Decide(seen, ref).status \in {"unknown", "ambiguous"} PROVE FALSE
    OBVIOUS
  <2>1. D = {1}
    BY <1>1
  <2>2. Min(D) = 1
    <3>1. D \in SUBSET Nat /\ D # {}
      BY <2>1
    <3> HIDE DEF D
    <3>2. Min(D) \in D
      BY <3>1, MinOfNaturals
    <3>. QED
      BY <2>1, <3>2
  <2>3. Resolve(chain, ref) = Decide(chain[Min(D)], ref)
    BY <2>1 DEF Resolve
  <2>4. Resolve(chain, ref).status \in {"resolved", "missing"}
    BY DEF chain, level, ref
  <2>. QED
    BY <1>1, <2>2, <2>3, <2>4
<1>5. Unknown(seen, ref) = {}
  BY <1>4, Decided
<1>. QED
  BY <1>2, <1>3, <1>5 DEF Unknown, Candidates

\* The names of the two views are the same if the outputs are known: those of the
\* whole or, in DuckDB, those of all the arms.
LEMMA OrderNamesAlike ==
  ASSUME Inv, Bound, NEW path \in KnownPaths, NEW duckdb,
         IF duckdb THEN \A arm \in ArmScopes(path) : arm.outputs.complete["given"] ELSE ScopeAt(path).outputs.complete["given"]
  PROVE  /\ OrderNames(path, "given", duckdb) = OrderNames(path, "full", duckdb)
         /\ ScopeAt(path).outputs.complete["given"] /\ ScopeAt(path).outputs.complete["full"]
<1> DEFINE whole == ScopeAt(path)
           Known(s) == s.outputs.complete["given"]
           Same(s)  == s.outputs.complete["full"] /\ s.outputs.slots["given"] = s.outputs.slots["full"]
<1>1. whole \in scopes /\ whole.path = path
  BY ScopesFound
<1>2. IsSeq(path) /\ Len(path) \in Nat
  BY SeqFacts DEF Inv, PathsInv
<1>3. \A s \in scopes : Known(s) => Same(s)
  BY DEF Inv, ScopeInv, OutputsInv
<1>4. whole \in ArmScopes(path)
  <2>1. IsPrefix(path, path) /\ \A n \in (Len(path) + 1)..Len(path) : FALSE
    BY <1>2 DEF IsPrefix
  <2>. QED
    BY <1>1, <2>1 DEF ArmScopes
<1>5. CASE duckdb
  <2> DEFINE lent(v) == [arm \in ArmScopes(path) |-> Lent(arm, path, v)]
             arms    == Arms(path)
  <2>1. \A arm \in ArmScopes(path) : Same(arm)
    BY <1>3, <1>5 DEF ArmScopes
  <2>2. ASSUME NEW arm \in ArmScopes(path) PROVE Lent(arm, path, "given") = Lent(arm, path, "full")
    <3>1. \A n \in DOMAIN Way(arm, path) : Way(arm, path)[n] \in ArmScopes(path)
      BY <1>2, WayOfArms
    <3>. QED
      BY <2>1, <3>1, LentAlike
  <2>3. lent("given") = lent("full")
    BY <2>2
  <2>4. /\ OrderNames(path, "given", duckdb) = FirstOfEach(FlattenSeq([i \in DOMAIN arms |-> lent("given")[arms[i]]]))
        /\ OrderNames(path, "full", duckdb) = FirstOfEach(FlattenSeq([i \in DOMAIN arms |-> lent("full")[arms[i]]]))
    BY <1>5 DEF OrderNames
  <2> HIDE DEF lent, arms
  <2>5. OrderNames(path, "given", duckdb) = OrderNames(path, "full", duckdb)
    BY <2>3, <2>4
  <2>. QED
    BY <1>4, <1>5, <2>1, <2>5
<1>6. CASE ~duckdb
  <2>1. Same(whole)
    BY <1>1, <1>3, <1>6
  <2>2. \A n \in DOMAIN Way(whole, path) : Way(whole, path)[n] = whole
    <3>1. Len(whole.path) = Len(path) /\ 1 + Len(path) - Len(path) = 1
      BY <1>1, <1>2
    <3>2. ASSUME NEW n \in DOMAIN Way(whole, path) PROVE Way(whole, path)[n] = whole
      <4>1. n = 1 /\ Way(whole, path)[n] = ScopeAt(SubSeq(path, 1, Len(path) + n - 1))
        BY <1>1, <3>1 DEF Way
      <4>2. SubSeq(path, 1, Len(path) + n - 1) = path
        <5> DEFINE l == Len(path)
                   a == SubSeq(path, 1, l)
        <5>1. IsSeq(a) /\ Len(a) = l + 1 - 1 /\ \A i \in 1..(l + 1 - 1) : a[i] = path[1 + i - 1]
          BY <1>2, SeqPart
        <5>2. l + 1 - 1 = l /\ \A i \in 1..l : 1 + i - 1 = i
          BY <1>2
        <5>3. l + n - 1 = l
          BY <1>2, <4>1
        <5> HIDE DEF a
        <5>4. a = path
          BY <1>2, <5>1, <5>2, SeqSame
        <5>. QED
          BY <5>3, <5>4 DEF a
      <4>. QED
        BY <4>1, <4>2
    <3>. QED
      BY <3>2
  <2>3. Lent(whole, path, "given") = Lent(whole, path, "full")
    BY <2>1, <2>2, LentAlike
  <2>. QED
    BY <1>6, <2>1, <2>3 DEF OrderNames
<1>. QED
  BY <1>5, <1>6

LEMMA OrdersAreStable == ASSUME Inv, Bound PROVE OrderIsStable
<1> SUFFICES ASSUME NEW s \in scopes, Has(s.compoundOrder), NEW c \in Columns, NEW duckdb \in BOOLEAN,
                    OrderBinding(s.compoundOrder[1], c, "given", duckdb).status \in {"resolved", "missing"},
                    duckdb => \A arm \in ArmScopes(s.compoundOrder[1]) : arm.outputs.complete["given"]
             PROVE  OrderBinding(s.compoundOrder[1], c, "full", duckdb) = OrderBinding(s.compoundOrder[1], c, "given", duckdb)
  BY DEF OrderIsStable
<1> DEFINE path  == s.compoundOrder[1]
           names == [v \in Views |-> OrderNames(path, v, duckdb)]
           level == OrderLevel(path, names)
           ref   == [table |-> Unnamed, column |-> c]
           given == ChainSeen(<<level>>, "given")
           full  == ChainSeen(<<level>>, "full")
<1>1. path \in KnownPaths
  BY DEF Inv, OrderOf
<1>2. /\ "given" \in Views /\ "full" \in Views /\ DOMAIN names = Views
      /\ names["given"] = OrderNames(path, "given", duckdb) /\ names["full"] = OrderNames(path, "full", duckdb)
  BY DEF Views
<1> HIDE DEF path, names
<1>3. /\ OrderBinding(path, c, "given", duckdb) =
           [status |-> Resolve(given, ref).status, outputs |-> {names["given"][k].position : k \in Named(NamesOf(names["given"]), c)}]
      /\ OrderBinding(path, c, "full", duckdb) =
           [status |-> Resolve(full, ref).status, outputs |-> {names["full"][k].position : k \in Named(NamesOf(names["full"]), c)}]
  BY <1>2, OrderIsResolved
<1>4. Resolve(given, ref).status \in {"resolved", "missing"}
  BY <1>3 DEF path
<1>5. ScopeAt(path).outputs.complete["given"]
  BY <1>2, <1>4, OrderIsKnown
<1>6. /\ names["given"] = names["full"]
      /\ ScopeAt(path).outputs.complete["given"] /\ ScopeAt(path).outputs.complete["full"]
  <2>1. IF duckdb THEN \A arm \in ArmScopes(path) : arm.outputs.complete["given"] ELSE ScopeAt(path).outputs.complete["given"]
    BY <1>5 DEF path
  <2>. QED
    BY <1>1, <1>2, <2>1, OrderNamesAlike
<1>7. StableLevel(level)
  <2>1. /\ DOMAIN level.relations = {1} /\ level.relations[1].known = ScopeAt(path).outputs.complete
        /\ level.relations[1].columns = [v \in Views |-> NamesOf(names[v])]
        /\ level.coalesced = [v \in Views |-> [d \in Columns |-> <<>>]]
    BY DEF OrderLevel
  <2> HIDE DEF level
  <2>2. Sure(level.relations[1])
    BY <1>2, <1>6, <2>1 DEF Sure
  <2>3. MergedAlike(level.relations, level.coalesced)
    BY <1>2, <2>1 DEF MergedAlike
  <2>. QED
    BY <2>1, <2>2, <2>3 DEF StableLevel
<1>8. Resolve(full, ref) = Resolve(given, ref)
  <2> DEFINE chain == <<level>>
  <2>1. DOMAIN chain \subseteq Nat /\ \A k \in DOMAIN chain : StableLevel(chain[k])
    BY <1>7
  <2>2. ref \in References
    BY DEF References
  <2>3. Resolve(ChainSeen(chain, "given"), ref).status \in Answers
    BY <1>4 DEF Answers
  <2> HIDE DEF chain, ref
  <2>4. Resolve(ChainSeen(chain, "full"), ref) = Resolve(ChainSeen(chain, "given"), ref)
    BY <2>1, <2>2, <2>3, ResolveStable
  <2>. QED
    BY <2>4 DEF chain
<1>9. OrderBinding(path, c, "full", duckdb) = OrderBinding(path, c, "given", duckdb)
  <2> HIDE DEF given, full, ref
  <2>. QED
    BY <1>3, <1>6, <1>8
<1>. QED
  BY <1>9 DEF path

\* What the binder says of a column with an incomplete schema it still says when
\* the schema is completed, whatever the query and the schema.
THEOREM KnowledgeStays == Spec => []KnowledgeIsStable
<1>1. Inv => KnowledgeIsStable
  <2> SUFFICES ASSUME Inv, Bound PROVE KnowledgeIsStable
    BY DEF KnowledgeIsStable
  <2>1. ASSUME NEW s \in scopes, NEW chain \in Chains(s), NEW ref \in References,
               Resolve(ChainSeen(chain, "given"), ref).status \in {"resolved", "coalesced", "missing"}
        PROVE  Resolve(ChainSeen(chain, "full"), ref) = Resolve(ChainSeen(chain, "given"), ref)
    BY <2>1, ReferencesAreStable DEF Answers
  <2>2. OrderIsStable
    BY OrdersAreStable
  <2>. QED
    BY <2>1, <2>2 DEF KnowledgeIsStable
<1>. QED
  BY <1>1, Invariance, PTL

=============================================================================
