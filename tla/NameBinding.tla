----------------------------- MODULE NameBinding -----------------------------
(***************************************************************************)
(* How a column reference is bound in what a query block can see:           *)
(* queryScope.resolve of pkg/golyglot/query_scope.go and the helpers it     *)
(* calls.  A level is the relations one block shows, in order, with the     *)
(* columns USING has merged; a chain is the level of a block followed by    *)
(* those of the blocks around it.                                           *)
(***************************************************************************)
EXTENDS Naturals, Sequences, FiniteSets, SequencesExt, FiniteSetsExt

Unnamed == ""   \* a projection without a name, a relation without an alias

Matches(relation, qualifier) == qualifier = IF relation.alias # Unnamed THEN relation.alias ELSE relation.name

Candidates(level, ref) ==
  {i \in DOMAIN level.relations : ref.table # Unnamed => Matches(level.relations[i], ref.table)}

Unknown(level, ref) == {i \in Candidates(level, ref) : ~level.relations[i].known}

MatchesColumn(relation, column) == {k \in DOMAIN relation.columns : relation.columns[k] = column}

\* Every column that could be meant: the number of its relation and its own.
Found(level, ref) ==
  UNION {{<<i, k>> : k \in MatchesColumn(level.relations[i], ref.column)}
           : i \in Candidates(level, ref) \ Unknown(level, ref)}

Ids(level, found) == {level.relations[p[1]].id : p \in found}

\* USING merged exactly these columns into one.
SameScopeRelations(level, ref) ==
  /\ Len(level.coalesced[ref.column]) = Cardinality(Found(level, ref))
  /\ Ids(level, Found(level, ref)) \subseteq ToSet(level.coalesced[ref.column])

Coalesced(level, ref) ==
  ref.table = Unnamed /\ Unknown(level, ref) = {} /\ SameScopeRelations(level, ref)

Binding(status, sources) == [status |-> status, sources |-> sources]

\* Mutant: a match wins over a relation whose columns are not known.
Decide_MatchBeatsUnknown(level, ref) ==
  LET found == Found(level, ref)
  IN  CASE Cardinality(found) > 1 /\ Coalesced(level, ref)  -> Binding("coalesced", Ids(level, found))
        [] Cardinality(found) > 1 /\ ~Coalesced(level, ref) -> Binding("ambiguous", {})
        [] Cardinality(found) = 1 -> Binding("resolved", Ids(level, found))
        [] found = {} /\ Unknown(level, ref) # {} -> Binding("unknown", {})
        [] OTHER -> Binding(IF ref.table # Unnamed /\ Candidates(level, ref) # {} THEN "missing" ELSE "outer", {})

\* What one level says of a reference; "outer" sends it to the enclosing block.
\* An unknown binding names its relation when there is no other candidate, and
\* a local alias shadows the outer one even without the column.
Decide(level, ref) ==
  LET found   == Found(level, ref)
      unknown == Unknown(level, ref)
      many    == Cardinality(found) > 1
  IN  CASE many /\ Coalesced(level, ref)  -> Binding("coalesced", Ids(level, found))
        [] many /\ ~Coalesced(level, ref) -> Binding("ambiguous", {})
        [] ~many /\ unknown # {} ->
             Binding("unknown", IF found = {} /\ Cardinality(unknown) = 1
                                THEN {level.relations[i].id : i \in unknown} ELSE {})
        [] Cardinality(found) = 1 /\ unknown = {} -> Binding("resolved", Ids(level, found))
        [] OTHER -> Binding(IF ref.table # Unnamed /\ Candidates(level, ref) # {} THEN "missing" ELSE "outer", {})

\* The innermost level that decides does; nothing is found where none does.
Resolve(chain, ref) ==
  LET deciding == {k \in DOMAIN chain : Decide(chain[k], ref).status # "outer"}
  IN  IF deciding = {} THEN Binding("missing", {}) ELSE Decide(chain[Min(deciding)], ref)
==============================================================================
