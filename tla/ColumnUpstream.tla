---------------------------- MODULE ColumnUpstream ----------------------------
(***************************************************************************)
(* From a column used in a query to the physical columns it comes from:     *)
(* bindingUpstream and outputBindings of pkg/golyglot/column_usage.go, run  *)
(* on the scopes that QueryScope has built.  bindingUpstream calls itself   *)
(* through CTEs, derived tables, set operations and the arguments of table  *)
(* functions; its recursion is an explicit stack of calls, and the columns  *)
(* it is visiting are those of the calls that have not returned.            *)
(***************************************************************************)
EXTENDS QueryScope

VARIABLES
  use,     \* the binding whose upstream is asked for, none before the walk
  calls,   \* calls of bindingUpstream that have not returned
  answer   \* what the walk has returned, none before its end

walk == <<use, calls, answer>>
allVars == <<vars, walk>>

None == [none |-> TRUE]

RelationAt(id) == ScopeAt(id.owner).chain[1].relations[id.index]

\* A column a walk visits: a relation and one of its names.
Key(id, column) == [id |-> id, column |-> column]

BoundTo(column, binding) == [column |-> column, status |-> binding.status, sources |-> binding.sources]

Direct(id, column) == BoundTo(column, Binding("resolved", {id}))

\* An expression's references are bound in the block that owns it.
ReferencesOf(path, refs, v) ==
  [i \in DOMAIN refs |-> BoundTo(refs[i].column, Resolve(ChainSeen(ScopeAt(path).chain, v), refs[i]))]

-------------------------------------------------------------------------------
(***************************************************************************)
(* outputBindings: what an output position of a block is made of, through   *)
(* both arms of a union.  EXCEPT and INTERSECT take only the left arm.      *)
(***************************************************************************)
Gathered(bindings, complete) == [bindings |-> bindings, complete |-> complete]

Both(left, right) == Gathered(left.bindings \o right.bindings, left.complete /\ right.complete)

SlotBindings(slot, v) ==
  IF slot.sources # {} THEN SetToSeq({Direct(id, slot.name) : id \in slot.sources})
  ELSE ReferencesOf(slot.owner, slot.refs, v)

\* An output of a block, and the output of an arm that it is aligned with: by name
\* where the operation is BY NAME, 0 if the arm has none of that name.
Output(v, path, index) == [view |-> v, path |-> path, index |-> index]

Slots(out) == ScopeAt(out.path).outputs.slots[out.view]

Arm(out, role) ==
  LET path == Append(out.path, Step(role, 1))
  IN  Output(out.view, path,
             IF ScopeAt(out.path).query.byName
             THEN OutputIndex(ScopeAt(path).outputs.slots[out.view], Slots(out)[out.index].name)
             ELSE out.index)

\* The columns a set operation takes from its own block, when that is its left arm.
OwnBindings(out) ==
  Gathered(IF out.index <= ScopeAt(out.path).outputs.left[out.view] THEN SlotBindings(Slots(out)[out.index], out.view) ELSE <<>>,
           TRUE)

BindingsOf[out \in [view : Views, path : {s.path : s \in scopes}, index : Nat]] ==
  LET q == ScopeAt(out.path).query
  IN  CASE out.index = 0         -> Gathered(<<>>, ScopeAt(out.path).outputs.complete[out.view])
        [] out.index > Len(Slots(out)) -> Gathered(<<>>, FALSE)
        [] OTHER -> Both(IF Has(q.left) THEN BindingsOf[Arm(out, "left")] ELSE OwnBindings(out),
                         IF Has(q.right) /\ q.union THEN BindingsOf[Arm(out, "right")] ELSE Gathered(<<>>, TRUE))

OutputBindings(out) == BindingsOf[out]

\* The outputs that a relation shows under that name.
OutputsShown(r, column, v) == MatchesColumn([columns |-> r.columns[v]], column) \cap DOMAIN ScopeAt(r.body).outputs.slots[v]

\* What a column of a CTE, a derived table or a table function is computed from.
\* The walk gathers its facts in a set, so the order of the outputs is no matter.
Sources(key, v) ==
  LET r == RelationAt(key.id)
  IN  IF r.kind = "table_function" THEN Gathered(ReferencesOf(key.id.owner, r.args, v), TRUE)
      ELSE LET outputs == {OutputBindings(Output(v, r.body, k)) : k \in OutputsShown(r, key.column, v)}
           IN  Gathered(FlattenSeq(SetToSeq({o.bindings : o \in outputs})), \A o \in outputs : o.complete)

\* A recursive CTE read in its own body has no source, a raw item never has.
HasSource(key, v) ==
  LET r == RelationAt(key.id)
  IN  r.kind = "table_function" \/ (r.built /\ OutputsShown(r, key.column, v) # {})

-------------------------------------------------------------------------------
(***************************************************************************)
(* bindingUpstream                                                          *)
(***************************************************************************)
CallOf(key, gathered) == [key |-> key, pending |-> gathered.bindings, facts |-> {}, complete |-> gathered.complete]

call == Last(calls)
Walking == calls # <<>> /\ call.pending # <<>>
binding == Head(call.pending)
key == Key(CHOOSE id \in binding.sources : TRUE, binding.column)

Consumed(frame) == Front(calls) \o <<[frame EXCEPT !.pending = Tail(@)]>>

Visiting(k) == \E n \in DOMAIN calls : calls[n].key = k

StartWalk ==
  /\ Bound
  /\ use = None
  /\ \E s \in scopes : \E chain \in Chains(s), ref \in References :
       use' = BoundTo(ref.column, Resolve(ChainSeen(chain, "given"), ref))
  /\ calls' = <<CallOf(None, Gathered(<<use'>>, TRUE))>>
  /\ UNCHANGED <<vars, answer>>

\* A column USING merged comes from each of the relations it merged.
Spread ==
  /\ Walking
  /\ binding.status = "coalesced"
  /\ calls' = Front(calls) \o
       <<[call EXCEPT !.pending = SetToSeq({Direct(id, binding.column) : id \in binding.sources}) \o Tail(@)]>>
  /\ UNCHANGED <<vars, use, answer>>

Unresolved ==
  /\ Walking
  /\ binding.status \in {"unknown", "ambiguous", "missing"}
  /\ calls' = Consumed([call EXCEPT !.complete = FALSE])
  /\ UNCHANGED <<vars, use, answer>>

Resolved == Walking /\ binding.status = "resolved"

Physical ==
  /\ Resolved
  /\ RelationAt(key.id).kind = "table"
  /\ calls' = Consumed([call EXCEPT !.facts = @ \cup {key}])
  /\ UNCHANGED <<vars, use, answer>>

Followed == Resolved /\ RelationAt(key.id).kind # "table"

\* Mutant: a column met again is taken for one that adds nothing.
Cut_StaysComplete ==
  /\ Followed
  /\ Visiting(key) \/ ~HasSource(key, "given")
  /\ calls' = Consumed(call)
  /\ UNCHANGED <<vars, use, answer>>

\* Mutant: a column met again is put off until its visit has ended.
Cut_Later ==
  /\ Followed
  /\ Visiting(key) \/ ~HasSource(key, "given")
  /\ calls' = IF Visiting(key) THEN Front(calls) \o <<[call EXCEPT !.pending = Append(Tail(@), Head(@))]>>
              ELSE Consumed([call EXCEPT !.complete = FALSE])
  /\ UNCHANGED <<vars, use, answer>>

\* A column being visited is not visited again, and one without a source ends.
Cut ==
  /\ Followed
  /\ Visiting(key) \/ ~HasSource(key, "given")
  /\ calls' = Consumed([call EXCEPT !.complete = FALSE])
  /\ UNCHANGED <<vars, use, answer>>

Follow ==
  /\ Followed
  /\ ~Visiting(key) /\ HasSource(key, "given")
  /\ calls' = Consumed(call) \o <<CallOf(key, Sources(key, "given"))>>
  /\ UNCHANGED <<vars, use, answer>>

Finish ==
  /\ calls # <<>> /\ call.pending = <<>>
  /\ IF Len(calls) = 1 THEN /\ answer' = [facts |-> call.facts, complete |-> call.complete]
                            /\ calls' = <<>>
     ELSE /\ calls' = [Front(calls) EXCEPT ![Len(calls) - 1].facts = @ \cup call.facts,
                                           ![Len(calls) - 1].complete = @ /\ call.complete]
          /\ UNCHANGED answer
  /\ UNCHANGED <<vars, use>>

WalkInit == Init /\ use = None /\ calls = <<>> /\ answer = None

Bind == Next /\ UNCHANGED walk

WalkNext == Bind \/ StartWalk \/ Spread \/ Unresolved \/ Physical \/ Cut \/ Follow \/ Finish

WalkSpec == WalkInit /\ [][WalkNext]_allVars

-------------------------------------------------------------------------------
(***************************************************************************)
(* The reference: the graph of columns, whatever the order of the walk      *)
(***************************************************************************)
Answered == answer # None

IsTable(k) == RelationAt(k.id).kind = "table"

\* The columns a binding stands for, and the bindings a column leads to.
KeysOf(b) == IF b.status \in {"resolved", "coalesced"} THEN {Key(id, b.column) : id \in b.sources} ELSE {}

Leads(k, v) == IF ~IsTable(k) /\ HasSource(k, v) THEN Sources(k, v) ELSE Gathered(<<>>, IsTable(k))

AllKeys(v) ==
  UNION {{Key(r.id, c) : c \in ToSet(r.columns[v])} : r \in UNION {ToSet(s.chain[1].relations) : s \in scopes}}

\* What each column of the query leads to directly.
Graph(v) ==
  [k \in AllKeys(v) |->
     LET leads == Leads(k, v)
     IN  [next     |-> UNION {KeysOf(b) : b \in ToSet(leads.bindings)},
          resolved |-> leads.complete /\ \A b \in ToSet(leads.bindings) : KeysOf(b) # {}]]

\* Every column reached from these; no shortest path is longer than the graph.
Reached(graph, keys) ==
  LET found[n \in Nat] == IF n = 0 THEN keys ELSE UNION {{k} \cup graph[k].next : k \in found[n - 1]}
  IN  found[Cardinality(DOMAIN graph)]

PhysicalUpstream(b, v) == {k \in Reached(Graph(v), KeysOf(b)) : IsTable(k)}

\* What is asked for is resolved all the way down to tables, without cycles.
FullyResolved(b, v) ==
  LET graph == Graph(v)
  IN  /\ KeysOf(b) # {}
      /\ \A k \in Reached(graph, KeysOf(b)) : graph[k].resolved /\ k \notin Reached(graph, graph[k].next)

-------------------------------------------------------------------------------
(***************************************************************************)
(* Properties                                                               *)
(***************************************************************************)

\* bindingUpstream calls itself no deeper than the query has columns, through CTEs,
\* set operations and table functions that read each other.
DepthIsBounded == calls # <<>> => Len(calls) <= Cardinality(AllKeys("given")) + 1

\* The walk returns the physical columns that the used column can be traced to
\* in the graph: cutting a cycle on one path loses none that another path has,
\* and what has no source adds none.  It calls them complete exactly when
\* everything the column is computed from resolved: one unresolved reference, cut
\* cycle or missing position on any path makes the answer incomplete.
UpstreamIsExact ==
  Answered => /\ answer.facts = PhysicalUpstream(use, "given")
              /\ answer.complete <=> FullyResolved(use, "given")
===============================================================================
