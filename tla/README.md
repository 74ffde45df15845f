# A TLA+ model of golyglot

golyglot is a SQL parser, formatter, semantic analyser and transpiler written in
Go (`src/pkg/golyglot`), with a WebAssembly binding, a formatter benchmark, a
function-catalog generator and a differential type oracle (`src/cmd`,
`src/internal/typeoracle`). This directory holds TLA+ modules of its parts, TLC
configurations that check them on small instances, and proofs checked by TLAPS.

## 1. The system and its parts

| Part | State it keeps | Operations | What makes it correct |
| --- | --- | --- | --- |
| Lexer (`lexer.go`, `token.go`, `lossless.go`) | position, tokens, diagnostics, budget flag | one scan step per token kind, nested comments, token budget | tokens and gaps reconstruct the input; always advances; the budget bounds the output |
| Recovering parser (`parser.go`, `recovery.go`, `diagnostic.go`) | position, last end, depth, node count, diagnostics, sidecar of recoveries | statement loop, report, synchronise, insert missing syntax, depth and node guards, checkpoint and rewind | every token belongs to one statement or one recovery; it always ends; strict and tolerant agree on valid input |
| Expression parser (`parser.go` 2885-3140, 5770-5830) | position, minimum precedence | prefix, infix, postfix operators | the tree the generator prints parses back to itself |
| Source edits (`lossless.go`, `span.go`) | none | `ApplyEdits`, offset and position conversion | non-overlapping edits commute; overlap is refused |
| Query binding (`query_scope.go`, `set_lineage.go`, `column_usage.go`) | scopes, relations, snapshots, bindings | build, resolve, CTE, join, lateral, set operations | a name binds to the nearest relation that offers it, or is ambiguous or unknown |
| Lineage and analysis (`lineage.go`, `analysis.go`, `semantics.go`) | visited sets | column lineage, upstream facts, output types | ends on every query; agrees with the binding |
| Row limits (`row_limits.go`) | none | rewrite of LIMIT, TOP, FETCH between dialects | the rewritten query returns as many rows, or is refused |
| Generator (`generator.go`) | output buffer, options | one method per node | parenthesises as the parser groups |
| Transpiler (`transpile*.go`) | the tree it rewrites | per-dialect passes over expressions, raw text and statements | the source tree is not changed; every pass reaches every node |
| Visitor (`visitor.go`) | none | `Walk`, `Transform` | both reach the same nodes |
| Builder (`builder.go`) | immutable expression and query values | fluent construction | a derived value never changes the value it came from |
| Editor context (`context.go`) | collector | `SyntacticContextAt` | the context at an offset is that of the innermost clause |
| Validation and diagnostics (`validation.go`, `semantic_rules.go`, `strict_diagnostic.go`) | diagnostics | rules over a bound query | one primary diagnostic in strict mode |
| Semantic diff (`semantic_diff.go`) | matching of two trees | diff | a diff of equal queries is empty |
| Function catalog (`function_catalog.go`, `builtin_functions.go`) | a cache filled once | compile, look up, copy out | callers cannot change the cached catalog |
| Type oracle controller (`cmd/golyglot-type-oracle`, `internal/typeoracle`) | results, current subprocess, its deadline, the findings file | run loop, compare, reduce, write, report | every case gets exactly one truthful result; the findings file is replaced atomically |

The library part is sequential: one call, one goroutine. It is made hard by
error recovery (every prefix of a statement is an input), by budgets, by scoping
rules that interact, and by rewriting that must keep the meaning. The type oracle
is the one concurrent part: it runs subprocesses against deadlines and writes a
file that a crash must not tear.

How the parts call each other. `Parse` lexes the text, gives the tokens to the
parser and returns statements, diagnostics and recovery elements; `ApplyEdits`
edits the text of such a result. A builder expression is such a tree made without
a text; `Walk` and `Transform` go over either. `AnalyzeQuery`, validation and
`Lineage` parse, then build scopes with the binder (`bindQuery`), with relations
of their own (`semantics.go`) or, in `Lineage`, a list of relation facts; column
use walks the binder's scopes. `Transpile` parses with one dialect, rewrites, and
generates with another; the generator itself moves row limits to what its dialect
spells. The type oracle runs `AnalyzeQuery` in a worker process and compares its
answer with what an engine describes.

## 2. Modules

| Module | Extends | Models | Code |
| --- | --- | --- | --- |
| `OracleVerdict` | | comparison of inferred and observed columns, statuses, summary, expectations | `internal/typeoracle/oracle.go` |
| `TypeOracle` | `OracleVerdict` | the controller: probe, worker and engine subprocess per case, findings, report | `cmd/golyglot-type-oracle/main.go`, `internal/typeoracle/reduce.go` |
| `CaseLedger` | | the abstract promise of a run: one justified status per case, in order | `plans/type-inference-oracle.md` |
| `FindingsFile` | | the atomic replacement of the findings file by concurrent runs, with kills and power losses | `main.go` 209-250 |
| `RecoveringParser` | | the statement loop, `report`, `synchronizeStatement`, the guards, the speculative parse of DATE_PART | `parser.go`, `recovery.go` |
| `SetQueries` | | set operations and row limits, parsed, rewritten for a target and printed | `parser.go`, `row_limits.go`, `generator.go` |
| `Expressions` | | precedence climbing, the builder's operators, and the parentheses of the generator | `parser.go`, `builder.go`, `generator.go` |
| `Builder` | | the fluent methods on a heap of nodes and arrays | `builder.go` |
| `Visitor` | `Builder` | `Walk` and `Transform` of what was built | `visitor.go` |
| `NameBinding` | | `resolve`: what a level or a chain of levels says of a reference | `query_scope.go` 56-130, 370-440 |
| `QueryScope` | `NameBinding` | `build`: the walk over a query that records what every block sees | `query_scope.go`, `set_semantics.go` |
| `ColumnUpstream` | `QueryScope` | `bindingUpstream` and `outputBindings` | `column_usage.go` |
| `Lineage` | `ColumnUpstream` | `lineageFor`, `lineageChildren` and the relation facts they look names up in | `lineage.go`, `analysis.go` |
| `Semantics` | | output columns of a query: names, types, nullability | `semantics.go`, `set_semantics.go` |
| `SqlMeaning` | `Semantics` | the reference: a database whose tables fill up, and what a query returns | external |
| `QueryRules` | `Semantics`, `NameBinding` (`INSTANCE`) | the rules of a validation on one block: aliases, aggregates and windows in their clauses, grouping, names | `semantic_rules.go`, `lexical_expressions.go`, `validation.go` |
| `RuleMeaning` | `QueryRules` | the reference: SQL's stages of a block, and what gets stuck in them | external |
| `SourceEdits` | | `ApplyEdits` | `lossless.go`, `span.go` |
| `MC...` | the module | the instances TLC checks; `MCQueries` has the catalog and constructors of queries, `MCLineage` the caller that binds a query and then asks about it, `MCQueryRules` the one that has queries analysed or validated | |
| `TypeOracle_proofs`, `FindingsFile_proofs`, `SourceEdits_proofs`, `RecoveringParser_proofs`, `QueryScope_proofs` | the module | proofs | |
| `LexicalScope_proofs` | `QueryScope_proofs` | proofs about who sees what: the blocks around a block and the levels seen from them | |
| `ColumnUpstream_proofs` | `ColumnUpstream`, `LexicalScope_proofs` | proofs about the walk of column use: graphs, the binder's record of who refers to what, and the graph of a bound query's columns | |
| `DataLemmas` | | lemmas that these share, about naturals, recursion, sequences, concatenation and sums | |

### How state and actions correspond to the code

- `TypeOracle`. `pc` is the place of `run`, `child` and `deadline` are the
  `exec.CommandContext` of the current step, `results`, `reduced`, `bundle`,
  `printed` and `exit` are its locals and effects. The child, the timer and the
  controller are separate actors: a child may answer before, at or after the
  deadline, `KillChild` is the context's kill, and `ReapWorker` and `ReapEngine`
  look at the timer only after `Wait`, as `inferWorker` and `describe` do. What a
  case does (answers, is refused, needs more stack than the worker may have,
  crashes, hangs) is a `Profile`, the same in the worker and, without a limit, in
  `ReduceCase`, which parses and analyses the case again in the controller.
- `FindingsFile`. One writer per run; `CreateTemp`, `Write`, `Sync`, `Close`,
  `Rename`, `Remove` are the calls of the writing function, each of which may fail.
  `data` is what a file holds and `flushed` what the disk holds of it; the kernel
  may write back at any time, a sync makes it, a kill leaves memory as it is, and
  after a power loss only the disk is left.
- `RecoveringParser`. `parser` is the struct (position, last end, depth, node
  count, diagnostics, recoveries, suppressed position). The statement handlers
  that consume raw tokens are one action each; while a query or an expression is
  parsed, the grammar is an arbitrary sequence of the primitives it is written
  with (take a token, nest, expect, refuse, reject or give back a token, partial
  keyword, return). A property that holds there holds for any grammar built on them.
  `marks` are the DATE_PART calls that are being read on trial (`parser.go:4325`):
  `Speculate` notes the position, the last end and the number of diagnostics,
  `Commit` finds the FROM, and `Rewind` puts those three back and nothing else, so
  that recovery elements, the node count and the place of suppressed insertions
  outlive the diagnostics that came with them.
- `QueryScope`. The recursion of `build` is `stack`, each frame with the agenda of
  what is left of its query, in the order of the code: CTEs, FROM items with
  their joins, left arm or outputs, right arm, the ORDER BY of a set operation,
  then the subqueries of expressions. A scope's `compoundOrder` is the path of the
  set operation that its ORDER BY sorts, as in the code the scope of that clause;
  the names the clause can use follow from the arms' outputs. Every query is bound with the supplied schema and at the same time
  with a complete one (`"given"` and `"full"`), so that the claims made with
  little knowledge can be compared with those made with all of it. The control of
  `build` never depends on a schema, which is why the two can share one stack.
  `Slot` is an output, with the block and the references it is computed from.
  `Nodes` are the AST nodes that the queries are made of, by kind; `IsGrammar` says
  which node may hold which, and that is all the proofs know of a query.
- `ColumnUpstream`. `calls` is the recursion of `bindingUpstream`, a call's `key`
  its entry in `visiting`, `pending` the references still to follow.
- `Lineage`. `trace` is the recursion of `lineageChildren`; there is no visited
  set in the code and none here. `RelationFacts` are the relations of a block with
  those of its nested queries, in the flattened order of `relationFacts`.
- `SetQueries`. A text is a sequence of tokens: a SELECT with its TOP, a
  parenthesis, an operator, WITH, or the clauses of a tail. The parser's tree is the
  legacy one, in which the first arm of a compound is the compound's own node and
  the ORDER BY and LIMIT of the whole sit on its last arm. `Parse` is one action, a
  caller may then generate for any targets in any order: the tree must stay what
  it was. `Read` is the reference, a reader of the same tokens with SQL's rules.
- `Expressions`. A text is tokens, a tree a record of kind, operator and operands.
  An expression comes from the parser, or from builder calls (`Derive`), and is then
  printed. `Comparison`, `UnaryLevel` and `InfixOperator` are the parser's table,
  `InfixPrecedence` the generator's, which has no entry for some operators.
- `Builder`. `heap` has the nodes and the arrays behind slices; a slice is an array
  and a length, so that `append` in place is visible to whoever shares the array.
  `values` are the `Expression`s a caller holds, `from` those one was made with.
- `Visitor`. `walk` is a walk under way with the caller's answers, `rewired` the
  last transformation.
- `Semantics`. `Analyze` is `analyzeSelectSemantics`; its levels are the
  `semanticScope` chain. The state machine is that of its caller and of a database:
  a query is analysed, rows come into the tables (those declared and one nobody
  declared), and the query is run; what was said of its columns must hold of every
  row. Integer widths are scaled (TINYINT 2 bits up to HUGEINT 6) with the values
  -1, 1 and 5, so that a value that fits one type and not the next is there.
- `QueryRules`. `Validate` is `selectScope` with its `validateQueryRules` and
  `validateBoundSchema` on one block, under a strict schema; `issues` are the codes
  reported. The code finds the clause of a name from its position in the text;
  here an expression is walked with its `Place`. `AliasFor` is `aliasForReference`,
  `Placed`, `Ungrouped` and `ExpandedReferences` are the three walks (`placement`,
  `checkGrouped`, `expandedReferences`) that follow an alias into its projection
  and are cut by the aliases they are visiting.
- `SourceEdits`. `edits` is the caller's list, `ordered` the sorted copy; checking
  and writing take one edit per step. Byte *i* of the document is the number *i*,
  and `MaxInt` stands for `maxIntValue`.

## 3. Runs

All runs use two workers; the longest takes about three minutes with coverage on, half of that without.

| Run | Checks | Shows | Bounds |
| --- | --- | --- | --- |
| `oracle` | `TypeInvariant`, `MatchIsEarned`, `ReportGateAndBundleAgree`, `KillIsTimeout`, `ImplementsLedger`, `RunEnds` | whatever the subprocesses do and however they race their deadlines, each case gets one status it justifies, in order; counters, bundle and exit code agree; a plain run ends | two cases, each of 17 profiles (one per verdict and per way a subprocess can end), two settings of the flags. The loop carries only `results` from one case to the next, so two cases show every hand-over |
| `findings_file` | `WholeBundle`, `FailureLeavesTheFile`, `NoTemporaryLeft` | the path names an old or a whole new bundle at any time | two concurrent writers, with kills, power losses and write-backs at any time; the proofs are for any number of writers |
| `parser_recovery` | `NothingIsLost`, `SkippingIsSound`, `GuardsAreKept`, `NoInsertionCascade`, `EveryStatementConsumes`, `Terminates` | error recovery loses no byte, keeps statements apart, reports what it skips even where it reads twice, asks for a missing word once, leaves depth and budgets as it found them, and always moves on | all inputs of up to 3 tokens from four alphabets (statement starts and semicolons; a command, names and closing parentheses; queries with names and parentheses; names and minus signs), with and without white space, both modes; 2 diagnostics, depth 2, 2 nodes and 2 idle calls per statement, each of which is exceeded. Three tokens are a statement, its tail and the next statement, with a delimiter in any of them, or a DATE_PART with something to read twice; a DATE_PART within another needs four and is left to the proof |
| `set_queries` | `MeaningIsKept`, `SpelledForTarget` | every limit stays with the rows it was written for; in each block it is said once, in a clause and with a modifier (PERCENT, WITH TIES) that a table of the target's grammar has, which is not the code's table, or the query is refused | up to three arms with every mix of TOP, LIMIT, OFFSET and FETCH with its modifiers, with and without an OFFSET, on arms, parentheses and wholes; eight targets. The rewriting looks at an arm, its compound and whether one is the last, which three arms show |
| `expressions` | `ReadsByPrecedence`, `MeaningIsKept`, `PrintingIsStable` | the tree is the one the precedences ask for, the printed form is read back as the tree, formatting twice changes nothing | a prefix and two or three operators of every level, and every chain of two builder calls over operands that are operators of every level. Parentheses depend on a node and its child, and three levels show a child between two others |
| `syntax_trees` | `DerivingKeepsValues`, `ErrorsStick`, `WalkIsAsAsked`, `TransformReachesAll`, `TransformStaysInItsTree` | no value changes but by being transformed; errors are carried on; Walk sees the tree in the order of the text, and Transform reaches all of it and no other | two calls of 17 methods, on and with queries, statements and expressions, with an error among them; the slices of the first query have three elements in arrays of four, so that an append in place happens |
| `columns` | `KnowledgeIsStable`, `CompleteIsExact`, `ScopesAreLexical`, `OrderIsCombined`, `UsingShowsOneColumn`, `UpstreamIsExact`, `WalkEnds`, `LineageIsExact` | what is said with a partial schema stays true; the relations in scope are SQL's, a name in FROM is the CTE that SQL says, and an ORDER BY after a set operation is bound to its outputs; the walk of column use stops whatever reads what, and it and lineage find exactly the columns of tables a value comes from | 3 tables of two columns under all 8 partial schemas; families of queries for joins and USING, derived and lateral tables, CTEs, set operations, ORDER BY after them (in the last of two or three arms, in and after parentheses, in both groupings) and correlated subqueries, recursive CTEs, table functions that read each other. Each rule concerns a block, its neighbour and one block around it, which every family has; three relations are the fewest in which a merged column is merged again |
| `semantics` | `NullabilityIsSound`, `ValuesFitTheirTypes`, `NamesAreComplete`, `AcceptedIfItHasAResult` | a column called non_null has no NULL, a value is of the type its column was given, names said to be complete are those of the result; a block is validated without error exactly if it can be evaluated whatever the tables hold | over a hundred queries to analyse in two dialects, among them stars over a table nobody declared in the query, a derived table, an arm and a CTE; up to three rows among three tables: a row each for both sides of a join and one that does not match. Some 2,500 blocks to validate in DuckDB, PostgreSQL, TSQL and SQLite, which differ in every rule on aliases, grouping or keys: two projections (an alias and its user), every other clause, all contents of at most two rows of two values, since two rows of a group that disagree are two rows |
| `source_edits` | `TypeInvariant`, `LengthIsExact`, `EditsAreApplied` | edits in any order give the document with each span replaced; only conflicting or oversized edits are refused | every list of up to 3 edits of a 2-byte document, valid, reversed, past the end or synthetic, with 3 texts. Three edits are two insertions and a replacement at one offset |

Every passing run's properties have a mutant: a plausible mistake in the code
(`\* Mutant:` in the modules) that violates the property on the same instance.

### Runs that find a violation

- `binder_ambiguity` (`AmbiguityIsCertain`). `resolve` answers `ambiguous` for two
  matches before it looks at relations without a schema, although one of those
  may have been joined with USING and make the column one.
- `lineage_function_cycle` (`LineageReturns`). A table function that reads the
  column it shows is traced for ever; `AnalyzeQuery` guards against it.
- `expression_not_in` (`ReadsByPrecedence`). `a NOT IN b` is read as `a IN b` when
  the right side has no parentheses.

### Divergences that no run checks

The passing runs leave these inputs out, each by a named definition of its MC
module or beside the property; in all of them the model does what the code does.

Type oracle and parser. `writeFindings` analyses a crashing or hanging case in the
controller, without the worker's limits, and so dies or hangs with it, and a case
refused by the parser stops it before any bundle is written (`reduce.go:25`,
`main.go:195`; the plan's "a worker crash must become one bounded result"). The
depth and node guards leave skipped elements of no width; the rewind of DATE_PART takes
back the diagnostic of such an element and leaves the element (`parser.go:4335`), and as
the node budget is reported only as it is passed, that diagnostic never comes again:
`SkippingIsSound` is about elements with a byte. The first token of a
statement that follows another without a semicolon is both in the tree and in a
skipped element (`parser.go:6078`, `115`; `recovery.go:5-19`). A partial keyword
followed by white space does not own the insertions after it (`parser.go:5927`).

Columns. In `Lineage` a qualifier may take a relation of a nested query
(`lineage.go:356`), and a bare column over a CTE loses its source when the schema of
the table behind it is supplied, because both are in one list (`lineage.go:369`). In
column use, arms of a union are aligned by the positions known so far: a star over
a relation without schema shifts them and the answer is still called complete
(`column_usage.go:91`). In DuckDB, where an ORDER BY after a set operation may use the
names of every arm, the binder asks only whether the names of the whole are known: with
a star over a relation without schema in a later arm it calls a column missing, or
binds it to another output, that the schema would show in that arm
(`query_scope.go:258`); `OrderIsStable` asks for complete arms there.

Set queries. A SELECT with TOP and a LIMIT of its own, which no dialect has, is read
without a diagnostic; Snowflake's text keeps both and the other targets' loses the LIMIT
(`row_limits.go:78`). `(SELECT a LIMIT 3) LIMIT 7` loses its inner limit (`parser.go:3875`);
`LIMIT ALL` has no TOP to become in TSQL; an operand in parentheses after WITH, and
INTERSECT after two operands in parentheses, are grouped otherwise than SQL does.

Expressions. `a IN b MOD b * c` and an arrow `->` followed by an operator group
otherwise than the table says (the comment at `parser.go:3111` speaks of lambdas);
the generator prints without parentheses a right operand of a comparison that is
looser than the comparison, the operand of NOT, and BETWEEN as a left operand; a
`*` whose right `*` begins with `/` or `%` is regrouped (`generator.go:3669`, against
`TestBuilderPreservesNestedOperatorGrouping` of `features_test.go:61`); a condition
given as a string is pasted as it is; XOR is a comparison to the parser.

Builder and visitor. `Walk` never visits DISTINCT ON or a call's HAVING
(`visitor.go:321` against `:15`), sees ORDER BY and LIMIT of a set operation before its
arms and CONNECT BY after GROUP BY; `Transform` has no case for the arguments of
TABLESAMPLE and does not end when its callback wraps what it is given
(`visitor.go:71`); `Select` replaces the projections where its comment says it
appends (`builder.go:471`, `477`); Values, Query, Set, When and Else on a value with
an error report a type error instead of the first one (`builder.go:36`); a query as
a projection becomes an item without expression and no error (`builder.go:1068`).

Semantics. A star over a table without schema is incomplete in a query, a derived table
or an arm, but in a CTE it counts for no columns: with `w` undeclared,
`WITH r AS (SELECT * FROM w) SELECT * FROM r` has no output and `OutputNamesComplete`
(`semantics.go:91` drops the child's `namesComplete`, `:188` sets `columnsKnown`), and
UNION ALL BY NAME pads the other arm as if `r` were empty, against the guide
(`analysis.md:40-43`: completeness tells a resolved schema from partial facts; `:163`:
unknown wildcard schemas "remain incomplete rather than being treated as empty
branches"). An arm that is such a star leaves the columns of the other arm their type and
nullability, so the `a` of `SELECT a FROM t UNION SELECT * FROM w` is called non_null
though a row of `w` may be NULL (`semantics.go:1124`). Both are in the instance and
`CteIsOpen` and `ArmIsOpen` of `SqlMeaning` set them apart. A scalar subquery in a SELECT list is called non_null although it may
have no row; a star over two relations that share a column name shows it once
(`semantics.go` appendSemanticColumn); a column of a relation without schema resolves
to an outer level; a derived table sees its FROM siblings; a qualified name may be
taken for a CTE; ROLLUP and CUBE, STRING_AGG of an empty group, GREATEST and LEAST do
not add NULL; a literal's exact value is kept through SUM, ABS and `~`. Queries with
these last ones are not among the instance's.

Validation. An item of GROUP BY in parentheses that is an alias groups every column of
its expression, so `SELECT a = b AS x, a FROM t GROUP BY (x)` is accepted
(`semantic_rules.go:149`, against the guide `analysis.md:175-180`); a lambda's parameter
named like an alias is taken for the alias when aggregates are placed
(`semantic_rules.go:25`, against `analysis.md:142-144`); an outer column in a correlated
subquery with aggregates is reported as not grouped; ORDER BY an expression prefers an
alias to the column, so that an ambiguous column is not reported there
(`validation.go:438`); with GROUP BY ALL nothing is checked, HAVING included
(`semantic_rules.go:119`); grouped expressions are compared by their text, in which `a`
and `t.a` differ.

## 4. Fairness

- `TypeOracle`: weak fairness of the controller's own steps, of the timer and of
  the kill, because Go's runtime runs them and `exec.CommandContext` kills its
  process; none of a child ending, which is the point of the deadline. `RunEnds`
  is for runs without `--write-findings`, since nothing bounds `ReduceCase`.
- `RecoveringParser`: weak fairness of `Next`: `Parse` runs in its caller's
  goroutine. The grammar may call primitives that consume nothing at most
  `Patience` times in a row per statement, which is what recursive descent does.
- The other modules have no fairness: a call is a step or returns. That the walk of
  column use stops (`WalkEnds`) needs none: it says that no behaviour takes steps of
  the walk for ever, so a walk that went round a cycle would violate it.

## 5. Proofs

The `..._proofs` modules are checked by TLAPS: the controller for any corpus,
profiles and options, the findings file for any number of writers, the edits for any
document, texts and number of edits, the parser for inputs of any
length, any limits, both modes and any sequence of calls of the grammar's primitives,
the binder for any catalog, any part of it as the schema, and queries of any shape
and size, and for the same queries the walk of any column that they use.
They assume only the `ASSUME`s of the modules: `CorpusAssumption` (profiles and
options are of their types), `UnknownAssumption` (the unknown type is none of the
types), `OldAssumption` (the bundle at the path before is none of the writers'),
`EditsAssumption` (lengths are naturals, and the document's is one an `int`
represents), `LimitsAssumption` (the parser's limits and the bounds of its input
are naturals), `CatalogAssumption` (a table has a sequence of columns, and the empty
name is not a column) and `QueriesAssumption` (a query is made of nodes as the AST's
types allow). TLC evaluates each of them on the runs, the last on all queries of
`columns`.

| Theorem | Statement |
| --- | --- |
| `TypeCorrect` | `Spec => []TypeInvariant` of the controller, which includes that no child is alive outside the steps that wait for one |
| `MatchesAreEarned` | `Spec => []MatchIsEarned` |
| `KilledIsTimeout` | `Spec => KillIsTimeout`, an action property |
| `BundleIsReported` | `Spec => []ReportGateAndBundleAgree` |
| `LoopImplementsLedger` | `Spec => Ledger!Safety`: initial states map to initial states, and every step is a step of `CaseLedger` or a stutter |
| `AtomicReplacement`, `FailureIsClean`, `NoLitter` | the three invariants of the findings file |
| `EditsTypeCorrect`, `ExactLength` | `Spec => []TypeInvariant` and `Spec => []LengthIsExact` of the edits |
| `EditsApplied` | `Spec => []EditsAreApplied` of the edits |
| `NothingIsEverLost` | `Spec => []NothingIsLost` of the parser |
| `SkippingIsAlwaysSound`, `NoCascadeEver`, `GuardsAreAlwaysKept` | `Spec => []SkippingIsSound`, `Spec => []NoInsertionCascade` and `Spec => []GuardsAreKept` |
| `EveryStatementAdvances` | `Spec => EveryStatementConsumes`, an action property |
| `KnowledgeStays` | `Spec => []KnowledgeIsStable` of the binder, the ORDER BY of set operations included |
| `CompletenessIsExact` | `Spec => []CompleteIsExact` of the binder |
| `LexicalScoping` | `Spec => []ScopesAreLexical` of the binder: who sees what (`LevelsAreLexical`) and what a name in FROM means (`NamesMeanTheirCtes`), for any nesting of blocks |
| `UpstreamExact` | `WalkSpec => []UpstreamIsExact` of column use: the binder and then the walk |
| `WalkIsShallow` | `WalkSpec => []DepthIsBounded`: the recursion of column use is at most one call deeper than the query has columns |

The argument for the controller: `OracleInv` strengthens the type invariant with
what each place of the loop knows: a child exists only while a step waits for it
and was killed only after its deadline, the worker's outcome is one the case's
profile allows and the columns carried to the engine's step are that case's own,
every recorded status is one its case justifies, and once the loop is left there
are as many results as cases. None of the properties is inductive without these:
the status of a result depends on columns read in an earlier step.
The ledger's step is then read off the two reaping actions. The report, the bundle and
the exit code are each computed by a walk of their own over the results, at different
times. `BundleInv` relates them: while findings are reduced the bundle has an entry for
each finding among the results walked so far (`Met`), the path is replaced only when
all were walked, and the results do not change any more once the walk has begun; that
the counters sum to the number of cases, and the unexpected ones to the findings, is a
fact about `Summary` alone. For the findings file,
`FileInv` says what a writer's temporary file holds at each of its places, in
memory and on disk, and `NameInv` which writers the path may name; the rename is
safe because the invariant says that the file was synced before it.

For the edits, the length that sizes the buffer is summed while checking and what
is written is summed by the writing itself. `EditInv` relates both to one list of
intermediate lengths, the n-th that of the document with the first n - 1 edits
applied: the sum so far is its last element (`CheckInv`), and what is written is
its current element less the bytes still to come (`WriteInv`). The accepted prefix
is in order and inside the document (`InOrder`), which makes every slice as long as
its span; that the length never goes below what is still to come keeps it from
becoming negative.

What is written is another matter: the reference goes through the document offset by
offset and through the caller's edits at each, while the code goes through a sorted
copy. `ResultInv` says that there is an order of the caller's edits, the one the sort
has found (`Progress`), for which the output is `Written`: what the reference has
before the end of the n-th edit of the order (`Upto`). An edit more (`WrittenNext`)
adds the bytes between the two, which the edits written touch nowhere, the insertions
at its offset that the order has put first, and its own text. This needs the order to
arrange the edits (`Arranged`): they are valid and each begins where the one before
has ended. Edits that pass the checks are so, and then legal in the property's sense,
which compares every two of the caller's (`SeparateLegal`); if legal ones are refused it is for
their length, and the length summed so far is at most the document's and what the
edits checked add (`GrowthNext`), which is no more than what all of them add. The
lemmas about concatenating and summing over a list are in `DataLemmas`; a function
defined by recursion on a natural is shown to exist there (`Recursion`) by the least
counterexample, since the library's induction theorems are out of reach.

For the parser, the difficulty is that synchronisation rewrites what is already
recorded: it takes back a skipped region that ends where the new one begins and puts a
longer one in its place. The proof therefore says of every method of the parser struct
two things at once (`Goes(b, p, q)`): it keeps `StructInv`, and it `Extends` the struct
from token `b` on, that is, recovery elements keep their kind and start, and one that
is new or grew begins at token `b` or later. This composes, so that each handler
is a chain of such steps. `StructInv` says where recovery elements may end
(`RecoveriesInv`: not beyond the current token, so that a rewritten one cannot run into a
statement), what an insertion's place says of its token (`InsertionsInv`, from which
two neighbours at one place are two at one token), and that the budget's diagnostic
was the one that passed the count. `Inv` adds what the loop knows: the depth is the
number of open calls, no skipped region reaches into a recorded or open statement
(`ApartInv`), and everything before `Frontier`, the place of the open statement or of
the parser, is held by something (`KeptInv`). `NothingIsLost` alone is not inductive:
while a handler runs nothing holds yet what it consumed.

For the binder, both properties compare the two views of what was recorded, and
neither is inductive: a claim of a block rests on those of the blocks and relations it
was made from, while `build` is in the middle of them. `Inv` says of every frame, of
every finished scope and of what was returned last that a relation, a CTE or a list of
outputs which is known with the given schema is so with the full one and is the same
(`Sure`, `OutputsInv`); stars and UNION BY NAME hand this on (`ProjectedAlike`,
`ByNameAlike`). That is enough for `CompleteIsExact`, but not for a reference, which
may be bound to a column that USING merged, and what is merged is decided under
either schema by looking up the column in each side of the join. So `StableAfter` says of
the relations of a level from some place on that, if all of them are known, the same
columns of theirs are merged in both views. It has to hold from the start of every join
under way (`MarkInv`), since that part of the level is what the next USING and the
condition see, and it survives the merge of an inner join because the joins under way
end in the order of their nesting (`AgendaInv`, `Joining`). `ResolveStable` then takes
this to a chain of levels: the innermost level that decides decides the same, and
those inside it that had nothing to say had no relation without a schema. An ORDER BY
after a set operation needs in addition that the blocks around a block are on record
(`PathsInv`), so that an arm's names can be followed up to the whole
(`WayOfArms`, `OrderNamesAlike`).

What a block sees is a fact about the recursion, not about schemas. A level is handed
down as the parent of a nested block and copied into every join condition under way,
so the property needs to be known of the frames on the stack, the conditions they
collected and the finished scopes together (`SightInv`): a block's own level holds
only relations that it owns, and the levels around it (`SeesInv`) hold for each
enclosing block at most one level, the innermost first, with those relations of it
that the block may see. `SeenDeeper` carries this from a block to one nested in it:
behind a derived table that is not lateral a level is left out, for a lateral one the
level is that of the siblings collected so far, and for a CTE and an arm of a set
operation it is the parent's. The actions of the module are many and most do not
matter here; the lemma `Steps` classifies them once into eight shapes (nothing that
scoping looks at, a relation added, a join ended, a CTE bound, and a call for each
kind of nested block, or the return), and `SightInv` is proved for each.

What a name in FROM means is said by the property from the outside: of all the
declarations on record in the blocks around a place, those that precede it, and of these
the last of the innermost block. The code looks it up in a map that `build` copies and
overwrites as it goes. Two invariants relate them. `BlocksInv` says that a path stands
for one block: `build` is called at most once for each step a block can take (`Used`,
`Apart`), so that the path of a call is new (`FreshPath`, `Starts`), and a declaration
once in scope is never joined by one that some other block writes at the same path.
`NamesInv` says of every frame that its map holds for each name the latest declaration
of the blocks around it and of those of its own CTEs it has entered (`Within`,
`Entered`), and of every relation recorded so far, in frames and in scopes, that it is the
one meant there. It is kept because the declarations visible at a path are settled
before the call for that path: all the CTEs of a block are done before its first relation
(`CtesLeft`), and a body sees the CTEs before it and, if it is recursive, itself.
Once the stack is empty the blocks on record are the scopes, which is what the property
quantifies over (`SameDeclarations`).

The walk of column use is compared with a graph that the code never builds, and the
comparison has to hold for a walk that is cut wherever it meets a column again. The
argument first leaves SQL aside. In a finite graph (`IsGraph`) what the reference
finds by as many rounds as there are columns is the least set that no edge leaves
(`ReachedIs`); `Spans(g, keys, over)` is what is reached without going through some
columns. `WalkOk` says of a stack of calls that every table reached from the start is
already found by some call or still reached by what a call has pending without going
through the columns that it and the calls below it are visiting (`Accounted`): a cut
loses nothing because what is behind the column that is met again is ahead of the call
that is visiting it. It also says that if a reached column is unresolved or lies on a
cycle, some call knows of it or will meet it (`Doubts`), and if none is, that no call
is incomplete (`Assured`). Each kind of step keeps this (`WalkSame`,
`WalkEnter` and their neighbours), and at the end of the last call it is the property.

Then a bound query has to be such a graph. `RecordInv` says it while `build` is under
way: every relation is in the level of one block, under the number of its place
there; what a relation shows and what an output refers to are relations on record;
the body of a CTE or a derived table is a finished block, and so are the arms of a set
operation when its outputs are merged. Once the stack is empty (`Rest`) a
reference is bound to columns of the query (`ResolveBinds`). What an output is made of
is told by the recursive function `BindingsOf`, from the arms; that it exists is not for
free, and is shown by recursion on the number of blocks below a path (`BindingsMade`).
So the columns are finitely many, each leads to columns of the query, and tables are its
ends (`GraphAtRest`). `WalkInv` ties the two: while a walk is under way the query is
bound, so the graph does not change, and the stack of calls is `WalkOk` in it. That no
column is entered twice is part of it: the stack of calls is a list of different columns
of the query with the first call, and so no longer than those are many (`WalkIsShallow`).

Only model-checked: the liveness properties and the ledger's fairness (out of
reach of the prover), the binder's `OrderIsCombined` and `UsingShowsOneColumn`, and all
of lineage, the builder and the analysis. `OrderIsCombined` holds of the queries that a
parser builds and SQL accepts, which is more than `IsGrammar` says: where an ORDER BY
stands in an arm and another in the set operation that ends with it, with no
parenthesis between, or where arms have different numbers of outputs, the reference and
the binder take different outputs. `UsingShowsOneColumn` and `LineageIsExact` are about the
queries of their instances, whose names mean one thing, with a recursive reference.
`SetQueries`, `Expressions`, `Visitor`, `Lineage`, `Semantics`, `QueryRules` and what
extends them are about trees and use recursive operators, which the prover does not
reach; so does `Builder` for its other property, and its methods are folds over their
arguments with operators as parameters, which no lemma can be instantiated with.

## 6. Not modelled

- The transpiler (`transpile*.go`, some 25,000 lines). It is a list of rewritings
  for pairs of dialects, each of which looks at one node or matches one piece of
  text and puts another there. A rewriting carries no state to the next and has no
  order to explore but the fixed one of its file; what makes one right is the
  meaning of two dialects' functions, which is in no code here. A module of them
  would be those tables again. What the transpiler shares with every other caller
  is modelled: parsing, row limits, set operations, precedence and generation.
- The lexer: a loop over bytes with no state but its position. Its properties are
  about single characters and fuzz tests reach them. Its token budget, which stops
  in the middle of a text, is listed as a hazard.
- The editor context and the function catalogs: tables, and a lookup.
- The WebAssembly binding, the benchmarks and the tools: conversion and I/O.
- The semantic diff: hashes of canonical text and a matching by name.

Inside modelled parts: the grammar of statements other than queries, the binder's
PIVOT, subqueries in the ORDER BY of a set operation, OpenLineage, whose field numbering (`lineage.go:605`) is listed as a hazard, UTF-16 positions,
identifier quoting and case (names are compared as they are), rules of one dialect
in expressions, DECIMAL precision, division by zero and recursive CTEs in the
analysis, and in the rules of a validation GROUP BY ALL, grouping sets, named windows,
LIMIT, raw expressions, blocks within blocks, and what is said of duplicate names and
of the number of columns (each compares two lists and carries no state).

## 7. Plan

What is left, in this order: `OpenLineage` on top of `Lineage`; correlated blocks in
`QueryRules`.

Proofs, in this order: `OrderIsCombined` under a grammar that says where an ORDER BY may
stand and for arms of one width, for which `PathsInv` and `WayOfArms` are a beginning;
`Builder` (`ErrorsStick`), its trees moved to a module of their own.
