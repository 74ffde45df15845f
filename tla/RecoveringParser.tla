--------------------------- MODULE RecoveringParser ---------------------------
(***************************************************************************)
(* The statement loop and the error recovery of the parser: parseStatements *)
(* of pkg/golyglot/parser.go, the handlers it dispatches to, report,        *)
(* synchronizeStatement and the depth and node guards.                      *)
(*                                                                          *)
(* The recursive-descent grammar is abstracted to the primitives it is      *)
(* written with: while a query or an expression is being parsed, any of     *)
(* them may be called next.  What holds here holds for every grammar that   *)
(* goes through those primitives, whatever it reads again after a rewind.   *)
(***************************************************************************)
EXTENDS Integers, Sequences, FiniteSets, SequencesExt, FiniteSetsExt

CONSTANTS
  MaxTokens,       \* bound: tokens of an input, the end of file not counted
  Alphabets,       \* bound: the sets of kinds of token an input is made of
  MaxDiagnostics,  \* maxDiagnostics
  MaxDepth,        \* ParseOptions.MaxDepth
  MaxASTNodes,     \* ParseOptions.MaxASTNodes
  Patience         \* bound: calls of one statement that consume no token

(***************************************************************************)
(* One kind of token per way the statement loop treats its first token: a   *)
(* query keyword, a keyword of a raw statement, a command keyword, a name,  *)
(* an opening parenthesis or a minus (an expression), a closing parenthesis *)
(* (nothing that starts a statement).                                       *)
(***************************************************************************)
QueryStart      == {"SELECT"}
RawStart        == {"DROP"}
CommandStart    == {"SET"}
ExpressionStart == {"name", "(", "-"}
Separators      == {";", "EOF"}
Kinds == QueryStart \cup RawStart \cup CommandStart \cup ExpressionStart \cup {")", ";"}

\* Mutant: a name is taken for the start of a statement.
RecoveryStatementStart_Names == QueryStart \cup RawStart \cup CommandStart \cup {"name"}

RecoveryStatementStart == QueryStart \cup RawStart \cup CommandStart

NameKinds == {"name"} \cup RecoveryStatementStart

ASSUME LimitsAssumption ==
  /\ Alphabets \subseteq SUBSET Kinds
  /\ {MaxTokens, Patience} \subseteq Nat
  /\ {MaxDiagnostics, MaxDepth, MaxASTNodes} \subseteq Nat \ {0}

NoPosition == -1

VARIABLES
  mode,        \* ParseOptions.Mode
  tokens,      \* the tokens with their spans, the end of file last
  parser,      \* the parser struct
  statements,  \* the statements produced: first token and span
  opened,      \* the first token of the current statement and its index
  phase,       \* where parseStatements is
  calls,       \* calls of parseSelect and parseExpression that have not returned
  marks,       \* what the open DATE_PART calls would rewind to, innermost last
  idle         \* calls of the current statement that consumed nothing

vars == <<mode, tokens, parser, statements, opened, phase, calls, marks, idle>>

Phases == {"statement", "query", "expression", "after", "done"}

(***************************************************************************)
(* Tokens one byte wide, with or without a byte of white space after each.  *)
(***************************************************************************)
TokenAt(kinds, i, gap) ==
  [kind |-> kinds[i], start |-> (i - 1) * (1 + gap), end |-> (i - 1) * (1 + gap) + 1]

Layout(kinds, gap) ==
  LET size == Len(kinds) * (1 + gap)
  IN  Append([i \in DOMAIN kinds |-> TokenAt(kinds, i, gap)],
             [kind |-> "EOF", start |-> size, end |-> size])

Inputs == UNION { [1..n -> alphabet] : n \in 0..MaxTokens, alphabet \in Alphabets }

-----------------------------------------------------------------------------
(* The primitives, as functions of the parser struct.                       *)

Peek(p) == tokens[p.pos]

Advance(p) == [p EXCEPT !.pos = @ + 1, !.lastEnd = Peek(p).end]

ConsumeUpTo(p, stop) ==
  IF stop = p.pos THEN p ELSE [p EXCEPT !.pos = stop, !.lastEnd = tokens[stop - 1].end]

RecoveryKind(action) ==
  CASE action = "Inserted"     -> "Missing"
    [] action = "Deleted"      -> "Unexpected"
    [] action = "Synchronized" -> "Skipped"
    [] action = "None"         -> "None"

AppendRecovery(p, kind, start, end) ==
  IF kind = "None" THEN p
  ELSE [p EXCEPT !.recoveries = Append(@, [kind |-> kind, start |-> start, end |-> end])]

Diagnostic(code, recovery, start, end, found) ==
  [code |-> code, recovery |-> recovery, start |-> start, end |-> end, found |-> found]

\* After a partial keyword, insertions at its end belong to it.
Suppressed(p, d) ==
  /\ mode = "Tolerant"
  /\ d.recovery = "Inserted"
  /\ p.suppressAt = d.start

\* The diagnostic says again what the last one said.
Repeats(p, d) ==
  /\ mode = "Tolerant"
  /\ p.diagnostics # <<>>
  /\ LET last == Last(p.diagnostics) IN
       /\ d.recovery = last.recovery
       /\ <<d.start, d.end>> = <<last.start, last.end>>
       /\ \/ d.recovery = "Inserted" /\ d.found = last.found
          \/ d.recovery = "Synchronized"

\* Mutant: a partial keyword does not own what is missing after it.
Report_Unsuppressed(p, d) ==
  IF Len(p.diagnostics) >= MaxDiagnostics \/ Repeats(p, d) THEN p
  ELSE AppendRecovery([p EXCEPT !.diagnostics = Append(@, d)],
                      RecoveryKind(d.recovery), d.start, d.end)

Report(p, d) ==
  IF Len(p.diagnostics) >= MaxDiagnostics \/ Suppressed(p, d) \/ Repeats(p, d) THEN p
  ELSE AppendRecovery([p EXCEPT !.diagnostics = Append(@, d)],
                      RecoveryKind(d.recovery), d.start, d.end)

\* A diagnostic about the current token, and one about the place before it.
ReportHere(p, code, recovery) ==
  Report(p, Diagnostic(code, recovery, Peek(p).start, Peek(p).end, Peek(p).kind))
ReportBefore(p, code, recovery) ==
  Report(p, Diagnostic(code, recovery, Peek(p).start, Peek(p).start, Peek(p).kind))

\* Something is missing at the end of the last token.
ReportAtLastEnd(p, code) ==
  LET place == tokens[p.pos - 1].end
  IN  Report(p, Diagnostic(code, "Inserted", place, place, Peek(p).kind))

\* Mutant: the depth is kept when the guard refuses to go deeper.
Enter_Leaking(p) ==
  IF p.depth < MaxDepth THEN [p EXCEPT !.depth = @ + 1]
  ELSE ReportBefore([p EXCEPT !.depth = @ + 1], "GUARD_NESTING_DEPTH_EXCEEDED", "Synchronized")

Enter(p) ==
  IF p.depth < MaxDepth THEN [p EXCEPT !.depth = @ + 1]
  ELSE ReportBefore(p, "GUARD_NESTING_DEPTH_EXCEEDED", "Synchronized")

Leave(p) == IF p.depth > 0 THEN [p EXCEPT !.depth = @ - 1] ELSE p

\* The count stops at the first value past the one that is reported.
RecordNode(p) ==
  LET counted == [p EXCEPT !.nodeCount = Min({@ + 1, MaxASTNodes + 2})]
  IN  IF counted.nodeCount = MaxASTNodes + 1
      THEN ReportBefore(counted, "GUARD_AST_BUDGET_EXCEEDED", "Synchronized")
      ELSE counted

MissingExpr(p) == RecordNode(ReportBefore(p, "PARSE_EXPECTED_EXPRESSION", "Inserted"))

\* The token before which a raw statement, a command or an unknown one stops.
StatementEnd(from) == Min({ i \in from..Len(tokens) : tokens[i].kind \in Separators })

\* Parentheses open before token i, counted from a first token; a closing one
\* too many counts for nothing.
Nesting(first) ==
  LET open[i \in first..Len(tokens)] ==
        IF i = first THEN 0
        ELSE CASE tokens[i - 1].kind = "(" -> open[i - 1] + 1
               [] tokens[i - 1].kind = ")" -> Max({open[i - 1] - 1, 0})
               [] OTHER -> open[i - 1]
  IN  open

SynchronizationPoint(first) ==
  Min({ i \in first..Len(tokens) :
          \/ tokens[i].kind = "EOF"
          \/ Nesting(first)[i] = 0 /\ tokens[i].kind \in {";"} \cup RecoveryStatementStart })

\* Mutant: what is skipped always extends the last recovery element.
SynchronizeStatement_Merging(p) ==
  LET skipped == ConsumeUpTo(p, SynchronizationPoint(p.pos))
  IN  IF skipped.pos = p.pos THEN p
      ELSE IF p.recoveries # <<>> /\ Last(p.recoveries).kind = "Skipped"
      THEN [skipped EXCEPT !.recoveries[Len(p.recoveries)].end = skipped.lastEnd]
      ELSE AppendRecovery(skipped, "Skipped", Peek(p).start, skipped.lastEnd)

\* Mutant: what is skipped is left to the diagnostic's recovery element.
SynchronizeStatement_Forgetting(p) ==
  LET skipped == ConsumeUpTo(p, SynchronizationPoint(p.pos))
  IN  IF skipped.pos = p.pos THEN p
      ELSE IF /\ p.recoveries # <<>>
              /\ Last(p.recoveries).kind = "Skipped"
              /\ Last(p.recoveries).start = Peek(p).start
      THEN [skipped EXCEPT !.recoveries[Len(p.recoveries)].end = skipped.lastEnd]
      ELSE skipped

SynchronizeStatement(p) ==
  LET skipped == ConsumeUpTo(p, SynchronizationPoint(p.pos))
  IN  IF skipped.pos = p.pos THEN p
      ELSE IF /\ p.recoveries # <<>>
              /\ Last(p.recoveries).kind = "Skipped"
              /\ Last(p.recoveries).start = Peek(p).start
      THEN [skipped EXCEPT !.recoveries[Len(p.recoveries)].end = skipped.lastEnd]
      ELSE AppendRecovery(skipped, "Skipped", Peek(p).start, skipped.lastEnd)

UnexpectedTail(p) ==
  SynchronizeStatement(ReportHere(p, "PARSE_UNEXPECTED_TOKEN", "Synchronized"))

-----------------------------------------------------------------------------
Init ==
  /\ mode \in {"Strict", "Tolerant"}
  /\ \E kinds \in Inputs, gap \in {0, 1} : tokens = Layout(kinds, gap)
  /\ parser = [pos |-> 1, lastEnd |-> 0, depth |-> 0, nodeCount |-> 0,
               diagnostics |-> <<>>, recoveries |-> <<>>, suppressAt |-> NoPosition]
  /\ statements = <<>>
  /\ opened = [start |-> 0, end |-> 0, pos |-> 1]
  /\ phase = "statement"
  /\ calls = 0
  /\ marks = <<>>
  /\ idle = 0

\* The loop of parseStatements ends, or skips an empty statement.
EndOfInput ==
  /\ phase = "statement" /\ Peek(parser).kind = "EOF"
  /\ phase' = "done"
  /\ UNCHANGED <<mode, tokens, parser, statements, opened, calls, marks, idle>>

\* Mutant: the loop goes on without the semicolon.
EmptyStatement_Kept ==
  /\ phase = "statement" /\ Peek(parser).kind = ";"
  /\ parser' = parser
  /\ UNCHANGED <<mode, tokens, statements, opened, phase, calls, marks, idle>>

EmptyStatement ==
  /\ phase = "statement" /\ Peek(parser).kind = ";"
  /\ parser' = Advance(parser)
  /\ UNCHANGED <<mode, tokens, statements, opened, phase, calls, marks, idle>>

\* The dispatch: the handler of a first token runs p to its next place.
Open(kinds, p, next) ==
  /\ phase = "statement" /\ Peek(parser).kind \in kinds
  /\ opened' = [start |-> Peek(parser).start, end |-> Peek(parser).end, pos |-> parser.pos]
  /\ parser' = p
  /\ phase' = next
  /\ calls' = IF next = "after" THEN 0 ELSE 1
  /\ idle' = 0
  /\ UNCHANGED <<mode, tokens, statements, marks>>

Body == ConsumeUpTo(parser, StatementEnd(parser.pos))

RawStatement ==
  Open(RawStart,
       IF Body.pos = parser.pos + 1
       THEN ReportBefore(Body, "PARSE_INCOMPLETE_STATEMENT", "Inserted") ELSE Body,
       "after")

Command ==
  Open(CommandStart,
       IF mode = "Tolerant" /\ Body.pos = parser.pos + 1
       THEN ReportBefore(Body, "PARSE_INCOMPLETE_COMMAND", "Inserted") ELSE Body,
       "after")

UnknownStatement ==
  Open({")"},
       Report(Body, Diagnostic("PARSE_UNSUPPORTED_STATEMENT", "Synchronized",
                               Peek(parser).start, Body.lastEnd, "none")),
       "after")

Query      == Open(QueryStart, Advance(RecordNode(Enter(parser))), "query")
Expression == Open(ExpressionStart, Enter(parser), "expression")

-----------------------------------------------------------------------------
(* Calls of the grammar's functions to the primitives.                      *)

Parsing == phase \in {"query", "expression"}

Stepping(p) ==
  /\ parser' = p
  /\ UNCHANGED <<mode, tokens, statements, opened, phase>>

Idling(p) ==
  /\ Parsing /\ idle < Patience
  /\ idle' = idle + 1
  /\ Stepping(p)

\* A keyword or a delimiter matches, a raw capture takes a token, a semicolon
\* too, or a leaf of the tree is built.
TakeToken ==
  /\ Parsing /\ Peek(parser).kind # "EOF"
  /\ \E p \in {Advance(parser), RecordNode(Advance(parser))} : Stepping(p)
  /\ UNCHANGED <<calls, marks, idle>>

\* A nested query or expression begins ...
Nest ==
  /\ parser.depth < MaxDepth
  /\ Idling(Enter(parser))
  /\ calls' = calls + 1
  /\ UNCHANGED marks

\* ... or is too deep: an empty query, or an expression recorded as missing.
NestTooDeep ==
  /\ parser.depth >= MaxDepth
  /\ \E p \in {Enter(parser), MissingExpr(Enter(parser))} : Idling(p)
  /\ UNCHANGED <<calls, marks>>

\* The calls that had not returned when the innermost DATE_PART began.
Caller == IF marks = <<>> THEN 1 ELSE Last(marks).calls

\* ... and returns: every call that entered leaves.
Unnest ==
  /\ Parsing /\ calls > Caller
  /\ Stepping(Leave(parser))
  /\ calls' = calls - 1
  /\ UNCHANGED <<marks, idle>>

\* expectText, reportExpectedWord, reportExpectedIdentifier and the like, and a
\* raw capture that runs into the end of the file.
ExpectMissing ==
  /\ \/ \E p \in {ReportBefore(parser, "PARSE_EXPECTED_KEYWORD", "Inserted"),
                  MissingExpr(parser)} : Idling(p)
     \/ /\ Peek(parser).kind = "EOF" /\ parser.pos > opened.pos
        /\ Idling(ReportAtLastEnd(parser, "PARSE_UNCLOSED_BRACKET"))
  /\ UNCHANGED <<calls, marks>>

\* A clause or a call is refused once it has been read (two row limits, the
\* arguments of IF): nothing is inserted, deleted or skipped.
Refuse ==
  /\ Idling(Report(parser, Diagnostic("PARSE_INVALID_FUNCTION_ARGUMENTS", "None",
                                      opened.start, parser.lastEnd, "none")))
  /\ UNCHANGED <<calls, marks>>

\* A token that begins no expression stands where one is wanted.
RejectToken ==
  /\ Parsing /\ Peek(parser).kind \notin Separators
  /\ LET token == Peek(parser)
     IN  Stepping(Report(Advance(parser),
                         Diagnostic("PARSE_EXPECTED_EXPRESSION", "Deleted",
                                    token.start, token.end, token.kind)))
  /\ UNCHANGED <<calls, marks, idle>>

\* consumePartialExpectedWord and consumePartialExpectedQuery: the last token
\* of the input is the beginning of the expected word.
PartialKeyword ==
  /\ Parsing /\ mode = "Tolerant"
  /\ Peek(parser).kind \in NameKinds
  /\ tokens[parser.pos + 1].kind = "EOF"
  /\ LET token    == Peek(parser)
         reported == Report(Advance(parser),
                            Diagnostic("PARSE_EXPECTED_KEYWORD", "Deleted",
                                       token.start, token.end, token.kind))
     IN  Stepping([reported EXCEPT !.suppressAt = token.end])
  /\ UNCHANGED <<calls, marks, idle>>

\* A name followed by a minus that is not part of it (parseFromNameParts): the
\* minus is given back, the end of the last token is not.
GiveBack ==
  /\ Parsing /\ Peek(parser).kind = "-" /\ parser.pos > opened.pos
  /\ tokens[parser.pos - 1].kind \in NameKinds
  /\ Stepping([parser EXCEPT !.lastEnd = Peek(parser).end])
  /\ UNCHANGED <<calls, marks, idle>>

-----------------------------------------------------------------------------
(* DATE_PART(x FROM y) is read as far as its FROM; without one, its arguments *)
(* are read again from the parenthesis on.  A DATE_PART, and a FROM, is a name. *)

Mark(p) == [pos |-> p.pos, lastEnd |-> p.lastEnd, reported |-> Len(p.diagnostics), calls |-> calls]

Speculate ==
  /\ Parsing /\ Peek(parser).kind = "(" /\ parser.pos > opened.pos
  /\ tokens[parser.pos - 1].kind = "name"
  /\ Stepping(Advance(parser))
  /\ marks' = Append(marks, Mark(Advance(parser)))
  /\ UNCHANGED <<calls, idle>>

Commit ==
  /\ Parsing /\ marks # <<>> /\ calls = Caller
  /\ Peek(parser).kind = "name"
  /\ Stepping(Advance(parser))
  /\ marks' = Front(marks)
  /\ UNCHANGED <<calls, idle>>

\* The place and the diagnostics are what they were; the recovery elements, the
\* count of nodes and the place of suppressed insertions stay.
RewindTo(p, mark) ==
  [p EXCEPT !.pos = mark.pos, !.lastEnd = mark.lastEnd,
            !.diagnostics = SubSeq(@, 1, mark.reported)]

Rewind ==
  /\ Parsing /\ marks # <<>> /\ calls = Caller
  /\ Stepping(RewindTo(parser, Last(marks)))
  /\ marks' = Front(marks)
  /\ UNCHANGED <<calls, idle>>

-----------------------------------------------------------------------------
Return(next, p) ==
  /\ phase = next /\ calls = 1 /\ marks = <<>>
  /\ parser' = p
  /\ phase' = "after"
  /\ calls' = 0
  /\ UNCHANGED <<mode, tokens, statements, opened, marks, idle>>

QueryEnds == Return("query", Leave(parser))

\* parseExpressionStatement skips what follows its expression.
ExpressionEnds ==
  Return("expression",
         IF Peek(parser).kind \in Separators THEN Leave(parser)
         ELSE UnexpectedTail(Leave(parser)))

-----------------------------------------------------------------------------
(* The rest of the loop body, once the statement's handler has returned.    *)

Unstall(p) ==
  IF mode = "Tolerant" /\ p.pos = opened.pos /\ Peek(p).kind # "EOF"
  THEN Advance(ReportHere(p, "PARSE_RECOVERY_STALLED", "Deleted"))
  ELSE p

SpanEnd(p) ==
  CASE Peek(p).kind = ";"       -> Peek(p).end
    [] p.lastEnd < opened.start -> opened.end
    [] OTHER                    -> p.lastEnd

CloseStatement ==
  /\ phase = "after"
  /\ LET p == Unstall(parser) IN
       /\ statements' = Append(statements, [kind |-> tokens[opened.pos].kind,
                                           start |-> opened.start, end |-> SpanEnd(p)])
       /\ parser' = CASE Peek(p).kind = ";"   -> Advance(p)
                      [] Peek(p).kind = "EOF" -> p
                      [] OTHER                -> UnexpectedTail(p)
  /\ phase' = "statement"
  /\ UNCHANGED <<mode, tokens, opened, calls, marks, idle>>

Finished == phase = "done" /\ UNCHANGED vars

Next ==
  \/ EndOfInput \/ EmptyStatement
  \/ RawStatement \/ Command \/ UnknownStatement \/ Query \/ Expression
  \/ TakeToken \/ Nest \/ NestTooDeep \/ Unnest
  \/ ExpectMissing \/ Refuse \/ RejectToken \/ PartialKeyword \/ GiveBack
  \/ Speculate \/ Commit \/ Rewind
  \/ QueryEnds \/ ExpressionEnds
  \/ CloseStatement
  \/ Finished

\* Parse runs in its caller's goroutine until it returns.
Spec == Init /\ [][Next]_vars /\ WF_vars(Next)

-----------------------------------------------------------------------------
(* Properties.                                                              *)

Covers(span, token) == span.start <= token.start /\ token.end <= span.end

\* Every token the statement loop has passed is in the span of a statement or
\* in a recovery element that keeps its bytes, or it is the semicolon of an
\* empty statement: error recovery loses nothing (recovery.go, "Recovery
\* elements retained outside the semantic AST"), even past the last diagnostic.
NothingIsLost ==
  phase \in {"statement", "done"} =>
    \A i \in 1..(parser.pos - 1) :
      \/ tokens[i].kind = ";"
      \/ \E span \in ToSet(statements) : Covers(span, tokens[i])
      \/ \E r \in ToSet(parser.recoveries) : r.kind # "Missing" /\ Covers(r, tokens[i])

\* A partial keyword, the last token of the input, was reported as deleted.
IsPartialKeyword(d) == d.code = "PARSE_EXPECTED_KEYWORD" /\ d.recovery = "Deleted"

\* In tolerant mode one missing word is reported once: two neighbouring
\* diagnostics never ask for an insertion at the same place
\* (TestTolerantRecoveryCollapsesInsertionCascades), and after a partial keyword
\* nothing asks for one where it ends, however often that place is read again
\* (TestPartialExpectedKeywordOwnsFollowingCascade).
NoInsertionCascade ==
  mode = "Tolerant" =>
    \A i, j \in 1..Len(parser.diagnostics) :
      LET earlier == parser.diagnostics[i]
          later   == parser.diagnostics[j]
      IN  i < j /\ later.recovery = "Inserted" =>
            /\ j = i + 1 /\ earlier.recovery = "Inserted" =>
                 <<earlier.start, earlier.end>> # <<later.start, later.end>>
            /\ IsPartialKeyword(earlier) => later.start # earlier.end

\* Bytes are only skipped with a diagnostic at their first one, until there are
\* as many diagnostics as there may be; what is skipped before a statement ends
\* where the statement begins: a skipped region never reaches from before a
\* statement into it.  The elements of the guards, which skip no byte, are left
\* out of the first part: a rewind can take their diagnostics back.
SkippingIsSound ==
  \A r \in ToSet(parser.recoveries) :
    r.kind = "Skipped" =>
      /\ r.start < r.end =>
           \/ Len(parser.diagnostics) = MaxDiagnostics
           \/ \E d \in ToSet(parser.diagnostics) : d.recovery = "Synchronized" /\ d.start = r.start
      /\ \A s \in ToSet(statements) : r.start < s.start => r.end <= s.start

\* The guard's depth is the number of calls that have not returned, so that
\* between statements it is 0: a statement refused for its depth, however it
\* was refused, costs the statements after it nothing.  The budget of syntax
\* nodes is reported at most once per document.
GuardsAreKept ==
  /\ parser.depth = calls
  /\ phase \in {"statement", "after", "done"} => calls = 0
  /\ Cardinality({ i \in 1..Len(parser.diagnostics) :
                    parser.diagnostics[i].code = "GUARD_AST_BUDGET_EXCEEDED" }) <= 1

\* An iteration of the statement loop passes at least one token, in strict mode
\* too, where nothing guards against a handler that consumes none.
EveryStatementConsumes ==
  [][phase = "after" /\ phase' = "statement" => parser'.pos > opened.pos]_vars

\* In both modes every document is parsed to its end.
Terminates == <>(phase = "done")
=============================================================================
