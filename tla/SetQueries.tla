------------------------------ MODULE SetQueries ------------------------------
(***************************************************************************)
(* Set operations and row limits, from text to tree to text: parseSelect    *)
(* and parseParenthesizedSetQuery of pkg/golyglot/parser.go, the rewriting  *)
(* of TOP, LIMIT and FETCH of row_limits.go, and selectStmt of generator.go.*)
(*                                                                          *)
(* A text is a sequence of tokens: a SELECT with its own TOP, a parenthesis,*)
(* a set operator, WITH, or a TAIL (ORDER BY, LIMIT, OFFSET and FETCH, in   *)
(* that order).  The tree is the legacy one: the first arm of a compound is *)
(* the compound's own node, and the ORDER BY and LIMIT of the whole sit on  *)
(* its last arm.  VALUES, raw queries, the free tail of a statement and the *)
(* layout of the pretty printer are left out.                               *)
(***************************************************************************)
EXTENDS Sequences, FiniteSets, Naturals

CONSTANTS
  Texts,         \* the queries a caller may have parsed
  TargetsOf(_)   \* the dialects each is generated for

VARIABLES
  text,     \* the source, until it is parsed and after
  tree,     \* <<query>> once parsed
  target,   \* the dialect last generated for
  output,   \* the text generated for it
  stage     \* "source", "parsed", "generated" or "refused"

vars == <<text, tree, target, output, stage>>

-------------------------------------------------------------------------------
(***************************************************************************)
(* Tokens and trees                                                         *)
(***************************************************************************)
\* A row count: LIMIT, TOP and FETCH take one.  FETCH may omit the number.
Rows(count)  == [count |-> count, percent |-> FALSE, ties |-> FALSE]
Omitted      == ""
NoTail       == [order |-> "", limit |-> <<>>, offset |-> FALSE, fetch |-> <<>>]
HasTail(q)   == q.tail # NoTail

Mark(is)         == [is |-> is]
Open             == Mark("(")
Close            == Mark(")")
SelectOf(arm, top) == [is |-> "SELECT", arm |-> arm, top |-> top]
TailOf(tail)     == [is |-> "TAIL", tail |-> tail]
SetOperators     == {"UNION", "EXCEPT", "INTERSECT"}

\* SelectStmt: depth is Parenthesized and ParenthesisDepth, outside is
\* TailOutsideParen, from the derived table of a wrapped compound.
Query == [arm |-> "", top |-> <<>>, tail |-> NoTail, op |-> "", left |-> <<>>, right |-> <<>>,
          lparen |-> FALSE, rparen |-> FALSE, depth |-> 0, outside |-> FALSE, with |-> FALSE, from |-> <<>>]

At(ts, i) == IF i <= Len(ts) THEN ts[i] ELSE Mark("end")

-------------------------------------------------------------------------------
(***************************************************************************)
(* The parser: from position i to a query and the position after it         *)
(***************************************************************************)
Parsed(q, i) == [q |-> q, at |-> i, ok |-> TRUE]
Failed       == [q |-> Query, at |-> 0, ok |-> FALSE]

\* A step of the parser that goes on only where the one before succeeded.
Then(r, Next(_)) == IF r.ok THEN Next(r) ELSE Failed
Expect(ts, r, is) == IF r.ok /\ At(ts, r.at).is = is THEN Parsed(r.q, r.at + 1) ELSE Failed

Opens(ts, i) == {k \in i..Len(ts) : \A j \in i..k : ts[j] = Open}

QueryStartsAfterParen(ts, i) == At(ts, i) = Open /\ At(ts, i + 1).is \in {"SELECT", "WITH"}

StartsNestedQueryFrom(ts, i) ==
  Cardinality(Opens(ts, i)) >= 2 /\ At(ts, i + Cardinality(Opens(ts, i))).is \in {"SELECT", "WITH"}

\* parseTrailingQueryClauses writes the clauses it finds over those the query
\* has, and refuses a query that then has both LIMIT and FETCH.
Over(new, old) ==
  [order  |-> IF new.order # "" THEN new.order ELSE old.order,
   limit  |-> IF new.limit # <<>> THEN new.limit ELSE old.limit,
   offset |-> new.offset \/ old.offset,
   fetch  |-> IF new.fetch # <<>> THEN new.fetch ELSE old.fetch]

Trailing(ts, r, outside) ==
  Then(r, LAMBDA s :
    IF At(ts, s.at).is # "TAIL" THEN s
    ELSE LET tail == Over(ts[s.at].tail, s.q.tail)
         IN  IF tail.limit # <<>> /\ tail.fetch # <<>> THEN Failed
             ELSE Parsed([s.q EXCEPT !.tail = tail, !.outside = @ \/ outside], s.at + 1))

RECURSIVE ParseSelect(_, _), ParseParenthesized(_, _), SetOperations(_, _, _)

\* What follows a set operator: a query, or one in parentheses.
SetOperand(ts, i) ==
  IF At(ts, i) = Open THEN Expect(ts, ParseSelect(ts, i + 1), ")") ELSE ParseSelect(ts, i)

Deeper(q, yes) == [q EXCEPT !.depth = @ + IF yes THEN 1 ELSE 0]

\* A parenthesized query after WITH loses its own parentheses.
ParseSelect(ts, i) ==
  CASE At(ts, i).is = "WITH" /\ (QueryStartsAfterParen(ts, i + 1) \/ StartsNestedQueryFrom(ts, i + 1)) ->
         Then(ParseParenthesized(ts, i + 1), LAMBDA r : Parsed([r.q EXCEPT !.with = TRUE, !.depth = 0], r.at))
    [] At(ts, i).is = "WITH" /\ At(ts, i + 1).is = "SELECT" ->
         Then(ParseSelect(ts, i + 1), LAMBDA r : Parsed([r.q EXCEPT !.with = TRUE], r.at))
    [] At(ts, i).is = "SELECT" ->
         Then(Trailing(ts, Parsed([Query EXCEPT !.arm = ts[i].arm, !.top = ts[i].top], i + 1), FALSE), LAMBDA r :
           IF At(ts, r.at).is \notin SetOperators THEN r
           ELSE Then(SetOperand(ts, r.at + 1), LAMBDA s :
                  Trailing(ts, Parsed([r.q EXCEPT !.op = ts[r.at].is,
                                                  !.right = <<Deeper(s.q, At(ts, r.at + 1) = Open)>>], s.at), FALSE)))
    [] OTHER -> Failed

\* The loop of parseParenthesizedSetQuery: the query read so far becomes the
\* left operand unless it is one SELECT with nothing of its own to keep.
SetOperations(ts, r, first) ==
  IF ~r.ok THEN Failed
  ELSE IF At(ts, r.at).is \notin SetOperators
       THEN Then(Trailing(ts, r, TRUE), LAMBDA s : Parsed(Deeper(s.q, first), s.at))
       ELSE Then(SetOperand(ts, r.at + 1), LAMBDA s :
              LET paren == At(ts, r.at + 1) = Open
                  held  == r.q.op # "" \/ r.q.top # <<>> \/ HasTail(r.q)
                  base  == IF held THEN [Query EXCEPT !.left = <<r.q>>] ELSE r.q
              IN  SetOperations(ts, Parsed([base EXCEPT !.op = ts[r.at].is, !.right = <<Deeper(s.q, paren)>>,
                                                        !.lparen = TRUE, !.rparen = paren], s.at), FALSE))

\* parseParenthesizedQueryStatement
ParseParenthesized(ts, i) ==
  IF StartsNestedQueryFrom(ts, i)
  THEN Then(Expect(ts, ParseParenthesized(ts, i + 1), ")"), LAMBDA r :
         Trailing(ts, Parsed(Deeper(r.q, TRUE), r.at), TRUE))
  ELSE SetOperations(ts, Expect(ts, ParseSelect(ts, i + 1), ")"), TRUE)

\* One statement: what is left after it is an error.
ParseStatement(ts) ==
  LET r == CASE At(ts, 1).is \in {"SELECT", "WITH"} -> ParseSelect(ts, 1)
             [] QueryStartsAfterParen(ts, 1) \/ StartsNestedQueryFrom(ts, 1) -> ParseParenthesized(ts, 1)
             [] OTHER -> Failed
  IN  IF r.ok /\ r.at = Len(ts) + 1 THEN r ELSE Failed

-------------------------------------------------------------------------------
(***************************************************************************)
(* Row limits of a target (row_limits.go)                                   *)
(***************************************************************************)
NativeTop == {"TSQL", "Snowflake"}   \* and Teradata, which is like Snowflake
KeepsFetch == {"Generic", "Oracle", "TSQL", "PostgreSQL"}   \* and Presto, Trino

Clauses(q) == {q.top, q.tail.limit, q.tail.fetch} \ {<<>>}
Percent(q) == \E c \in Clauses(q) : c[1].percent
Ties(q)    == \E c \in Clauses(q) : c[1].ties

\* Mutant: a modifier is TSQL's, whether or not there is an OFFSET.
Supported_AnyOffset(q, t) ==
  /\ Percent(q) => t \in {"Generic", "Oracle", "DuckDB", "TSQL"}
  /\ Ties(q)    => t \in {"Generic", "Oracle", "PostgreSQL", "ClickHouse", "TSQL"}

\* validateRowLimit
Supported(q, t) ==
  LET tsql == IF q.tail.offset THEN {} ELSE {"TSQL"}
  IN  /\ Percent(q) => t \in {"Generic", "Oracle", "DuckDB"} \cup tsql
      /\ Ties(q) => t \in {"Generic", "Oracle", "PostgreSQL", "ClickHouse"} \cup tsql

\* The arm a compound ends with, when no parenthesis closes it.
OpenRight(q) == q.right # <<>> /\ ~q.rparen /\ q.right[1].depth = 0

RECURSIVE CompoundHasTop(_), DetachedTail(_), WithoutTail(_), SplitTopSetArms(_)

CompoundHasTop(q) == q.top # <<>> \/ (OpenRight(q) /\ CompoundHasTop(q.right[1]))

\* detachCompoundTail: the clauses of the whole, and the query without them.
DetachedTail(q) == IF ~HasTail(q) /\ OpenRight(q) THEN DetachedTail(q.right[1]) ELSE q.tail
WithoutTail(q)  == IF ~HasTail(q) /\ OpenRight(q) THEN [q EXCEPT !.right = <<WithoutTail(@[1])>>]
                   ELSE [q EXCEPT !.tail = NoTail]

\* Mutant: the arms are not separated from the compound.
SplitTopSetArms_Not(q) == q

SplitTopSetArms(q) ==
  IF q.op = "" \/ q.left # <<>> THEN q
  ELSE LET arm   == [q EXCEPT !.with = FALSE, !.op = "", !.right = <<>>, !.depth = 0, !.lparen = FALSE,
                              !.rparen = FALSE]
           right == SplitTopSetArms(q.right[1])
           root  == [Query EXCEPT !.with = q.with, !.op = q.op, !.left = <<arm>>, !.right = q.right,
                                  !.lparen = q.lparen \/ q.top # <<>>, !.rparen = q.rparen,
                                  !.depth = q.depth, !.outside = q.outside]
       IN  IF OpenRight(q)
           THEN [root EXCEPT !.right = <<right>>, !.rparen = right.op = "" /\ right.top # <<>>]
           ELSE root

ScopeCompoundTop(q) == [SplitTopSetArms(WithoutTail(q)) EXCEPT !.tail = DetachedTail(q)]

\* TSQL: a trailing LIMIT or FETCH moves to a SELECT around the compound.
Wrapped(q, t) ==
  LET tail == DetachedTail(q)
  IN  IF t = "TSQL" /\ q.op # "" /\ (tail.limit # <<>> \/ tail.fetch # <<>>) /\ ~tail.offset
      THEN [Query EXCEPT !.arm = "*", !.tail = tail, !.with = q.with, !.from = <<[WithoutTail(q) EXCEPT !.with = FALSE]>>]
      ELSE q

Scoped(q, t) == IF q.op # "" /\ t \notin NativeTop /\ CompoundHasTop(q) THEN ScopeCompoundTop(q) ELSE q

TopToTail(q, t) ==
  IF q.top = <<>> \/ t \in NativeTop THEN q
  ELSE LET fetches == q.top[1].ties \/ (q.top[1].percent /\ t # "DuckDB")
       IN  IF fetches THEN [q EXCEPT !.tail.fetch = q.top, !.top = <<>>]
           ELSE [q EXCEPT !.tail.limit = q.top, !.top = <<>>]

Unbounded(rows) == rows.count = "ALL" /\ ~rows.percent

LimitToFetch(q, t) ==
  IF t # "Oracle" \/ q.tail.limit = <<>> THEN q
  ELSE [q EXCEPT !.tail.limit = <<>>, !.tail.fetch = IF Unbounded(q.tail.limit[1]) THEN @ ELSE q.tail.limit]

Counted(rows) == IF rows.count = Omitted THEN [rows EXCEPT !.count = "1"] ELSE rows

FetchToLimit(q, t) ==
  IF q.tail.fetch = <<>> \/ t \in KeepsFetch \/ (t = "ClickHouse" /\ q.tail.fetch[1].ties) THEN q
  ELSE [q EXCEPT !.tail.limit = <<Counted(q.tail.fetch[1])>>, !.tail.fetch = <<>>]

TailToTop(q, t) ==
  CASE t # "TSQL" \/ q.top # <<>> \/ q.tail.offset -> q
    [] t = "TSQL" /\ q.top = <<>> /\ ~q.tail.offset /\ q.tail.limit # <<>> ->
         [q EXCEPT !.top = q.tail.limit, !.tail.limit = <<>>]
    [] t = "TSQL" /\ q.top = <<>> /\ ~q.tail.offset /\ q.tail.limit = <<>> /\ q.tail.fetch # <<>> ->
         [q EXCEPT !.top = <<Counted(q.tail.fetch[1])>>, !.tail.fetch = <<>>]
    [] OTHER -> q

PrepareRowLimits(q, t) ==
  TailToTop(FetchToLimit(LimitToFetch(TopToTail(Scoped(Wrapped(q, t), t), t), t), t), t)

-------------------------------------------------------------------------------
(***************************************************************************)
(* The generator (selectStmt, setOperand and writeRowLimit)                 *)
(***************************************************************************)
NoText == [ts |-> <<>>, ok |-> FALSE]
Said(ts) == [ts |-> ts, ok |-> TRUE]
Both(l, r, Say(_, _)) == IF l.ok /\ r.ok THEN Said(Say(l.ts, r.ts)) ELSE NoText

Parens(ts, n) == [i \in 1..n |-> Open] \o ts \o [i \in 1..n |-> Close]
Prefix(q, ts) == IF q.with THEN <<Mark("WITH")>> \o ts ELSE ts
Around(ts, t) == (IF t = "SQLite" THEN <<SelectOf("*", <<>>)>> ELSE <<>>) \o Parens(ts, 1)

TailText(tail, t) ==
  LET spelled == [tail EXCEPT !.limit = IF t = "TSQL" THEN <<>> ELSE @,
                              !.fetch = IF t = "TSQL" /\ @ = <<>> THEN tail.limit ELSE @]
  IN  IF spelled = NoTail THEN <<>> ELSE <<TailOf(spelled)>>

RECURSIVE SelectStmt(_, _)

OperandText(q, paren, t) ==
  LET parens == paren \/ q.depth > 0 \/ (t \notin NativeTop /\ q.top # <<>> /\ q.op = "")
      inner  == SelectStmt([q EXCEPT !.depth = IF parens THEN 0 ELSE @], t)
  IN  IF inner.ok /\ parens THEN Said(Around(inner.ts, t)) ELSE inner

\* One SELECT and its own clauses, a derived table in the place of its arm.
SelectText(q, t) ==
  LET head == SelectOf(q.arm, IF t \in NativeTop THEN q.top ELSE <<>>)
      text0(ts) == Prefix(q, <<head>> \o ts \o TailText(q.tail, t))
  IN  IF q.from = <<>> THEN Said(text0(<<>>))
      ELSE LET inner == SelectStmt(q.from[1], t) IN IF inner.ok THEN Said(text0(Parens(inner.ts, 1))) ELSE NoText

SelectStmt(query, t) ==
  LET q    == PrepareRowLimits(query, t)
      bare == [q EXCEPT !.depth = 0, !.tail = NoTail]
      join(l, r) == l \o <<Mark(q.op)>> \o r
  IN  IF ~Supported(query, t) THEN NoText
      ELSE IF q.outside /\ q.depth > 0
      THEN Both(SelectStmt([bare EXCEPT !.outside = FALSE], t), Said(TailText(q.tail, t)), LAMBDA b, e : Parens(b, q.depth) \o e)
      ELSE IF q.op # "" /\ HasTail(q)
      THEN Both(SelectStmt(bare, t), Said(TailText(q.tail, t)), LAMBDA b, e : Parens(b \o e, q.depth))
      ELSE IF q.left # <<>>
      THEN Both(OperandText(q.left[1], q.lparen, t), OperandText(q.right[1], q.rparen, t),
                LAMBDA l, r : Parens(Prefix(q, join(l, r)), q.depth))
      ELSE IF q.op # ""
      THEN Both(SelectText(q, t), OperandText(q.right[1], q.rparen, t),
                LAMBDA l, r : Parens(join(IF q.lparen THEN Around(l, t) ELSE l, r), q.depth))
      ELSE Both(SelectText(q, t), Said(<<>>), LAMBDA l, e : Parens(l, q.depth))

-------------------------------------------------------------------------------
(***************************************************************************)
(* What a text means: the reference                                         *)
(*                                                                          *)
(* INTERSECT binds tighter than UNION and EXCEPT, which are read from the   *)
(* left; TOP is of its own SELECT; the clauses after the last arm are of    *)
(* the whole; a name of WITH is seen in the query it opens and nowhere else.*)
(***************************************************************************)
Meaning == [arm |-> "", cte |-> FALSE, op |-> "", of |-> <<>>, order |-> "", rows |-> <<>>, offset |-> FALSE]
Kept(m) == [order |-> m.order, rows |-> m.rows, offset |-> m.offset]
Whole(m) == Kept(m) = Kept(Meaning)

RowsOf(tail) ==
  CASE tail.limit # <<>> -> IF Unbounded(tail.limit[1]) THEN <<>> ELSE tail.limit
    [] tail.limit = <<>> /\ tail.fetch # <<>> -> <<Counted(tail.fetch[1])>>
    [] OTHER -> <<>>

\* The clauses of a tail apply to the rows that m keeps.
Applied(m, order, rows, offset) ==
  LET base == IF Whole(m) THEN m ELSE [Meaning EXCEPT !.of = <<m>>]
  IN  IF order = "" /\ rows = <<>> /\ ~offset THEN m
      ELSE [base EXCEPT !.order = order, !.rows = rows, !.offset = offset]

Value(m, i) == [m |-> m, at |-> i, ok |-> TRUE, bare |-> FALSE]
NoValue     == [m |-> Meaning, at |-> 0, ok |-> FALSE, bare |-> FALSE]

RECURSIVE Read(_, _, _), ReadOperand(_, _, _), ReadChain(_, _, _, _)

\* A SELECT, with a derived table for its arm, or a query in parentheses.
ReadOperand(ts, i, cte) ==
  CASE At(ts, i) = Open ->
         LET r == Read(ts, i + 1, cte) IN IF r.ok /\ At(ts, r.at) = Close THEN Value(r.m, r.at + 1) ELSE NoValue
    [] At(ts, i).is = "SELECT" /\ ts[i].arm # "*" ->
         [Value([Meaning EXCEPT !.arm = ts[i].arm, !.cte = cte, !.rows = ts[i].top], i + 1) EXCEPT !.bare = TRUE]
    [] At(ts, i).is = "SELECT" /\ ts[i].arm = "*" ->
         LET r == ReadOperand(ts, i + 1, cte)
         IN  IF r.ok THEN [Value(Applied(r.m, "", ts[i].top, FALSE), r.at) EXCEPT !.bare = ts[i].top # <<>>] ELSE NoValue
    [] OTHER -> NoValue

\* Operands joined by the operators of ops, the rest of the levels inside.
ReadChain(ts, l, cte, ops) ==
  IF ~l.ok \/ At(ts, l.at).is \notin ops THEN l
  ELSE LET first == ReadOperand(ts, l.at + 1, cte)
           r == IF ops = {"INTERSECT"} THEN first ELSE ReadChain(ts, first, cte, {"INTERSECT"})
           m == [Meaning EXCEPT !.op = ts[l.at].is, !.of = <<l.m, r.m>>]
       IN  IF r.ok THEN ReadChain(ts, Value(m, r.at), cte, ops) ELSE NoValue

Read(ts, i, outer) ==
  LET with == At(ts, i).is = "WITH"
      cte  == outer \/ with
      e    == ReadChain(ts, ReadChain(ts, ReadOperand(ts, IF with THEN i + 1 ELSE i, cte), cte, {"INTERSECT"}), cte,
                        {"UNION", "EXCEPT"})
      tail == ts[e.at].tail
  IN  IF ~e.ok \/ At(ts, e.at).is # "TAIL" THEN e
      ELSE IF e.bare /\ e.m.rows # <<>>
      THEN Value([e.m EXCEPT !.order = tail.order, !.offset = tail.offset], e.at + 1)
      ELSE Value(Applied(e.m, tail.order, RowsOf(tail), tail.offset), e.at + 1)

ReadAll(ts) == LET r == Read(ts, 1, FALSE) IN IF r.ok /\ r.at = Len(ts) + 1 THEN r ELSE NoValue

-------------------------------------------------------------------------------
(***************************************************************************)
(* Parse once, generate for any target, any number of times                 *)
(***************************************************************************)
Init == text \in Texts /\ tree = <<>> /\ target = "" /\ output = <<>> /\ stage = "source"

Parse ==
  /\ stage = "source"
  /\ LET r == ParseStatement(text)
     IN  /\ tree' = IF r.ok THEN <<r.q>> ELSE <<>>
         /\ stage' = IF r.ok THEN "parsed" ELSE "refused"
  /\ UNCHANGED <<text, target, output>>

Generate(t) ==
  /\ stage \in {"parsed", "generated"}
  /\ LET r == SelectStmt(tree[1], t)
     IN  /\ output' = r.ts
         /\ stage' = IF r.ok THEN "generated" ELSE "parsed"
  /\ target' = t
  /\ UNCHANGED <<text, tree>>

Next == Parse \/ \E t \in TargetsOf(text) : Generate(t)

Spec == Init /\ [][Next]_vars

\* The text generated for a target selects the rows the source selects: every
\* limit stays with the arm or the whole it was written for, whatever clause the
\* target spells it with, every operator keeps its operands and WITH its reach.
MeaningIsKept ==
  stage = "generated" => LET r == ReadAll(output) IN r.ok /\ r.m = ReadAll(text).m

\* What each dialect can say of a limit, from its grammar and not from the code:
\* PERCENT and WITH TIES belong to FETCH, in DuckDB PERCENT to LIMIT, in TSQL both
\* to TOP only; the generic dialect reads whatever one of the others has.
HasTop(t)        == t \in {"TSQL", "Snowflake"}
HasLimit(t)      == t \notin {"TSQL", "Oracle"}
HasFetch(t, tail, rows) ==
  \/ t \in {"Generic", "Oracle", "PostgreSQL"}
  \/ t = "TSQL" /\ tail.offset
  \/ t = "ClickHouse" /\ rows.ties

TopIsOf(t, rows)         == HasTop(t) /\ ((rows.percent \/ rows.ties) => t = "TSQL")
LimitIsOf(t, rows)       == HasLimit(t) /\ (rows.percent => t \in {"Generic", "DuckDB"}) /\ ~rows.ties
FetchIsOf(t, tail, rows) ==
  /\ HasFetch(t, tail, rows)
  /\ rows.percent => t \in {"Generic", "Oracle"}
  /\ rows.ties    => t \in {"Generic", "Oracle", "PostgreSQL", "ClickHouse"}

\* The last token of the block that starts with the SELECT at i: the SELECT or the
\* end of its derived table.
Marks(ts, m, i, k) == Cardinality({j \in i..k : ts[j] = m})
BlockEnd(ts, i) ==
  IF ts[i].arm # "*" THEN i
  ELSE CHOOSE k \in (i + 1)..Len(ts) :
         /\ Marks(ts, Open, i, k) = Marks(ts, Close, i, k)
         /\ \A j \in (i + 1)..(k - 1) : Marks(ts, Open, i, j) # Marks(ts, Close, i, j)

\* The clauses after the SELECT at i are its own when it is not an arm.
OwnTail(ts, i) ==
  IF At(ts, BlockEnd(ts, i) + 1).is = "TAIL" /\ (i = 1 \/ ts[i - 1].is \notin SetOperators)
  THEN ts[BlockEnd(ts, i) + 1].tail ELSE NoTail

\* Each block of a generated text limits its rows once, with one of TOP, LIMIT and
\* FETCH, in a clause and with modifiers that the target has: a limit the target
\* cannot say is refused (validateRowLimit), however the query is nested and
\* wherever TOP, LIMIT and FETCH have been moved before it is printed.
SpelledForTarget ==
  stage = "generated" =>
    \A i \in DOMAIN output :
      /\ output[i].is = "SELECT" /\ output[i].top # <<>> =>
           /\ TopIsOf(target, output[i].top[1])
           /\ OwnTail(output, i).limit = <<>> /\ OwnTail(output, i).fetch = <<>>
           /\ target = "TSQL" => ~OwnTail(output, i).offset
      /\ output[i].is = "TAIL" =>
           LET tail == output[i].tail
           IN  /\ tail.limit # <<>> => LimitIsOf(target, tail.limit[1]) /\ tail.fetch = <<>>
               /\ tail.fetch # <<>> => FetchIsOf(target, tail, tail.fetch[1])
===============================================================================
