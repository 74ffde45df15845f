------------------------------ MODULE Expressions ------------------------------
(***************************************************************************)
(* Expressions, read, built and printed: parseExpression and parsePrefix of *)
(* pkg/golyglot/parser.go, the combining methods of builder.go, and the     *)
(* expr method of generator.go with the precedences it decides parentheses  *)
(* by, which are a table of its own.                                        *)
(*                                                                          *)
(* A text is a sequence of tokens, a tree a record of its kind, operator    *)
(* and operands.  The rules that hold for one dialect only, CASE, calls,    *)
(* lambdas and postfix subscripts are left out: they print as one operand.  *)
(***************************************************************************)
EXTENDS Sequences, Integers, TLC

CONSTANTS
  Atoms,                 \* the tokens that are an operand on their own
  Texts,                 \* the expressions a caller may have parsed
  Operands,              \* the expressions a caller may hand to a builder method
  MayBuild(_),           \* and what expressions with them, by which methods
  Steps                  \* the longest chain of builder methods

VARIABLES
  text,      \* the source, <<>> of a built expression
  tree,      \* the expression
  output,    \* its printed form
  steps,     \* the builder methods called on it
  stage      \* "source", "read", "printed" or "rejected"

vars == <<text, tree, output, steps, stage>>

-------------------------------------------------------------------------------
(***************************************************************************)
(* Trees                                                                    *)
(***************************************************************************)
Node(kind, op, args) == [kind |-> kind, op |-> op, args |-> args]
Leaf(t)         == Node("leaf", t, <<>>)
Grouped(e)      == Node("paren", "", <<e>>)
Un(op, e)       == Node("unary", op, <<e>>)
Bin(op, l, r)   == Node("binary", op, <<l, r>>)
IsOf(op, l, r)  == Node("is", op, <<l, r>>)
InOf(op, items) == Node("in", op, items)
Between(op, v, low, high) == Node("between", op, <<v, low, high>>)
CastOf(e, type) == Node("cast", type, <<e>>)
\* SQLExpr and every string a builder method takes: text that is printed as it is.
Raw(ts)         == Node("raw", ts, <<>>)

\* Operators of two words.
Words(op) == CASE op = "NOT IN"      -> <<"NOT", "IN">>
               [] op = "NOT LIKE"    -> <<"NOT", "LIKE">>
               [] op = "NOT BETWEEN" -> <<"NOT", "BETWEEN">>
               [] op = "IS NOT"      -> <<"IS", "NOT">>
               [] OTHER              -> <<op>>

At(ts, i) == IF i \in DOMAIN ts THEN ts[i] ELSE "end"

-------------------------------------------------------------------------------
(***************************************************************************)
(* The parser: from position i to an expression and the position after it   *)
(***************************************************************************)
InfixOperator ==
  "OR" :> 1 @@ "AND" :> 2 @@ "XOR" :> 3 @@ "=" :> 3 @@ "<" :> 3 @@ "LIKE" :> 3 @@ "RLIKE" :> 3
  @@ "||" :> 4 @@ "->" :> 4 @@ "+" :> 5 @@ "-" :> 5 @@ "#" :> 5 @@ "*" :> 6 @@ "/" :> 6 @@ "%" :> 6
  @@ "MOD" :> 6 @@ "//" :> 6 @@ "COLLATE" :> 7

PrefixOperators == {"NOT", "+", "-", "~"}
Comparison      == 3
UnaryLevel      == 7

Good(e, i) == [e |-> e, at |-> i, ok |-> TRUE]
Bad        == [e |-> Leaf(""), at |-> 0, ok |-> FALSE]
Then(r, Next(_)) == IF r.ok THEN Next(r) ELSE Bad
Expect(ts, r, token) == IF r.ok /\ At(ts, r.at) = token THEN Good(r.e, r.at + 1) ELSE Bad

\* Does an operator follow before the list or the parenthesis the arrow is in ends?
ArrowBodyNeedsLowPrecedence(ts, i) ==
  LET Depth[j \in (i - 1)..Len(ts)] ==
        IF j < i THEN 0 ELSE Depth[j - 1] + (IF ts[j] = "(" THEN 1 ELSE IF ts[j] = ")" THEN -1 ELSE 0)
      ends == {j \in i..Len(ts) : Depth[j] < 0 \/ (ts[j] = "," /\ Depth[j] = 0)}
  IN  \E j \in i..Len(ts) : /\ Depth[j] = 0 /\ \A k \in ends : j < k
                            /\ ts[j] \in (DOMAIN InfixOperator \cup {"IS", "IN", "BETWEEN"}) \ {"->"}

RECURSIVE ParseExpression(_, _, _), Climb(_, _, _), Items(_, _, _)

ParsePrefix(ts, i) ==
  LET t == At(ts, i)
  IN  CASE t \in PrefixOperators ->
             Then(ParseExpression(ts, i + 1, UnaryLevel), LAMBDA r : Good(Un(t, r.e), r.at))
        [] t = "(" -> Then(Expect(ts, ParseExpression(ts, i + 1, 0), ")"), LAMBDA r : Good(Grouped(r.e), r.at))
        [] t = "CAST" -> Then(Expect(ts, ParseExpression(ts, i + 2, 0), "AS"), LAMBDA r :
                           Expect(ts, Good(CastOf(r.e, At(ts, r.at)), r.at + 1), ")"))
        [] t \in Atoms -> Good(Leaf(t), i + 1)
        [] OTHER -> Bad

ParseExpression(ts, i, min) == Then(ParsePrefix(ts, i), LAMBDA r : Climb(ts, r, min))

\* The items of an IN list after those of r.e, an unfinished InExpr.
Items(ts, r, min) ==
  Then(ParseExpression(ts, r.at, 0), LAMBDA s :
    LET more == Good([r.e EXCEPT !.args = Append(@, s.e)], s.at + 1)
    IN  CASE At(ts, s.at) = "," -> Items(ts, more, min)
          [] At(ts, s.at) = ")" -> Climb(ts, more, min)
          [] OTHER -> Bad)

\* Without parentheses the operator is IN, whether NOT was read or not.
ParseIn(ts, r, i, op, min) ==
  IF At(ts, i) = "(" THEN Items(ts, Good(InOf(op, <<r.e>>), i + 1), min)
  ELSE Then(ParseExpression(ts, i, Comparison + 1), LAMBDA s : Climb(ts, Good(Bin("IN", r.e, s.e), s.at), min))

ParseBetween(ts, r, i, op, min) ==
  Then(Expect(ts, ParseExpression(ts, i, Comparison), "AND"), LAMBDA low :
    Then(ParseExpression(ts, low.at, Comparison), LAMBDA high :
      Climb(ts, Good(Between(op, r.e, low.e, high.e), high.at), min)))

ParseIs(ts, r, i, op, min) ==
  Then(ParseExpression(ts, i, Comparison + 1), LAMBDA s : Climb(ts, Good(IsOf(op, r.e, s.e), s.at), min))

\* Mutant: the right operand is read at the operator's own level.
RightPrecedence_Same(ts, i) ==
  IF ts[i] = "->" /\ ArrowBodyNeedsLowPrecedence(ts, i + 1) THEN 0 ELSE InfixOperator[ts[i]]

\* The right operand of a left-associative operator is one level tighter, the
\* body of an arrow may be as loose as can be.
RightPrecedence(ts, i) ==
  IF ts[i] = "->" /\ ArrowBodyNeedsLowPrecedence(ts, i + 1) THEN 0 ELSE InfixOperator[ts[i]] + 1

\* The loop of parseExpression, at what follows the operand r.
Climb(ts, r, min) ==
  LET t == At(ts, r.at)
      u == At(ts, r.at + 1)
      Infix(op, i, level) ==
        Then(ParseExpression(ts, i, level), LAMBDA s : Climb(ts, Good(Bin(op, r.e, s.e), s.at), min))
  IN  CASE t = "::" /\ min <= UnaryLevel -> Climb(ts, Good(CastOf(r.e, u), r.at + 2), min)
        [] t = "NOT" /\ u = "IN" /\ min <= Comparison -> ParseIn(ts, r, r.at + 2, "NOT IN", min)
        [] t = "NOT" /\ u = "BETWEEN" /\ min <= Comparison -> ParseBetween(ts, r, r.at + 2, "NOT BETWEEN", min)
        [] t = "NOT" /\ u = "LIKE" /\ min <= Comparison -> Infix("NOT LIKE", r.at + 2, Comparison + 1)
        [] t = "BETWEEN" /\ min <= Comparison -> ParseBetween(ts, r, r.at + 1, "BETWEEN", min)
        [] t = "IN" /\ min <= Comparison -> ParseIn(ts, r, r.at + 1, "IN", min)
        [] t = "IS" /\ u = "NOT" /\ min <= Comparison -> ParseIs(ts, r, r.at + 2, "IS NOT", min)
        [] t = "IS" /\ u # "NOT" /\ min <= Comparison -> ParseIs(ts, r, r.at + 1, "IS", min)
        [] t \in DOMAIN InfixOperator /\ InfixOperator[t] >= min -> Infix(t, r.at + 1, RightPrecedence(ts, r.at))
        [] OTHER -> r

\* The whole of a text, or Bad.
ReadAll(ts) == Then(ParseExpression(ts, 1, 0), LAMBDA r : IF r.at = Len(ts) + 1 THEN r ELSE Bad)

-------------------------------------------------------------------------------
(***************************************************************************)
(* The generator                                                            *)
(***************************************************************************)
\* Operators it has no entry for are comparisons to it.
InfixPrecedence(op) ==
  IF op \in {"#", "MOD", "//"} \/ op \notin DOMAIN InfixOperator THEN Comparison ELSE InfixOperator[op]

\* Mutant: an expression in parentheses is given parentheses under an operator.
ExpressionPrecedence_Parens(e) ==
  CASE e.kind = "binary" -> InfixPrecedence(e.op)
    [] e.kind \in {"in", "between", "is"} -> Comparison
    [] e.kind = "unary" -> UnaryLevel
    [] e.kind = "paren" -> 0
    [] OTHER -> UnaryLevel + 1

ExpressionPrecedence(e) ==
  CASE e.kind = "binary" -> InfixPrecedence(e.op)
    [] e.kind \in {"in", "between", "is"} -> Comparison
    [] e.kind = "unary" -> UnaryLevel
    [] OTHER -> UnaryLevel + 1

Arithmetic     == {"+", "-", "*", "/", "%", "MOD"}
GroupingAware  == {"OR", "XOR", "AND"} \cup Arithmetic
IsArrow(e)     == e.kind = "binary" /\ e.op = "->"

\* Mutant: an operator's own kind needs no parentheses on its right.
RightNeedsEqualParentheses_Own(op, right) ==
  /\ right.kind = "binary" /\ InfixPrecedence(right.op) = InfixPrecedence(op)
  /\ op \in Arithmetic /\ right.op \in Arithmetic
  /\ op # right.op

RightNeedsEqualParentheses(op, right) ==
  /\ right.kind = "binary" /\ InfixPrecedence(right.op) = InfixPrecedence(op)
  /\ op \in Arithmetic /\ right.op \in Arithmetic
  /\ ~(op = right.op /\ op \in {"+", "*"})

RightOperandPrecedence(op, right) ==
  IF op \notin GroupingAware THEN 0
  ELSE InfixPrecedence(op) + IF RightNeedsEqualParentheses(op, right) THEN 1 ELSE 0

InParens(ts) == <<"(">> \o ts \o <<")">>

RECURSIVE Text(_, _), ListText(_)

ListText(items) ==
  Text(items[1], 0) \o (IF Len(items) = 1 THEN <<>> ELSE <<",">> \o ListText(Tail(items)))

\* NOT prints its operand as it is, and + nothing but its operand.
UnaryText(op, e) ==
  LET operand == Text(e, IF op = "NOT" THEN 0 ELSE UnaryLevel)
  IN  CASE op = "+" -> operand
        [] op = "NOT" /\ IsArrow(e) /\ Head(operand) # "(" -> <<op>> \o InParens(operand)
        [] OTHER -> <<op>> \o operand

BinaryText(op, l, r) ==
  Text(l, InfixPrecedence(op)) \o Words(op) \o Text(r, RightOperandPrecedence(op, r))

BareText(e) ==
  LET a == e.args
  IN  CASE e.kind = "leaf"    -> <<e.op>>
        [] e.kind = "raw"     -> e.op
        [] e.kind = "paren"   -> InParens(Text(a[1], 0))
        [] e.kind = "cast"    -> <<"CAST", "(">> \o Text(a[1], 0) \o <<"AS", e.op, ")">>
        [] e.kind = "unary"   -> UnaryText(e.op, a[1])
        [] e.kind = "binary"  -> BinaryText(e.op, a[1], a[2])
        [] e.kind = "in"      -> Text(a[1], Comparison) \o Words(e.op) \o InParens(ListText(Tail(a)))
        [] e.kind = "is"      -> Text(a[1], Comparison) \o Words(e.op) \o Text(a[2], Comparison + 1)
        [] e.kind = "between" -> Text(a[1], Comparison) \o Words(e.op) \o Text(a[2], Comparison + 1)
                                 \o <<"AND">> \o Text(a[3], Comparison + 1)

\* expr: what its parent's level asks for.
Text(e, parent) ==
  IF (IsArrow(e) /\ parent = Comparison) \/ ExpressionPrecedence(e) < parent
  THEN InParens(BareText(e)) ELSE BareText(e)

-------------------------------------------------------------------------------
(***************************************************************************)
(* Steps                                                                    *)
(***************************************************************************)
Init ==
  /\ output = <<>> /\ steps = 0
  /\ \/ text \in Texts /\ tree = Leaf("") /\ stage = "source"
     \/ text = <<>> /\ tree \in Operands /\ stage = "read"

Parse ==
  /\ stage = "source"
  /\ LET r == ReadAll(text)
     IN  tree' = r.e /\ stage' = IF r.ok THEN "read" ELSE "rejected"
  /\ UNCHANGED <<text, output, steps>>

\* A method of Expression, or the same method of another expression with this
\* one as its argument.  A string argument is a Raw operand.
Derive(e) ==
  /\ stage = "read" /\ steps < Steps /\ MayBuild(e)
  /\ tree' = e /\ steps' = steps + 1
  /\ UNCHANGED <<text, output, stage>>

Binary(op, other)   == Derive(Bin(op, tree, other)) \/ Derive(Bin(op, other, tree))
Unary(op)           == Derive(Un(op, tree))
IsNull(op)          == Derive(IsOf(op, tree, Leaf("NULL")))
BetweenCall(a, b)   == Derive(Between("BETWEEN", tree, a, b)) \/ Derive(Between("BETWEEN", a, tree, b))
                       \/ Derive(Between("BETWEEN", a, b, tree))
In(op, other)       == Derive(InOf(op, <<tree, other>>)) \/ Derive(InOf(op, <<other, tree>>))
Cast                == Derive(CastOf(tree, "t"))

Build ==
  \/ \E op \in DOMAIN InfixOperator, other \in Operands : Binary(op, other)
  \/ \E op \in {"NOT", "-"} : Unary(op)
  \/ \E op \in {"IS", "IS NOT"} : IsNull(op)
  \/ \E a, b \in Operands : BetweenCall(a, b)
  \/ \E op \in {"IN", "NOT IN"}, other \in Operands : In(op, other)
  \/ Cast

Generate ==
  /\ stage = "read"
  /\ output' = Text(tree, 0) /\ stage' = "printed"
  /\ UNCHANGED <<text, tree, steps>>

Next == Parse \/ Build \/ Generate
Spec == Init /\ [][Next]_vars

-------------------------------------------------------------------------------
(***************************************************************************)
(* Properties                                                               *)
(***************************************************************************)
\* The tokens a parsed tree stands for.
RECURSIVE Yield(_), YieldAll(_)
YieldAll(es) == Yield(es[1]) \o (IF Len(es) = 1 THEN <<>> ELSE <<",">> \o YieldAll(Tail(es)))
Yield(e) ==
  LET a == e.args
  IN  CASE e.kind = "leaf" -> <<e.op>>
        [] e.kind = "raw" -> e.op
        [] e.kind = "paren" -> InParens(Yield(a[1]))
        [] e.kind = "cast" -> Yield(a[1]) \o <<"::", e.op>>
        [] e.kind = "unary" -> <<e.op>> \o Yield(a[1])
        [] e.kind \in {"binary", "is"} -> Yield(a[1]) \o Words(e.op) \o Yield(a[2])
        [] e.kind = "in" -> Yield(a[1]) \o Words(e.op) \o InParens(YieldAll(Tail(a)))
        [] e.kind = "between" -> Yield(a[1]) \o Words(e.op) \o Yield(a[2]) \o <<"AND">> \o Yield(a[3])

\* A grammar without an order of reading.  Level(e) is how tightly an operator
\* written after its first operand binds; what ends with an operand of an
\* operator (Ends) would give that operand to a tighter operator on its right.
Infix(e)   == e.kind \in {"binary", "in", "is", "between"}
Level(e)   == IF e.kind = "binary" /\ e.op \in DOMAIN InfixOperator THEN InfixOperator[e.op] ELSE Comparison

RECURSIVE Ends(_), Begins(_), WellNested(_)
Ends(e) == CASE e.kind = "binary" \/ e.kind = "is" -> {Level(e)} \cup Ends(e.args[2])
             [] e.kind = "between" -> {Comparison - 1} \cup Ends(e.args[3])
             [] e.kind = "unary" -> {UnaryLevel - 1} \cup Ends(e.args[1])
             [] OTHER -> {}
Begins(e) == IF Infix(e) THEN {Level(e)} \cup Begins(e.args[1])
             ELSE IF e.kind = "cast" THEN {UnaryLevel} \cup Begins(e.args[1]) ELSE {}

\* An operator's left operand ends with nothing looser, its right operand
\* begins with nothing that is not tighter.
WellNested(e) ==
  LET a == e.args
  IN  /\ \A i \in DOMAIN a : WellNested(a[i])
      /\ Infix(e) => \A m \in Ends(a[1]) : m >= Level(e)
      /\ e.kind = "cast" => \A m \in Ends(a[1]) : m >= UnaryLevel
      /\ e.kind \in {"binary", "is"} => \A m \in Begins(a[2]) : m > Level(e)
      /\ e.kind = "between" => \A m \in Begins(a[2]) \cup Begins(a[3]) : m >= Comparison
      /\ e.kind = "unary" => \A m \in Begins(a[1]) : m >= UnaryLevel

\* What is read is the source, every token of it, with every operand under the
\* operator that binds it: by precedence, and to the left among equals.
ReadsByPrecedence == stage = "read" /\ steps = 0 /\ text # <<>> => Yield(tree) = text /\ WellNested(tree)

\* What an expression means: parentheses and a leading + say nothing, an
\* associative operator may be nested either way, and a difference is a sum.
Associative == {"OR", "AND", "XOR", "+", "*", "||"}
RECURSIVE Meaning(_)
Meaning(e) ==
  LET a == [i \in DOMAIN e.args |-> Meaning(e.args[i])]
      Terms(op, x) == IF x.kind = "binary" /\ x.op = op THEN x.args ELSE <<x>>
  IN  CASE e.kind = "paren" \/ (e.kind = "unary" /\ e.op = "+") -> a[1]
        [] e.kind = "raw" -> IF ReadAll(e.op).ok THEN Meaning(ReadAll(e.op).e) ELSE e
        [] e.kind = "binary" /\ e.op \in Associative -> [e EXCEPT !.args = Terms(e.op, a[1]) \o Terms(e.op, a[2])]
        [] e.kind = "binary" /\ e.op = "-" -> Node("binary", "+", Append(Terms("+", a[1]), Un("-", a[2])))
        [] OTHER -> [e EXCEPT !.args = a]

\* The printed form of an expression, parsed or built, is read as the
\* expression: no operand moves to another operator, no NOT is lost.
MeaningIsKept ==
  stage = "printed" =>
    ReadAll(output).ok /\ Meaning(ReadAll(output).e) = Meaning(tree)

\* Formatting what was formatted changes nothing.
PrintingIsStable == stage = "printed" /\ ReadAll(output).ok => Text(ReadAll(output).e, 0) = output
===============================================================================
