---------------------------- MODULE MCExpressions ----------------------------
(***************************************************************************)
(* Texts and builder chains for model checking Expressions.                 *)
(***************************************************************************)
EXTENDS Expressions

MCAtoms == {"a", "b", "c", "d", "NULL"}

\* What may follow an operand.
Tails(x, y) == {<<op, x>> : op \in {"OR", "AND", "=", "LIKE", "||", "+", "-", "*", "MOD", "COLLATE"}}
            \cup {<<"=", "-", x>>, <<"AND", "NOT", x>>, <<"-", "-", x>>, <<"*", "+", x>>, <<"::", "t">>,
                  <<"NOT", "LIKE", x>>, <<"IN", "(", x, ",", y, ")">>, <<"NOT", "IN", "(", x, "=", y, ")">>,
                  <<"BETWEEN", x, "AND", y>>, <<"NOT", "BETWEEN", x, "+", y, "AND", y>>, <<"BETWEEN", x, "=", y, "AND", y>>,
                  <<"IS", "NULL">>, <<"IS", "NOT", "NULL">>, <<"-", "(", x, "-", y, ")">>, <<"AND", "(", x, "OR", y, ")">>}
Short == {t \in Tails("b", "c") : Len(t) = 2} \cup {<<"BETWEEN", "b", "AND", "c">>, <<"NOT", "LIKE", "c">>}
Firsts == {<<"a">>, <<"NOT", "a">>, <<"-", "a">>, <<"NOT", "-", "a">>, <<"(", "a", "OR", "b", ")">>}
MCTexts == {f \o s : f \in Firsts, s \in Tails("b", "c")}
           \cup {f \o s \o u : f \in Firsts, s \in Tails("b", "c"), u \in Tails("c", "d")}
           \cup {<<"a">> \o s \o u \o v : s, u, v \in Short}
           \cup {<<"a", "IN", "b">>, <<"a", "IN", "b", "AND", "c">>, <<"a", "IN", "b", "+", "c">>}
\* An arrow whose body ends the expression.
Arrows == {<<"a", "->", "b">>, <<"a", "->", "b", "::", "t">>, <<"NOT", "a", "->", "b">>, <<"a", "=", "b", "->", "c">>}
\* NOT IN without parentheses.
NotInArray  == {<<"a", "NOT", "IN", "b">>}
SourceTexts == MCTexts \cup Arrows

a == Leaf("a")
b == Leaf("b")
c == Leaf("c")
MCOperands == {a, b, Bin("-", b, c), Bin("OR", b, c), Bin("=", b, c), Bin("*", b, c), Un("-", c)}
Methods    == {"OR", "AND", "=", "LIKE", "+", "-", "*", "/", "%"}

\* Comparisons compare sums and products, NOT is put before what is no operator's
\* result, and the builder has no other operators.
RECURSIVE Leads(_)
Leads(e) == IF e.kind = "binary" THEN {e.op} \cup Leads(e.args[1]) ELSE {}
Loose(e) == ExpressionPrecedence(e) <= Comparison
ByTable(e) ==
  /\ Len(Yield(e)) <= 7 /\ \A i \in DOMAIN Yield(e) : Yield(e)[i] # "->"
  /\ e.op = "*" /\ e.args[2].op = "*" => Leads(e.args[2]) \cap {"/", "%"} = {}
  /\ CASE e.kind = "binary" -> e.op \in Methods /\ (e.op \in {"=", "LIKE"} => ~Loose(e.args[2]) /\ e.args[1].kind # "between")
       [] e.kind = "unary" -> e.op = "NOT" => ~Infix(e.args[1])
       [] e.kind \in {"in", "is", "between"} -> e.args[1].kind # "between"
       [] OTHER -> TRUE
==============================================================================
